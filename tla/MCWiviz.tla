------------------------------- MODULE MCWiviz -------------------------------
(***************************************************************************)
(* Instances of Wiviz for TLC: three slots, with two addresses that collide *)
(* in the last one.                                                         *)
(***************************************************************************)
EXTENDS Wiviz

CONSTANTS o, a, b

MCHash == [m \in Mac |-> IF m = b THEN 0 ELSE MaxHosts - 1]

\* Hosts that fall silent; more hosts than the probes of gotHost tell apart; handlers that
\* look for hosts and change the configuration.
HostSurroundings ==
  {{"deferred", "forks", "opens", "short"} \cup e :
     e \in {{"few", "kept"}, {"young", "kept"}, {"young", "few"}}}
\* No hosts, and all else that can go wrong; a configuration that is too long alone.
LifeSurroundings ==
  {{"silent", "short"} \cup e : e \in SUBSET {"deferred", "forks", "opens"}}
    \cup {{"silent", "deferred", "forks", "opens"}}
===============================================================================
