----------------------------- MODULE MCMultiwan -----------------------------
(***************************************************************************)
(* Instances of Multiwan for TLC: the configuration that comes with the     *)
(* package, wan to wan2 and wan2 to the balancer, with smaller counters.    *)
(***************************************************************************)
EXTENDS Multiwan

CONSTANTS Fails, Passes

AllFail == [w \in Wan |-> Fails]
AllPass == [w \in Wan |-> Passes]
\* The WANs after the first one are taken out one failed check sooner, and put back one
\* passed check sooner.
FewerFails == [w \in Wan |-> IF w = 1 THEN Fails ELSE Fails - 1]
FewerPasses == [w \in Wan |-> IF w = 1 THEN Passes ELSE Passes - 1]
Chain == [w \in Wan |-> IF w < WanCount THEN w + 1 ELSE Balancer]
LastDisabled == [w \in Wan |-> IF w < WanCount THEN w + 1 ELSE Disable]
Everyone == Wan
=============================================================================
