----------------------------- MODULE WanHealth ------------------------------
(***************************************************************************)
(* What multiwan promises of the state of a WAN.  It goes offline after a   *)
(* number of failed health checks in a row and back online after a number   *)
(* of passed ones in a row.  When its address changes it is not checked any *)
(* more until it was looked at again; then it is online if it has an        *)
(* address.  A restart judges every WAN anew.                               *)
(***************************************************************************)
EXTENDS Naturals

CONSTANTS Wan,
          MaxMisses,  \* failed checks in a row that take each WAN offline
          MinPasses   \* passed checks in a row that bring it back

VARIABLES running,    \* multiwan runs
          checked,    \* the WANs whose health is checked
          online,     \* the WANs online
          missed,     \* failed checks in a row of each WAN online
          passed      \* passed checks in a row of each WAN offline

vars == <<running, checked, online, missed, passed>>

Set(w, up, m, n) ==
  /\ online' = IF up THEN online \cup {w} ELSE online \ {w}
  /\ missed' = [missed EXCEPT ![w] = m]
  /\ passed' = [passed EXCEPT ![w] = n]
  /\ UNCHANGED running

Fresh == /\ missed = [w \in Wan |-> 0]
         /\ passed = [w \in Wan |-> 0]
Init == ~running /\ checked = {} /\ online \subseteq Wan /\ Fresh

Miss(w) == /\ running
           /\ IF w \in online
                THEN LET m == missed[w] + 1
                     IN IF m < MaxMisses[w] THEN Set(w, TRUE, m, 0)
                                            ELSE Set(w, FALSE, 0, 0)
                ELSE Set(w, FALSE, 0, 0)
           /\ UNCHANGED checked

Pass(w) == /\ running
           /\ IF w \in online
                THEN Set(w, TRUE, 0, 0)
                ELSE LET n == passed[w] + 1
                     IN IF n < MinPasses[w] THEN Set(w, FALSE, 0, n)
                                            ELSE Set(w, TRUE, 0, 0)
           /\ UNCHANGED checked

\* Checks end, of one WAN because its address changed or of all.
Unchecked == /\ checked' \subseteq checked
             /\ UNCHANGED <<running, online, missed, passed>>

\* The new address of a WAN, or its absence, is taken in.
Address(w, up) == /\ running /\ w \notin checked
                  /\ Set(w, up, 0, 0)
                  /\ checked' = checked \cup {w}

Stop == /\ running /\ running' = FALSE
        /\ checked' \subseteq checked /\ UNCHANGED <<online, missed, passed>>

Start == /\ ~running /\ running' = TRUE
         /\ checked' \subseteq Wan /\ online' \subseteq Wan /\ Fresh'

Next == \/ \E w \in Wan : Miss(w) \/ Pass(w) \/ \E up \in BOOLEAN : Address(w, up)
        \/ Unchecked \/ Stop \/ Start

Spec == Init /\ [][Next]_vars
=============================================================================
