----------------------------- MODULE PhoneLine -----------------------------
(***************************************************************************)
(* What an analogue telephone port promises its user and the exchange, with *)
(* no driver in it: a line is idle, ringing for one call, giving dial tone, *)
(* collecting digits, connected to one call, or telling its user that the   *)
(* call is over.  It takes part in one call at a time and goes from one     *)
(* call to another only through idle or ended.                              *)
(*                                                                          *)
(* Lantiq.tla is shown to implement it with line mapped to channel_state    *)
(* and call to the owner of a port that rings or talks.                     *)
(***************************************************************************)
CONSTANTS Port,     \* the telephone ports
          CallId,   \* the identities a call may have
          NULL      \* no call

VARIABLES line,     \* what each port is doing
          call      \* the call each port takes part in, or NULL

vars == <<line, call>>

Stage == {"idle", "ringing", "dialtone", "collecting", "connected", "ended"}

TypeOK == /\ line \in [Port -> Stage]
          /\ call \in [Port -> CallId \cup {NULL}]

\* The handset of a port may be on or off the hook when the exchange starts.
Init == /\ line \in [Port -> {"idle", "dialtone"}]
        /\ call = [p \in Port |-> NULL]

Move(p, from, to) == /\ line[p] \in from
                     /\ line' = [line EXCEPT ![p] = to]

Take(p, c) == /\ \A q \in Port : call[q] # c
              /\ call' = [call EXCEPT ![p] = c]

Leave(p) == call' = [call EXCEPT ![p] = NULL]

-----------------------------------------------------------------------------
\* The exchange rings the port for call c, and gives up before an answer.
Ring(p, c) == Move(p, {"idle"}, "ringing") /\ Take(p, c)
Cancel(p)  == Move(p, {"ringing"}, "idle") /\ Leave(p)

\* The user answers, lifts the handset to dial, presses a key, hangs up.
Answer(p)  == Move(p, {"ringing"}, "connected") /\ UNCHANGED call
Lift(p)    == Move(p, {"idle"}, "dialtone") /\ UNCHANGED call
Collect(p) == Move(p, {"dialtone"}, "collecting") /\ UNCHANGED call
HangUp(p)  == Move(p, {"dialtone", "collecting", "connected", "ended"}, "idle")
              /\ Leave(p)

\* The number is complete: it leads to call c, or nowhere.
Connect(p, c) == Move(p, {"collecting"}, "connected") /\ Take(p, c)
Reject(p)     == Move(p, {"collecting"}, "ended") /\ UNCHANGED call

\* The far end ends the call.
FarEnd(p) == Move(p, {"connected"}, "ended") /\ Leave(p)

Next == \E p \in Port :
          \/ Cancel(p) \/ Answer(p) \/ Lift(p) \/ Collect(p) \/ HangUp(p)
          \/ Reject(p) \/ FarEnd(p)
          \/ \E c \in CallId : Ring(p, c) \/ Connect(p, c)

Spec == Init /\ [][Next]_vars
=============================================================================
