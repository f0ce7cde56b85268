---------------------------- MODULE LantiqProofs ----------------------------
(***************************************************************************)
(* Proofs about Lantiq, for any ports, channels, numbers and timers and for *)
(* every set of disciplines.                                                *)
(***************************************************************************)
EXTENDS Lantiq, TLAPS

\* The initial state of load_module is well typed.
LEMMA InitTypeOK == Init => TypeOK
  <1> SUFFICES ASSUME Init PROVE TypeOK
    OBVIOUS
  <1>1. PvtTypeOK
    BY DEF Init, PvtTypeOK, HookStatus, State
  <1>2. LineTypeOK
    BY DEF Init, LineTypeOK, Tone
  <1>3. ChanTypeOK
    BY DEF Init, ChanTypeOK, AstState, Control, LegStep
  <1>4. LockTypeOK
    BY DEF Init, LockTypeOK
  <1>5. RunTypeOK
    BY DEF Init, RunTypeOK, Worker, Step
  <1> QED
    BY <1>1, <1>2, <1>3, <1>4, <1>5 DEF TypeOK

-----------------------------------------------------------------------------
(* What the operations of the device, of the timers and of the workers keep *)
(* of the types.                                                            *)

LEMMA StandbyType ==
  ASSUME LineTypeOK, NEW p \in Port, NEW n, Standby(p, n), UNCHANGED <<hook, bell>>
  PROVE  LineTypeOK'
  BY DEF LineTypeOK, Standby, Tone

LEMMA WakeType ==
  ASSUME LineTypeOK, NEW p \in Port, NEW n, Wake(p, n), UNCHANGED <<hook, bell>>,
         UNCHANGED tone \/ \E s \in Tone : PlayTone(p, s)
  PROVE  LineTypeOK'
  BY DEF LineTypeOK, Wake, Codecs, PlayTone

LEMMA CancelTimerType ==
  ASSUME PvtTypeOK, LockTypeOK, NEW p \in Port, CancelTimer(p)
  PROVE  /\ dial_timer' \in [Port -> Handle \cup {NULL}]
         /\ due' \in [Handle -> Port \cup {NULL}]
  BY DEF PvtTypeOK, LockTypeOK, CancelTimer

LEMMA ReplaceTimerType ==
  ASSUME PvtTypeOK, LockTypeOK, NEW p \in Port, NEW h \in Handle, ReplaceTimer(p, h)
  PROVE  /\ dial_timer' \in [Port -> Handle \cup {NULL}]
         /\ due' \in [Handle -> Port \cup {NULL}]
  BY DEF PvtTypeOK, LockTypeOK, ReplaceTimer

LEMMA StepNames ==
  /\ {"onset", "qhangup", "endhang", "answer", "dtmf", "lookup", "alloc", "connect",
      "undo", "undone", "reset", "fired", "onhook", "offhook"} \subseteq Step \ {"digit"}
  /\ "digit" \in Step /\ "monitor" \in Worker /\ "sched" \in Worker
  BY DEF Step, Fetched, Inside, Dialling, Worker

LEMMA GotoType ==
  ASSUME RunTypeOK, NEW t \in Worker, NEW s \in Step \ {"digit"},
         Goto(t, s) \/ \E c \in Chan \cup {NULL} : GotoWith(t, s, c)
  PROVE  RunTypeOK'
  BY DEF RunTypeOK, Goto, GotoWith, Worker

LEMMA DoneType ==
  ASSUME RunTypeOK, NEW t \in Worker, Done(t)
  PROVE  RunTypeOK'
  BY DEF RunTypeOK, Done, Worker, Step

LEMMA BeginType ==
  ASSUME RunTypeOK, NEW t \in Worker, NEW s \in Step, NEW p \in Port,
         NEW k \in Digit \cup {"#", NULL} \cup Handle, Begin(t, s, p, k),
         s = "digit" => k \in Digit \cup {"#"}
  PROVE  RunTypeOK'
  BY DEF RunTypeOK, Begin, Worker

\* Variables that do not change keep their types.
LEMMA SameType ==
  /\ PvtTypeOK /\ UNCHANGED pvtVars => PvtTypeOK'
  /\ LineTypeOK /\ UNCHANGED lineVars => LineTypeOK'
  /\ ChanTypeOK /\ UNCHANGED chanVars => ChanTypeOK'
  /\ LockTypeOK /\ UNCHANGED <<iflock, chanlock, due, fault>> => LockTypeOK'
  /\ RunTypeOK /\ UNCHANGED runVars => RunTypeOK'
  BY DEF PvtTypeOK, pvtVars, LineTypeOK, lineVars, ChanTypeOK, chanVars, LockTypeOK,
         RunTypeOK, runVars

\* The release of a channel.
LEMMA HangupType ==
  ASSUME TypeOK, NEW c, HangupBody(c),
         UNCHANGED <<dial_timer, dtmfbuf, hook, feed, codec, iflock, due, fault>>
  PROVE  /\ PvtTypeOK' /\ LineTypeOK' /\ LockTypeOK'
         /\ ast' \in [Chan -> AstState]
         /\ tech' \in [Chan -> Port \cup {NULL}]
         /\ ctl' \in [Chan -> SUBSET Control]
  <1> USE DEF TypeOK, HangupBody
  <1>1. PvtTypeOK'
    BY DEF PvtTypeOK, ClearOwner, AfterHangup, State
  <1>2. LineTypeOK'
    BY DEF LineTypeOK, Tone
  <1>3. LockTypeOK'
    BY DEF LockTypeOK
  <1> QED
    BY <1>1, <1>2, <1>3 DEF ChanTypeOK, AstState

-----------------------------------------------------------------------------
\* Fetching an event keeps the types.
LEMMA FetchTypeOK ==
  ASSUME TypeOK, NEW p \in Port,
         \/ FetchOnhook(p) \/ FetchOffhook(p)
         \/ \E k \in Digit \cup {"#"} : FetchDigit(p, k)
  PROVE  TypeOK'
  <1> USE DEF TypeOK
  <1>1. ASSUME NEW s \in {"onhook", "offhook"}, Fetch(p, s, NULL) PROVE RunTypeOK'
    BY <1>1, BeginType, StepNames DEF Fetch
  <1>2. ASSUME NEW k \in Digit \cup {"#"}, Fetch(p, "digit", k) PROVE RunTypeOK'
    BY <1>2, BeginType, StepNames DEF Fetch
  <1>3. RunTypeOK'
    BY <1>1, <1>2 DEF FetchOnhook, FetchOffhook, FetchDigit
  <1>4. UNCHANGED <<pvtVars, chanVars, iflock, chanlock, due, fault>>
    BY DEF FetchOnhook, FetchOffhook, FetchDigit, Fetch
  <1>5. LineTypeOK'
    BY DEF FetchOnhook, FetchOffhook, FetchDigit, Fetch, LineTypeOK
  <1> QED
    BY <1>3, <1>4, <1>5, SameType

\* Going on hook, in its two steps, keeps the types.
LEMMA OnhookTypeOK ==
  ASSUME TypeOK, NEW p \in Port, (\E n \in Reached : Onhook(p, n)) \/ OnhookSet(p)
  PROVE  TypeOK'
  <1> USE DEF TypeOK
  <1>1. ASSUME NEW n \in Reached, Onhook(p, n) PROVE TypeOK'
    <2>1. LineTypeOK'
      <3>1. Standby(p, n) \/ UNCHANGED <<feed, codec, tone>>
        BY <1>1 DEF Onhook
      <3>2. UNCHANGED <<hook, bell>>
        BY <1>1 DEF Onhook
      <3> QED
        BY <3>1, <3>2, StandbyType, SameType DEF lineVars
    <2>2. PvtTypeOK' /\ LockTypeOK'
      <3>1. CancelTimer(p) \/ UNCHANGED <<dial_timer, due>>
        BY <1>1 DEF Onhook
      <3>2. UNCHANGED <<owner, channel_state, dtmfbuf, chanlock, fault>> /\ iflock' = "monitor"
        BY <1>1 DEF Onhook, Locked
      <3>3. /\ dial_timer' \in [Port -> Handle \cup {NULL}]
            /\ due' \in [Handle -> Port \cup {NULL}]
        BY <3>1, CancelTimerType DEF PvtTypeOK, LockTypeOK
      <3> QED
        BY <3>2, <3>3 DEF PvtTypeOK, LockTypeOK
    <2>3. RunTypeOK'
      <3>1. owner[p] \in Chan \cup {NULL}
        BY DEF PvtTypeOK
      <3>2. \/ GotoWith("monitor", "endhang", owner[p])
            \/ GotoWith("monitor", "qhangup", owner[p])
            \/ Goto("monitor", "onset")
        BY <1>1 DEF Onhook
      <3> QED
        BY <3>1, <3>2, GotoType, StepNames
    <2>4. ChanTypeOK'
      BY <1>1, SameType DEF Onhook
    <2> QED
      BY <2>1, <2>2, <2>3, <2>4
  <1>2. CASE OnhookSet(p)
    <2>1. PvtTypeOK'
      BY <1>2 DEF OnhookSet, PvtTypeOK, State
    <2>2. RunTypeOK'
      BY <1>2, DoneType, StepNames DEF OnhookSet
    <2>3. LineTypeOK' /\ ChanTypeOK'
      BY <1>2, SameType DEF OnhookSet
    <2>4. LockTypeOK'
      BY <1>2 DEF OnhookSet, Unlocked, LockTypeOK
    <2> QED
      BY <2>1, <2>2, <2>3, <2>4
  <1> QED
    BY <1>1, <1>2

\* Going off hook keeps the types.
LEMMA OffhookTypeOK ==
  ASSUME TypeOK, NEW p \in Port,
         \/ \E n \in Reached : OffhookFails(p, n)
         \/ OffhookDialTone(p) \/ OffhookAnswer(p)
  PROVE  TypeOK'
  <1> USE DEF TypeOK
  <1>1. ASSUME NEW n \in Reached, OffhookFails(p, n) PROVE TypeOK'
    <2>1. LineTypeOK'
      BY <1>1, WakeType DEF OffhookFails
    <2> QED
      BY <1>1, <2>1, DoneType, StepNames, SameType DEF OffhookFails
  <1>2. CASE OffhookDialTone(p)
    <2>1. LineTypeOK'
      BY <1>2, WakeType DEF OffhookDialTone, Tone
    <2>2. PvtTypeOK'
      BY <1>2 DEF OffhookDialTone, PvtTypeOK, State
    <2> QED
      BY <1>2, <2>1, <2>2, DoneType, StepNames, SameType DEF OffhookDialTone
  <1>3. CASE OffhookAnswer(p)
    <2>1. \/ PlayTone(p, "none") /\ Locked /\ GotoWith("monitor", "answer", owner[p])
          \/ UNCHANGED <<tone, iflock>> /\ Done("monitor")
      BY <1>3 DEF OffhookAnswer
    <2>2. Wake(p, 3) /\ UNCHANGED <<pvtVars, hook, bell, chanVars, chanlock, due, fault>>
      BY <1>3 DEF OffhookAnswer
    <2>3. LineTypeOK'
      BY <2>1, <2>2, WakeType DEF Tone
    <2>4. LockTypeOK'
      BY <2>1, <2>2 DEF LockTypeOK, Locked
    <2>5. RunTypeOK'
      <3>1. owner[p] \in Chan \cup {NULL}
        BY DEF PvtTypeOK
      <3> QED
        BY <2>1, <3>1, GotoType, DoneType, StepNames
    <2> QED
      BY <2>2, <2>3, <2>4, <2>5, SameType
  <1> QED
    BY <1>1, <1>2, <1>3

\* The handling of a digit keeps the types.
LEMMA DigitTypeOK ==
  ASSUME TypeOK, NEW p \in Port,
         DigitInCall(p) \/ DigitOfNumber(p) \/ DigitHash(p) \/ DigitIgnored(p)
  PROVE  TypeOK'
  <1> USE DEF TypeOK
  <1>1. CASE DigitInCall(p)
    <2>1. \/ GotoWith("monitor", "dtmf", owner[p]) /\ Locked
          \/ Done("monitor") /\ UNCHANGED iflock
      BY <1>1 DEF DigitInCall
    <2>2. UNCHANGED <<pvtVars, lineVars, chanVars, chanlock, due, fault>>
      BY <1>1 DEF DigitInCall
    <2>3. LockTypeOK'
      BY <2>1, <2>2 DEF LockTypeOK, Locked
    <2>4. RunTypeOK'
      <3>1. owner[p] \in Chan \cup {NULL}
        BY DEF PvtTypeOK
      <3> QED
        BY <2>1, <3>1, GotoType, DoneType, StepNames
    <2> QED
      BY <2>2, <2>3, <2>4, SameType
  <1>2. CASE DigitOfNumber(p)
    <2>1. key["monitor"] \in Digit
      BY <1>2 DEF DigitOfNumber, Enter, Runs, At, RunTypeOK
    <2>2. dtmfbuf' \in [Port -> Seq(Digit)]
      BY <1>2, <2>1 DEF DigitOfNumber, PvtTypeOK
    <2>3. /\ dial_timer' \in [Port -> Handle \cup {NULL}]
          /\ due' \in [Handle -> Port \cup {NULL}]
      BY <1>2, ReplaceTimerType DEF DigitOfNumber, FreshHandle
    <2>4. PvtTypeOK'
      BY <1>2, <2>2, <2>3 DEF DigitOfNumber, PvtTypeOK, State
    <2>5. LineTypeOK'
      BY <1>2 DEF DigitOfNumber, LineTypeOK, Tone
    <2>6. LockTypeOK'
      BY <1>2, <2>3 DEF DigitOfNumber, LockTypeOK
    <2>7. RunTypeOK'
      BY <1>2, DoneType, StepNames DEF DigitOfNumber
    <2> QED
      BY <1>2, <2>4, <2>5, <2>6, <2>7, SameType DEF DigitOfNumber
  <1>3. CASE DigitHash(p)
    <2>1. /\ dial_timer' \in [Port -> Handle \cup {NULL}]
          /\ due' \in [Handle -> Port \cup {NULL}]
      BY <1>3, CancelTimerType DEF DigitHash
    <2>2. PvtTypeOK'
      BY <1>3, <2>1 DEF DigitHash, PvtTypeOK, State
    <2>3. LineTypeOK'
      BY <1>3 DEF DigitHash, LineTypeOK, Tone
    <2>4. LockTypeOK'
      BY <1>3, <2>1 DEF DigitHash, LockTypeOK, Locked
    <2>5. RunTypeOK'
      BY <1>3, GotoType, StepNames DEF DigitHash
    <2> QED
      BY <1>3, <2>2, <2>3, <2>4, <2>5, SameType DEF DigitHash
  <1>4. CASE DigitIgnored(p)
    BY <1>4, DoneType, StepNames, SameType DEF DigitIgnored
  <1> QED
    BY <1>1, <1>2, <1>3, <1>4

\* The frames a handler queues on a channel, and the hangup of lantiq_end_dialing.
LEMMA QueueTypeOK ==
  ASSUME TypeOK, NEW c \in Chan,
         QueueHangup(c) \/ EndDialingHangup(c) \/ QueueAnswer(c) \/ QueueDigit(c)
  PROVE  TypeOK'
  <1> USE DEF TypeOK
  <1>1. CASE QueueHangup(c)
    <2>1. RunTypeOK'
      BY <1>1, GotoType, StepNames DEF QueueHangup
    <2>2. ChanTypeOK'
      BY <1>1 DEF QueueHangup, ChanTypeOK, Control
    <2> QED
      BY <1>1, <2>1, <2>2, SameType DEF QueueHangup
  <1>2. CASE EndDialingHangup(c)
    <2>1. RunTypeOK'
      BY <1>2, GotoType, StepNames DEF EndDialingHangup
    <2>2. PvtTypeOK' /\ LineTypeOK' /\ LockTypeOK' /\ ChanTypeOK'
      BY <1>2, HangupType DEF EndDialingHangup, ChanTypeOK
    <2> QED
      BY <2>1, <2>2
  <1>3. CASE QueueAnswer(c)
    <2>1. RunTypeOK'
      BY <1>3, DoneType, StepNames DEF QueueAnswer
    <2>2. PvtTypeOK'
      BY <1>3 DEF QueueAnswer, PvtTypeOK, State
    <2>3. ChanTypeOK'
      BY <1>3 DEF QueueAnswer, ChanTypeOK, Control
    <2>4. LockTypeOK'
      BY <1>3 DEF QueueAnswer, LockTypeOK, Unlocked
    <2> QED
      BY <1>3, <2>1, <2>2, <2>3, <2>4, SameType DEF QueueAnswer
  <1>4. CASE QueueDigit(c)
    <2>1. RunTypeOK'
      BY <1>4, DoneType, StepNames DEF QueueDigit
    <2>2. LockTypeOK'
      BY <1>4 DEF QueueDigit, LockTypeOK, Unlocked
    <2> QED
      BY <1>4, <2>1, <2>2, SameType DEF QueueDigit
  <1> QED
    BY <1>1, <1>2, <1>3, <1>4

\* lantiq_dial, and the autodial timer that runs it, keep the types.
LEMMA DialTypeOK == ASSUME TypeOK, NEW t \in Worker, Dial(t) PROVE TypeOK'
  <1> USE DEF TypeOK
  <1>1. CASE Lookup(t)
    <2>1. RunTypeOK'
      BY <1>1, GotoType, StepNames DEF Lookup
    <2>2. PvtTypeOK'
      BY <1>1 DEF Lookup, PvtTypeOK, State
    <2>3. LineTypeOK'
      BY <1>1 DEF Lookup, LineTypeOK, PlayTone, Tone
    <2> QED
      BY <1>1, <2>1, <2>2, <2>3, SameType DEF Lookup
  <1>2. ASSUME NEW c \in Chan, Alloc(t, c) PROVE TypeOK'
    <2>1. RunTypeOK'
      BY <1>2, GotoType, StepNames DEF Alloc
    <2>2. PvtTypeOK'
      BY <1>2 DEF Alloc, PvtTypeOK
    <2>3. ChanTypeOK'
      BY <1>2 DEF Alloc, ChanTypeOK, RunTypeOK, AstState
    <2> QED
      BY <1>2, <2>1, <2>2, <2>3, SameType DEF Alloc
  <1>3. CASE Connect(t)
    <2>1. RunTypeOK'
      BY <1>3, GotoType, StepNames DEF Connect
    <2>2. chan[t] \in Chan \cup {NULL} /\ port[t] \in Port \cup {NULL}
      BY DEF RunTypeOK
    <2>3. PvtTypeOK'
      BY <1>3, <2>2 DEF Connect, PvtTypeOK, State
    <2>4. ChanTypeOK'
      BY <1>3, <2>2 DEF Connect, ChanTypeOK, AstState, LegStep
    <2> QED
      BY <1>3, <2>1, <2>3, <2>4, SameType DEF Connect
  <1>4. CASE UndoLock(t)
    <2>1. RunTypeOK'
      BY <1>4, GotoType, StepNames DEF UndoLock
    <2>2. LockTypeOK'
      BY <1>4 DEF UndoLock, LockTypeOK
    <2> QED
      BY <1>4, <2>1, <2>2, SameType DEF UndoLock
  <1>5. CASE UndoHangup(t)
    <2>1. RunTypeOK'
      BY <1>5, GotoType, StepNames DEF UndoHangup
    <2>2. PvtTypeOK' /\ LineTypeOK' /\ LockTypeOK' /\ ChanTypeOK'
      BY <1>5, HangupType DEF UndoHangup, ChanTypeOK
    <2> QED
      BY <2>1, <2>2
  <1>6. CASE Reset(t)
    <2>1. RunTypeOK'
      BY <1>6, DoneType, StepNames DEF Reset
    <2>2. <<>> \in Seq(Digit)
      OBVIOUS
    <2>3. PvtTypeOK'
      BY <1>6, <2>2 DEF Reset, PvtTypeOK
    <2>4. LockTypeOK'
      BY <1>6 DEF Reset, LockTypeOK
    <2> QED
      BY <1>6, <2>1, <2>3, <2>4, SameType DEF Reset
  <1> QED
    BY <1>1, <1>2, <1>3, <1>4, <1>5, <1>6 DEF Dial

LEMMA TimerTypeOK ==
  ASSUME TypeOK, DialTimeout \/ \E h \in Handle : Fire(h)
  PROVE  TypeOK'
  <1> USE DEF TypeOK
  <1>1. CASE DialTimeout
    <2>1. RunTypeOK'
      BY <1>1, GotoType, DoneType, StepNames DEF DialTimeout
    <2>2. PvtTypeOK'
      BY <1>1 DEF DialTimeout, PvtTypeOK
    <2> QED
      BY <1>1, <2>1, <2>2, SameType DEF DialTimeout
  <1>2. ASSUME NEW h \in Handle, Fire(h) PROVE TypeOK'
    <2>1. due[h] \in Port
      BY <1>2 DEF Fire, LockTypeOK
    <2>2. RunTypeOK'
      BY <1>2, <2>1, BeginType, StepNames DEF Fire
    <2>3. LockTypeOK'
      BY <1>2 DEF Fire, LockTypeOK
    <2> QED
      BY <1>2, <2>2, <2>3, SameType DEF Fire
  <1> QED
    BY <1>1, <1>2

\* What Asterisk's threads do keeps the types.
LEMMA LegTypeOK == ASSUME TypeOK, NEW c \in Chan, Leg(c) PROVE TypeOK'
  <1> USE DEF TypeOK
  <1>1. ASSUME NEW p \in Port, Request(c, p) PROVE TypeOK'
    <2>1. PvtTypeOK'
      BY <1>1 DEF Request, PvtTypeOK
    <2>2. ChanTypeOK'
      BY <1>1 DEF Request, ChanTypeOK, AstState, LegStep
    <2> QED
      BY <1>1, <2>1, <2>2, SameType DEF Request
  <1>2. ASSUME NEW s \in LegStep, NEW r \in LegStep, LockLeg(c, s, r) PROVE TypeOK'
    <2>1. ChanTypeOK'
      BY <1>2 DEF LockLeg, ChanTypeOK
    <2>2. LockTypeOK'
      BY <1>2 DEF LockLeg, LockTypeOK
    <2> QED
      BY <1>2, <2>1, <2>2, SameType DEF LockLeg
  <1>3. CASE CallLock(c) \/ HangLock(c)
    BY <1>2, <1>3 DEF CallLock, HangLock, LegStep
  <1>4. CASE Call(c)
    <2>1. PvtTypeOK'
      BY <1>4 DEF Call, PvtTypeOK, State
    <2>2. LineTypeOK'
      BY <1>4 DEF Call, LineTypeOK
    <2>3. ChanTypeOK'
      BY <1>4 DEF Call, ChanTypeOK, AstState, Control, LegStep
    <2>4. LockTypeOK'
      BY <1>4 DEF Call, LockTypeOK
    <2> QED
      BY <1>4, <2>1, <2>2, <2>3, <2>4, SameType DEF Call
  <1>5. CASE ReadAnswer(c)
    <2>1. ChanTypeOK'
      BY <1>5 DEF ReadAnswer, ChanTypeOK, AstState, LegStep
    <2> QED
      BY <1>5, <2>1, SameType DEF ReadAnswer
  <1>6. CASE PbxAnswer(c)
    <2>1. ChanTypeOK'
      BY <1>6 DEF PbxAnswer, ChanTypeOK, AstState
    <2> QED
      BY <1>6, <2>1, SameType DEF PbxAnswer
  <1>7. ASSUME NEW s \in {"none", "busy", "ringing"}, Indicate(c, s) PROVE TypeOK'
    <2>1. LineTypeOK'
      BY <1>7 DEF Indicate, PlayTone, LineTypeOK, Tone
    <2> QED
      BY <1>7, <2>1, SameType DEF Indicate
  <1>8. CASE GiveUp(c) \/ HeedHangup(c)
    <2>1. ChanTypeOK'
      BY <1>8 DEF GiveUp, HeedHangup, Leave, ChanTypeOK, LegStep
    <2> QED
      BY <1>8, <2>1, SameType DEF GiveUp, HeedHangup, Leave
  <1>9. CASE Hangup(c)
    <2>1. PvtTypeOK' /\ LineTypeOK' /\ LockTypeOK' /\ ChanTypeOK'
      BY <1>9, HangupType DEF Hangup, ChanTypeOK, LegStep
    <2> QED
      BY <1>9, <2>1, SameType DEF Hangup
  <1> QED
    BY <1>1, <1>3, <1>4, <1>5, <1>6, <1>7, <1>8, <1>9 DEF Leg

\* What may follow from the use of memory that is not there, up to the fault.
LEMMA BreakEffect ==
  ASSUME Breaks
  PROVE  /\ fault' = TRUE
         /\ UNCHANGED <<channel_state, dial_timer, dtmfbuf, lineVars, chanVars, iflock,
                        chanlock, due, runVars>>
         /\ UNCHANGED owner \/ \E t \in Worker : ConnectFreed(t)
  BY DEF Breaks, UseFreed, ConnectFreed, AllocFails, RequestFails, DigitOverflow, Undefined

LEMMA BreakTypeOK == ASSUME TypeOK, Breaks PROVE TypeOK'
  <1> USE DEF TypeOK
  <1>1. owner' \in [Port -> Chan \cup {NULL}]
    BY BreakEffect DEF ConnectFreed, PvtTypeOK, RunTypeOK
  <1>2. PvtTypeOK' /\ LockTypeOK'
    BY <1>1, BreakEffect DEF PvtTypeOK, LockTypeOK
  <1> QED BY <1>2, BreakEffect, SameType

\* Every step keeps the types.
LEMMA NextTypeOK == TypeOK /\ [Next]_vars => TypeOK'
  <1> SUFFICES ASSUME TypeOK, [Next]_vars PROVE TypeOK'
    OBVIOUS
  <1>1. ASSUME NEW p \in Port, Monitor(p) PROVE TypeOK'
    BY <1>1, FetchTypeOK, OnhookTypeOK, OffhookTypeOK, DigitTypeOK DEF Monitor
  <1>2. CASE RequestBad
    BY <1>2, SameType DEF RequestBad, TypeOK, LockTypeOK
  <1>3. CASE Breaks
    BY <1>3, BreakTypeOK
  <1>4. CASE UNCHANGED vars
    BY <1>4, SameType DEF vars, TypeOK
  <1> QED
    BY <1>1, <1>2, <1>3, <1>4, QueueTypeOK, DialTypeOK, TimerTypeOK, LegTypeOK DEF Next

\* In every behaviour of the driver, whatever its surroundings, every variable
\* has its type; a digit is in hand whenever the handler of a digit runs.
THEOREM TypeCorrect == Spec => []TypeOK
  BY InitTypeOK, NextTypeOK, PTL DEF Spec

-----------------------------------------------------------------------------
(* What the workers do: a step has a port, the scheduler thread only dials, *)
(* and a channel being dialled has no thread yet and one dialler.           *)

Dials == {"connect", "undo", "undone"}
WorkInv ==
  /\ \A t \in Worker : pc[t] # "idle" => port[t] \in Port
  /\ pc["monitor"] # "fired" /\ pc["sched"] \in {"idle", "fired"} \cup Dialling
  /\ \A t \in Worker : pc[t] \in Dials => chan[t] \in Chan /\ leg[chan[t]] = "none"
  /\ pc["monitor"] \in Dials /\ pc["sched"] \in Dials => chan["monitor"] # chan["sched"]

\* No step breaks it: Connect gives a thread to the channel its own worker dials.
LEMMA WorkStep ==
  ASSUME TypeOK, WorkInv, [Next]_vars
  PROVE  WorkInv'
  <1> USE NullAssumption, NameAssumption DEF TypeOK, RunTypeOK, LockTypeOK,
            ChanTypeOK, PvtTypeOK, Step, Fetched, Inside, Dialling, Worker, LegStep,
            runVars, chanVars, pvtVars, WorkInv, Dials
  <1>1. ASSUME NEW p \in Port,
               FetchOnhook(p) \/ FetchOffhook(p) \/ \E k \in Digit \cup {"#"} : FetchDigit(p, k)
        PROVE  WorkInv'
    BY <1>1 DEF FetchOnhook, FetchOffhook, FetchDigit, Fetch, Begin, Runs, At
  <1>2. ASSUME NEW p \in Port,
               \/ OnhookSet(p) \/ OffhookDialTone(p) \/ OffhookAnswer(p)
               \/ \E n \in Reached : Onhook(p, n) \/ OffhookFails(p, n)
        PROVE  WorkInv'
    BY <1>2 DEF OnhookSet, OffhookDialTone, OffhookAnswer, Onhook, OffhookFails,
             Enter, Locked, Unlocked, Goto, GotoWith, Done, Runs, At
  <1>3. ASSUME NEW p \in Port,
               DigitInCall(p) \/ DigitOfNumber(p) \/ DigitHash(p) \/ DigitIgnored(p)
        PROVE  WorkInv'
    BY <1>3 DEF DigitInCall, DigitOfNumber, DigitHash, DigitIgnored, Enter, Locked,
             Goto, GotoWith, Done, Runs, At
  <1>4. ASSUME NEW c \in Chan, QueueHangup(c) PROVE WorkInv'
    BY <1>4 DEF QueueHangup, GotoWith, Runs, At
  <1>5. ASSUME NEW c \in Chan, EndDialingHangup(c) PROVE WorkInv'
    BY <1>5 DEF EndDialingHangup, HangupBody, Lockable, GotoWith, Runs, At
  <1>6. ASSUME NEW c \in Chan, QueueAnswer(c) PROVE WorkInv'
    BY <1>6 DEF QueueAnswer, Unlocked, Done, Runs, At
  <1>7. ASSUME NEW c \in Chan, QueueDigit(c) PROVE WorkInv'
    BY <1>7 DEF QueueDigit, Unlocked, Done, Runs, At
  <1>8. ASSUME NEW t \in Worker, Lookup(t) PROVE WorkInv'
    BY <1>8 DEF Lookup, Goto, Runs, At
  <1>9. ASSUME NEW t \in Worker, NEW c \in Chan, Alloc(t, c) PROVE WorkInv'
    BY <1>9 DEF Alloc, GotoWith, FreeChan, Runs, At
  <1>10. ASSUME NEW t \in Worker, Connect(t) PROVE WorkInv'
    BY <1>10 DEF Connect, Goto, GotoWith, Runs, At
  <1>11. ASSUME NEW t \in Worker, UndoLock(t) PROVE WorkInv'
    BY <1>11 DEF UndoLock, Lockable, Goto, Runs, At
  <1>12. ASSUME NEW t \in Worker, UndoHangup(t) PROVE WorkInv'
    BY <1>12 DEF UndoHangup, HangupBody, GotoWith, Runs, At
  <1>13. ASSUME NEW t \in Worker, Reset(t) PROVE WorkInv'
    BY <1>13 DEF Reset, Done, Runs, At
  <1>14. CASE DialTimeout \/ \E h \in Handle : Fire(h)
    BY <1>14 DEF DialTimeout, Fire, Begin, Goto, Done, Runs, At
  <1>15. ASSUME NEW c \in Chan, NEW p \in Port, Request(c, p) PROVE WorkInv'
    BY <1>15 DEF Request, FreeChan, LegIs
  <1>16. ASSUME NEW c \in Chan, CallLock(c) PROVE WorkInv'
    BY <1>16 DEF CallLock, LockLeg, Lockable, LegIs
  <1>17. ASSUME NEW c \in Chan, HangLock(c) PROVE WorkInv'
    BY <1>17 DEF HangLock, LockLeg, Lockable, LegIs
  <1>18. ASSUME NEW c \in Chan, Call(c) PROVE WorkInv'
    BY <1>18 DEF Call, LegIs
  <1>19. ASSUME NEW c \in Chan, ReadAnswer(c) PROVE WorkInv'
    BY <1>19 DEF ReadAnswer, Lockable, LegIs
  <1>20. ASSUME NEW c \in Chan, PbxAnswer(c) PROVE WorkInv'
    BY <1>20 DEF PbxAnswer, LegIs
  <1>21. ASSUME NEW c \in Chan, NEW s, Indicate(c, s) PROVE WorkInv'
    BY <1>21 DEF Indicate, LegIs
  <1>22. ASSUME NEW c \in Chan, Leave(c) PROVE WorkInv'
    BY <1>22 DEF Leave, LegIs
  <1>23. ASSUME NEW c \in Chan, Hangup(c) PROVE WorkInv'
    BY <1>23 DEF Hangup, HangupBody, LegIs
  <1>24. CASE RequestBad \/ Breaks \/ UNCHANGED vars
    BY <1>24, BreakEffect DEF RequestBad, vars
  <1> QED BY <1>1, <1>2, <1>3, <1>4, <1>5, <1>6, <1>7, <1>8, <1>9, <1>10, <1>11,
            <1>12, <1>13, <1>14, <1>15, <1>16, <1>17, <1>18, <1>19, <1>20, <1>21,
            <1>22, <1>23, <1>24 DEF Next, Monitor, Dial, Leg, GiveUp, HeedHangup

LEMMA LockSame ==
  ASSUME LockInv, UNCHANGED <<iflock, chanlock, leg, pc, chan>>
  PROVE  LockInv'
  BY DEF LockInv, InDriver, At

\* Locks change hands as LockInv says.
LEMMA LockStep ==
  ASSUME TypeOK, WorkInv, LockInv, [Next]_vars
  PROVE  LockInv'
  <1> USE NullAssumption, NameAssumption DEF TypeOK, RunTypeOK, LockTypeOK,
            ChanTypeOK, PvtTypeOK, Step, Fetched, Inside, Dialling, Worker, LegStep,
            runVars, chanVars, pvtVars, WorkInv, Dials, LockInv, InDriver, At, Live
  <1>1. ASSUME NEW p \in Port,
               FetchOnhook(p) \/ FetchOffhook(p) \/ \E k \in Digit \cup {"#"} : FetchDigit(p, k)
        PROVE  LockInv'
    BY <1>1 DEF FetchOnhook, FetchOffhook, FetchDigit, Fetch, Begin, Runs, At
  <1>2. ASSUME NEW p \in Port,
               \/ OnhookSet(p) \/ OffhookDialTone(p) \/ OffhookAnswer(p)
               \/ \E n \in Reached : Onhook(p, n) \/ OffhookFails(p, n)
        PROVE  LockInv'
    BY <1>2 DEF OnhookSet, OffhookDialTone, OffhookAnswer, Onhook, OffhookFails,
             Enter, Locked, Unlocked, Goto, GotoWith, Done, Runs, At
  <1>3. ASSUME NEW p \in Port,
               DigitInCall(p) \/ DigitOfNumber(p) \/ DigitHash(p) \/ DigitIgnored(p)
        PROVE  LockInv'
    BY <1>3 DEF DigitInCall, DigitOfNumber, DigitHash, DigitIgnored, Enter, Locked,
             Goto, GotoWith, Done, Runs, At
  <1>4. ASSUME NEW c \in Chan, QueueHangup(c) PROVE LockInv'
    BY <1>4 DEF QueueHangup, GotoWith, Runs, At
  <1>5. ASSUME NEW c \in Chan, EndDialingHangup(c) PROVE LockInv'
    BY <1>5 DEF EndDialingHangup, HangupBody, Lockable, GotoWith, Runs, At
  <1>6. ASSUME NEW c \in Chan, QueueAnswer(c) PROVE LockInv'
    BY <1>6 DEF QueueAnswer, Unlocked, Done, Runs, At
  <1>7. ASSUME NEW c \in Chan, QueueDigit(c) PROVE LockInv'
    BY <1>7 DEF QueueDigit, Unlocked, Done, Runs, At
  <1>8. ASSUME NEW t \in Worker, Lookup(t) PROVE LockInv'
    BY <1>8 DEF Lookup, Goto, Runs, At
  <1>9. ASSUME NEW t \in Worker, NEW c \in Chan, Alloc(t, c) PROVE LockInv'
    BY <1>9 DEF Alloc, GotoWith, FreeChan, Runs, At
  <1>10. ASSUME NEW t \in Worker, Connect(t) PROVE LockInv'
    BY <1>10 DEF Connect, Goto, GotoWith, Runs, At
  <1>11. ASSUME NEW t \in Worker, UndoLock(t) PROVE LockInv'
    BY <1>11 DEF UndoLock, Lockable, Goto, Runs, At
  <1>12. ASSUME NEW t \in Worker, UndoHangup(t) PROVE LockInv'
    BY <1>12 DEF UndoHangup, HangupBody, GotoWith, Runs, At
  <1>13. ASSUME NEW t \in Worker, Reset(t) PROVE LockInv'
    BY <1>13 DEF Reset, Done, Runs, At
  <1>14. CASE DialTimeout \/ \E h \in Handle : Fire(h)
    BY <1>14 DEF DialTimeout, Fire, Begin, Goto, Done, Runs, At
  <1>15. ASSUME NEW c \in Chan, NEW p \in Port, Request(c, p) PROVE LockInv'
    BY <1>15 DEF Request, FreeChan, LegIs
  <1>16. ASSUME NEW c \in Chan, CallLock(c) PROVE LockInv'
    BY <1>16 DEF CallLock, LockLeg, Lockable, LegIs
  <1>17. ASSUME NEW c \in Chan, HangLock(c) PROVE LockInv'
    BY <1>17 DEF HangLock, LockLeg, Lockable, LegIs
  <1>18. ASSUME NEW c \in Chan, Call(c) PROVE LockInv'
    BY <1>18 DEF Call, LegIs
  <1>19. ASSUME NEW c \in Chan, ReadAnswer(c) PROVE LockInv'
    BY <1>19 DEF ReadAnswer, Lockable, LegIs
  <1>20. ASSUME NEW c \in Chan, PbxAnswer(c) PROVE LockInv'
    BY <1>20 DEF PbxAnswer, LegIs
  <1>21. ASSUME NEW c \in Chan, NEW s, Indicate(c, s) PROVE LockInv'
    BY <1>21 DEF Indicate, LegIs
  <1>22. ASSUME NEW c \in Chan, Leave(c) PROVE LockInv'
    BY <1>22 DEF Leave, LegIs
  <1>23. ASSUME NEW c \in Chan, Hangup(c) PROVE LockInv'
    BY <1>23 DEF Hangup, HangupBody, LegIs
  <1>24. CASE RequestBad \/ Breaks \/ UNCHANGED vars
    <2>1. CASE RequestBad
      BY <2>1 DEF RequestBad
    <2>2. CASE Breaks \/ UNCHANGED vars
      <3>1. UNCHANGED <<iflock, chanlock, leg, pc, chan>>
        BY <2>2, BreakEffect DEF vars
      <3> QED BY <3>1, LockSame
    <2> QED BY <1>24, <2>1, <2>2
  <1> QED BY <1>1, <1>2, <1>3, <1>4, <1>5, <1>6, <1>7, <1>8, <1>9, <1>10, <1>11,
            <1>12, <1>13, <1>14, <1>15, <1>16, <1>17, <1>18, <1>19, <1>20, <1>21,
            <1>22, <1>23, <1>24 DEF Next, Monitor, Dial, Leg, GiveUp, HeedHangup

\* Channels in use belong to a port, and the one a worker is about to connect to
\* the port of that worker.
ChanInv ==
  /\ \A c \in Chan : Live(c) => tech[c] \in Port
  /\ \A t \in Worker : At(t, "connect") /\ Live(chan[t]) => tech[chan[t]] = port[t]

\* A channel is freed only by the thread that has its lock.
LEMMA ChanStep ==
  ASSUME TypeOK, WorkInv, LockInv, ChanInv, DriverLive, [Next]_vars
  PROVE  ChanInv' /\ DriverLive'
  <1> USE NullAssumption, NameAssumption DEF TypeOK, RunTypeOK, LockTypeOK,
            ChanTypeOK, PvtTypeOK, Step, Fetched, Inside, Dialling, Worker, LegStep,
            runVars, chanVars, pvtVars, AstState, WorkInv, Dials, LockInv, InDriver,
            At, Live, ChanInv, DriverLive
  <1>1. ASSUME NEW p \in Port,
               FetchOnhook(p) \/ FetchOffhook(p) \/ \E k \in Digit \cup {"#"} : FetchDigit(p, k)
        PROVE  ChanInv' /\ DriverLive'
    BY <1>1 DEF FetchOnhook, FetchOffhook, FetchDigit, Fetch, Begin, Runs, At
  <1>2. ASSUME NEW p \in Port,
               \/ OnhookSet(p) \/ OffhookDialTone(p) \/ OffhookAnswer(p)
               \/ \E n \in Reached : Onhook(p, n) \/ OffhookFails(p, n)
        PROVE  ChanInv' /\ DriverLive'
    BY <1>2 DEF OnhookSet, OffhookDialTone, OffhookAnswer, Onhook, OffhookFails,
             Enter, Locked, Unlocked, Goto, GotoWith, Done, Runs, At
  <1>3. ASSUME NEW p \in Port,
               DigitInCall(p) \/ DigitOfNumber(p) \/ DigitHash(p) \/ DigitIgnored(p)
        PROVE  ChanInv' /\ DriverLive'
    BY <1>3 DEF DigitInCall, DigitOfNumber, DigitHash, DigitIgnored, Enter, Locked,
             Goto, GotoWith, Done, Runs, At
  <1>4. ASSUME NEW c \in Chan, QueueHangup(c) PROVE ChanInv' /\ DriverLive'
    BY <1>4 DEF QueueHangup, GotoWith, Runs, At
  <1>5. ASSUME NEW c \in Chan, EndDialingHangup(c) PROVE ChanInv' /\ DriverLive'
    BY <1>5 DEF EndDialingHangup, HangupBody, Lockable, GotoWith, Runs, At
  <1>6. ASSUME NEW c \in Chan, QueueAnswer(c) PROVE ChanInv' /\ DriverLive'
    BY <1>6 DEF QueueAnswer, Unlocked, Done, Runs, At
  <1>7. ASSUME NEW c \in Chan, QueueDigit(c) PROVE ChanInv' /\ DriverLive'
    BY <1>7 DEF QueueDigit, Unlocked, Done, Runs, At
  <1>8. ASSUME NEW t \in Worker, Lookup(t) PROVE ChanInv' /\ DriverLive'
    BY <1>8 DEF Lookup, Goto, Runs, At
  <1>9. ASSUME NEW t \in Worker, NEW c \in Chan, Alloc(t, c) PROVE ChanInv' /\ DriverLive'
    BY <1>9 DEF Alloc, GotoWith, FreeChan, Runs, At
  <1>10. ASSUME NEW t \in Worker, Connect(t) PROVE ChanInv' /\ DriverLive'
    BY <1>10 DEF Connect, Goto, GotoWith, Runs, At
  <1>11. ASSUME NEW t \in Worker, UndoLock(t) PROVE ChanInv' /\ DriverLive'
    BY <1>11 DEF UndoLock, Lockable, Goto, Runs, At
  <1>12. ASSUME NEW t \in Worker, UndoHangup(t) PROVE ChanInv' /\ DriverLive'
    BY <1>12 DEF UndoHangup, HangupBody, GotoWith, Runs, At
  <1>13. ASSUME NEW t \in Worker, Reset(t) PROVE ChanInv' /\ DriverLive'
    BY <1>13 DEF Reset, Done, Runs, At
  <1>14. CASE DialTimeout \/ \E h \in Handle : Fire(h)
    BY <1>14 DEF DialTimeout, Fire, Begin, Goto, Done, Runs, At
  <1>15. ASSUME NEW c \in Chan, NEW p \in Port, Request(c, p) PROVE ChanInv' /\ DriverLive'
    BY <1>15 DEF Request, FreeChan, LegIs
  <1>16. ASSUME NEW c \in Chan, CallLock(c) PROVE ChanInv' /\ DriverLive'
    BY <1>16 DEF CallLock, LockLeg, Lockable, LegIs
  <1>17. ASSUME NEW c \in Chan, HangLock(c) PROVE ChanInv' /\ DriverLive'
    BY <1>17 DEF HangLock, LockLeg, Lockable, LegIs
  <1>18. ASSUME NEW c \in Chan, Call(c) PROVE ChanInv' /\ DriverLive'
    BY <1>18 DEF Call, LegIs
  <1>19. ASSUME NEW c \in Chan, ReadAnswer(c) PROVE ChanInv' /\ DriverLive'
    BY <1>19 DEF ReadAnswer, Lockable, LegIs
  <1>20. ASSUME NEW c \in Chan, PbxAnswer(c) PROVE ChanInv' /\ DriverLive'
    BY <1>20 DEF PbxAnswer, LegIs
  <1>21. ASSUME NEW c \in Chan, NEW s, Indicate(c, s) PROVE ChanInv' /\ DriverLive'
    BY <1>21 DEF Indicate, LegIs
  <1>22. ASSUME NEW c \in Chan, Leave(c) PROVE ChanInv' /\ DriverLive'
    BY <1>22 DEF Leave, LegIs
  <1>23. ASSUME NEW c \in Chan, Hangup(c) PROVE ChanInv' /\ DriverLive'
    BY <1>23 DEF Hangup, HangupBody, LegIs
  <1>24. CASE RequestBad \/ Breaks \/ UNCHANGED vars
    BY <1>24, BreakEffect DEF RequestBad, vars
  <1> QED BY <1>1, <1>2, <1>3, <1>4, <1>5, <1>6, <1>7, <1>8, <1>9, <1>10, <1>11,
            <1>12, <1>13, <1>14, <1>15, <1>16, <1>17, <1>18, <1>19, <1>20, <1>21,
            <1>22, <1>23, <1>24 DEF Next, Monitor, Dial, Leg, GiveUp, HeedHangup

\* ast_lantiq_hangup clears the owner of the port whose channel it frees; only
\* lantiq_dial stores a channel that may have been freed since.
LEMMA OwnerStep ==
  ASSUME TypeOK, WorkInv, ChanInv, OwnerIsLive, [Next]_vars
  PROVE  OwnerIsLive' \/ \E t \in Worker : ConnectFreed(t)
  <1> USE NullAssumption, NameAssumption DEF TypeOK, RunTypeOK, LockTypeOK,
            ChanTypeOK, PvtTypeOK, Step, Fetched, Inside, Dialling, Worker, LegStep,
            runVars, chanVars, pvtVars, AstState, WorkInv, Dials, At, Live, ChanInv,
            OwnerIsLive, ClearOwner
  <1>1. ASSUME NEW p \in Port,
               FetchOnhook(p) \/ FetchOffhook(p) \/ \E k \in Digit \cup {"#"} : FetchDigit(p, k)
        PROVE  OwnerIsLive'
    BY <1>1 DEF FetchOnhook, FetchOffhook, FetchDigit, Fetch, Begin, Runs, At
  <1>2. ASSUME NEW p \in Port,
               \/ OnhookSet(p) \/ OffhookDialTone(p) \/ OffhookAnswer(p)
               \/ \E n \in Reached : Onhook(p, n) \/ OffhookFails(p, n)
        PROVE  OwnerIsLive'
    BY <1>2 DEF OnhookSet, OffhookDialTone, OffhookAnswer, Onhook, OffhookFails,
             Enter, Locked, Unlocked, Goto, GotoWith, Done, Runs, At
  <1>3. ASSUME NEW p \in Port,
               DigitInCall(p) \/ DigitOfNumber(p) \/ DigitHash(p) \/ DigitIgnored(p)
        PROVE  OwnerIsLive'
    BY <1>3 DEF DigitInCall, DigitOfNumber, DigitHash, DigitIgnored, Enter, Locked,
             Goto, GotoWith, Done, Runs, At
  <1>4. ASSUME NEW c \in Chan, QueueHangup(c) PROVE OwnerIsLive'
    BY <1>4 DEF QueueHangup, GotoWith, Runs, At
  <1>5. ASSUME NEW c \in Chan, EndDialingHangup(c) PROVE OwnerIsLive'
    BY <1>5 DEF EndDialingHangup, HangupBody, Lockable, GotoWith, Runs, At
  <1>6. ASSUME NEW c \in Chan, QueueAnswer(c) PROVE OwnerIsLive'
    BY <1>6 DEF QueueAnswer, Unlocked, Done, Runs, At
  <1>7. ASSUME NEW c \in Chan, QueueDigit(c) PROVE OwnerIsLive'
    BY <1>7 DEF QueueDigit, Unlocked, Done, Runs, At
  <1>8. ASSUME NEW t \in Worker, Lookup(t) PROVE OwnerIsLive'
    BY <1>8 DEF Lookup, Goto, Runs, At
  <1>9. ASSUME NEW t \in Worker, NEW c \in Chan, Alloc(t, c) PROVE OwnerIsLive'
    BY <1>9 DEF Alloc, GotoWith, FreeChan, Runs, At
  <1>10. ASSUME NEW t \in Worker, Connect(t) PROVE OwnerIsLive'
    BY <1>10 DEF Connect, Goto, GotoWith, Runs, At
  <1>11. ASSUME NEW t \in Worker, UndoLock(t) PROVE OwnerIsLive'
    BY <1>11 DEF UndoLock, Lockable, Goto, Runs, At
  <1>12. ASSUME NEW t \in Worker, UndoHangup(t) PROVE OwnerIsLive'
    BY <1>12 DEF UndoHangup, HangupBody, GotoWith, Runs, At
  <1>13. ASSUME NEW t \in Worker, Reset(t) PROVE OwnerIsLive'
    BY <1>13 DEF Reset, Done, Runs, At
  <1>14. CASE DialTimeout \/ \E h \in Handle : Fire(h)
    BY <1>14 DEF DialTimeout, Fire, Begin, Goto, Done, Runs, At
  <1>15. ASSUME NEW c \in Chan, NEW p \in Port, Request(c, p) PROVE OwnerIsLive'
    BY <1>15 DEF Request, FreeChan, LegIs
  <1>16. ASSUME NEW c \in Chan, CallLock(c) PROVE OwnerIsLive'
    BY <1>16 DEF CallLock, LockLeg, Lockable, LegIs
  <1>17. ASSUME NEW c \in Chan, HangLock(c) PROVE OwnerIsLive'
    BY <1>17 DEF HangLock, LockLeg, Lockable, LegIs
  <1>18. ASSUME NEW c \in Chan, Call(c) PROVE OwnerIsLive'
    BY <1>18 DEF Call, LegIs
  <1>19. ASSUME NEW c \in Chan, ReadAnswer(c) PROVE OwnerIsLive'
    BY <1>19 DEF ReadAnswer, Lockable, LegIs
  <1>20. ASSUME NEW c \in Chan, PbxAnswer(c) PROVE OwnerIsLive'
    BY <1>20 DEF PbxAnswer, LegIs
  <1>21. ASSUME NEW c \in Chan, NEW s, Indicate(c, s) PROVE OwnerIsLive'
    BY <1>21 DEF Indicate, LegIs
  <1>22. ASSUME NEW c \in Chan, Leave(c) PROVE OwnerIsLive'
    BY <1>22 DEF Leave, LegIs
  <1>23. ASSUME NEW c \in Chan, Hangup(c) PROVE OwnerIsLive'
    BY <1>23 DEF Hangup, HangupBody, LegIs
  <1>24. CASE RequestBad \/ UNCHANGED vars
    BY <1>24 DEF RequestBad, vars
  <1>25. CASE Breaks
    BY <1>25, BreakEffect
  <1> QED BY <1>1, <1>2, <1>3, <1>4, <1>5, <1>6, <1>7, <1>8, <1>9, <1>10, <1>11,
            <1>12, <1>13, <1>14, <1>15, <1>16, <1>17, <1>18, <1>19, <1>20, <1>21,
            <1>22, <1>23, <1>24, <1>25 DEF Next, Monitor, Dial, Leg, GiveUp, HeedHangup

-----------------------------------------------------------------------------
(* The timer handles.  What keeps HandleInv is that a timer that fires is   *)
(* not pending any more, so that a handle names one timer of one port.      *)

TimerInv ==
  At("sched", "fired") => key["sched"] \in Handle /\ due[key["sched"]] = NULL

\* Cancelling the recorded timer of a port, and replacing it by a new one.
LEMMA CancelKeeps ==
  ASSUME TypeOK, TimerInv, HandleInv, NEW p \in Port, CancelTimer(p),
         UNCHANGED <<pc["sched"], port["sched"], key["sched"]>>
  PROVE  TimerInv' /\ HandleInv'
  <1> USE DEF At
  <1>1. TimerInv'
    BY DEF TimerInv, CancelTimer, TypeOK, LockTypeOK
  <1>2. HandleInv'
    <2> SUFFICES ASSUME NEW q \in Port, dial_timer'[q] # NULL
                 PROVE  \/ due'[dial_timer'[q]] = q
                        \/ /\ pc["sched"] = "fired" /\ port["sched"] = q
                           /\ key["sched"] = dial_timer'[q]
      BY DEF HandleInv
    <2>1. q # p /\ dial_timer'[q] = dial_timer[q]
      BY DEF CancelTimer, TypeOK, PvtTypeOK
    <2>2. CASE dial_timer[q] = dial_timer[p]
      BY <2>1, <2>2, NullAssumption DEF HandleInv, TimerInv
    <2>3. CASE dial_timer[q] # dial_timer[p]
      <3>1. dial_timer[q] \in Handle
        BY <2>1 DEF TypeOK, PvtTypeOK
      <3>2. due'[dial_timer[q]] = due[dial_timer[q]]
        BY <2>3, <3>1 DEF CancelTimer
      <3> QED
        BY <2>1, <3>2 DEF HandleInv
    <2> QED
      BY <2>2, <2>3
  <1> QED
    BY <1>1, <1>2

LEMMA ReplaceKeeps ==
  ASSUME TypeOK, TimerInv, HandleInv, NEW p \in Port, NEW h \in FreshHandle,
         ReplaceTimer(p, h), UNCHANGED <<pc["sched"], port["sched"], key["sched"]>>
  PROVE  TimerInv' /\ HandleInv'
  <1> USE DEF At
  <1>1. h \in Handle /\ due[h] = NULL /\ key["sched"] # h
        /\ \A q \in Port : dial_timer[q] # h
    BY DEF FreshHandle
  <1>2. TimerInv'
    BY <1>1 DEF TimerInv, ReplaceTimer, TypeOK, LockTypeOK
  <1>3. HandleInv'
    <2> SUFFICES ASSUME NEW q \in Port, dial_timer'[q] # NULL
                 PROVE  \/ due'[dial_timer'[q]] = q
                        \/ /\ pc["sched"] = "fired" /\ port["sched"] = q
                           /\ key["sched"] = dial_timer'[q]
      BY DEF HandleInv
    <2>1. CASE q = p
      BY <1>1, <2>1 DEF ReplaceTimer, TypeOK, PvtTypeOK
    <2>2. CASE q # p
      <3>1. dial_timer'[q] = dial_timer[q] /\ dial_timer[q] \in Handle \ {h}
        BY <1>1, <2>2 DEF ReplaceTimer, TypeOK, PvtTypeOK
      <3>2. CASE dial_timer[q] = dial_timer[p]
        BY <2>2, <3>1, <3>2, NullAssumption DEF HandleInv, TimerInv
      <3>3. CASE dial_timer[q] # dial_timer[p]
        BY <3>1, <3>3 DEF HandleInv, ReplaceTimer
      <3> QED
        BY <3>2, <3>3
    <2> QED
      BY <2>1, <2>2
  <1> QED
    BY <1>2, <1>3

\* A step that touches neither timers nor what the callback is about to do.
LEMMA TimersSame ==
  ASSUME TimerInv, HandleInv, UNCHANGED <<dial_timer, due>>,
         \/ pc'["sched"] = pc["sched"]
         \/ pc["sched"] # "fired" /\ pc'["sched"] # "fired",
         pc["sched"] = "fired" => UNCHANGED <<port["sched"], key["sched"]>>
  PROVE  TimerInv' /\ HandleInv'
  BY DEF TimerInv, HandleInv, At

\* pvt->dial_timer goes with the timer it names in every step.
LEMMA HandleStep ==
  ASSUME TypeOK, WorkInv, TimerInv, HandleInv, [Next]_vars
  PROVE  TimerInv' /\ HandleInv'
  <1> USE NullAssumption, TimersSame
      DEF TypeOK, RunTypeOK, Worker, runVars, pvtVars, Runs, At
  <1>1. ASSUME NEW p \in Port, NEW n \in Reached, Onhook(p, n)
        PROVE  TimerInv' /\ HandleInv'
    <2>1. CancelTimer(p) \/ UNCHANGED <<dial_timer, due>>
      BY <1>1 DEF Onhook
    <2>2. UNCHANGED <<pc["sched"], port["sched"], key["sched"]>>
      BY <1>1 DEF Onhook, Goto, GotoWith
    <2> QED
      BY <2>1, <2>2, CancelKeeps
  <1>2. ASSUME NEW p \in Port, DigitOfNumber(p)
        PROVE  TimerInv' /\ HandleInv'
    <2>1. UNCHANGED <<pc["sched"], port["sched"], key["sched"]>>
      BY <1>2 DEF DigitOfNumber, Done
    <2> QED
      BY <1>2, <2>1, ReplaceKeeps DEF DigitOfNumber
  <1>3. ASSUME NEW p \in Port, DigitHash(p)
        PROVE  TimerInv' /\ HandleInv'
    <2>1. UNCHANGED <<pc["sched"], port["sched"], key["sched"]>>
      BY <1>3 DEF DigitHash, Goto
    <2> QED
      BY <1>3, <2>1, CancelKeeps DEF DigitHash
  <1>4. CASE DialTimeout
    BY <1>4 DEF DialTimeout, Goto, Done, TimerInv, HandleInv, PvtTypeOK
  <1>5. ASSUME NEW h \in Handle, Fire(h)
        PROVE  TimerInv' /\ HandleInv'
    BY <1>5 DEF Fire, Begin, TimerInv, HandleInv, PvtTypeOK, LockTypeOK
  <1>6. ASSUME NEW p \in Port,
               \/ FetchOnhook(p) \/ FetchOffhook(p)
               \/ \E k \in Digit \cup {"#"} : FetchDigit(p, k)
        PROVE  TimerInv' /\ HandleInv'
    BY <1>6 DEF FetchOnhook, FetchOffhook, FetchDigit, Fetch, Begin
  <1>7. ASSUME NEW p \in Port,
               \/ OnhookSet(p) \/ OffhookDialTone(p) \/ OffhookAnswer(p)
               \/ DigitInCall(p) \/ DigitIgnored(p)
               \/ \E n \in Reached : OffhookFails(p, n)
        PROVE  TimerInv' /\ HandleInv'
    BY <1>7 DEF OnhookSet, OffhookFails, OffhookDialTone, OffhookAnswer, DigitInCall,
                DigitIgnored, GotoWith, Done
  <1>8. ASSUME NEW c \in Chan,
               QueueHangup(c) \/ EndDialingHangup(c) \/ QueueAnswer(c) \/ QueueDigit(c)
        PROVE  TimerInv' /\ HandleInv'
    BY <1>8 DEF QueueHangup, EndDialingHangup, QueueAnswer, QueueDigit, GotoWith, Done
  <1>9. ASSUME NEW t \in Worker, Dial(t) PROVE TimerInv' /\ HandleInv'
    <2>1. UNCHANGED <<dial_timer, due>> /\ pc[t] # "fired" /\ pc'[t] # "fired"
          /\ \A u \in Worker \ {t} : UNCHANGED <<pc[u], port[u], key[u]>>
      BY <1>9 DEF Dial, Lookup, Alloc, Connect, UndoLock, UndoHangup, Reset, Goto,
                  GotoWith, Done
    <2> QED
      BY <2>1
  <1>10. ASSUME NEW c \in Chan, Leg(c) PROVE TimerInv' /\ HandleInv'
    BY <1>10 DEF Leg, Request, CallLock, HangLock, LockLeg, Call, ReadAnswer, PbxAnswer,
                 Indicate, GiveUp, HeedHangup, Leave, Hangup
  <1>11. CASE RequestBad \/ Breaks \/ UNCHANGED vars
    BY <1>11, BreakEffect DEF RequestBad, vars
  <1> QED
    BY <1>1, <1>2, <1>3, <1>4, <1>5, <1>6, <1>7, <1>8, <1>9, <1>10, <1>11
       DEF Next, Monitor

-----------------------------------------------------------------------------
(* The invariants hold initially and together are kept by every step.       *)

IInv == /\ TypeOK /\ WorkInv
        /\ LockInv /\ ChanInv /\ DriverLive
        /\ TimerInv /\ HandleInv

LEMMA InitIInv == Init => IInv
  <1> SUFFICES ASSUME Init PROVE IInv
    OBVIOUS
  <1> USE DEF Init, Worker, At
  <1>1. WorkInv /\ TimerInv
    BY DEF WorkInv, TimerInv, Dials, Dialling
  <1>2. LockInv
    BY NullAssumption, NameAssumption DEF LockInv, InDriver, Inside, Dialling
  <1>3. ChanInv /\ DriverLive
    BY DEF ChanInv, DriverLive, InDriver, Live
  <1>4. HandleInv
    BY DEF HandleInv
  <1> QED
    BY <1>1, <1>2, <1>3, <1>4, InitTypeOK DEF IInv

LEMMA NextIInv == IInv /\ [Next]_vars => IInv'
  BY NextTypeOK, WorkStep, LockStep, ChanStep, HandleStep DEF IInv

LEMMA SpecIInv == Spec => []IInv
  BY InitIInv, NextIInv, PTL DEF Spec

\* iflock is held by the monitor exactly inside its handlers, and the lock of a
\* channel by its own thread inside ast_lantiq_call and ast_lantiq_hangup or by the
\* worker that hangs up the channel it could not connect, whatever else happens.
THEOREM LockCorrect == Spec => []LockInv
  <1>1. IInv => LockInv
    BY DEF IInv
  <1> QED
    BY <1>1, SpecIInv, PTL

\* ast_lantiq_call and ast_lantiq_hangup never work on a channel that was freed,
\* even when the autodial callback runs at any time.
THEOREM DriverCorrect == Spec => []DriverLive
  <1>1. IInv => DriverLive
    BY DEF IInv
  <1> QED
    BY <1>1, SpecIInv, PTL

\* pvt->dial_timer never names a timer that is gone, or one of another port.
THEOREM HandleCorrect == Spec => []HandleInv
  <1>1. IInv => HandleInv
    BY DEF IInv
  <1> QED
    BY <1>1, SpecIInv, PTL

-----------------------------------------------------------------------------
(* The owner, when the callback overlaps no other work on its port.         *)

\* The callback and the monitor never work on one port.
Apart ==
  pc["monitor"] # "idle" /\ pc["sched"] # "idle" => port["monitor"] # port["sched"]

\* The channel lantiq_end_dialing is about to hang up is the one of its port.
EndInv == At("monitor", "endhang") => owner[port["monitor"]] = chan["monitor"]

\* The channel lantiq_dial has allocated still exists when it connects it.
ConnectInv == \A t \in Worker : At(t, "connect") => Live(chan[t])

LEMMA QuietApart ==
  ASSUME "quiettimer" \in Env, TypeOK, WorkInv, Apart, [Next]_vars
  PROVE  Apart'
  <1> USE NullAssumption DEF TypeOK, RunTypeOK, WorkInv, Apart, Worker, At, Runs, runVars
  <1>1. ASSUME NEW p \in Port,
               FetchOnhook(p) \/ FetchOffhook(p) \/ \E k \in Digit \cup {"#"} : FetchDigit(p, k)
        PROVE  Apart'
    BY <1>1 DEF FetchOnhook, FetchOffhook, FetchDigit, Fetch, Begin, QuietTimer, Busy
  <1>2. ASSUME NEW h \in Handle, Fire(h) PROVE Apart'
    BY <1>2 DEF Fire, Begin, Quiet, Busy, LockTypeOK
  <1>3. ASSUME NEW t \in Worker, pc[t] # "idle", UNCHANGED port \/ Done(t),
               \A u \in Worker \ {t} : pc'[u] = pc[u]
        PROVE  Apart'
    BY <1>3 DEF Done
  <1>4. ASSUME NEW p \in Port,
               \/ OnhookSet(p) \/ OffhookDialTone(p) \/ OffhookAnswer(p)
               \/ DigitInCall(p) \/ DigitOfNumber(p) \/ DigitHash(p) \/ DigitIgnored(p)
               \/ \E n \in Reached : Onhook(p, n) \/ OffhookFails(p, n)
        PROVE  Apart'
    <2>1. pc["monitor"] # "idle" /\ (UNCHANGED port \/ Done("monitor"))
          /\ pc'["sched"] = pc["sched"]
      BY <1>4 DEF OnhookSet, OffhookDialTone, OffhookAnswer, Onhook, OffhookFails,
         DigitInCall, DigitOfNumber, DigitHash, DigitIgnored, Enter, Goto, GotoWith, Done
    <2> QED BY <1>3, <2>1
  <1>5. ASSUME NEW c \in Chan,
               QueueHangup(c) \/ EndDialingHangup(c) \/ QueueAnswer(c) \/ QueueDigit(c)
        PROVE  Apart'
    <2>1. pc["monitor"] # "idle" /\ (UNCHANGED port \/ Done("monitor"))
          /\ pc'["sched"] = pc["sched"]
      BY <1>5 DEF QueueHangup, EndDialingHangup, QueueAnswer, QueueDigit, GotoWith, Done
    <2> QED BY <1>3, <2>1
  <1>6. ASSUME NEW t \in Worker, Dial(t) PROVE Apart'
    <2>1. pc[t] # "idle" /\ (UNCHANGED port \/ Done(t))
          /\ \A u \in Worker \ {t} : pc'[u] = pc[u]
      BY <1>6 DEF Dial, Lookup, Alloc, Connect, UndoLock, UndoHangup, Reset, Goto, GotoWith,
         Done
    <2> QED BY <1>3, <2>1
  <1>7. CASE DialTimeout
    <2>1. pc["sched"] # "idle" /\ (UNCHANGED port \/ Done("sched"))
          /\ pc'["monitor"] = pc["monitor"]
      BY <1>7 DEF DialTimeout, Goto, Done
    <2> QED BY <1>3, <2>1
  <1>8. ASSUME NEW c \in Chan, Leg(c) PROVE UNCHANGED <<pc, port>>
    BY <1>8 DEF Leg, Request, CallLock, HangLock, LockLeg, Call, ReadAnswer, PbxAnswer,
       Indicate, GiveUp, HeedHangup, Leave, Hangup
  <1>9. CASE RequestBad \/ Breaks \/ UNCHANGED vars
    BY <1>9, BreakEffect DEF RequestBad, vars
  <1> QED BY <1>1, <1>2, <1>4, <1>5, <1>6, <1>7, <1>8, <1>9 DEF Next, Monitor

\* While the monitor has iflock nobody else gives the port another channel.
LEMMA QuietEnd ==
  ASSUME TypeOK, WorkInv, LockInv, Apart, EndInv, [Next]_vars
  PROVE  EndInv'
  <1> USE NullAssumption, NameAssumption
      DEF TypeOK, RunTypeOK, PvtTypeOK, WorkInv, EndInv, Worker, At, Runs, runVars, pvtVars
  <1>0. ASSUME UNCHANGED owner, UNCHANGED <<pc["monitor"], port["monitor"], chan["monitor"]>>
        PROVE  EndInv'
    BY <1>0
  <1>1. ASSUME NEW p \in Port,
               FetchOnhook(p) \/ FetchOffhook(p) \/ \E k \in Digit \cup {"#"} : FetchDigit(p, k)
        PROVE  EndInv'
    BY <1>1 DEF FetchOnhook, FetchOffhook, FetchDigit, Fetch, Begin
  <1>2. ASSUME NEW p \in Port,
               \/ OnhookSet(p) \/ OffhookDialTone(p) \/ OffhookAnswer(p)
               \/ DigitInCall(p) \/ DigitOfNumber(p) \/ DigitHash(p) \/ DigitIgnored(p)
               \/ \E n \in Reached : OffhookFails(p, n)
        PROVE  EndInv'
    BY <1>2 DEF OnhookSet, OffhookDialTone, OffhookAnswer, OffhookFails,
       DigitInCall, DigitOfNumber, DigitHash, DigitIgnored, Enter, Goto, GotoWith, Done
  <1>3. ASSUME NEW p \in Port, NEW n \in Reached, Onhook(p, n) PROVE EndInv'
    <2>1. port'["monitor"] = p /\ UNCHANGED owner
      BY <1>3 DEF Onhook, Enter, Goto, GotoWith
    <2>2. \/ pc'["monitor"] = "endhang" /\ chan'["monitor"] = owner[p]
          \/ pc'["monitor"] \in {"qhangup", "onset"}
      BY <1>3 DEF Onhook, Goto, GotoWith
    <2> QED BY <2>1, <2>2
  <1>4. ASSUME NEW c \in Chan,
               QueueHangup(c) \/ EndDialingHangup(c) \/ QueueAnswer(c) \/ QueueDigit(c)
        PROVE  EndInv'
    BY <1>4 DEF QueueHangup, EndDialingHangup, QueueAnswer, QueueDigit, GotoWith, Done
  <1>5. ASSUME At("monitor", "endhang")
        PROVE  iflock = "monitor" /\ iflock # NULL
    BY <1>5 DEF LockInv, Inside
  <1>6. ASSUME Dial("monitor") PROVE ~At("monitor", "endhang") /\ ~At("monitor", "endhang")'
    BY <1>6 DEF Dial, Lookup, Alloc, Connect, UndoLock, UndoHangup, Reset, Goto, GotoWith, Done
  <1>7. ASSUME Dial("sched") PROVE EndInv'
    <2>1. UNCHANGED <<pc["monitor"], port["monitor"], chan["monitor"]>> /\ pc["sched"] # "idle"
      BY <1>7 DEF Dial, Lookup, Alloc, Connect, UndoLock, UndoHangup, Reset, Goto, GotoWith, Done
    <2>2. CASE At("monitor", "endhang")
      <3>1. \/ UNCHANGED owner
            \/ UndoHangup("sched")
            \/ \E d : owner' = [owner EXCEPT ![port["sched"]] = d]
        BY <1>7 DEF Dial, Lookup, Alloc, Connect, UndoLock, Reset
      <3>2. ~UndoHangup("sched")
        BY <1>5, <2>2 DEF UndoHangup, MayLock
      <3>3. port["monitor"] # port["sched"]
        BY <2>1, <2>2 DEF Apart
      <3> QED BY <2>1, <3>1, <3>2, <3>3
    <2> QED BY <2>1, <2>2
  <1>8. CASE DialTimeout \/ \E h \in Handle : Fire(h)
    BY <1>8 DEF DialTimeout, Fire, Begin, Goto, Done
  <1>9. ASSUME NEW c \in Chan, Leg(c) PROVE EndInv'
    <2>1. UNCHANGED <<pc, port, chan>>
      BY <1>9 DEF Leg, Request, CallLock, HangLock, LockLeg, Call, ReadAnswer, PbxAnswer,
         Indicate, GiveUp, HeedHangup, Leave, Hangup
    <2>2. iflock = NULL \/ UNCHANGED owner
      BY <1>9 DEF Leg, Request, CallLock, HangLock, LockLeg, Call, ReadAnswer, PbxAnswer,
         Indicate, GiveUp, HeedHangup, Leave, Hangup
    <2> QED BY <1>5, <2>1, <2>2
  <1>10. ASSUME NEW t \in Worker, ConnectFreed(t) PROVE EndInv'
    BY <1>10 DEF ConnectFreed, Undefined, Apart
  <1>11. CASE RequestBad \/ Breaks \/ UNCHANGED vars
    BY <1>10, <1>11, BreakEffect DEF RequestBad, vars
  <1> QED BY <1>1, <1>2, <1>3, <1>4, <1>6, <1>7, <1>8, <1>9, <1>11 DEF Next, Monitor

\* Who frees a channel: the monitor in lantiq_end_dialing, a worker that could not
\* start its PBX, the thread of the channel.
LEMMA FreedBy ==
  ASSUME TypeOK, NEW c \in Chan, Live(c), ~Live(c)', [Next]_vars
  PROVE  \/ EndDialingHangup(c) \/ Hangup(c)
         \/ \E t \in Worker : UndoHangup(t) /\ chan[t] = c
  <1> USE DEF TypeOK, ChanTypeOK, Live, chanVars
  <1>1. ASSUME NEW p \in Port, Monitor(p) PROVE UNCHANGED ast
    BY <1>1 DEF Monitor, FetchOnhook, FetchOffhook, FetchDigit, Fetch, Onhook, OffhookFails,
       OnhookSet, OffhookDialTone, OffhookAnswer, DigitInCall, DigitOfNumber, DigitHash,
       DigitIgnored
  <1>2. ASSUME NEW d \in Chan,
               \/ QueueHangup(d) \/ QueueAnswer(d) \/ QueueDigit(d)
               \/ CallLock(d) \/ HangLock(d) \/ GiveUp(d) \/ HeedHangup(d)
               \/ \E s \in {"none", "busy", "ringing"} : Indicate(d, s)
        PROVE  UNCHANGED ast
    BY <1>2 DEF QueueHangup, QueueAnswer, QueueDigit, CallLock, HangLock, LockLeg, GiveUp,
       HeedHangup, Leave, Indicate
  <1>3. ASSUME NEW d \in Chan,
               Call(d) \/ ReadAnswer(d) \/ PbxAnswer(d) \/ \E p \in Port : Request(d, p)
        PROVE  \E a \in {"RINGING", "BUSY", "UP", "DOWN"} : ast' = [ast EXCEPT ![d] = a]
    BY <1>3 DEF Call, ReadAnswer, PbxAnswer, Request
  <1>4. ASSUME NEW t \in Worker,
               Lookup(t) \/ Connect(t) \/ UndoLock(t) \/ Reset(t) \/ \E d \in Chan : Alloc(t, d)
        PROVE  UNCHANGED ast \/ \E d, a : a # "free" /\ ast' = [ast EXCEPT ![d] = a]
    BY <1>4 DEF Lookup, Connect, UndoLock, Reset, Alloc
  <1>5. ASSUME NEW d \in Chan, EndDialingHangup(d) \/ Hangup(d) PROVE c = d
    BY <1>5 DEF EndDialingHangup, Hangup, HangupBody
  <1>6. ASSUME NEW t \in Worker, UndoHangup(t) PROVE chan[t] = c
    BY <1>6 DEF UndoHangup, HangupBody
  <1>7. DialTimeout \/ (\E h \in Handle : Fire(h)) \/ RequestBad \/ Breaks \/ UNCHANGED vars
          => UNCHANGED ast
    BY BreakEffect DEF DialTimeout, Fire, RequestBad, vars
  <1> QED BY <1>1, <1>2, <1>3, <1>4, <1>5, <1>6, <1>7 DEF Next, Dial, Leg

\* The channel being connected is freed by none of them.
LEMMA QuietConnect ==
  ASSUME TypeOK, WorkInv, ChanInv, OwnerIsLive, Apart, EndInv, ConnectInv, [Next]_vars
  PROVE  ConnectInv'
  <1> SUFFICES ASSUME NEW t \in Worker, At(t, "connect")', ~Live(chan[t])' PROVE FALSE
    BY DEF ConnectInv
  <1> USE DEF TypeOK, RunTypeOK, At, Runs
  <1>1. ASSUME NEW c \in Chan, Alloc(t, c) PROVE FALSE
    BY <1>1 DEF Alloc, GotoWith, ChanTypeOK, Live
  <1>2. CASE pc[t] = "connect" /\ UNCHANGED chan[t]
    <2>0. PICK c \in Chan : c = chan[t] /\ c = chan'[t] /\ leg[c] = "none"
      BY <1>2 DEF WorkInv, Dials
    <2>1. /\ Live(c) /\ tech[c] = port[t] /\ port[t] \in Port /\ ~Live(c)'
      BY <1>2, <2>0 DEF ConnectInv, WorkInv, ChanInv, Live
    <2>2. ~Hangup(c)
      BY <2>0 DEF Hangup, LegIs
    <2>3. ASSUME NEW u \in Worker, UndoHangup(u), chan[u] = c PROVE FALSE
      BY <1>2, <2>0, <2>3 DEF UndoHangup, WorkInv, Dials, Worker
    <2>4. ASSUME EndDialingHangup(c) PROVE FALSE
      <3>1. pc["monitor"] = "endhang" /\ chan["monitor"] = c /\ t = "sched"
        BY <1>2, <2>4 DEF EndDialingHangup, Worker
      <3>2. owner[port["monitor"]] = c /\ port["monitor"] \in Port
        BY <3>1 DEF EndInv, WorkInv, Worker
      <3>3. tech[c] = port["monitor"]
        BY <2>1, <3>2, NullAssumption DEF OwnerIsLive
      <3> QED BY <1>2, <2>1, <3>1, <3>3 DEF Apart
    <2> QED BY <2>1, <2>2, <2>3, <2>4, FreedBy
  <1>3. ASSUME ~(pc[t] = "connect" /\ UNCHANGED chan[t]) PROVE \E c \in Chan : Alloc(t, c)
    <2>1. ASSUME NEW p \in Port, Monitor(p) PROVE FALSE
      BY <1>3, <2>1 DEF Monitor, FetchOnhook, FetchOffhook, FetchDigit, Fetch, Begin, Onhook,
         OffhookFails, OnhookSet, OffhookDialTone, OffhookAnswer, DigitInCall, DigitOfNumber,
         DigitHash, DigitIgnored, Goto, GotoWith, Done, Worker, Enter
    <2>2. ASSUME NEW d \in Chan,
                 QueueHangup(d) \/ EndDialingHangup(d) \/ QueueAnswer(d) \/ QueueDigit(d)
          PROVE  FALSE
      BY <1>3, <2>2 DEF QueueHangup, EndDialingHangup, QueueAnswer, QueueDigit, GotoWith, Done,
         Worker
    <2>3. ASSUME NEW u \in Worker,
                 Lookup(u) \/ Connect(u) \/ UndoLock(u) \/ UndoHangup(u) \/ Reset(u)
          PROVE  FALSE
      BY <1>3, <2>3 DEF Lookup, Connect, UndoLock, UndoHangup, Reset, Goto, GotoWith, Done
    <2>4. ASSUME NEW d \in Chan, Leg(d) PROVE FALSE
      BY <1>3, <2>4 DEF Leg, Request, CallLock, HangLock, LockLeg, Call, ReadAnswer, PbxAnswer,
         Indicate, GiveUp, HeedHangup, Leave, Hangup, runVars
    <2>5. ~(DialTimeout \/ \E h \in Handle : Fire(h))
      BY <1>3 DEF DialTimeout, Fire, Begin, Goto, Done, Worker
    <2>6. ~(RequestBad \/ Breaks \/ UNCHANGED vars)
      BY <1>3, BreakEffect DEF RequestBad, vars, runVars
    <2>7. ASSUME NEW u \in Worker, NEW d \in Chan, Alloc(u, d) PROVE u = t
      BY <1>3, <2>7 DEF Alloc, GotoWith
    <2> QED BY <2>1, <2>2, <2>3, <2>4, <2>5, <2>6, <2>7 DEF Next, Dial
  <1> QED BY <1>1, <1>2, <1>3

\* pvt->owner is NULL or a channel that exists and belongs to that port, whatever Asterisk
\* requests and hangs up and whenever it does, if the autodial callback runs alone.
THEOREM OwnerCorrect ==
  ASSUME "quiettimer" \in Env
  PROVE  Spec => []OwnerIsLive
  <1> DEFINE QInv == OwnerIsLive /\ Apart /\ EndInv /\ ConnectInv
  <1>1. Init => QInv
    BY DEF Init, OwnerIsLive, Apart, EndInv, ConnectInv, At, Worker
  <1>2. IInv /\ QInv /\ [Next]_vars => QInv'
    <2> SUFFICES ASSUME IInv, QInv, [Next]_vars PROVE QInv'
      OBVIOUS
    <2>1. Apart' /\ EndInv' /\ ConnectInv'
      BY QuietApart, QuietEnd, QuietConnect DEF IInv
    <2>2. \A t \in Worker : ~ConnectFreed(t)
      BY DEF ConnectInv, ConnectFreed, Runs, At
    <2>3. OwnerIsLive'
      BY <2>2, OwnerStep DEF IInv
    <2> QED BY <2>1, <2>3
  <1>3. QInv => OwnerIsLive
    OBVIOUS
  <1> QED BY <1>1, <1>2, <1>3, SpecIInv, PTL DEF Spec
=============================================================================
