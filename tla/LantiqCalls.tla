------------------------------ MODULE LantiqCalls ------------------------------
(***************************************************************************)
(* Theorems about Lantiq when calls into the driver interleave with the     *)
(* event handlers as they like and only the autodial callback runs alone:   *)
(* what is said of every call, and that the driver implements PhoneLine.    *)
(***************************************************************************)
EXTENDS LantiqProofs

\* What the surroundings must keep to, in every theorem here: all disciplines but
\* "quietlegs", so that ast_lantiq_call and ast_lantiq_hangup may overlap any event handler.
\* The autodial callback overlaps nothing, no second caller asks for a port, memory lasts.
Calm == {"quiettimer", "idle", "settled", "gooddata", "ioctlok", "onhook", "memory",
         "short"} \subseteq Env

-----------------------------------------------------------------------------
(* The invariants.                                                          *)

\* States of a port whose user has lifted the handset.
Raised == {"OFFHOOK", "DIALING", "INCALL", "CALL_ENDED"}
Fed(p) == feed[p] = "active" /\ codec[p] = {"enc", "dec"}

\* How far lantiq_dial has come is known from the port it dials for.
DialInv == \A t \in Worker :
  /\ pc[t] \in {"fired"} \cup Dialling => hook[port[t]] = "off"
  /\ pc[t] \in {"fired", "lookup", "alloc"} =>
       channel_state[port[t]] = "DIALING" /\ owner[port[t]] = NULL
  /\ pc[t] \in {"lookup", "alloc", "connect"} => dial_timer[port[t]] = NULL
  /\ pc[t] = "connect" => channel_state[port[t]] = "DIALING" /\ owner[port[t]] = chan[t]
  /\ pc[t] \in {"undo", "undone"} =>
       channel_state[port[t]] = "INCALL" /\ owner[port[t]] = chan[t]
  /\ pc[t] = "reset" => channel_state[port[t]] \in {"INCALL", "CALL_ENDED"}

\* The handlers of events: what was read before the wait for a channel lock is still so.
HandlerInv ==
  LET p == port["monitor"]
      At1(S) == pc["monitor"] \in S
  IN /\ pc["monitor"] # "endhang"
     /\ At1({"onhook", "qhangup", "onset"}) => hook[p] = "on" /\ channel_state[p] \in Raised
     /\ At1({"offhook", "answer", "digit", "dtmf"}) => hook[p] = "off"
     /\ At1({"offhook"}) => \/ channel_state[p] = "RINGING"
                            \/ channel_state[p] = "ONHOOK" /\ owner[p] = NULL
     /\ At1({"digit"}) => channel_state[p] \in Raised
     /\ At1({"qhangup", "dtmf"}) => channel_state[p] = "INCALL"
     /\ At1({"answer"}) => channel_state[p] = "RINGING" /\ Fed(p)
     /\ At1({"qhangup", "answer", "dtmf"}) => owner[p] = chan["monitor"]
     /\ At1({"onset"}) => dial_timer[p] = NULL

\* A port has a channel in a call and while it rings, and never while its user listens
\* to a tone or dials.
PortInv == \A p \in Port :
  /\ channel_state[p] \in {"OFFHOOK", "CALL_ENDED"} => owner[p] = NULL
  /\ channel_state[p] = "DIALING" /\ owner[p] # NULL =>
       \E t \in Worker : pc[t] = "connect" /\ port[t] = p

\* A channel is called on a port with the handset down, and answered once.
LegInv == \A c \in Chan :
  /\ leg[c] # "none" => Live(c)
  /\ leg[c] \in {"requested", "calling"} =>
       channel_state[tech[c]] = "ONHOOK" /\ ctl[c] = {}
  /\ ~Live(c) => ctl[c] = {}
  /\ "ANSWER" \in ctl[c] => channel_state[tech[c]] # "RINGING"

\* What the line does, also while a handler runs.
SoundInv == \A p \in Port :
  /\ channel_state[p] \in {"DIALING", "INCALL"} => Fed(p)
  /\ channel_state[p] = "OFFHOOK" /\ ~(At("monitor", "onset") /\ port["monitor"] = p) =>
       Fed(p) /\ tone[p] = "dial"
  /\ tone[p] = "dial" => /\ channel_state[p] = "OFFHOOK"
                         /\ ~(At("monitor", "onset") /\ port["monitor"] = p)

FiredInv == At("sched", "fired") => dial_timer[port["sched"]] = key["sched"]

\* The owner of a port is its only channel, and nothing was used that is not there.
OwnerSound ==
  /\ OwnerIsLive
  /\ \A c \in Chan : Live(c) => owner[tech[c]] = c
  /\ ~fault

\* A digit that was fetched still has room in the buffer.
BufferInv ==
  At("monitor", "digit") /\ key["monitor"] # "#" => HasRoom(port["monitor"])

CallInv == /\ BufferInv
           /\ Apart /\ DialInv /\ HandlerInv /\ PortInv /\ LegInv /\ SoundInv /\ FiredInv
           /\ OwnerSound /\ CallHasOwner /\ HookAgrees /\ TimerWhileDialing

Facts == Calm /\ IInv /\ CallInv

LEMMA Parts ==
  ASSUME Facts
  PROVE  /\ Calm /\ IInv
         /\ BufferInv
         /\ Apart /\ DialInv /\ HandlerInv /\ PortInv /\ LegInv /\ SoundInv /\ FiredInv
         /\ OwnerSound /\ CallHasOwner /\ HookAgrees /\ TimerWhileDialing
  BY DEF Facts, CallInv

LEMMA Types ==
  ASSUME Facts
  PROVE  /\ owner \in [Port -> Chan \cup {NULL}] /\ channel_state \in [Port -> State]
         /\ dial_timer \in [Port -> Handle \cup {NULL}] /\ dtmfbuf \in [Port -> Seq(Digit)]
         /\ hook \in [Port -> {"on", "off"}] /\ feed \in [Port -> {"standby", "active"}]
         /\ codec \in [Port -> SUBSET {"enc", "dec"}] /\ tone \in [Port -> Tone]
         /\ bell \in [Port -> BOOLEAN]
         /\ ast \in [Chan -> AstState] /\ tech \in [Chan -> Port \cup {NULL}]
         /\ ctl \in [Chan -> SUBSET Control] /\ leg \in [Chan -> LegStep]
         /\ due \in [Handle -> Port \cup {NULL}]
         /\ pc \in [Worker -> Step] /\ port \in [Worker -> Port \cup {NULL}]
         /\ key \in [Worker -> Digit \cup {"#", NULL} \cup Handle]
         /\ chan \in [Worker -> Chan \cup {NULL}]
         /\ \A t \in Worker : pc[t] # "idle" => port[t] \in Port
  BY DEF Facts, IInv, TypeOK, PvtTypeOK, LineTypeOK, ChanTypeOK, LockTypeOK, RunTypeOK,
         WorkInv

\* No channel is used after it was freed.
LEMMA NoFault ==
  ASSUME Facts
  PROVE  ~Dangling /\ ~fault
  <1>0. /\ \A p \in Port : owner[p] # NULL => Live(owner[p])
        /\ \A t \in Worker : pc[t] # "idle" => port[t] \in Port
        /\ pc \in [Worker -> Step] /\ ~fault
    BY Types DEF Facts, CallInv, OwnerSound, OwnerIsLive
  <1>1. ASSUME NEW t \in Worker, pc[t] \in UsesChan PROVE Live(chan[t])
    <2>1. CASE pc[t] \in {"connect", "undo"}
      <3>1. owner[port[t]] = chan[t] /\ chan[t] # NULL
        BY <2>1, NullAssumption DEF Facts, CallInv, DialInv, IInv, WorkInv, Dials
      <3> QED BY <1>0, <2>1, <3>1
    <2>2. CASE pc[t] \notin {"connect", "undo"}
      <3>1. t = "monitor" /\ pc[t] \in {"qhangup", "endhang", "answer", "dtmf"}
        BY <1>1, <2>2 DEF Facts, IInv, WorkInv, UsesChan, Worker, Dialling
      <3>2. /\ pc[t] \in {"qhangup", "answer", "dtmf"} /\ owner[port[t]] = chan[t]
            /\ channel_state[port[t]] \in {"INCALL", "RINGING"}
        BY <3>1 DEF Facts, CallInv, HandlerInv
      <3> QED BY <1>0, <3>1, <3>2 DEF Facts, CallInv, CallHasOwner
    <2> QED BY <2>1, <2>2
  <1>2. \A c \in Chan : leg[c] # "none" => Live(c)
    BY DEF Facts, CallInv, LegInv
  <1> QED BY <1>0, <1>1, <1>2 DEF Dangling

\* ... and no other memory that is not there is used.
LEMMA NoBreaks ==
  ASSUME Facts
  PROVE  ~Breaks
  <1>1. ~UseFreed /\ \A t \in Worker : ~ConnectFreed(t)
    BY NoFault DEF UseFreed, ConnectFreed, Dangling, UsesChan, Runs, At
  <1>2. /\ \A t \in Worker : ~AllocFails(t)
        /\ \A p \in Port : ~RequestFails(p)
    BY DEF Facts, Calm, AllocFails, RequestFails
  <1>3. \A p \in Port : ~DigitOverflow(p)
    BY DEF Facts, CallInv, BufferInv, DigitOverflow, Enter, Runs
  <1> QED BY <1>1, <1>2, <1>3 DEF Breaks

\* A channel with a thread belongs to a port that is idle, rings or is in a call.
LEMMA LegFacts ==
  ASSUME Facts, NEW c \in Chan, leg[c] # "none", NEW p, p = tech[c]
  PROVE  /\ p \in Port /\ Live(c) /\ owner[p] = c
         /\ channel_state[p] \in {"ONHOOK", "RINGING", "INCALL"}
         /\ \A t \in Worker : port[t] = p =>
              pc[t] \notin {"fired", "lookup", "alloc", "connect", "undo", "undone"}
         /\ leg[c] \in {"requested", "calling"} =>
              /\ channel_state[p] = "ONHOOK" /\ hook[p] = "on"
              /\ \A t \in Worker : port[t] = p => pc[t] = "idle"
  <1>0. c # NULL /\ channel_state[p] \in State
    BY NullAssumption, Types DEF Facts, IInv, ChanInv, CallInv, LegInv
  <1>1. p \in Port /\ Live(c) /\ owner[p] = c
    BY DEF Facts, IInv, ChanInv, CallInv, LegInv, OwnerSound
  <1>2. ASSUME NEW t \in Worker, port[t] = p
        PROVE  pc[t] \notin {"fired", "lookup", "alloc", "connect", "undo", "undone"}
    <2>1. pc[t] \notin {"fired", "lookup", "alloc"}
      BY <1>0, <1>1, <1>2 DEF Facts, CallInv, DialInv
    <2>2. pc[t] \notin Dials
      BY <1>1, <1>2 DEF Facts, CallInv, DialInv, IInv, WorkInv, Dials
    <2> QED BY <2>1, <2>2 DEF Dials
  <1>3. channel_state[p] \notin {"OFFHOOK", "DIALING", "CALL_ENDED"}
    BY <1>0, <1>1, <1>2 DEF Facts, CallInv, PortInv
  <1>4. ASSUME leg[c] \in {"requested", "calling"}
        PROVE  /\ channel_state[p] = "ONHOOK" /\ hook[p] = "on"
               /\ \A t \in Worker : port[t] = p => pc[t] = "idle"
    <2>1. channel_state[p] = "ONHOOK"
      BY <1>4 DEF Facts, CallInv, LegInv
    <2>2. ASSUME NEW t \in Worker, port[t] = p PROVE pc[t] = "idle"
      <3>1. pc[t] \in Step /\ pc[t] # "reset"
        BY <2>1, <2>2, Types DEF Facts, CallInv, DialInv
      <3>2. t = "sched" => pc[t] \in {"idle", "fired"} \cup Dialling
        BY DEF Facts, IInv, WorkInv
      <3>3. t = "monitor" => pc[t] \notin {"onhook", "qhangup", "onset", "endhang", "digit",
                                         "dtmf", "answer", "offhook"}
        BY <1>0, <1>1, <2>1, <2>2 DEF Facts, CallInv, HandlerInv, Raised
      <3> QED BY <1>2, <2>2, <3>1, <3>2, <3>3 DEF Step, Fetched, Inside, Dialling, Worker
    <2> QED BY <1>1, <2>1, <2>2 DEF Facts, CallInv, HookAgrees, Busy, Worker
  <1> QED BY <1>0, <1>1, <1>2, <1>3, <1>4 DEF State

\* The steps there are: no ioctl fails, iflock is not leaked, no freed channel is used,
\* and lantiq_end_dialing, which runs in state DIALING only, finds no channel to hang up.
LEMMA CalmNext ==
  ASSUME Facts, Next
  PROVE  \/ \E p \in Port : FetchOnhook(p) \/ FetchOffhook(p)
         \/ \E p \in Port, k \in Digit \cup {"#"} : FetchDigit(p, k)
         \/ \E p \in Port : \/ Onhook(p, 3) \/ OnhookSet(p)
                            \/ OffhookDialTone(p) \/ OffhookAnswer(p)
         \/ \E p \in Port : \/ DigitInCall(p) \/ DigitOfNumber(p) \/ DigitHash(p)
                            \/ DigitIgnored(p)
         \/ \E c \in Chan : QueueHangup(c) \/ QueueAnswer(c) \/ QueueDigit(c)
         \/ \E t \in Worker : \/ Lookup(t) \/ Connect(t) \/ UndoLock(t) \/ UndoHangup(t)
                              \/ Reset(t) \/ \E c \in Chan : Alloc(t, c)
         \/ DialTimeout \/ \E h \in Handle : Fire(h)
         \/ \E c \in Chan, p \in Port : Request(c, p)
         \/ \E c \in Chan : \/ CallLock(c) \/ HangLock(c) \/ Call(c) \/ Hangup(c)
                            \/ ReadAnswer(c) \/ PbxAnswer(c) \/ Leave(c)
                            \/ \E s \in {"none", "busy", "ringing"} : Indicate(c, s)
  <1>1. /\ "gooddata" \in Env /\ Reached = {3} /\ pc["monitor"] # "endhang" /\ ~Dangling
    BY NoFault DEF Facts, Calm, Reached, CallInv, HandlerInv
  <1>2. ~RequestBad /\ \A c \in Chan : ~EndDialingHangup(c)
    BY <1>1 DEF RequestBad, EndDialingHangup, Runs, At
  <1>4. ~Breaks
    BY NoBreaks
  <1>3. \A p \in Port, n \in Reached : ~OffhookFails(p, n) /\ (Onhook(p, n) => Onhook(p, 3))
    BY <1>1 DEF OffhookFails
  <1> QED BY <1>2, <1>3, <1>4 DEF Next, Monitor, Dial, Leg, GiveUp, HeedHangup

\* The channel a worker dials is the one of its port, and has no thread yet.
LEMMA DialFacts ==
  ASSUME Facts, NEW t \in Worker, pc[t] \in Dials
  PROVE  /\ chan[t] \in Chan /\ port[t] \in Port /\ tech[chan[t]] = port[t]
         /\ owner[port[t]] = chan[t] /\ Live(chan[t]) /\ leg[chan[t]] = "none"
         /\ channel_state[port[t]] \in {"DIALING", "INCALL"}
         /\ pc[t] # "connect" => channel_state[port[t]] = "INCALL"
  <1>1. /\ chan[t] \in Chan /\ port[t] \in Port /\ leg[chan[t]] = "none"
        /\ owner[port[t]] = chan[t]
    BY DEF Facts, IInv, WorkInv, Dials, CallInv, DialInv
  <1>2. chan[t] # NULL
    BY <1>1, NullAssumption
  <1> QED BY <1>1, <1>2 DEF Facts, CallInv, OwnerSound, OwnerIsLive, DialInv, Dials

\* A timer is pending for a port whose user dials; dial_timer names it.
LEMMA DueFacts ==
  ASSUME Facts, NEW h \in Handle, due[h] # NULL
  PROVE  /\ due[h] \in Port /\ channel_state[due[h]] = "DIALING"
         /\ dial_timer[due[h]] = h /\ owner[due[h]] = NULL
  <1>1. /\ due[h] \in Port /\ channel_state[due[h]] = "DIALING" /\ dial_timer[due[h]] = h
        /\ h # NULL
    BY Types, NullAssumption DEF Facts, CallInv, TimerWhileDialing
  <1> QED BY <1>1 DEF Facts, CallInv, PortInv, DialInv

\* The channel the monitor waits for is still the one of the port.
LEMMA HandlerFacts ==
  ASSUME Facts, pc["monitor"] \in {"qhangup", "answer", "dtmf"}
  PROVE  LET p == port["monitor"]
             c == chan["monitor"]
         IN /\ p \in Port /\ c \in Chan /\ owner[p] = c /\ tech[c] = p /\ Live(c)
            /\ pc["monitor"] # "answer" => channel_state[p] = "INCALL"
            /\ pc["monitor"] = "answer" => channel_state[p] = "RINGING"
  <1>1. port["monitor"] \in Port
    BY DEF Facts, IInv, WorkInv, Worker
  <1>2. /\ owner[port["monitor"]] = chan["monitor"]
        /\ pc["monitor"] # "answer" => channel_state[port["monitor"]] = "INCALL"
        /\ pc["monitor"] = "answer" => channel_state[port["monitor"]] = "RINGING"
    BY DEF Facts, CallInv, HandlerInv
  <1>3. chan["monitor"] # NULL
    BY <1>1, <1>2 DEF Facts, CallInv, CallHasOwner
  <1>4. chan["monitor"] \in Chan
    BY <1>1, <1>2, <1>3, Types
  <1> QED BY <1>1, <1>2, <1>3, <1>4 DEF Facts, CallInv, OwnerSound, OwnerIsLive

\* dial_timer names no timer unless the user dials.
LEMMA NoTimer ==
  ASSUME Facts, NEW p \in Port, channel_state[p] # "DIALING"
  PROVE  dial_timer[p] = NULL
  <1> SUFFICES ASSUME dial_timer[p] # NULL PROVE FALSE
    OBVIOUS
  <1>1. dial_timer[p] \in Handle
    BY Types
  <1>2. CASE due[dial_timer[p]] = p
    BY <1>1, <1>2, NullAssumption DEF Facts, CallInv, TimerWhileDialing
  <1>3. CASE At("sched", "fired") /\ port["sched"] = p
    BY <1>3 DEF Facts, CallInv, DialInv, At, Worker
  <1> QED BY <1>2, <1>3 DEF Facts, IInv, HandleInv

\* The second part of OwnerSound.
Owned == \A c \in Chan : Live(c) => owner[tech[c]] = c

-----------------------------------------------------------------------------
(* What the steps do in states where the invariants hold.                   *)

\* ast_lantiq_call finds the port on hook and rings it.
LEMMA CallEffect ==
  ASSUME Facts, NEW c \in Chan, Call(c), NEW p, p = tech[c]
  PROVE  /\ p \in Port /\ owner[p] = c /\ channel_state[p] = "ONHOOK" /\ hook[p] = "on"
         /\ leg[c] = "calling" /\ ctl[c] = {}
         /\ \A t \in Worker : port[t] = p => pc[t] = "idle"
         /\ channel_state' = [channel_state EXCEPT ![p] = "RINGING"]
         /\ bell' = [bell EXCEPT ![p] = TRUE]
         /\ ast' = [ast EXCEPT ![c] = "RINGING"] /\ ctl' = [ctl EXCEPT ![c] = {"RINGING"}]
         /\ leg' = [leg EXCEPT ![c] = "waiting"]
         /\ UNCHANGED <<owner, dial_timer, hook, feed, codec, tone, tech, due, runVars, fault>>
  <1>1. leg[c] = "calling" /\ leg[c] # "none"
    BY DEF Call, LegIs
  <1>2. /\ p \in Port /\ owner[p] = c /\ channel_state[p] = "ONHOOK" /\ hook[p] = "on"
        /\ \A t \in Worker : port[t] = p => pc[t] = "idle"
    BY <1>1, LegFacts
  <1>3. ctl[c] = {}
    BY <1>1 DEF Facts, CallInv, LegInv
  <1> QED BY <1>1, <1>2, <1>3, Types DEF Call

\* ast_lantiq_hangup ends a call or stops the ringing of the port of channel c.
HungUp(c, p) ==
  /\ channel_state' = [channel_state EXCEPT ![p] = IF @ = "INCALL" THEN "CALL_ENDED"
                                                                    ELSE "ONHOOK"]
  /\ bell' = [bell EXCEPT ![p] = FALSE]
  /\ tone' = [tone EXCEPT ![p] = IF channel_state[p] = "INCALL" THEN "busy" ELSE @]
  /\ owner' = [owner EXCEPT ![p] = NULL]
  /\ ast' = [ast EXCEPT ![c] = "free"]
  /\ tech' = [tech EXCEPT ![c] = NULL]
  /\ ctl' = [ctl EXCEPT ![c] = {}]
  /\ UNCHANGED <<dial_timer, hook, feed, codec, due, port, key, fault>>

LEMMA HungUpStep ==
  ASSUME Facts, NEW c \in Chan, NEW p \in Port, p = tech[c], HangupBody(c),
         channel_state[p] \in {"ONHOOK", "RINGING", "INCALL"},
         UNCHANGED <<dial_timer, hook, feed, codec, due, port, key, fault>>
  PROVE  HungUp(c, p)
  <1>1. /\ bell \in [Port -> BOOLEAN] /\ tone \in [Port -> Tone]
        /\ channel_state \in [Port -> State]
        /\ channel_state[p] = "INCALL" => bell[p] = FALSE
    BY Types DEF Facts, CallInv, HookAgrees
  <1>2. bell' = [bell EXCEPT ![p] = FALSE]
    BY <1>1 DEF HangupBody
  <1>3. channel_state' = [channel_state EXCEPT ![p] = IF @ = "INCALL" THEN "CALL_ENDED"
                                                                    ELSE "ONHOOK"]
    BY <1>1 DEF HangupBody, AfterHangup
  <1>4. tone' = [tone EXCEPT ![p] = IF channel_state[p] = "INCALL" THEN "busy" ELSE @]
    BY <1>1 DEF HangupBody
  <1> QED BY <1>2, <1>3, <1>4 DEF HangupBody, HungUp, ClearOwner

LEMMA HangupEffect ==
  ASSUME Facts, NEW c \in Chan, Hangup(c), NEW p, p = tech[c]
  PROVE  /\ p \in Port /\ owner[p] = c /\ HungUp(c, p) /\ leg[c] = "hanglocked"
         /\ channel_state[p] \in {"ONHOOK", "RINGING", "INCALL"}
         /\ \A t \in Worker : port[t] = p =>
              pc[t] \notin {"fired", "lookup", "alloc", "connect", "undo", "undone"}
         /\ ~(port["monitor"] = p /\ pc["monitor"] \in Inside)
         /\ leg' = [leg EXCEPT ![c] = "none"] /\ UNCHANGED <<pc, chan>>
  <1>1. leg[c] = "hanglocked" /\ leg[c] # "none" /\ iflock = NULL
    BY DEF Hangup, LegIs
  <1>2. /\ p \in Port /\ owner[p] = c /\ channel_state[p] \in {"ONHOOK", "RINGING", "INCALL"}
        /\ \A t \in Worker : port[t] = p =>
              pc[t] \notin {"fired", "lookup", "alloc", "connect", "undo", "undone"}
    BY <1>1, LegFacts
  <1>3. pc["monitor"] \notin Inside
    BY <1>1, NullAssumption DEF Facts, IInv, LockInv, Worker
  <1>4. HungUp(c, p)
    BY <1>2, HungUpStep DEF Hangup, runVars
  <1> QED BY <1>1, <1>2, <1>3, <1>4 DEF Hangup, runVars

\* A call whose PBX thread could not be created is over.
LEMMA UndoEffect ==
  ASSUME Facts, NEW t \in Worker, UndoHangup(t), NEW c, c = chan[t], NEW p, p = port[t]
  PROVE  /\ p \in Port /\ c \in Chan /\ tech[c] = p /\ owner[p] = c /\ HungUp(c, p)
         /\ channel_state[p] = "INCALL" /\ leg[c] = "none" /\ pc[t] = "undone"
         /\ pc' = [pc EXCEPT ![t] = "reset"] /\ chan' = [chan EXCEPT ![t] = NULL]
         /\ UNCHANGED leg
  <1>1. pc[t] = "undone" /\ pc[t] \in Dials
    BY DEF UndoHangup, Runs, At, Dials
  <1>2. /\ c \in Chan /\ p \in Port /\ tech[c] = p /\ owner[p] = c /\ leg[c] = "none"
        /\ channel_state[p] = "INCALL"
    BY <1>1, DialFacts
  <1>3. HungUp(c, p)
    BY <1>2, HungUpStep DEF UndoHangup, GotoWith
  <1> QED BY <1>1, <1>2, <1>3 DEF UndoHangup, GotoWith

\* lantiq_channel has made the channel the port's; the call is on, with a PBX or not.
LEMMA ConnectEffect ==
  ASSUME Facts, NEW t \in Worker, Connect(t), NEW c, c = chan[t], NEW p, p = port[t]
  PROVE  /\ p \in Port /\ c \in Chan /\ tech[c] = p /\ owner[p] = c /\ Live(c)
         /\ channel_state[p] = "DIALING" /\ leg[c] = "none" /\ pc[t] = "connect"
         /\ ctl[c] \subseteq Control
         /\ ast' = [ast EXCEPT ![c] = "RING"]
         /\ channel_state' = [channel_state EXCEPT ![p] = "INCALL"]
         /\ \/ /\ leg' = [leg EXCEPT ![c] = "pbx"] /\ pc' = [pc EXCEPT ![t] = "reset"]
               /\ chan' = [chan EXCEPT ![t] = NULL]
            \/ UNCHANGED <<leg, chan>> /\ pc' = [pc EXCEPT ![t] = "undo"]
         /\ UNCHANGED <<owner, tech, ctl, dial_timer, lineVars, due, port, key, fault>>
  <1>1. pc[t] = "connect" /\ pc[t] \in Dials
    BY DEF Connect, Runs, At, Dials
  <1>2. /\ c \in Chan /\ p \in Port /\ tech[c] = p /\ owner[p] = c /\ leg[c] = "none"
        /\ Live(c)
    BY <1>1, DialFacts
  <1>3. channel_state[p] = "DIALING" /\ ctl[c] \subseteq Control
    BY <1>1, <1>2, Types DEF Facts, CallInv, DialInv
  <1>4. UNCHANGED <<tech, owner>>
    BY <1>2, Types DEF Connect
  <1> QED BY <1>1, <1>2, <1>3, <1>4 DEF Connect, Goto, GotoWith

\* The answered channel is the one of the port, which stops being a ringing port.
LEMMA AnswerEffect ==
  ASSUME Facts, NEW c \in Chan, QueueAnswer(c), NEW p, p = port["monitor"]
  PROVE  /\ p \in Port /\ owner[p] = c /\ tech[c] = p /\ Live(c)
         /\ channel_state[p] = "RINGING" /\ hook[p] = "off" /\ Fed(p)
         /\ pc["monitor"] = "answer"
         /\ ctl' = [ctl EXCEPT ![c] = @ \cup {"ANSWER"}]
         /\ channel_state' = [channel_state EXCEPT ![p] = "INCALL"]
         /\ Done("monitor")
         /\ UNCHANGED <<owner, dial_timer, lineVars, ast, tech, leg, due, fault>>
  <1>1. pc["monitor"] = "answer" /\ chan["monitor"] = c
    BY DEF QueueAnswer, Runs, At
  <1>2. /\ p \in Port /\ owner[p] = c /\ tech[c] = p /\ Live(c)
        /\ channel_state[p] = "RINGING"
    BY <1>1, HandlerFacts
  <1>3. hook[p] = "off" /\ Fed(p)
    BY <1>1 DEF Facts, CallInv, HandlerInv
  <1> QED BY <1>1, <1>2, <1>3 DEF QueueAnswer

\* The number of a port without a channel leads to one or to the busy tone.
LEMMA LookupEffect ==
  ASSUME Facts, NEW t \in Worker, Lookup(t), NEW p, p = port[t]
  PROVE  /\ p \in Port /\ owner[p] = NULL /\ channel_state[p] = "DIALING"
         /\ hook[p] = "off" /\ dial_timer[p] = NULL /\ pc[t] = "lookup"
         /\ \/ /\ pc' = [pc EXCEPT ![t] = "alloc"] /\ UNCHANGED <<tone, channel_state>>
            \/ /\ pc' = [pc EXCEPT ![t] = "reset"]
               /\ tone' = [tone EXCEPT ![p] = "busy"]
               /\ channel_state' = [channel_state EXCEPT ![p] = "CALL_ENDED"]
         /\ UNCHANGED <<owner, dial_timer, hook, feed, codec, bell, chanVars, due, port, key,
                        chan, fault>>
  <1>1. pc[t] = "lookup" /\ pc[t] # "idle"
    BY DEF Lookup, Runs, At
  <1>2. p \in Port
    BY <1>1, Types
  <1>3. /\ owner[p] = NULL /\ channel_state[p] = "DIALING" /\ hook[p] = "off"
        /\ dial_timer[p] = NULL
    BY <1>1 DEF Facts, CallInv, DialInv, Dialling
  <1> QED BY <1>1, <1>2, <1>3 DEF Lookup, Goto, PlayTone

\* The channel is new and the port had none.
LEMMA AllocEffect ==
  ASSUME Facts, NEW t \in Worker, NEW c \in Chan, Alloc(t, c), NEW p, p = port[t]
  PROVE  /\ p \in Port /\ owner[p] = NULL /\ channel_state[p] = "DIALING"
         /\ hook[p] = "off" /\ dial_timer[p] = NULL /\ pc[t] = "alloc"
         /\ ~Live(c) /\ leg[c] = "none" /\ ctl[c] = {} /\ c # NULL
         /\ (\A q \in Port : owner[q] # c) /\ (\A u \in Worker : chan[u] # c)
         /\ ast' = [ast EXCEPT ![c] = "UP"] /\ tech' = [tech EXCEPT ![c] = p]
         /\ owner' = [owner EXCEPT ![p] = c]
         /\ pc' = [pc EXCEPT ![t] = "connect"] /\ chan' = [chan EXCEPT ![t] = c]
         /\ UNCHANGED <<channel_state, dial_timer, lineVars, ctl, leg, due, port, key, fault>>
  <1>1. pc[t] = "alloc" /\ pc[t] # "idle"
    BY DEF Alloc, Runs, At
  <1>2. p \in Port
    BY <1>1, Types
  <1>3. /\ owner[p] = NULL /\ channel_state[p] = "DIALING" /\ hook[p] = "off"
        /\ dial_timer[p] = NULL
    BY <1>1 DEF Facts, CallInv, DialInv, Dialling
  <1>4. /\ ~Live(c) /\ leg[c] = "none"
        /\ (\A q \in Port : owner[q] # c) /\ (\A u \in Worker : chan[u] # c)
    BY DEF Alloc, FreeChan, Live
  <1>5. ctl[c] = {} /\ c # NULL
    BY <1>4, NullAssumption DEF Facts, CallInv, LegInv
  <1> QED BY <1>1, <1>2, <1>3, <1>4, <1>5 DEF Alloc, GotoWith

\* Asterisk dials a port that is idle.
LEMMA RequestEffect ==
  ASSUME Facts, NEW c \in Chan, NEW p \in Port, Request(c, p)
  PROVE  /\ owner[p] = NULL /\ channel_state[p] = "ONHOOK" /\ hook[p] = "on"
         /\ ~Live(c) /\ leg[c] = "none" /\ ctl[c] = {} /\ c # NULL
         /\ \A q \in Port : owner[q] # c
         /\ \A u \in Worker : port[u] = p => pc[u] = "idle"
         /\ ast' = [ast EXCEPT ![c] = "DOWN"] /\ tech' = [tech EXCEPT ![c] = p]
         /\ owner' = [owner EXCEPT ![p] = c] /\ leg' = [leg EXCEPT ![c] = "requested"]
         /\ UNCHANGED <<channel_state, dial_timer, lineVars, ctl, due, runVars, fault>>
  <1>1. owner[p] = NULL /\ channel_state[p] = "ONHOOK" /\ hook[p] = "on"
    BY DEF Request, PortIdle, Facts, Calm
  <1>2. ~Live(c) /\ leg[c] = "none" /\ \A q \in Port : owner[q] # c
    BY DEF Request, FreeChan, Live
  <1>3. ctl[c] = {} /\ c # NULL
    BY <1>2, NullAssumption DEF Facts, CallInv, LegInv
  <1>4. ASSUME NEW u \in Worker, port[u] = p PROVE pc[u] = "idle"
    <2>1. CASE u = "sched"
      BY <1>4, <2>1 DEF Request, QuietTimer, Busy, Facts, Calm
    <2>2. CASE u = "monitor"
      <3>1. iflock = NULL /\ pc[u] \notin Inside
        BY <2>2, NullAssumption DEF Request, Facts, IInv, LockInv, Worker
      <3>2. pc[u] \notin {"onhook", "offhook", "digit"}
        BY <1>1, <1>4, <2>2, Types DEF Facts, CallInv, HandlerInv, Raised
      <3>3. pc[u] \in Step /\ pc[u] # "fired"
        BY <2>2, Types DEF Facts, IInv, WorkInv
      <3> QED BY <3>1, <3>2, <3>3 DEF Step, Fetched
    <2> QED BY <2>1, <2>2 DEF Worker
  <1> QED BY <1>1, <1>2, <1>3, <1>4 DEF Request

\* The timer that fires is the one of a port whose user dials, and nobody works on it.
LEMMA FireEffect ==
  ASSUME Facts, NEW h \in Handle, Fire(h), NEW p, p = due[h]
  PROVE  /\ p \in Port /\ owner[p] = NULL /\ channel_state[p] = "DIALING"
         /\ hook[p] = "off" /\ dial_timer[p] = h /\ pc["sched"] = "idle"
         /\ (port["monitor"] = p => pc["monitor"] = "idle")
         /\ Begin("sched", "fired", p, h) /\ due' = [due EXCEPT ![h] = NULL]
         /\ UNCHANGED <<pvtVars, lineVars, chanVars, fault>>
  <1>1. pc["sched"] = "idle" /\ due[h] # NULL /\ (port["monitor"] = p => pc["monitor"] = "idle")
    BY DEF Fire, Runs, At, Quiet, Busy, Facts, Calm
  <1>2. p \in Port /\ channel_state[p] = "DIALING" /\ dial_timer[p] = h /\ owner[p] = NULL
    BY <1>1, DueFacts
  <1>3. ~Busy("monitor", p) => (channel_state[p] \in {"ONHOOK", "RINGING"} <=> hook[p] = "on")
    BY <1>2 DEF Facts, CallInv, HookAgrees
  <1>4. hook[p] \in {"on", "off"}
    BY <1>2, Types
  <1>5. hook[p] = "off"
    BY <1>1, <1>2, <1>3, <1>4 DEF Busy
  <1> QED BY <1>1, <1>2, <1>5 DEF Fire

\* The port is on hook at the end of the handler; its call and its timer are gone.
LEMMA OnhookEffect ==
  ASSUME Facts, NEW p \in Port, OnhookSet(p)
  PROVE  /\ hook[p] = "on" /\ channel_state[p] \in Raised /\ dial_timer[p] = NULL
         /\ pc["monitor"] = "onset" /\ port["monitor"] = p
         /\ channel_state' = [channel_state EXCEPT ![p] = "ONHOOK"]
         /\ Done("monitor")
         /\ UNCHANGED <<owner, dial_timer, lineVars, chanVars, due, fault>>
         /\ \A u \in Worker : port[u] = p /\ pc[u] # "idle" => u = "monitor"
  <1>1. pc["monitor"] = "onset" /\ port["monitor"] = p
    BY DEF OnhookSet, Runs, At
  <1>2. hook[p] = "on" /\ channel_state[p] \in Raised /\ dial_timer[p] = NULL
    BY <1>1 DEF Facts, CallInv, HandlerInv
  <1>3. \A u \in Worker : port[u] = p /\ pc[u] # "idle" => u = "monitor"
    BY <1>1 DEF Facts, CallInv, Apart, Worker
  <1> QED BY <1>1, <1>2, <1>3 DEF OnhookSet

\* While the monitor handles an event of a port nobody dials for the port, and it has a
\* channel only in a call or when it rings.
LEMMA Alone ==
  ASSUME Facts, NEW p \in Port, port["monitor"] = p,
         pc["monitor"] \in Fetched \cup {"qhangup", "onset", "answer", "dtmf"}
  PROVE  /\ \A t \in Worker : port[t] = p /\ pc[t] # "idle" => t = "monitor"
         /\ channel_state[p] \in {"OFFHOOK", "DIALING", "CALL_ENDED"} => owner[p] = NULL
  <1>1. pc["monitor"] \notin {"idle", "connect"}
    BY DEF Fetched
  <1>2. \A t \in Worker : port[t] = p /\ pc[t] # "idle" => t = "monitor"
    BY <1>1 DEF Facts, CallInv, Apart, Worker
  <1> QED BY <1>1, <1>2 DEF Facts, CallInv, PortInv

\* The handset goes down: only a call has a channel that must be hung up.
LEMMA OnhookStart ==
  ASSUME Facts, NEW p \in Port, Onhook(p, 3)
  PROVE  /\ hook[p] = "on" /\ channel_state[p] \in Raised
         /\ pc["monitor"] = "onhook" /\ port["monitor"] = p
         /\ \/ /\ channel_state[p] = "INCALL" /\ owner[p] \in Chan
               /\ GotoWith("monitor", "qhangup", owner[p])
               /\ UNCHANGED <<feed, codec, tone, dial_timer, due>>
            \/ /\ channel_state[p] = "DIALING" /\ owner[p] = NULL
               /\ Goto("monitor", "onset") /\ CancelTimer(p)
               /\ UNCHANGED <<feed, codec, tone>>
            \/ /\ channel_state[p] \in {"OFFHOOK", "CALL_ENDED"} /\ owner[p] = NULL
               /\ Goto("monitor", "onset") /\ tone' = [tone EXCEPT ![p] = "none"]
               /\ feed' = [feed EXCEPT ![p] = "standby"] /\ codec' = [codec EXCEPT ![p] = {}]
               /\ UNCHANGED <<dial_timer, due>>
         /\ UNCHANGED <<owner, channel_state, hook, bell, chanVars, fault>>
  <1>1. pc["monitor"] = "onhook" /\ port["monitor"] = p
    BY DEF Onhook, Enter, Runs, At
  <1>2. hook[p] = "on" /\ channel_state[p] \in Raised
    BY <1>1 DEF Facts, CallInv, HandlerInv
  <1>3. channel_state[p] \in {"OFFHOOK", "DIALING", "CALL_ENDED"} => owner[p] = NULL
    BY <1>1, Alone DEF Fetched
  <1>4. channel_state[p] = "INCALL" => owner[p] # NULL /\ owner[p] \in Chan
    BY Types DEF Facts, CallInv, CallHasOwner
  <1>5. CASE channel_state[p] = "INCALL"
    BY <1>1, <1>2, <1>4, <1>5 DEF Onhook
  <1>6. CASE channel_state[p] = "DIALING"
    BY <1>1, <1>2, <1>3, <1>6 DEF Onhook
  <1>7. CASE channel_state[p] \in {"OFFHOOK", "CALL_ENDED"}
    <2>1. Standby(p, 3) /\ codec[p] \ {"enc", "dec"} = {}
      BY <1>7, Types DEF Onhook
    <2>2. Codecs(3) = {"enc", "dec"}
      BY DEF Codecs
    <2>3. codec' = [codec EXCEPT ![p] = codec[p] \ Codecs(3)]
      BY <2>1 DEF Standby
    <2>4. /\ tone' = [tone EXCEPT ![p] = "none"]
          /\ feed' = [feed EXCEPT ![p] = "standby"]
      BY <2>1 DEF Standby
    <2>5. codec' = [codec EXCEPT ![p] = {}]
      BY <2>1, <2>2, <2>3
    <2> QED BY <1>1, <1>2, <1>3, <1>7, <2>4, <2>5 DEF Onhook
  <1> QED BY <1>2, <1>5, <1>6, <1>7 DEF Raised

\* The handset is lifted: the line is fed for dial tone, or to answer.
LEMMA OffhookStart ==
  ASSUME Facts, NEW p \in Port, OffhookDialTone(p) \/ OffhookAnswer(p)
  PROVE  /\ hook[p] = "off" /\ pc["monitor"] = "offhook" /\ port["monitor"] = p
         /\ feed' = [feed EXCEPT ![p] = "active"]
         /\ codec' = [codec EXCEPT ![p] = {"enc", "dec"}]
         /\ \/ /\ channel_state[p] = "ONHOOK" /\ owner[p] = NULL
               /\ channel_state' = [channel_state EXCEPT ![p] = "OFFHOOK"]
               /\ tone' = [tone EXCEPT ![p] = "dial"] /\ Done("monitor")
            \/ /\ channel_state[p] = "RINGING" /\ owner[p] \in Chan
               /\ tone' = [tone EXCEPT ![p] = "none"] /\ UNCHANGED channel_state
               /\ GotoWith("monitor", "answer", owner[p])
         /\ UNCHANGED <<owner, dial_timer, hook, bell, chanVars, due, fault>>
  <1>1. pc["monitor"] = "offhook" /\ port["monitor"] = p
    BY DEF OffhookDialTone, OffhookAnswer, Enter, Runs, At
  <1>2. /\ hook[p] = "off"
        /\ \/ channel_state[p] = "RINGING"
           \/ channel_state[p] = "ONHOOK" /\ owner[p] = NULL
    BY <1>1 DEF Facts, CallInv, HandlerInv
  <1>3. channel_state[p] = "RINGING" =>
          owner[p] # NULL /\ owner[p] \in Chan /\ ast[owner[p]] = "RINGING"
    BY Types DEF Facts, CallInv, CallHasOwner
  <1>4. Wake(p, 3)
    BY DEF OffhookDialTone, OffhookAnswer
  <1>5. codec[p] \cup {"enc", "dec"} = {"enc", "dec"} /\ Codecs(3) = {"enc", "dec"}
    BY Types DEF Codecs
  <1>6. /\ feed' = [feed EXCEPT ![p] = "active"]
        /\ codec' = [codec EXCEPT ![p] = codec[p] \cup Codecs(3)]
    BY <1>4 DEF Wake
  <1>7. codec' = [codec EXCEPT ![p] = {"enc", "dec"}]
    BY <1>5, <1>6
  <1>8. CASE OffhookDialTone(p)
    BY <1>1, <1>2, <1>6, <1>7, <1>8 DEF OffhookDialTone, PlayTone
  <1>9. CASE OffhookAnswer(p)
    <2>1. channel_state[p] = "RINGING"
      BY <1>9 DEF OffhookAnswer
    <2>2. /\ tone' = [tone EXCEPT ![p] = "none"] /\ GotoWith("monitor", "answer", owner[p])
          /\ UNCHANGED <<pvtVars, hook, bell, chanVars, due, fault>>
      BY <1>3, <1>9, <2>1 DEF OffhookAnswer, PlayTone
    <2> QED BY <1>1, <1>2, <1>3, <1>6, <1>7, <2>1, <2>2 DEF pvtVars
  <1> QED BY <1>8, <1>9

\* A key is pressed while the user listens to the dial tone or dials.
LEMMA DigitEffect ==
  ASSUME Facts, NEW p \in Port, DigitOfNumber(p) \/ DigitHash(p)
  PROVE  /\ hook[p] = "off" /\ pc["monitor"] = "digit" /\ port["monitor"] = p
         /\ channel_state[p] \in {"OFFHOOK", "DIALING"} /\ owner[p] = NULL /\ Fed(p)
         /\ channel_state' = [channel_state EXCEPT ![p] = "DIALING"]
         /\ tone' = [tone EXCEPT ![p] = IF @ = "dial" THEN "none" ELSE @]
         /\ \/ Done("monitor") /\ \E h \in FreshHandle : ReplaceTimer(p, h)
            \/ Goto("monitor", "lookup") /\ CancelTimer(p)
         /\ UNCHANGED <<owner, hook, feed, codec, bell, chanVars, fault>>
  <1>1. /\ pc["monitor"] = "digit" /\ port["monitor"] = p
        /\ channel_state[p] \in {"OFFHOOK", "DIALING"}
    BY DEF DigitOfNumber, DigitHash, Enter, Runs, At
  <1>2. hook[p] = "off" /\ owner[p] = NULL
    BY <1>1, Alone DEF Facts, CallInv, HandlerInv, Fetched
  <1>3. Fed(p) /\ (tone[p] = "dial" <=> channel_state[p] = "OFFHOOK")
    BY <1>1 DEF Facts, CallInv, SoundInv, At
  <1>4. /\ channel_state' = [channel_state EXCEPT ![p] = "DIALING"]
        /\ tone' = [tone EXCEPT ![p] = IF channel_state[p] = "OFFHOOK" THEN "none" ELSE @]
        /\ \/ Done("monitor") /\ \E h \in FreshHandle : ReplaceTimer(p, h)
           \/ Goto("monitor", "lookup") /\ CancelTimer(p)
        /\ UNCHANGED <<owner, hook, feed, codec, bell, chanVars, fault>>
    BY <1>1 DEF DigitOfNumber, DigitHash
  <1> QED BY <1>1, <1>2, <1>3, <1>4

\* A hangup leaves the other channels and the other ports as they are.
LEMMA HungUpOthers ==
  ASSUME Facts, NEW c \in Chan, NEW p \in Port, p = tech[c], owner[p] = c, HungUp(c, p)
  PROVE  /\ ~Live(c)' /\ ctl'[c] = {} /\ tech'[c] = NULL /\ owner'[p] = NULL
         /\ channel_state'[p] = IF channel_state[p] = "INCALL" THEN "CALL_ENDED" ELSE "ONHOOK"
         /\ \A d \in Chan \ {c} :
              /\ ast'[d] = ast[d] /\ ctl'[d] = ctl[d] /\ tech'[d] = tech[d]
              /\ Live(d) => tech[d] \in Port \ {p}
         /\ \A q \in Port \ {p} :
              /\ owner'[q] = owner[q] /\ owner[q] # c
              /\ channel_state'[q] = channel_state[q]
  <1>1. /\ \A d \in Chan : Live(d) => tech[d] \in Port /\ owner[tech[d]] = d
        /\ \A q \in Port : owner[q] # NULL => tech[owner[q]] = q
    BY Parts DEF IInv, ChanInv, OwnerSound, OwnerIsLive
  <1>2. ~Live(c)' /\ ctl'[c] = {} /\ tech'[c] = NULL /\ owner'[p] = NULL
    BY Types DEF HungUp, Live
  <1>3. channel_state'[p] = IF channel_state[p] = "INCALL" THEN "CALL_ENDED" ELSE "ONHOOK"
    BY Types DEF HungUp
  <1>4. ASSUME NEW d \in Chan \ {c}
        PROVE  /\ ast'[d] = ast[d] /\ ctl'[d] = ctl[d] /\ tech'[d] = tech[d]
               /\ Live(d) => tech[d] \in Port \ {p}
    BY <1>1, Types DEF HungUp
  <1>5. ASSUME NEW q \in Port \ {p}
        PROVE  /\ owner'[q] = owner[q] /\ owner[q] # c
               /\ channel_state'[q] = channel_state[q]
    BY <1>1, Types, NullAssumption DEF HungUp
  <1> QED BY <1>2, <1>3, <1>4, <1>5

\* The callback starts on a port nobody works on, and nobody starts on its port.
LEMMA ApartStep ==
  ASSUME Facts, Next
  PROVE  Apart'
  BY QuietApart DEF Facts, Calm, IInv, CallInv

\* Only the monitor adds to the buffer of a port.
LEMMA BufferStep ==
  ASSUME Facts, Next
  PROVE  BufferInv'
  <1> USE DEF BufferInv, HasRoom, At, Runs, Worker, pvtVars, runVars
  <1>a. /\ pc \in [Worker -> Step] /\ key \in [Worker -> Digit \cup {"#", NULL} \cup Handle]
        /\ dtmfbuf \in [Port -> Seq(Digit)] /\ BufferInv /\ "short" \in Env
        /\ port \in [Worker -> Port \cup {NULL}]
        /\ \A t \in Worker : pc[t] # "idle" => port[t] \in Port
        /\ chan \in [Worker -> Chan \cup {NULL}]
    BY Types, Parts DEF Calm
  <1>0. ASSUME UNCHANGED dtmfbuf, \/ UNCHANGED <<pc["monitor"], port["monitor"], key["monitor"]>>
                                 \/ pc'["monitor"] # "digit"
        PROVE  BufferInv'
    BY <1>0, <1>a
  <1>1. ASSUME NEW p \in Port, NEW k \in Digit \cup {"#"}, FetchDigit(p, k) PROVE BufferInv'
    <2>1. /\ pc'["monitor"] = "digit" /\ port'["monitor"] = p /\ key'["monitor"] = k
          /\ UNCHANGED dtmfbuf
      BY <1>1, <1>a DEF FetchDigit, Fetch, Begin
    <2>2. k # "#" => HasRoom(p)
      BY <1>1, <1>a DEF FetchDigit
    <2> QED BY <2>1, <2>2
  <1>2. ASSUME NEW p \in Port,
               \/ FetchOnhook(p) \/ FetchOffhook(p) \/ Onhook(p, 3) \/ OnhookSet(p)
               \/ OffhookDialTone(p) \/ OffhookAnswer(p)
        PROVE  BufferInv'
    BY <1>0, <1>2, <1>a DEF FetchOnhook, FetchOffhook, Fetch, Begin, Onhook, OnhookSet,
       OffhookDialTone, OffhookAnswer, Goto, GotoWith, Done
  <1>3. ASSUME NEW p \in Port,
               DigitInCall(p) \/ DigitOfNumber(p) \/ DigitHash(p) \/ DigitIgnored(p)
        PROVE  BufferInv'
    <2>1. pc'["monitor"] # "digit"
      BY <1>3, <1>a DEF DigitInCall, DigitOfNumber, DigitHash, DigitIgnored, Goto, GotoWith, Done
    <2> QED BY <2>1
  <1>4. ASSUME NEW c \in Chan, QueueHangup(c) \/ QueueAnswer(c) \/ QueueDigit(c)
        PROVE  BufferInv'
    BY <1>4, <1>a DEF QueueHangup, QueueAnswer, QueueDigit, GotoWith, Done
  <1>5. ASSUME NEW t \in Worker,
               \/ Lookup(t) \/ Connect(t) \/ UndoLock(t) \/ UndoHangup(t)
               \/ \E c \in Chan : Alloc(t, c)
        PROVE  BufferInv'
    BY <1>0, <1>5, <1>a DEF Lookup, Connect, UndoLock, UndoHangup, Alloc, Goto, GotoWith
  <1>6. ASSUME NEW t \in Worker, Reset(t) PROVE BufferInv'
    <2>1. pc[t] = "reset" /\ (t = "monitor" => pc'["monitor"] = "idle")
          /\ (t # "monitor" => UNCHANGED <<pc["monitor"], port["monitor"], key["monitor"]>>)
          /\ dtmfbuf' = [dtmfbuf EXCEPT ![port[t]] = <<>>]
      BY <1>6, <1>a DEF Reset, Done
    <2>2. t # "monitor" /\ pc["monitor"] # "idle" => port["monitor"] # port[t]
      BY <2>1, Parts DEF Apart
    <2> QED BY <2>1, <2>2, <1>a
  <1>7. CASE DialTimeout \/ \E h \in Handle : Fire(h)
    BY <1>0, <1>7, <1>a DEF DialTimeout, Fire, Begin, Goto, Done
  <1>8. ASSUME NEW c \in Chan,
               \/ CallLock(c) \/ HangLock(c) \/ Call(c) \/ Hangup(c)
               \/ ReadAnswer(c) \/ PbxAnswer(c) \/ Leave(c)
               \/ \E s \in {"none", "busy", "ringing"} : Indicate(c, s)
               \/ \E p \in Port : Request(c, p)
        PROVE  BufferInv'
    BY <1>0, <1>8 DEF CallLock, HangLock, LockLeg, Call, Hangup, ReadAnswer, PbxAnswer, Leave,
       Indicate, Request
  <1> QED BY <1>1, <1>2, <1>3, <1>4, <1>5, <1>6, <1>7, <1>8, CalmNext

\* The dialling keeps what it knows of its port.
LEMMA DialStep ==
  ASSUME Facts, Next
  PROVE  DialInv'
  <1> USE NullAssumption DEF DialInv, Apart, Dialling, Worker
  <1>a. /\ pc \in [Worker -> Step]
        /\ port \in [Worker -> Port \cup {NULL}]
        /\ hook \in [Port -> {"on", "off"}]
        /\ channel_state \in [Port -> State]
        /\ owner \in [Port -> Chan \cup {NULL}]
        /\ dial_timer \in [Port -> Handle \cup {NULL}]
        /\ chan \in [Worker -> Chan \cup {NULL}]
        /\ \A t \in Worker : pc[t] # "idle" => port[t] \in Port
        /\ DialInv /\ Apart /\ Calm
    BY Types, Parts
  <1>0. ASSUME UNCHANGED <<pc, port, hook, channel_state, owner, dial_timer, chan>> PROVE
        DialInv'
    BY <1>0, <1>a
  <1>1. ASSUME NEW c \in Chan, CallLock(c) \/ HangLock(c) \/ ReadAnswer(c) \/ PbxAnswer(c)
        PROVE DialInv'
    BY <1>0, <1>1 DEF CallLock, LockLeg, HangLock, ReadAnswer, PbxAnswer, runVars, lineVars,
         pvtVars
  <1>2. ASSUME NEW c \in Chan, (\E s \in {"none", "busy", "ringing"} : Indicate(c, s)) \/
        Leave(c) PROVE DialInv'
    BY <1>0, <1>2 DEF Indicate, PlayTone, Leave, runVars, lineVars, pvtVars
  <1>3. ASSUME NEW p \in Port, FetchOnhook(p) PROVE DialInv'
    BY <1>3, <1>a DEF FetchOnhook, Fetch, Begin, QuietTimer, Busy, Calm, runVars, lineVars,
         pvtVars
  <1>4. ASSUME NEW p \in Port, FetchOffhook(p) PROVE DialInv'
    BY <1>4, <1>a DEF FetchOffhook, Fetch, Begin, QuietTimer, Busy, Calm, runVars, lineVars,
         pvtVars
  <1>5. ASSUME NEW p \in Port, (\E k \in Digit \cup {"#"} : FetchDigit(p, k)) PROVE DialInv'
    BY <1>5, <1>a DEF FetchDigit, Fetch, Begin, QuietTimer, Busy, Calm, runVars, lineVars,
         pvtVars
  <1>6. ASSUME NEW p \in Port, Onhook(p, 3) PROVE DialInv'
    BY <1>6, <1>a, OnhookStart DEF Goto, GotoWith, CancelTimer, runVars, lineVars, pvtVars
  <1>7. ASSUME NEW p \in Port, OnhookSet(p) PROVE DialInv'
    BY <1>7, <1>a, OnhookEffect DEF Done, runVars, lineVars, pvtVars
  <1>8. ASSUME NEW p \in Port, OffhookDialTone(p) \/ OffhookAnswer(p) PROVE DialInv'
    BY <1>8, <1>a, OffhookStart DEF Done, GotoWith, runVars, lineVars, pvtVars
  <1>9. ASSUME NEW p \in Port, DigitInCall(p) PROVE DialInv'
    BY <1>9, <1>a DEF DigitInCall, Done, GotoWith, Enter, Runs, At, runVars, lineVars,
         pvtVars
  <1>10. ASSUME NEW p \in Port, DigitOfNumber(p) \/ DigitHash(p) PROVE DialInv'
    BY <1>10, <1>a, DigitEffect DEF Done, Goto, ReplaceTimer, CancelTimer, FreshHandle,
         runVars, lineVars, pvtVars
  <1>11. ASSUME NEW p \in Port, DigitIgnored(p) PROVE DialInv'
    BY <1>11, <1>a DEF DigitIgnored, Done, runVars, lineVars, pvtVars
  <1>12. ASSUME NEW c \in Chan, QueueHangup(c) PROVE DialInv'
    BY <1>12, <1>a DEF QueueHangup, GotoWith, Runs, At, runVars, lineVars, pvtVars
  <1>13. ASSUME NEW c \in Chan, QueueAnswer(c) PROVE DialInv'
    BY <1>13, <1>a, AnswerEffect DEF Done, runVars, lineVars, pvtVars
  <1>14. ASSUME NEW c \in Chan, QueueDigit(c) PROVE DialInv'
    BY <1>14, <1>a DEF QueueDigit, Done, runVars, lineVars, pvtVars
  <1>15. ASSUME NEW t \in Worker, Lookup(t) PROVE DialInv'
    BY <1>15, <1>a, LookupEffect DEF runVars, lineVars, pvtVars
  <1>16. ASSUME NEW c \in Chan, NEW t \in Worker, Alloc(t, c) PROVE DialInv'
    BY <1>16, <1>a, AllocEffect DEF runVars, lineVars, pvtVars
  <1>17. ASSUME NEW t \in Worker, Connect(t) PROVE DialInv'
    BY <1>17, <1>a, ConnectEffect DEF runVars, lineVars, pvtVars
  <1>18. ASSUME NEW t \in Worker, UndoLock(t) PROVE DialInv'
    BY <1>18, <1>a DEF UndoLock, Goto, Runs, At, runVars, lineVars, pvtVars
  <1>19. ASSUME NEW t \in Worker, UndoHangup(t) PROVE DialInv'
    BY <1>19, <1>a, UndoEffect DEF HungUp, runVars, lineVars, pvtVars
  <1>20. ASSUME NEW t \in Worker, Reset(t) PROVE DialInv'
    BY <1>20, <1>a DEF Reset, Done, runVars, lineVars, pvtVars
  <1>21. CASE DialTimeout
    BY <1>21, <1>a DEF DialTimeout, Goto, Done, Runs, At, runVars, lineVars, pvtVars
  <1>22. ASSUME NEW h \in Handle, Fire(h) PROVE DialInv'
    BY <1>22, <1>a, FireEffect DEF Begin, runVars, lineVars, pvtVars
  <1>23. ASSUME NEW c \in Chan, NEW p \in Port, Request(c, p) PROVE DialInv'
    BY <1>23, <1>a, RequestEffect DEF runVars, lineVars, pvtVars
  <1>24. ASSUME NEW c \in Chan, Call(c) PROVE DialInv'
    BY <1>24, <1>a, CallEffect DEF runVars, lineVars, pvtVars
  <1>25. ASSUME NEW c \in Chan, Hangup(c) PROVE DialInv'
    BY <1>25, <1>a, HangupEffect DEF HungUp, runVars, lineVars, pvtVars
  <1> QED BY <1>1, <1>2, <1>3, <1>4, <1>5, <1>6, <1>7, <1>8, <1>9, <1>10, <1>11, <1>12,
             <1>13, <1>14, <1>15, <1>16, <1>17, <1>18, <1>19, <1>20, <1>21, <1>22, <1>23,
             <1>24, <1>25, CalmNext

\* What a handler read before it waited for a channel lock stays so while it waits.
LEMMA HandlerStep ==
  ASSUME Facts, Next
  PROVE  HandlerInv'
  <1> USE NullAssumption DEF HandlerInv, Apart, Raised, State, Worker, Fed
  <1>a. /\ pc \in [Worker -> Step]
        /\ port \in [Worker -> Port \cup {NULL}]
        /\ hook \in [Port -> {"on", "off"}]
        /\ channel_state \in [Port -> State]
        /\ owner \in [Port -> Chan \cup {NULL}]
        /\ dial_timer \in [Port -> Handle \cup {NULL}]
        /\ chan \in [Worker -> Chan \cup {NULL}]
        /\ feed \in [Port -> {"standby", "active"}]
        /\ codec \in [Port -> SUBSET {"enc", "dec"}]
        /\ \A t \in Worker : pc[t] # "idle" => port[t] \in Port
        /\ HandlerInv /\ Apart /\ HookAgrees /\ Calm
    BY Types, Parts
  <1>0. ASSUME UNCHANGED <<pc, port, hook, channel_state, owner, dial_timer, chan, feed,
        codec>> PROVE HandlerInv'
    BY <1>0, <1>a
  <1>1. ASSUME NEW c \in Chan, CallLock(c) \/ HangLock(c) \/ ReadAnswer(c) \/ PbxAnswer(c)
        PROVE HandlerInv'
    BY <1>0, <1>1 DEF CallLock, LockLeg, HangLock, ReadAnswer, PbxAnswer, runVars, lineVars,
         pvtVars
  <1>2. ASSUME NEW c \in Chan, (\E s \in {"none", "busy", "ringing"} : Indicate(c, s)) \/
        Leave(c) PROVE HandlerInv'
    BY <1>0, <1>2 DEF Indicate, PlayTone, Leave, runVars, lineVars, pvtVars
  <1>3. ASSUME NEW p \in Port, FetchOnhook(p) PROVE HandlerInv'
    BY <1>3, <1>a DEF FetchOnhook, Fetch, Begin, HookAgrees, Busy, Runs, At, runVars,
         lineVars, pvtVars
  <1>4. ASSUME NEW p \in Port, FetchOffhook(p) PROVE HandlerInv'
    BY <1>4, <1>a DEF FetchOffhook, Fetch, Begin, HookAgrees, Busy, Settled, Calm, Runs, At,
         runVars, lineVars, pvtVars
  <1>5. ASSUME NEW p \in Port, (\E k \in Digit \cup {"#"} : FetchDigit(p, k)) PROVE
        HandlerInv'
    BY <1>5, <1>a DEF FetchDigit, Fetch, Begin, HookAgrees, Busy, Runs, At, runVars,
         lineVars, pvtVars
  <1>6. ASSUME NEW p \in Port, Onhook(p, 3) PROVE HandlerInv'
    BY <1>6, <1>a, OnhookStart, NoTimer DEF Goto, GotoWith, CancelTimer, runVars, lineVars,
         pvtVars
  <1>7. ASSUME NEW p \in Port, OnhookSet(p) PROVE HandlerInv'
    BY <1>7, <1>a, OnhookEffect DEF Done, runVars, lineVars, pvtVars
  <1>8. ASSUME NEW p \in Port, OffhookDialTone(p) \/ OffhookAnswer(p) PROVE HandlerInv'
    BY <1>8, <1>a, OffhookStart DEF Done, GotoWith, runVars, lineVars, pvtVars
  <1>9. ASSUME NEW p \in Port, DigitInCall(p) PROVE HandlerInv'
    BY <1>9, <1>a DEF DigitInCall, Done, GotoWith, Enter, Runs, At, runVars, lineVars,
         pvtVars
  <1>10. ASSUME NEW p \in Port, DigitOfNumber(p) \/ DigitHash(p) PROVE HandlerInv'
    BY <1>10, <1>a, DigitEffect DEF Done, Goto, ReplaceTimer, CancelTimer, FreshHandle,
         runVars, lineVars, pvtVars
  <1>11. ASSUME NEW p \in Port, DigitIgnored(p) PROVE HandlerInv'
    BY <1>11, <1>a DEF DigitIgnored, Done, runVars, lineVars, pvtVars
  <1>12. ASSUME NEW c \in Chan, QueueHangup(c) PROVE HandlerInv'
    BY <1>12, <1>a, NoTimer DEF QueueHangup, GotoWith, Runs, At, runVars, lineVars, pvtVars
  <1>13. ASSUME NEW c \in Chan, QueueAnswer(c) PROVE HandlerInv'
    BY <1>13, <1>a, AnswerEffect DEF Done, runVars, lineVars, pvtVars
  <1>14. ASSUME NEW c \in Chan, QueueDigit(c) PROVE HandlerInv'
    BY <1>14, <1>a DEF QueueDigit, Done, runVars, lineVars, pvtVars
  <1>15. ASSUME NEW t \in Worker, Lookup(t) PROVE HandlerInv'
    BY <1>15, <1>a, LookupEffect DEF runVars, lineVars, pvtVars
  <1>16. ASSUME NEW c \in Chan, NEW t \in Worker, Alloc(t, c) PROVE HandlerInv'
    BY <1>16, <1>a, AllocEffect DEF runVars, lineVars, pvtVars
  <1>17. ASSUME NEW t \in Worker, Connect(t) PROVE HandlerInv'
    BY <1>17, <1>a, ConnectEffect DEF runVars, lineVars, pvtVars
  <1>18. ASSUME NEW t \in Worker, UndoLock(t) PROVE HandlerInv'
    BY <1>18, <1>a DEF UndoLock, Goto, Runs, At, runVars, lineVars, pvtVars
  <1>19. ASSUME NEW t \in Worker, UndoHangup(t) PROVE HandlerInv'
    BY <1>19, <1>a, UndoEffect DEF HungUp, runVars, lineVars, pvtVars
  <1>20. ASSUME NEW t \in Worker, Reset(t) PROVE HandlerInv'
    BY <1>20, <1>a DEF Reset, Done, runVars, lineVars, pvtVars
  <1>21. CASE DialTimeout
    BY <1>21, <1>a DEF DialTimeout, Goto, Done, Runs, At, runVars, lineVars, pvtVars
  <1>22. ASSUME NEW h \in Handle, Fire(h) PROVE HandlerInv'
    BY <1>22, <1>a, FireEffect DEF Begin, runVars, lineVars, pvtVars
  <1>23. ASSUME NEW c \in Chan, NEW p \in Port, Request(c, p) PROVE HandlerInv'
    BY <1>23, <1>a, RequestEffect DEF runVars, lineVars, pvtVars
  <1>24. ASSUME NEW c \in Chan, Call(c) PROVE HandlerInv'
    BY <1>24, <1>a, CallEffect DEF runVars, lineVars, pvtVars
  <1>25. ASSUME NEW c \in Chan, Hangup(c) PROVE HandlerInv'
    BY <1>25, <1>a, HangupEffect DEF HungUp, Inside, Dialling, runVars, lineVars, pvtVars
  <1> QED BY <1>1, <1>2, <1>3, <1>4, <1>5, <1>6, <1>7, <1>8, <1>9, <1>10, <1>11, <1>12,
             <1>13, <1>14, <1>15, <1>16, <1>17, <1>18, <1>19, <1>20, <1>21, <1>22, <1>23,
             <1>24, <1>25, CalmNext

\* A port gets a channel when it is called or its number dialled, and loses it in time.
LEMMA PortStep ==
  ASSUME Facts, Next
  PROVE  PortInv'
  <1> USE NullAssumption DEF PortInv, State, Worker
  <1>a. /\ channel_state \in [Port -> State]
        /\ owner \in [Port -> Chan \cup {NULL}]
        /\ pc \in [Worker -> Step]
        /\ port \in [Worker -> Port \cup {NULL}]
        /\ \A t \in Worker : pc[t] # "idle" => port[t] \in Port
        /\ PortInv
    BY Types, Parts
  <1>0. ASSUME UNCHANGED <<channel_state, owner, pc, port>> PROVE PortInv'
    BY <1>0, <1>a
  <1>1. ASSUME NEW c \in Chan, CallLock(c) \/ HangLock(c) \/ ReadAnswer(c) \/ PbxAnswer(c)
        PROVE PortInv'
    BY <1>0, <1>1 DEF CallLock, LockLeg, HangLock, ReadAnswer, PbxAnswer, runVars, pvtVars
  <1>2. ASSUME NEW c \in Chan, (\E s \in {"none", "busy", "ringing"} : Indicate(c, s)) \/
        Leave(c) PROVE PortInv'
    BY <1>0, <1>2 DEF Indicate, PlayTone, Leave, runVars, pvtVars
  <1>3. ASSUME NEW p \in Port, FetchOnhook(p) PROVE PortInv'
    BY <1>3, <1>a DEF FetchOnhook, Fetch, Begin, Runs, At, runVars, pvtVars
  <1>4. ASSUME NEW p \in Port, FetchOffhook(p) PROVE PortInv'
    BY <1>4, <1>a DEF FetchOffhook, Fetch, Begin, Runs, At, runVars, pvtVars
  <1>5. ASSUME NEW p \in Port, (\E k \in Digit \cup {"#"} : FetchDigit(p, k)) PROVE PortInv'
    BY <1>5, <1>a DEF FetchDigit, Fetch, Begin, Runs, At, runVars, pvtVars
  <1>6. ASSUME NEW p \in Port, Onhook(p, 3) PROVE PortInv'
    BY <1>6, <1>a, OnhookStart DEF Goto, GotoWith, CancelTimer, runVars, pvtVars
  <1>7. ASSUME NEW p \in Port, OnhookSet(p) PROVE PortInv'
    BY <1>7, <1>a, OnhookEffect DEF Done, Raised, runVars, pvtVars
  <1>8. ASSUME NEW p \in Port, OffhookDialTone(p) \/ OffhookAnswer(p) PROVE PortInv'
    BY <1>8, <1>a, OffhookStart DEF Done, GotoWith, runVars, pvtVars
  <1>9. ASSUME NEW p \in Port, DigitInCall(p) PROVE PortInv'
    BY <1>9, <1>a DEF DigitInCall, Done, GotoWith, Enter, Runs, At, runVars, pvtVars
  <1>10. ASSUME NEW p \in Port, DigitOfNumber(p) \/ DigitHash(p) PROVE PortInv'
    BY <1>10, <1>a, DigitEffect DEF Done, Goto, ReplaceTimer, CancelTimer, FreshHandle,
         runVars, pvtVars
  <1>11. ASSUME NEW p \in Port, DigitIgnored(p) PROVE PortInv'
    BY <1>11, <1>a DEF DigitIgnored, Done, Enter, Runs, At, runVars, pvtVars
  <1>12. ASSUME NEW c \in Chan, QueueHangup(c) PROVE PortInv'
    BY <1>12, <1>a DEF QueueHangup, GotoWith, Runs, At, runVars, pvtVars
  <1>13. ASSUME NEW c \in Chan, QueueAnswer(c) PROVE PortInv'
    BY <1>13, <1>a, AnswerEffect DEF Done, runVars, pvtVars
  <1>14. ASSUME NEW c \in Chan, QueueDigit(c) PROVE PortInv'
    BY <1>14, <1>a DEF QueueDigit, Done, Runs, At, runVars, pvtVars
  <1>15. ASSUME NEW t \in Worker, Lookup(t) PROVE PortInv'
    BY <1>15, <1>a, LookupEffect DEF runVars, pvtVars
  <1>16. ASSUME NEW c \in Chan, NEW t \in Worker, Alloc(t, c) PROVE PortInv'
    BY <1>16, <1>a, AllocEffect DEF runVars, pvtVars
  <1>17. ASSUME NEW t \in Worker, Connect(t) PROVE PortInv'
    BY <1>17, <1>a, ConnectEffect DEF runVars, pvtVars
  <1>18. ASSUME NEW t \in Worker, UndoLock(t) PROVE PortInv'
    BY <1>18, <1>a DEF UndoLock, Goto, Runs, At, runVars, pvtVars
  <1>19. ASSUME NEW t \in Worker, UndoHangup(t) PROVE PortInv'
    BY <1>19, <1>a, UndoEffect DEF HungUp, runVars, pvtVars
  <1>20. ASSUME NEW t \in Worker, Reset(t) PROVE PortInv'
    BY <1>20, <1>a DEF Reset, Done, Runs, At, runVars, pvtVars
  <1>21. CASE DialTimeout
    BY <1>21, <1>a DEF DialTimeout, Goto, Done, Runs, At, runVars, pvtVars
  <1>22. ASSUME NEW h \in Handle, Fire(h) PROVE PortInv'
    BY <1>22, <1>a, FireEffect DEF Begin, runVars, pvtVars
  <1>23. ASSUME NEW c \in Chan, NEW p \in Port, Request(c, p) PROVE PortInv'
    BY <1>23, <1>a, RequestEffect DEF runVars, pvtVars
  <1>24. ASSUME NEW c \in Chan, Call(c) PROVE PortInv'
    BY <1>24, <1>a, CallEffect DEF runVars, pvtVars
  <1>25. ASSUME NEW c \in Chan, Hangup(c) PROVE PortInv'
    BY <1>25, <1>a, HangupEffect DEF HungUp, runVars, pvtVars
  <1> QED BY <1>1, <1>2, <1>3, <1>4, <1>5, <1>6, <1>7, <1>8, <1>9, <1>10, <1>11, <1>12,
             <1>13, <1>14, <1>15, <1>16, <1>17, <1>18, <1>19, <1>20, <1>21, <1>22, <1>23,
             <1>24, <1>25, CalmNext

\* The threads of the channels find their port as they left it.
LEMMA LegsStep ==
  ASSUME Facts, Next
  PROVE  LegInv'
  <1> USE NullAssumption DEF LegInv, Live, LegStep, AstState
  <1>a. /\ leg \in [Chan -> LegStep]
        /\ ast \in [Chan -> AstState]
        /\ channel_state \in [Port -> State]
        /\ tech \in [Chan -> Port \cup {NULL}]
        /\ ctl \in [Chan -> SUBSET Control]
        /\ LegInv
    BY Types, Parts
  <1>b. \A c \in Chan : Live(c) => tech[c] \in Port /\ owner[tech[c]] = c
    BY Parts DEF IInv, ChanInv, OwnerSound
  <1>0. ASSUME UNCHANGED <<leg, ast, channel_state, tech, ctl>> PROVE LegInv'
    BY <1>0, <1>a, <1>b
  <1>1. ASSUME NEW p \in Port, FetchOnhook(p) \/ FetchOffhook(p) \/ (\E k \in Digit \cup
        {"#"} : FetchDigit(p, k)) \/ Onhook(p, 3) PROVE LegInv'
    BY <1>0, <1>1 DEF FetchOnhook, Fetch, Begin, FetchOffhook, FetchDigit, Onhook, chanVars,
         pvtVars
  <1>2. ASSUME NEW p \in Port, OffhookAnswer(p) \/ DigitInCall(p) \/ DigitIgnored(p) PROVE
        LegInv'
    BY <1>0, <1>2 DEF OffhookAnswer, DigitInCall, Done, GotoWith, DigitIgnored, chanVars,
         pvtVars
  <1>3. ASSUME NEW c \in Chan, QueueDigit(c) \/ (\E s \in {"none", "busy", "ringing"} :
        Indicate(c, s)) PROVE LegInv'
    BY <1>0, <1>3 DEF QueueDigit, Done, Indicate, PlayTone, chanVars, pvtVars
  <1>4. ASSUME NEW t \in Worker, UndoLock(t) \/ Reset(t) PROVE LegInv'
    BY <1>0, <1>4 DEF UndoLock, Goto, Reset, Done, chanVars, pvtVars
  <1>5. ASSUME NEW h \in Handle, Fire(h) PROVE LegInv'
    BY <1>0, <1>5 DEF Fire, chanVars, pvtVars
  <1>6. CASE DialTimeout
    BY <1>0, <1>6 DEF DialTimeout, Goto, Done, chanVars, pvtVars
  <1>7. ASSUME NEW p \in Port, OnhookSet(p) PROVE LegInv'
    BY <1>7, <1>a, <1>b, OnhookEffect DEF Done, Raised, chanVars, pvtVars
  <1>8. ASSUME NEW p \in Port, OffhookDialTone(p) PROVE LegInv'
    BY <1>8, <1>a, <1>b, OffhookStart DEF Done, GotoWith, chanVars, pvtVars
  <1>9. ASSUME NEW p \in Port, DigitOfNumber(p) PROVE LegInv'
    BY <1>9, <1>a, <1>b, DigitEffect DEF Done, Goto, ReplaceTimer, CancelTimer, FreshHandle,
         chanVars, pvtVars
  <1>10. ASSUME NEW p \in Port, DigitHash(p) PROVE LegInv'
    BY <1>10, <1>a, <1>b, DigitEffect DEF Done, Goto, ReplaceTimer, CancelTimer,
         FreshHandle, chanVars, pvtVars
  <1>11. ASSUME NEW c \in Chan, QueueHangup(c) PROVE LegInv'
    BY <1>11, <1>a, <1>b, HandlerFacts DEF QueueHangup, GotoWith, Runs, At, chanVars,
         pvtVars
  <1>12. ASSUME NEW c \in Chan, QueueAnswer(c) PROVE LegInv'
    BY <1>12, <1>a, <1>b, AnswerEffect DEF Done, chanVars, pvtVars
  <1>13. ASSUME NEW t \in Worker, Lookup(t) PROVE LegInv'
    BY <1>13, <1>a, <1>b, LookupEffect DEF chanVars, pvtVars
  <1>14. ASSUME NEW c \in Chan, NEW t \in Worker, Alloc(t, c) PROVE LegInv'
    BY <1>14, <1>a, <1>b, AllocEffect DEF chanVars, pvtVars
  <1>15. ASSUME NEW t \in Worker, Connect(t) PROVE LegInv'
    BY <1>15, <1>a, <1>b, ConnectEffect DEF chanVars, pvtVars
  <1>16. ASSUME NEW t \in Worker, UndoHangup(t) PROVE LegInv'
    <2>1. PICK c \in Chan, p \in Port : /\ p = tech[c] /\ owner[p] = c /\ HungUp(c, p)
                                       /\ leg[c] = "none" /\ UNCHANGED leg
      BY <1>16, UndoEffect
    <2> QED BY <2>1, <1>a, <1>b, HungUpOthers
  <1>17. ASSUME NEW c \in Chan, NEW p \in Port, Request(c, p) PROVE LegInv'
    BY <1>17, <1>a, <1>b, RequestEffect DEF chanVars, pvtVars
  <1>18. ASSUME NEW c \in Chan, CallLock(c) PROVE LegInv'
    BY <1>18, <1>a, <1>b, LegFacts DEF CallLock, LockLeg, LegIs, chanVars, pvtVars
  <1>19. ASSUME NEW c \in Chan, HangLock(c) PROVE LegInv'
    BY <1>19, <1>a, <1>b DEF HangLock, LockLeg, LegIs, chanVars, pvtVars
  <1>20. ASSUME NEW c \in Chan, Call(c) PROVE LegInv'
    BY <1>20, <1>a, <1>b, CallEffect DEF chanVars, pvtVars
  <1>21. ASSUME NEW c \in Chan, ReadAnswer(c) PROVE LegInv'
    BY <1>21, <1>a, <1>b, LegFacts DEF ReadAnswer, LegIs, chanVars, pvtVars
  <1>22. ASSUME NEW c \in Chan, PbxAnswer(c) PROVE LegInv'
    BY <1>22, <1>a, <1>b, LegFacts DEF PbxAnswer, LegIs, chanVars, pvtVars
  <1>23. ASSUME NEW c \in Chan, Leave(c) PROVE LegInv'
    BY <1>23, <1>a, <1>b DEF Leave, LegIs, chanVars, pvtVars
  <1>24. ASSUME NEW c \in Chan, Hangup(c) PROVE LegInv'
    <2>1. PICK p \in Port : /\ p = tech[c] /\ owner[p] = c /\ HungUp(c, p)
                           /\ leg' = [leg EXCEPT ![c] = "none"]
      BY <1>24, HangupEffect
    <2> QED BY <1>24, <2>1, <1>a, <1>b, HungUpOthers
  <1> QED BY <1>1, <1>2, <1>3, <1>4, <1>5, <1>6, <1>7, <1>8, <1>9, <1>10, <1>11, <1>12,
             <1>13, <1>14, <1>15, <1>16, <1>17, <1>18, <1>19, <1>20, <1>21, <1>22, <1>23,
             <1>24, CalmNext

\* The line is fed and the tone is right in every state of the port.
LEMMA SoundStep ==
  ASSUME Facts, Next
  PROVE  SoundInv'
  <1> USE NullAssumption DEF SoundInv, State, At, Worker
  <1>a. /\ channel_state \in [Port -> State]
        /\ feed \in [Port -> {"standby", "active"}]
        /\ codec \in [Port -> SUBSET {"enc", "dec"}]
        /\ pc \in [Worker -> Step]
        /\ port \in [Worker -> Port \cup {NULL}]
        /\ tone \in [Port -> Tone]
        /\ \A t \in Worker : pc[t] # "idle" => port[t] \in Port
        /\ SoundInv
    BY Types, Parts
  <1>b. ASSUME NEW p \in Port
        PROVE  /\ feed'[p] = feed[p] /\ codec'[p] = codec[p] => (Fed(p)' <=> Fed(p))
               /\ feed'[p] = "active" /\ codec'[p] = {"enc", "dec"} => Fed(p)'
    BY DEF Fed
  <1>0. ASSUME UNCHANGED <<channel_state, feed, codec, pc, port, tone>> PROVE SoundInv'
    BY <1>0, <1>a, <1>b
  <1>1. ASSUME NEW c \in Chan, CallLock(c) \/ HangLock(c) \/ ReadAnswer(c) \/ PbxAnswer(c)
        PROVE SoundInv'
    BY <1>0, <1>1 DEF CallLock, LockLeg, HangLock, ReadAnswer, PbxAnswer, runVars, lineVars,
         pvtVars
  <1>2. ASSUME NEW c \in Chan, Leave(c) PROVE SoundInv'
    BY <1>0, <1>2 DEF Leave, runVars, lineVars, pvtVars
  <1>3. ASSUME NEW c \in Chan, NEW p \in Port, Request(c, p) PROVE SoundInv'
    BY <1>0, <1>3 DEF Request, runVars, lineVars, pvtVars
  <1>4. ASSUME NEW p \in Port, FetchOnhook(p) PROVE SoundInv'
    BY <1>4, <1>a, <1>b DEF FetchOnhook, Fetch, Begin, Runs, runVars, lineVars, pvtVars
  <1>5. ASSUME NEW p \in Port, FetchOffhook(p) PROVE SoundInv'
    BY <1>5, <1>a, <1>b DEF FetchOffhook, Fetch, Begin, Runs, runVars, lineVars, pvtVars
  <1>6. ASSUME NEW p \in Port, (\E k \in Digit \cup {"#"} : FetchDigit(p, k)) PROVE
        SoundInv'
    BY <1>6, <1>a, <1>b DEF FetchDigit, Fetch, Begin, Runs, runVars, lineVars, pvtVars
  <1>7. ASSUME NEW p \in Port, Onhook(p, 3) PROVE SoundInv'
    <2>1. /\ pc["monitor"] = "onhook" /\ port["monitor"] = p
          /\ UNCHANGED <<channel_state, port>>
          /\ \/ /\ channel_state[p] = "INCALL" /\ pc' = [pc EXCEPT !["monitor"] = "qhangup"]
                /\ UNCHANGED <<feed, codec, tone>>
             \/ /\ channel_state[p] = "DIALING" /\ pc' = [pc EXCEPT !["monitor"] = "onset"]
                /\ UNCHANGED <<feed, codec, tone>>
             \/ /\ channel_state[p] \in {"OFFHOOK", "CALL_ENDED"}
                /\ pc' = [pc EXCEPT !["monitor"] = "onset"]
                /\ tone' = [tone EXCEPT ![p] = "none"]
                /\ feed' = [feed EXCEPT ![p] = "standby"] /\ codec' = [codec EXCEPT ![p] = {}]
      BY <1>7, OnhookStart DEF Goto, GotoWith
    <2>2. CASE UNCHANGED <<feed, codec, tone>>
      BY <2>1, <2>2, <1>a, <1>b
    <2>3. CASE ~UNCHANGED <<feed, codec, tone>>
      BY <2>1, <2>3, <1>a, <1>b
    <2> QED BY <2>2, <2>3
  <1>8. ASSUME NEW p \in Port, OnhookSet(p) PROVE SoundInv'
    BY <1>8, <1>a, <1>b, OnhookEffect DEF Done, Raised, runVars, lineVars, pvtVars
  <1>9. ASSUME NEW p \in Port, OffhookDialTone(p) PROVE SoundInv'
    BY <1>9, <1>a, <1>b, OffhookStart DEF Done, GotoWith, runVars, lineVars, pvtVars
  <1>10. ASSUME NEW p \in Port, OffhookAnswer(p) PROVE SoundInv'
    BY <1>10, <1>a, <1>b, OffhookStart DEF Done, GotoWith, runVars, lineVars, pvtVars
  <1>11. ASSUME NEW p \in Port, DigitInCall(p) PROVE SoundInv'
    BY <1>11, <1>a, <1>b DEF DigitInCall, Done, GotoWith, Enter, Runs, runVars, lineVars,
         pvtVars
  <1>12. ASSUME NEW p \in Port, DigitOfNumber(p) \/ DigitHash(p) PROVE SoundInv'
    BY <1>12, <1>a, <1>b, DigitEffect DEF Done, Goto, ReplaceTimer, CancelTimer,
         FreshHandle, runVars, lineVars, pvtVars
  <1>13. ASSUME NEW p \in Port, DigitIgnored(p) PROVE SoundInv'
    BY <1>13, <1>a, <1>b DEF DigitIgnored, Done, Enter, Runs, runVars, lineVars, pvtVars
  <1>14. ASSUME NEW c \in Chan, QueueHangup(c) PROVE SoundInv'
    BY <1>14, <1>a, <1>b, HandlerFacts DEF QueueHangup, GotoWith, Runs, runVars, lineVars,
         pvtVars
  <1>15. ASSUME NEW c \in Chan, QueueAnswer(c) PROVE SoundInv'
    BY <1>15, <1>a, <1>b, AnswerEffect DEF Done, runVars, lineVars, pvtVars
  <1>16. ASSUME NEW c \in Chan, QueueDigit(c) PROVE SoundInv'
    BY <1>16, <1>a, <1>b DEF QueueDigit, Done, Runs, runVars, lineVars, pvtVars
  <1>17. ASSUME NEW t \in Worker, Lookup(t) PROVE SoundInv'
    BY <1>17, <1>a, <1>b, LookupEffect DEF runVars, lineVars, pvtVars
  <1>18. ASSUME NEW c \in Chan, NEW t \in Worker, Alloc(t, c) PROVE SoundInv'
    BY <1>18, <1>a, <1>b, AllocEffect DEF runVars, lineVars, pvtVars
  <1>19. ASSUME NEW t \in Worker, Connect(t) PROVE SoundInv'
    BY <1>19, <1>a, <1>b, ConnectEffect DEF runVars, lineVars, pvtVars
  <1>20. ASSUME NEW t \in Worker, UndoLock(t) PROVE SoundInv'
    BY <1>20, <1>a, <1>b DEF UndoLock, Goto, Runs, runVars, lineVars, pvtVars
  <1>21. ASSUME NEW t \in Worker, UndoHangup(t) PROVE SoundInv'
    BY <1>21, <1>a, <1>b, UndoEffect DEF HungUp, runVars, lineVars, pvtVars
  <1>22. ASSUME NEW t \in Worker, Reset(t) PROVE SoundInv'
    BY <1>22, <1>a, <1>b DEF Reset, Done, Runs, runVars, lineVars, pvtVars
  <1>23. CASE DialTimeout
    BY <1>23, <1>a, <1>b DEF DialTimeout, Goto, Done, Runs, runVars, lineVars, pvtVars
  <1>24. ASSUME NEW h \in Handle, Fire(h) PROVE SoundInv'
    BY <1>24, <1>a, <1>b, FireEffect DEF Begin, runVars, lineVars, pvtVars
  <1>25. ASSUME NEW c \in Chan, Call(c) PROVE SoundInv'
    BY <1>25, <1>a, <1>b, CallEffect DEF runVars, lineVars, pvtVars
  <1>26. ASSUME NEW c \in Chan, (\E s \in {"none", "busy", "ringing"} : Indicate(c, s))
        PROVE SoundInv'
    BY <1>26, <1>a, <1>b, LegFacts DEF Indicate, PlayTone, LegIs, runVars, lineVars, pvtVars
  <1>27. ASSUME NEW c \in Chan, Hangup(c) PROVE SoundInv'
    BY <1>27, <1>a, <1>b, HangupEffect DEF HungUp, runVars, lineVars, pvtVars
  <1> QED BY <1>1, <1>2, <1>3, <1>4, <1>5, <1>6, <1>7, <1>8, <1>9, <1>10, <1>11, <1>12,
             <1>13, <1>14, <1>15, <1>16, <1>17, <1>18, <1>19, <1>20, <1>21, <1>22, <1>23,
             <1>24, <1>25, <1>26, <1>27, CalmNext

\* The timer that has fired is the recorded one until the callback clears it.
LEMMA FiredStep ==
  ASSUME Facts, Next
  PROVE  FiredInv'
  <1> USE NullAssumption DEF FiredInv, Apart, At, Worker
  <1>a. /\ pc \in [Worker -> Step]
        /\ dial_timer \in [Port -> Handle \cup {NULL}]
        /\ port \in [Worker -> Port \cup {NULL}]
        /\ key \in [Worker -> Digit \cup {"#", NULL} \cup Handle]
        /\ \A t \in Worker : pc[t] # "idle" => port[t] \in Port
        /\ FiredInv /\ Apart
    BY Types, Parts
  <1>0. ASSUME UNCHANGED <<pc, dial_timer, port, key>> PROVE FiredInv'
    BY <1>0, <1>a
  <1>1. ASSUME NEW c \in Chan, CallLock(c) \/ HangLock(c) \/ Call(c) \/ ReadAnswer(c) PROVE
        FiredInv'
    BY <1>0, <1>1 DEF CallLock, LockLeg, HangLock, Call, ReadAnswer, runVars, pvtVars
  <1>2. ASSUME NEW c \in Chan, PbxAnswer(c) \/ (\E s \in {"none", "busy", "ringing"} :
        Indicate(c, s)) \/ Leave(c) \/ Hangup(c) PROVE FiredInv'
    BY <1>0, <1>2 DEF PbxAnswer, Indicate, PlayTone, Leave, Hangup, runVars, pvtVars
  <1>3. ASSUME NEW c \in Chan, NEW p \in Port, Request(c, p) PROVE FiredInv'
    BY <1>0, <1>3 DEF Request, runVars, pvtVars
  <1>4. ASSUME NEW p \in Port, FetchOnhook(p) PROVE FiredInv'
    BY <1>4, <1>a DEF FetchOnhook, Fetch, Begin, runVars, pvtVars
  <1>5. ASSUME NEW p \in Port, FetchOffhook(p) PROVE FiredInv'
    BY <1>5, <1>a DEF FetchOffhook, Fetch, Begin, runVars, pvtVars
  <1>6. ASSUME NEW p \in Port, (\E k \in Digit \cup {"#"} : FetchDigit(p, k)) PROVE
        FiredInv'
    BY <1>6, <1>a DEF FetchDigit, Fetch, Begin, runVars, pvtVars
  <1>7. ASSUME NEW p \in Port, Onhook(p, 3) PROVE FiredInv'
    BY <1>7, <1>a, OnhookStart DEF Goto, GotoWith, CancelTimer, runVars, pvtVars
  <1>8. ASSUME NEW p \in Port, OnhookSet(p) PROVE FiredInv'
    BY <1>8, <1>a, OnhookEffect DEF Done, runVars, pvtVars
  <1>9. ASSUME NEW p \in Port, OffhookDialTone(p) \/ OffhookAnswer(p) PROVE FiredInv'
    BY <1>9, <1>a, OffhookStart DEF Done, GotoWith, runVars, pvtVars
  <1>10. ASSUME NEW p \in Port, DigitInCall(p) PROVE FiredInv'
    BY <1>10, <1>a DEF DigitInCall, Done, GotoWith, Enter, Runs, runVars, pvtVars
  <1>11. ASSUME NEW p \in Port, DigitOfNumber(p) \/ DigitHash(p) PROVE FiredInv'
    BY <1>11, <1>a, DigitEffect DEF Done, Goto, ReplaceTimer, CancelTimer, FreshHandle,
         runVars, pvtVars
  <1>12. ASSUME NEW p \in Port, DigitIgnored(p) PROVE FiredInv'
    BY <1>12, <1>a DEF DigitIgnored, Done, runVars, pvtVars
  <1>13. ASSUME NEW c \in Chan, QueueHangup(c) PROVE FiredInv'
    BY <1>13, <1>a DEF QueueHangup, GotoWith, runVars, pvtVars
  <1>14. ASSUME NEW c \in Chan, QueueAnswer(c) PROVE FiredInv'
    BY <1>14, <1>a, AnswerEffect DEF Done, runVars, pvtVars
  <1>15. ASSUME NEW c \in Chan, QueueDigit(c) PROVE FiredInv'
    BY <1>15, <1>a DEF QueueDigit, Done, runVars, pvtVars
  <1>16. ASSUME NEW t \in Worker, Lookup(t) PROVE FiredInv'
    BY <1>16, <1>a, LookupEffect DEF runVars, pvtVars
  <1>17. ASSUME NEW c \in Chan, NEW t \in Worker, Alloc(t, c) PROVE FiredInv'
    BY <1>17, <1>a, AllocEffect DEF runVars, pvtVars
  <1>18. ASSUME NEW t \in Worker, Connect(t) PROVE FiredInv'
    BY <1>18, <1>a, ConnectEffect DEF runVars, pvtVars
  <1>19. ASSUME NEW t \in Worker, UndoLock(t) PROVE FiredInv'
    BY <1>19, <1>a DEF UndoLock, Goto, Runs, runVars, pvtVars
  <1>20. ASSUME NEW t \in Worker, UndoHangup(t) PROVE FiredInv'
    BY <1>20, <1>a, UndoEffect DEF HungUp, runVars, pvtVars
  <1>21. ASSUME NEW t \in Worker, Reset(t) PROVE FiredInv'
    BY <1>21, <1>a DEF Reset, Done, Runs, runVars, pvtVars
  <1>22. CASE DialTimeout
    BY <1>22, <1>a DEF DialTimeout, Goto, Done, Runs, runVars, pvtVars
  <1>23. ASSUME NEW h \in Handle, Fire(h) PROVE FiredInv'
    BY <1>23, <1>a, FireEffect DEF Begin, runVars, pvtVars
  <1> QED BY <1>1, <1>2, <1>3, <1>4, <1>5, <1>6, <1>7, <1>8, <1>9, <1>10, <1>11, <1>12,
             <1>13, <1>14, <1>15, <1>16, <1>17, <1>18, <1>19, <1>20, <1>21, <1>22, <1>23,
             CalmNext

\* Every channel is the owner of its port.
LEMMA OwnedStep ==
  ASSUME Facts, Next
  PROVE  Owned'
  <1> USE NullAssumption DEF OwnerSound, OwnerIsLive, Owned, Live
  <1>a. /\ ast \in [Chan -> AstState]
        /\ owner \in [Port -> Chan \cup {NULL}]
        /\ tech \in [Chan -> Port \cup {NULL}]
        /\ OwnerSound
    BY Types, Parts
  <1>b. \A c \in Chan : Live(c) => tech[c] \in Port /\ owner[tech[c]] = c
    BY Parts DEF IInv, ChanInv, OwnerSound
  <1>0. ASSUME UNCHANGED <<ast, owner, tech>> PROVE Owned'
    BY <1>0, <1>a, <1>b
  <1>1. ASSUME NEW p \in Port, FetchOnhook(p) \/ FetchOffhook(p) \/ (\E k \in Digit \cup
        {"#"} : FetchDigit(p, k)) \/ Onhook(p, 3) PROVE Owned'
    BY <1>0, <1>1 DEF FetchOnhook, Fetch, Begin, FetchOffhook, FetchDigit, Onhook, chanVars,
         pvtVars
  <1>2. ASSUME NEW p \in Port, OnhookSet(p) \/ OffhookDialTone(p) \/ OffhookAnswer(p) \/
        DigitInCall(p) PROVE Owned'
    BY <1>0, <1>2 DEF OnhookSet, OffhookDialTone, OffhookAnswer, DigitInCall, Done,
         GotoWith, chanVars, pvtVars
  <1>3. ASSUME NEW p \in Port, DigitOfNumber(p) \/ DigitHash(p) \/ DigitIgnored(p) PROVE
        Owned'
    BY <1>0, <1>3 DEF DigitOfNumber, DigitHash, DigitIgnored, Done, chanVars, pvtVars
  <1>4. ASSUME NEW c \in Chan, QueueHangup(c) \/ QueueAnswer(c) \/ QueueDigit(c) \/
        CallLock(c) PROVE Owned'
    BY <1>0, <1>4 DEF QueueHangup, GotoWith, QueueAnswer, QueueDigit, Done, CallLock,
         LockLeg, chanVars, pvtVars
  <1>5. ASSUME NEW c \in Chan, HangLock(c) \/ (\E s \in {"none", "busy", "ringing"} :
        Indicate(c, s)) \/ Leave(c) PROVE Owned'
    BY <1>0, <1>5 DEF HangLock, LockLeg, Indicate, PlayTone, Leave, chanVars, pvtVars
  <1>6. ASSUME NEW t \in Worker, Lookup(t) \/ UndoLock(t) \/ Reset(t) PROVE Owned'
    BY <1>0, <1>6 DEF Lookup, UndoLock, Goto, Reset, Done, chanVars, pvtVars
  <1>7. ASSUME NEW h \in Handle, Fire(h) PROVE Owned'
    BY <1>0, <1>7 DEF Fire, chanVars, pvtVars
  <1>8. CASE DialTimeout
    BY <1>0, <1>8 DEF DialTimeout, Goto, Done, chanVars, pvtVars
  <1>9. ASSUME NEW c \in Chan, NEW t \in Worker, Alloc(t, c) PROVE Owned'
    BY <1>9, <1>a, <1>b, AllocEffect DEF chanVars, pvtVars
  <1>10. ASSUME NEW t \in Worker, Connect(t) PROVE Owned'
    BY <1>10, <1>a, <1>b, ConnectEffect DEF chanVars, pvtVars
  <1>11. ASSUME NEW t \in Worker, UndoHangup(t) PROVE Owned'
    <2>1. PICK c \in Chan, p \in Port : /\ p = tech[c] /\ owner[p] = c /\ HungUp(c, p)
                                       /\ leg[c] = "none" /\ UNCHANGED leg
      BY <1>11, UndoEffect
    <2> QED BY <2>1, <1>a, <1>b, HungUpOthers
  <1>12. ASSUME NEW c \in Chan, NEW p \in Port, Request(c, p) PROVE Owned'
    BY <1>12, <1>a, <1>b, RequestEffect DEF chanVars, pvtVars
  <1>13. ASSUME NEW c \in Chan, Call(c) PROVE Owned'
    BY <1>13, <1>a, <1>b, CallEffect DEF chanVars, pvtVars
  <1>14. ASSUME NEW c \in Chan, ReadAnswer(c) PROVE Owned'
    BY <1>14, <1>a, <1>b, LegFacts DEF ReadAnswer, LegIs, chanVars, pvtVars
  <1>15. ASSUME NEW c \in Chan, PbxAnswer(c) PROVE Owned'
    BY <1>15, <1>a, <1>b, LegFacts DEF PbxAnswer, LegIs, chanVars, pvtVars
  <1>16. ASSUME NEW c \in Chan, Hangup(c) PROVE Owned'
    <2>1. PICK p \in Port : /\ p = tech[c] /\ owner[p] = c /\ HungUp(c, p)
                           /\ leg' = [leg EXCEPT ![c] = "none"]
      BY <1>16, HangupEffect
    <2> QED BY <1>16, <2>1, <1>a, <1>b, HungUpOthers
  <1> QED BY <1>1, <1>2, <1>3, <1>4, <1>5, <1>6, <1>7, <1>8, <1>9, <1>10, <1>11, <1>12,
             <1>13, <1>14, <1>15, <1>16, CalmNext

\* A port that talks or rings keeps its channel.
LEMMA CalledStep ==
  ASSUME Facts, Next
  PROVE  CallHasOwner'
  <1> USE NullAssumption DEF CallHasOwner, State, OwnerSound, OwnerIsLive
  <1>a. /\ channel_state \in [Port -> State]
        /\ owner \in [Port -> Chan \cup {NULL}]
        /\ ast \in [Chan -> AstState]
        /\ CallHasOwner /\ OwnerSound /\ LegInv
    BY Types, Parts
  <1>0. ASSUME UNCHANGED <<channel_state, owner, ast>> PROVE CallHasOwner'
    BY <1>0, <1>a
  <1>1. ASSUME NEW p \in Port, FetchOnhook(p) \/ FetchOffhook(p) \/ (\E k \in Digit \cup
        {"#"} : FetchDigit(p, k)) \/ Onhook(p, 3) PROVE CallHasOwner'
    BY <1>0, <1>1 DEF FetchOnhook, Fetch, Begin, FetchOffhook, FetchDigit, Onhook, chanVars,
         pvtVars
  <1>2. ASSUME NEW p \in Port, OffhookAnswer(p) \/ DigitInCall(p) \/ DigitIgnored(p) PROVE
        CallHasOwner'
    BY <1>0, <1>2 DEF OffhookAnswer, DigitInCall, Done, GotoWith, DigitIgnored, chanVars,
         pvtVars
  <1>3. ASSUME NEW c \in Chan, QueueHangup(c) \/ QueueDigit(c) \/ CallLock(c) \/ HangLock(c)
        PROVE CallHasOwner'
    BY <1>0, <1>3 DEF QueueHangup, GotoWith, QueueDigit, Done, CallLock, LockLeg, HangLock,
         chanVars, pvtVars
  <1>4. ASSUME NEW c \in Chan, (\E s \in {"none", "busy", "ringing"} : Indicate(c, s)) \/
        Leave(c) PROVE CallHasOwner'
    BY <1>0, <1>4 DEF Indicate, PlayTone, Leave, chanVars, pvtVars
  <1>5. ASSUME NEW t \in Worker, UndoLock(t) \/ Reset(t) PROVE CallHasOwner'
    BY <1>0, <1>5 DEF UndoLock, Goto, Reset, Done, chanVars, pvtVars
  <1>6. ASSUME NEW h \in Handle, Fire(h) PROVE CallHasOwner'
    BY <1>0, <1>6 DEF Fire, chanVars, pvtVars
  <1>7. CASE DialTimeout
    BY <1>0, <1>7 DEF DialTimeout, Goto, Done, chanVars, pvtVars
  <1>8. ASSUME NEW p \in Port, OnhookSet(p) PROVE CallHasOwner'
    BY <1>8, <1>a, OnhookEffect DEF Done, Raised, chanVars, pvtVars
  <1>9. ASSUME NEW p \in Port, OffhookDialTone(p) PROVE CallHasOwner'
    BY <1>9, <1>a, OffhookStart DEF Done, GotoWith, chanVars, pvtVars
  <1>10. ASSUME NEW p \in Port, DigitOfNumber(p) \/ DigitHash(p) PROVE CallHasOwner'
    BY <1>10, <1>a, DigitEffect DEF Done, Goto, ReplaceTimer, CancelTimer, FreshHandle,
         chanVars, pvtVars
  <1>11. ASSUME NEW c \in Chan, QueueAnswer(c) PROVE CallHasOwner'
    BY <1>11, <1>a, AnswerEffect DEF Done, chanVars, pvtVars
  <1>12. ASSUME NEW t \in Worker, Lookup(t) PROVE CallHasOwner'
    BY <1>12, <1>a, LookupEffect DEF chanVars, pvtVars
  <1>13. ASSUME NEW c \in Chan, NEW t \in Worker, Alloc(t, c) PROVE CallHasOwner'
    BY <1>13, <1>a, AllocEffect DEF chanVars, pvtVars
  <1>14. ASSUME NEW t \in Worker, Connect(t) PROVE CallHasOwner'
    BY <1>14, <1>a, ConnectEffect DEF chanVars, pvtVars
  <1>15. ASSUME NEW t \in Worker, UndoHangup(t) PROVE CallHasOwner'
    BY <1>15, <1>a, UndoEffect DEF HungUp, chanVars, pvtVars
  <1>16. ASSUME NEW c \in Chan, NEW p \in Port, Request(c, p) PROVE CallHasOwner'
    BY <1>16, <1>a, RequestEffect DEF chanVars, pvtVars
  <1>17. ASSUME NEW c \in Chan, Call(c) PROVE CallHasOwner'
    BY <1>17, <1>a, CallEffect DEF chanVars, pvtVars
  <1>18. ASSUME NEW c \in Chan, ReadAnswer(c) PROVE CallHasOwner'
    BY <1>18, <1>a, LegFacts DEF ReadAnswer, LegIs, LegInv, chanVars, pvtVars
  <1>19. ASSUME NEW c \in Chan, PbxAnswer(c) PROVE CallHasOwner'
    BY <1>19, <1>a, LegFacts DEF PbxAnswer, LegIs, chanVars, pvtVars
  <1>20. ASSUME NEW c \in Chan, Hangup(c) PROVE CallHasOwner'
    BY <1>20, <1>a, HangupEffect DEF HungUp, chanVars, pvtVars
  <1> QED BY <1>1, <1>2, <1>3, <1>4, <1>5, <1>6, <1>7, <1>8, <1>9, <1>10, <1>11, <1>12,
             <1>13, <1>14, <1>15, <1>16, <1>17, <1>18, <1>19, <1>20, CalmNext

\* The state of the port follows the handset, and the bell the state.
LEMMA HookStep ==
  ASSUME Facts, Next
  PROVE  HookAgrees'
  <1> USE NullAssumption DEF HookAgrees, State, Busy, Worker
  <1>a. /\ channel_state \in [Port -> State]
        /\ pc \in [Worker -> Step]
        /\ port \in [Worker -> Port \cup {NULL}]
        /\ hook \in [Port -> {"on", "off"}]
        /\ bell \in [Port -> BOOLEAN]
        /\ \A t \in Worker : pc[t] # "idle" => port[t] \in Port
        /\ HookAgrees /\ HandlerInv /\ DialInv /\ CallHasOwner
    BY Types, Parts
  <1>0. ASSUME UNCHANGED <<channel_state, pc, port, hook, bell>> PROVE HookAgrees'
    BY <1>0, <1>a
  <1>1. ASSUME NEW c \in Chan, CallLock(c) \/ HangLock(c) \/ ReadAnswer(c) \/ PbxAnswer(c)
        PROVE HookAgrees'
    BY <1>0, <1>1 DEF CallLock, LockLeg, HangLock, ReadAnswer, PbxAnswer, runVars, lineVars,
         pvtVars
  <1>2. ASSUME NEW c \in Chan, (\E s \in {"none", "busy", "ringing"} : Indicate(c, s)) \/
        Leave(c) PROVE HookAgrees'
    BY <1>0, <1>2 DEF Indicate, PlayTone, Leave, runVars, lineVars, pvtVars
  <1>3. ASSUME NEW c \in Chan, NEW p \in Port, Request(c, p) PROVE HookAgrees'
    BY <1>0, <1>3 DEF Request, runVars, lineVars, pvtVars
  <1>4. ASSUME NEW p \in Port, FetchOnhook(p) PROVE HookAgrees'
    BY <1>4, <1>a DEF FetchOnhook, Fetch, Begin, Runs, At, runVars, lineVars, pvtVars
  <1>5. ASSUME NEW p \in Port, FetchOffhook(p) PROVE HookAgrees'
    BY <1>5, <1>a DEF FetchOffhook, Fetch, Begin, Runs, At, runVars, lineVars, pvtVars
  <1>6. ASSUME NEW p \in Port, (\E k \in Digit \cup {"#"} : FetchDigit(p, k)) PROVE
        HookAgrees'
    BY <1>6, <1>a DEF FetchDigit, Fetch, Begin, Runs, At, runVars, lineVars, pvtVars
  <1>7. ASSUME NEW p \in Port, Onhook(p, 3) PROVE HookAgrees'
    BY <1>7, <1>a, OnhookStart DEF Goto, GotoWith, CancelTimer, Raised, runVars, lineVars,
         pvtVars
  <1>8. ASSUME NEW p \in Port, OnhookSet(p) PROVE HookAgrees'
    BY <1>8, <1>a, OnhookEffect DEF Done, Raised, runVars, lineVars, pvtVars
  <1>9. ASSUME NEW p \in Port, OffhookDialTone(p) \/ OffhookAnswer(p) PROVE HookAgrees'
    BY <1>9, <1>a, OffhookStart DEF Done, GotoWith, runVars, lineVars, pvtVars
  <1>10. ASSUME NEW p \in Port, DigitInCall(p) PROVE HookAgrees'
    BY <1>10, <1>a DEF DigitInCall, Done, GotoWith, Enter, Runs, At, HandlerInv,
         CallHasOwner, runVars, lineVars, pvtVars
  <1>11. ASSUME NEW p \in Port, DigitOfNumber(p) \/ DigitHash(p) PROVE HookAgrees'
    BY <1>11, <1>a, DigitEffect DEF Done, Goto, ReplaceTimer, CancelTimer, FreshHandle,
         runVars, lineVars, pvtVars
  <1>12. ASSUME NEW p \in Port, DigitIgnored(p) PROVE HookAgrees'
    BY <1>12, <1>a DEF DigitIgnored, Done, Enter, Runs, At, HandlerInv, Raised, runVars,
         lineVars, pvtVars
  <1>13. ASSUME NEW c \in Chan, QueueHangup(c) PROVE HookAgrees'
    BY <1>13, <1>a DEF QueueHangup, GotoWith, Runs, At, runVars, lineVars, pvtVars
  <1>14. ASSUME NEW c \in Chan, QueueAnswer(c) PROVE HookAgrees'
    BY <1>14, <1>a, AnswerEffect DEF Done, runVars, lineVars, pvtVars
  <1>15. ASSUME NEW c \in Chan, QueueDigit(c) PROVE HookAgrees'
    BY <1>15, <1>a, HandlerFacts DEF QueueDigit, Done, Runs, At, HandlerInv, runVars,
         lineVars, pvtVars
  <1>16. ASSUME NEW t \in Worker, Lookup(t) PROVE HookAgrees'
    BY <1>16, <1>a, LookupEffect DEF runVars, lineVars, pvtVars
  <1>17. ASSUME NEW c \in Chan, NEW t \in Worker, Alloc(t, c) PROVE HookAgrees'
    BY <1>17, <1>a, AllocEffect DEF runVars, lineVars, pvtVars
  <1>18. ASSUME NEW t \in Worker, Connect(t) PROVE HookAgrees'
    BY <1>18, <1>a, ConnectEffect DEF runVars, lineVars, pvtVars
  <1>19. ASSUME NEW t \in Worker, UndoLock(t) PROVE HookAgrees'
    BY <1>19, <1>a DEF UndoLock, Goto, Runs, At, runVars, lineVars, pvtVars
  <1>20. ASSUME NEW t \in Worker, UndoHangup(t) PROVE HookAgrees'
    BY <1>20, <1>a, UndoEffect DEF HungUp, DialInv, Dialling, runVars, lineVars, pvtVars
  <1>21. ASSUME NEW t \in Worker, Reset(t) PROVE HookAgrees'
    BY <1>21, <1>a DEF Reset, Done, Runs, At, DialInv, Dialling, runVars, lineVars, pvtVars
  <1>22. CASE DialTimeout
    BY <1>22, <1>a DEF DialTimeout, Goto, Done, Runs, At, runVars, lineVars, pvtVars
  <1>23. ASSUME NEW h \in Handle, Fire(h) PROVE HookAgrees'
    BY <1>23, <1>a, FireEffect DEF Begin, runVars, lineVars, pvtVars
  <1>24. ASSUME NEW c \in Chan, Call(c) PROVE HookAgrees'
    BY <1>24, <1>a, CallEffect DEF runVars, lineVars, pvtVars
  <1>25. ASSUME NEW c \in Chan, Hangup(c) PROVE HookAgrees'
    BY <1>25, <1>a, HangupEffect DEF HungUp, runVars, lineVars, pvtVars
  <1> QED BY <1>1, <1>2, <1>3, <1>4, <1>5, <1>6, <1>7, <1>8, <1>9, <1>10, <1>11, <1>12,
             <1>13, <1>14, <1>15, <1>16, <1>17, <1>18, <1>19, <1>20, <1>21, <1>22, <1>23,
             <1>24, <1>25, CalmNext

\* Timers are started and stopped with the dialling.
LEMMA DueStep ==
  ASSUME Facts, Next
  PROVE  TimerWhileDialing'
  <1> USE NullAssumption DEF TimerWhileDialing, State
  <1>a. /\ due \in [Handle -> Port \cup {NULL}]
        /\ channel_state \in [Port -> State]
        /\ dial_timer \in [Port -> Handle \cup {NULL}]
        /\ TimerWhileDialing /\ FiredInv /\ IInv /\ DialInv
    BY Types, Parts
  <1>0. ASSUME UNCHANGED <<due, channel_state, dial_timer>> PROVE TimerWhileDialing'
    BY <1>0, <1>a
  <1>1. ASSUME NEW p \in Port, FetchOnhook(p) \/ FetchOffhook(p) \/ (\E k \in Digit \cup
        {"#"} : FetchDigit(p, k)) \/ OffhookAnswer(p) PROVE TimerWhileDialing'
    BY <1>0, <1>1 DEF FetchOnhook, Fetch, Begin, FetchOffhook, FetchDigit, OffhookAnswer,
         pvtVars
  <1>2. ASSUME NEW p \in Port, DigitInCall(p) \/ DigitIgnored(p) PROVE TimerWhileDialing'
    BY <1>0, <1>2 DEF DigitInCall, Done, GotoWith, DigitIgnored, pvtVars
  <1>3. ASSUME NEW c \in Chan, QueueHangup(c) \/ QueueDigit(c) \/ CallLock(c) \/ HangLock(c)
        PROVE TimerWhileDialing'
    BY <1>0, <1>3 DEF QueueHangup, GotoWith, QueueDigit, Done, CallLock, LockLeg, HangLock,
         pvtVars
  <1>4. ASSUME NEW c \in Chan, ReadAnswer(c) \/ PbxAnswer(c) \/ (\E s \in {"none", "busy",
        "ringing"} : Indicate(c, s)) \/ Leave(c) PROVE TimerWhileDialing'
    BY <1>0, <1>4 DEF ReadAnswer, PbxAnswer, Indicate, PlayTone, Leave, pvtVars
  <1>5. ASSUME NEW t \in Worker, UndoLock(t) \/ Reset(t) PROVE TimerWhileDialing'
    BY <1>0, <1>5 DEF UndoLock, Goto, Reset, Done, pvtVars
  <1>6. ASSUME NEW c \in Chan, NEW p \in Port, Request(c, p) PROVE TimerWhileDialing'
    BY <1>0, <1>6 DEF Request, pvtVars
  <1>7. ASSUME NEW c \in Chan, NEW t \in Worker, Alloc(t, c) PROVE TimerWhileDialing'
    BY <1>0, <1>7 DEF Alloc, GotoWith, pvtVars
  <1>8. ASSUME NEW p \in Port, Onhook(p, 3) PROVE TimerWhileDialing'
    BY <1>8, <1>a, OnhookStart DEF Goto, GotoWith, CancelTimer, pvtVars
  <1>9. ASSUME NEW p \in Port, OnhookSet(p) PROVE TimerWhileDialing'
    BY <1>9, <1>a, OnhookEffect DEF Done, Raised, pvtVars
  <1>10. ASSUME NEW p \in Port, OffhookDialTone(p) PROVE TimerWhileDialing'
    BY <1>10, <1>a, OffhookStart DEF Done, GotoWith, pvtVars
  <1>11. ASSUME NEW p \in Port, DigitOfNumber(p) \/ DigitHash(p) PROVE TimerWhileDialing'
    BY <1>11, <1>a, DigitEffect DEF Done, Goto, ReplaceTimer, CancelTimer, FreshHandle,
         pvtVars
  <1>12. ASSUME NEW c \in Chan, QueueAnswer(c) PROVE TimerWhileDialing'
    BY <1>12, <1>a, AnswerEffect DEF Done, pvtVars
  <1>13. ASSUME NEW t \in Worker, Lookup(t) PROVE TimerWhileDialing'
    BY <1>13, <1>a, LookupEffect DEF pvtVars
  <1>14. ASSUME NEW t \in Worker, Connect(t) PROVE TimerWhileDialing'
    BY <1>14, <1>a, ConnectEffect DEF DialInv, pvtVars
  <1>15. ASSUME NEW t \in Worker, UndoHangup(t) PROVE TimerWhileDialing'
    BY <1>15, <1>a, UndoEffect DEF HungUp, pvtVars
  <1>16. CASE DialTimeout
    BY <1>16, <1>a DEF DialTimeout, Goto, Done, FiredInv, IInv, TimerInv, Runs, At, pvtVars
  <1>17. ASSUME NEW h \in Handle, Fire(h) PROVE TimerWhileDialing'
    BY <1>17, <1>a, FireEffect DEF Begin, pvtVars
  <1>18. ASSUME NEW c \in Chan, Call(c) PROVE TimerWhileDialing'
    BY <1>18, <1>a, CallEffect DEF pvtVars
  <1>19. ASSUME NEW c \in Chan, Hangup(c) PROVE TimerWhileDialing'
    BY <1>19, <1>a, HangupEffect DEF HungUp, pvtVars
  <1> QED BY <1>1, <1>2, <1>3, <1>4, <1>5, <1>6, <1>7, <1>8, <1>9, <1>10, <1>11, <1>12,
             <1>13, <1>14, <1>15, <1>16, <1>17, <1>18, <1>19, CalmNext

-----------------------------------------------------------------------------
\* No step of these marks a freed channel as used.
LEMMA StillSound ==
  ASSUME Facts, Next
  PROVE  ~fault'
  <1>1. ~fault
    BY NoFault
  <1>2. ~Breaks
    BY NoBreaks
  <1>3. ASSUME NEW p \in Port, Monitor(p) PROVE UNCHANGED fault
    BY <1>3 DEF Monitor, FetchOnhook, FetchOffhook, FetchDigit, Fetch, Onhook, OffhookFails,
       OnhookSet, OffhookDialTone, OffhookAnswer, DigitInCall, DigitOfNumber, DigitHash,
       DigitIgnored
  <1>4. ASSUME NEW c \in Chan, \/ QueueHangup(c) \/ EndDialingHangup(c)
                               \/ QueueAnswer(c) \/ QueueDigit(c)
        PROVE  UNCHANGED fault
    BY <1>4 DEF QueueHangup, EndDialingHangup, QueueAnswer, QueueDigit
  <1>5. ASSUME NEW t \in Worker, Dial(t) PROVE UNCHANGED fault
    BY <1>5 DEF Dial, Lookup, Connect, UndoLock, UndoHangup, Reset, Alloc
  <1>6. ASSUME NEW c \in Chan, Leg(c) PROVE UNCHANGED fault
    BY <1>6 DEF Leg, CallLock, HangLock, LockLeg, Call, ReadAnswer, PbxAnswer, Indicate,
       GiveUp, HeedHangup, Leave, Hangup, Request
  <1>7. DialTimeout \/ (\E h \in Handle : Fire(h)) \/ RequestBad => UNCHANGED fault
    BY DEF DialTimeout, Fire, RequestBad
  <1> QED BY <1>1, <1>2, <1>3, <1>4, <1>5, <1>6, <1>7 DEF Next

LEMMA InitCall ==
  ASSUME Calm, Init
  PROVE  CallInv
  <1>1. \A p \in Port : channel_state[p] = "ONHOOK" /\ hook[p] = "on"
    BY DEF Calm, Init, HookStatus
  <1>2. Apart /\ DialInv /\ HandlerInv /\ FiredInv /\ BufferInv
    BY DEF Init, Apart, DialInv, HandlerInv, FiredInv, Worker, Dialling, At, BufferInv
  <1>3. PortInv /\ LegInv /\ SoundInv /\ CallHasOwner /\ TimerWhileDialing
    BY <1>1 DEF Init, PortInv, LegInv, SoundInv, CallHasOwner, TimerWhileDialing, Live
  <1>4. OwnerSound /\ HookAgrees
    BY <1>1 DEF Init, OwnerSound, OwnerIsLive, HookAgrees, Live, Busy
  <1> QED BY <1>2, <1>3, <1>4 DEF CallInv

LEMMA NextCall ==
  ASSUME Facts, [Next]_vars
  PROVE  CallInv'
  <1>1. ASSUME Next PROVE CallInv'
    <2>1. Apart' /\ DialInv' /\ HandlerInv' /\ PortInv' /\ LegInv' /\ SoundInv' /\ FiredInv'
          /\ BufferInv'
      BY <1>1, BufferStep, ApartStep, DialStep, HandlerStep, PortStep, LegsStep, SoundStep, FiredStep
    <2>2. CallHasOwner' /\ HookAgrees' /\ TimerWhileDialing'
      BY <1>1, CalledStep, HookStep, DueStep
    <2>3. OwnerIsLive'
      <3>1. \A t \in Worker : ~ConnectFreed(t)
        BY NoBreaks DEF Breaks
      <3> QED BY <1>1, <3>1, Parts, OwnerStep DEF IInv, OwnerSound
    <2>4. Owned' /\ ~fault'
      BY <1>1, OwnedStep, StillSound
    <2>5. OwnerSound'
      BY <2>3, <2>4 DEF OwnerSound, Owned
    <2> QED BY <2>1, <2>2, <2>5 DEF CallInv
  <1>2. CASE UNCHANGED vars
    <2> USE <1>2 DEF vars, pvtVars, lineVars, chanVars, runVars
    <2>1. Apart' /\ DialInv' /\ HandlerInv' /\ PortInv' /\ FiredInv' /\ BufferInv'
      BY Parts DEF Apart, DialInv, HandlerInv, PortInv, FiredInv, At, Fed, BufferInv, HasRoom
    <2>2. LegInv' /\ SoundInv' /\ OwnerSound' /\ CallHasOwner'
      BY Parts DEF LegInv, SoundInv, OwnerSound, OwnerIsLive, CallHasOwner, Live, At, Fed
    <2>3. HookAgrees' /\ TimerWhileDialing'
      BY Parts DEF HookAgrees, TimerWhileDialing, Busy
    <2> QED BY <2>1, <2>2, <2>3 DEF CallInv
  <1> QED BY <1>1, <1>2

LEMMA SpecCall ==
  ASSUME Calm
  PROVE  Spec => [](IInv /\ CallInv)
  <1>1. Init => IInv /\ CallInv
    BY InitIInv, InitCall
  <1>2. IInv /\ CallInv /\ [Next]_vars => (IInv /\ CallInv)'
    BY NextIInv, NextCall DEF Facts
  <1> QED BY <1>1, <1>2, PTL DEF Spec

\* No thread goes on with a channel that was freed while it waited for a lock: not the
\* monitor in a handler, not the worker that dials, not the channel's own thread.
THEOREM NothingDangles ==
  ASSUME Calm
  PROVE  Spec => []NoneDangles
  <1>1. IInv /\ CallInv => NoneDangles
    BY NoFault DEF Facts, NoneDangles
  <1> QED BY <1>1, SpecCall, PTL

\* A port in a call has a channel to talk on, and one that rings has a channel for which
\* accept_call answers.
THEOREM CallsHaveOwners ==
  ASSUME Calm
  PROVE  Spec => []CallHasOwner
  <1>1. CallInv => CallHasOwner
    BY DEF CallInv
  <1> QED BY <1>1, SpecCall, PTL

\* Between handlers channel_state tells whether the handset is down, and the bell rings
\* exactly in state RINGING.
THEOREM HookCorrect ==
  ASSUME Calm
  PROVE  Spec => []HookAgrees
  <1>1. CallInv => HookAgrees
    BY DEF CallInv
  <1> QED BY <1>1, SpecCall, PTL

\* In a call the line is fed and both directions of the codec run; the dial tone sounds
\* exactly when a first digit is expected.
THEOREM VoiceCorrect ==
  ASSUME Calm
  PROVE  Spec => []VoicePathUp
  <1>1. CallInv => VoicePathUp
    BY DEF CallInv, SoundInv, VoicePathUp, Fed, Busy, At
  <1> QED BY <1>1, SpecCall, PTL

\* An autodial timer is pending only while its port is dialled, and is the one that
\* pvt->dial_timer names.
THEOREM TimersCorrect ==
  ASSUME Calm
  PROVE  Spec => []TimerWhileDialing
  <1>1. CallInv => TimerWhileDialing
    BY DEF CallInv
  <1> QED BY <1>1, SpecCall, PTL

-----------------------------------------------------------------------------
(* The refinement of PhoneLine: what the steps do to line and call.         *)

\* line and call of a port depend on its state and its owner only.
LEMMA PortSame ==
  ASSUME NEW q \in Port, channel_state'[q] = channel_state[q],
         \/ owner'[q] = owner[q] \/ channel_state[q] \notin {"RINGING", "INCALL"}
  PROVE  LineOf(q)' = LineOf(q) /\ CallOf(q)' = CallOf(q)
  BY DEF LineOf, CallOf

LEMMA LineMoves ==
  ASSUME NEW p \in Port, NEW from, NEW to, LineOf(p) \in from, LineOf(p)' = to,
         \A q \in Port \ {p} : LineOf(q)' = LineOf(q)
  PROVE  Phone!Move(p, from, to)
  BY DEF Phone!Move

LEMMA CallStays ==
  ASSUME \A q \in Port : CallOf(q)' = CallOf(q)
  PROVE  [p \in Port |-> CallOf(p)]' = [p \in Port |-> CallOf(p)]
  OBVIOUS

LEMMA CallLeaves ==
  ASSUME NEW p \in Port, CallOf(p)' = NULL, \A q \in Port \ {p} : CallOf(q)' = CallOf(q)
  PROVE  Phone!Leave(p)
  BY DEF Phone!Leave

LEMMA CallTaken ==
  ASSUME NEW p \in Port, NEW c, CallOf(p)' = c, \A q \in Port : CallOf(q) # c,
         \A q \in Port \ {p} : CallOf(q)' = CallOf(q)
  PROVE  Phone!Take(p, c)
  BY DEF Phone!Take

LEMMA PhoneStays ==
  ASSUME \A q \in Port : LineOf(q)' = LineOf(q) /\ CallOf(q)' = CallOf(q)
  PROVE  UNCHANGED Phone!vars
  BY DEF Phone!vars

\* No other port takes part in the call of a channel that a port owns.
LEMMA CallIsNew ==
  ASSUME Facts, NEW p \in Port, NEW c \in Chan, owner[p] = c,
         channel_state[p] \notin {"RINGING", "INCALL"}
  PROVE  \A q \in Port : CallOf(q) # c
  <1>1. c # NULL
    BY NullAssumption
  <1>2. \A q \in Port : owner[q] = c => q = p
    BY <1>1, Parts DEF OwnerSound, OwnerIsLive
  <1> QED BY <1>1, <1>2 DEF CallOf

\* The steps of the port's own handset and keys.
LEMMA HandsetStep ==
  ASSUME Facts, NEW p \in Port,
         \/ OnhookSet(p) \/ OffhookDialTone(p) \/ OffhookAnswer(p)
         \/ DigitOfNumber(p) \/ DigitHash(p)
  PROVE  Phone!Next \/ UNCHANGED Phone!vars
  <1>0. /\ UNCHANGED owner /\ channel_state \in [Port -> State]
        /\ \/ UNCHANGED channel_state
           \/ /\ channel_state[p] \in Raised
              /\ channel_state' = [channel_state EXCEPT ![p] = "ONHOOK"]
           \/ /\ channel_state[p] = "ONHOOK"
              /\ channel_state' = [channel_state EXCEPT ![p] = "OFFHOOK"]
           \/ /\ channel_state[p] \in {"OFFHOOK", "DIALING"}
              /\ channel_state' = [channel_state EXCEPT ![p] = "DIALING"]
    BY Types, OnhookEffect, OffhookStart, DigitEffect
  <1>1. \A q \in Port \ {p} : channel_state'[q] = channel_state[q]
    BY <1>0
  <1>2. \A q \in Port \ {p} : LineOf(q)' = LineOf(q) /\ CallOf(q)' = CallOf(q)
    BY <1>0, <1>1, PortSame
  <1>3. CASE UNCHANGED channel_state
    BY <1>0, <1>3, PortSame, PhoneStays
  <1>4. CASE /\ channel_state[p] \in Raised
             /\ channel_state' = [channel_state EXCEPT ![p] = "ONHOOK"]
    <2>1. LineOf(p) \in {"dialtone", "collecting", "connected", "ended"}
      BY <1>4 DEF LineOf, Raised
    <2>2. LineOf(p)' = "idle" /\ CallOf(p)' = NULL
      BY <1>0, <1>4 DEF LineOf, CallOf
    <2>3. Phone!HangUp(p)
      BY <1>2, <2>1, <2>2, LineMoves, CallLeaves DEF Phone!HangUp
    <2> QED BY <2>3 DEF Phone!Next
  <1>5. CASE /\ channel_state[p] = "ONHOOK"
             /\ channel_state' = [channel_state EXCEPT ![p] = "OFFHOOK"]
    <2>1. /\ LineOf(p) \in {"idle"} /\ LineOf(p)' = "dialtone" /\ CallOf(p)' = CallOf(p)
      BY <1>0, <1>5 DEF LineOf, CallOf
    <2>2. Phone!Lift(p)
      BY <1>2, <2>1, LineMoves, CallStays DEF Phone!Lift
    <2> QED BY <2>2 DEF Phone!Next
  <1>6. CASE /\ channel_state[p] = "OFFHOOK"
             /\ channel_state' = [channel_state EXCEPT ![p] = "DIALING"]
    <2>1. LineOf(p) \in {"dialtone"} /\ LineOf(p)' = "collecting" /\ CallOf(p)' = CallOf(p)
      BY <1>0, <1>6 DEF LineOf, CallOf
    <2>2. Phone!Collect(p)
      BY <1>2, <2>1, LineMoves, CallStays DEF Phone!Collect
    <2> QED BY <2>2 DEF Phone!Next
  <1>7. CASE /\ channel_state[p] = "DIALING"
             /\ channel_state' = [channel_state EXCEPT ![p] = "DIALING"]
    BY <1>0, <1>7, PortSame, PhoneStays
  <1> QED BY <1>0, <1>3, <1>4, <1>5, <1>6, <1>7

\* The user answers the call that rings the port.
LEMMA AnswerStep ==
  ASSUME Facts, NEW c \in Chan, QueueAnswer(c)
  PROVE  Phone!Next
  <1>1. PICK p \in Port : /\ channel_state[p] = "RINGING" /\ UNCHANGED owner
                          /\ channel_state' = [channel_state EXCEPT ![p] = "INCALL"]
    BY AnswerEffect
  <1>2. channel_state \in [Port -> State]
    BY Types
  <1>3. \A q \in Port \ {p} : LineOf(q)' = LineOf(q) /\ CallOf(q)' = CallOf(q)
    BY <1>1, <1>2, PortSame
  <1>4. LineOf(p) \in {"ringing"} /\ LineOf(p)' = "connected" /\ CallOf(p)' = CallOf(p)
    BY <1>1, <1>2 DEF LineOf, CallOf
  <1>5. Phone!Answer(p)
    BY <1>3, <1>4, LineMoves, CallStays DEF Phone!Answer
  <1> QED BY <1>5 DEF Phone!Next

\* The number leads to a call or nowhere.
LEMMA NumberStep ==
  ASSUME Facts, NEW t \in Worker, Lookup(t) \/ Connect(t) \/ \E c \in Chan : Alloc(t, c)
  PROVE  Phone!Next \/ UNCHANGED Phone!vars
  <1>0. channel_state \in [Port -> State] /\ owner \in [Port -> Chan \cup {NULL}]
    BY Types
  <1>1. ASSUME Lookup(t) PROVE Phone!Next \/ UNCHANGED Phone!vars
    <2>1. PICK p \in Port : /\ channel_state[p] = "DIALING" /\ UNCHANGED owner
                            /\ \/ UNCHANGED channel_state
                               \/ channel_state' = [channel_state EXCEPT ![p] = "CALL_ENDED"]
      BY <1>1, LookupEffect
    <2>2. CASE UNCHANGED channel_state
      BY <2>1, <2>2, PortSame, PhoneStays
    <2>3. CASE channel_state' = [channel_state EXCEPT ![p] = "CALL_ENDED"]
      <3>1. \A q \in Port \ {p} : LineOf(q)' = LineOf(q) /\ CallOf(q)' = CallOf(q)
        BY <1>0, <2>1, <2>3, PortSame
      <3>2. LineOf(p) \in {"collecting"} /\ LineOf(p)' = "ended" /\ CallOf(p)' = CallOf(p)
        BY <1>0, <2>1, <2>3 DEF LineOf, CallOf
      <3>3. Phone!Reject(p)
        BY <3>1, <3>2, LineMoves, CallStays DEF Phone!Reject
      <3> QED BY <3>3 DEF Phone!Next
    <2> QED BY <2>1, <2>2, <2>3
  <1>2. ASSUME Connect(t) PROVE Phone!Next
    <2>1. PICK p \in Port, c \in Chan :
            /\ channel_state[p] = "DIALING" /\ owner[p] = c /\ UNCHANGED owner
            /\ channel_state' = [channel_state EXCEPT ![p] = "INCALL"]
      BY <1>2, ConnectEffect
    <2>2. \A q \in Port \ {p} : LineOf(q)' = LineOf(q) /\ CallOf(q)' = CallOf(q)
      BY <1>0, <2>1, PortSame
    <2>3. LineOf(p) \in {"collecting"} /\ LineOf(p)' = "connected" /\ CallOf(p)' = c
      BY <1>0, <2>1 DEF LineOf, CallOf
    <2>4. \A q \in Port : CallOf(q) # c
      BY <2>1, CallIsNew
    <2>5. Phone!Connect(p, c)
      BY <2>2, <2>3, <2>4, LineMoves, CallTaken DEF Phone!Connect
    <2> QED BY <2>5 DEF Phone!Next
  <1>3. ASSUME NEW c \in Chan, Alloc(t, c) PROVE UNCHANGED Phone!vars
    <2>1. PICK p \in Port : /\ channel_state[p] = "DIALING" /\ UNCHANGED channel_state
                            /\ owner' = [owner EXCEPT ![p] = c]
      BY <1>3, AllocEffect
    <2>2. \A q \in Port : LineOf(q)' = LineOf(q) /\ CallOf(q)' = CallOf(q)
      BY <1>0, <2>1, PortSame
    <2> QED BY <2>2, PhoneStays
  <1> QED BY <1>1, <1>2, <1>3

\* Asterisk requests a channel of the port and calls it.
LEMMA RingStep ==
  ASSUME Facts, NEW c \in Chan, Call(c) \/ \E p \in Port : Request(c, p)
  PROVE  Phone!Next \/ UNCHANGED Phone!vars
  <1>0. channel_state \in [Port -> State] /\ owner \in [Port -> Chan \cup {NULL}]
    BY Types
  <1>1. ASSUME Call(c) PROVE Phone!Next
    <2>1. PICK p \in Port :
            /\ channel_state[p] = "ONHOOK" /\ owner[p] = c /\ UNCHANGED owner
            /\ channel_state' = [channel_state EXCEPT ![p] = "RINGING"]
      BY <1>1, CallEffect
    <2>2. \A q \in Port \ {p} : LineOf(q)' = LineOf(q) /\ CallOf(q)' = CallOf(q)
      BY <1>0, <2>1, PortSame
    <2>3. LineOf(p) \in {"idle"} /\ LineOf(p)' = "ringing" /\ CallOf(p)' = c
      BY <1>0, <2>1 DEF LineOf, CallOf
    <2>4. \A q \in Port : CallOf(q) # c
      BY <2>1, CallIsNew
    <2>5. Phone!Ring(p, c)
      BY <2>2, <2>3, <2>4, LineMoves, CallTaken DEF Phone!Ring
    <2> QED BY <2>5 DEF Phone!Next
  <1>2. ASSUME NEW p \in Port, Request(c, p) PROVE UNCHANGED Phone!vars
    <2>1. /\ channel_state[p] = "ONHOOK" /\ UNCHANGED channel_state
          /\ owner' = [owner EXCEPT ![p] = c]
      BY <1>2, RequestEffect
    <2>2. \A q \in Port : LineOf(q)' = LineOf(q) /\ CallOf(q)' = CallOf(q)
      BY <1>0, <2>1, PortSame
    <2> QED BY <2>2, PhoneStays
  <1> QED BY <1>1, <1>2

\* The far end leaves, before or after the answer.
LEMMA OverStep ==
  ASSUME Facts, \/ \E c \in Chan : Hangup(c)
                \/ \E t \in Worker : UndoHangup(t)
  PROVE  Phone!Next \/ UNCHANGED Phone!vars
  <1>1. PICK c \in Chan, p \in Port :
          /\ p = tech[c] /\ owner[p] = c /\ HungUp(c, p)
          /\ channel_state[p] \in {"ONHOOK", "RINGING", "INCALL"}
    BY HangupEffect, UndoEffect
  <1>2. /\ channel_state'[p] = IF channel_state[p] = "INCALL" THEN "CALL_ENDED" ELSE "ONHOOK"
        /\ \A q \in Port \ {p} : /\ owner'[q] = owner[q]
                                 /\ channel_state'[q] = channel_state[q]
    BY <1>1, HungUpOthers
  <1>3. \A q \in Port \ {p} : LineOf(q)' = LineOf(q) /\ CallOf(q)' = CallOf(q)
    BY <1>2, PortSame
  <1>4. CASE channel_state[p] = "ONHOOK"
    <2>1. LineOf(p)' = LineOf(p) /\ CallOf(p)' = CallOf(p)
      BY <1>2, <1>4 DEF LineOf, CallOf
    <2> QED BY <1>3, <2>1, PhoneStays
  <1>5. CASE channel_state[p] = "RINGING"
    <2>1. LineOf(p) \in {"ringing"} /\ LineOf(p)' = "idle" /\ CallOf(p)' = NULL
      BY <1>2, <1>5 DEF LineOf, CallOf
    <2>2. Phone!Cancel(p)
      BY <1>3, <2>1, LineMoves, CallLeaves DEF Phone!Cancel
    <2> QED BY <2>2 DEF Phone!Next
  <1>6. CASE channel_state[p] = "INCALL"
    <2>1. LineOf(p) \in {"connected"} /\ LineOf(p)' = "ended" /\ CallOf(p)' = NULL
      BY <1>2, <1>6 DEF LineOf, CallOf
    <2>2. Phone!FarEnd(p)
      BY <1>3, <2>1, LineMoves, CallLeaves DEF Phone!FarEnd
    <2> QED BY <2>2 DEF Phone!Next
  <1> QED BY <1>1, <1>4, <1>5, <1>6

\* Every step of the driver is one of the telephone line or leaves it alone.
LEMMA PhoneStep ==
  ASSUME Facts, [Next]_vars
  PROVE  Phone!Next \/ UNCHANGED Phone!vars
  <1>0. ASSUME UNCHANGED <<channel_state, owner>> PROVE UNCHANGED Phone!vars
    BY <1>0, PortSame, PhoneStays
  <1>1. ASSUME NEW p \in Port,
               \/ FetchOnhook(p) \/ FetchOffhook(p) \/ Onhook(p, 3)
               \/ (\E k \in Digit \cup {"#"} : FetchDigit(p, k))
               \/ DigitInCall(p) \/ DigitIgnored(p)
        PROVE  UNCHANGED Phone!vars
    BY <1>0, <1>1 DEF FetchOnhook, FetchOffhook, FetchDigit, Fetch, Onhook, DigitInCall,
       DigitIgnored, pvtVars
  <1>2. ASSUME NEW c \in Chan,
               \/ QueueHangup(c) \/ QueueDigit(c) \/ CallLock(c) \/ HangLock(c)
               \/ ReadAnswer(c) \/ PbxAnswer(c) \/ Leave(c)
               \/ \E s \in {"none", "busy", "ringing"} : Indicate(c, s)
        PROVE  UNCHANGED Phone!vars
    BY <1>0, <1>2 DEF QueueHangup, QueueDigit, CallLock, HangLock, LockLeg, ReadAnswer,
       PbxAnswer, Leave, Indicate, pvtVars
  <1>3. ASSUME NEW t \in Worker, UndoLock(t) \/ Reset(t) PROVE UNCHANGED Phone!vars
    BY <1>0, <1>3 DEF UndoLock, Reset, pvtVars
  <1>4. ASSUME DialTimeout \/ \E h \in Handle : Fire(h) PROVE UNCHANGED Phone!vars
    BY <1>0, <1>4 DEF DialTimeout, Fire, pvtVars
  <1>5. UNCHANGED vars => UNCHANGED Phone!vars
    BY <1>0 DEF vars, pvtVars
  <1>6. Next => Phone!Next \/ UNCHANGED Phone!vars
    BY <1>1, <1>2, <1>3, <1>4, HandsetStep, AnswerStep, NumberStep, RingStep, OverStep,
       CalmNext
  <1> QED BY <1>5, <1>6

\* chan_lantiq is a telephone line: a port takes part in one call at a time and goes from
\* one to another only through idle or ended, whichever thread moves it.
THEOREM PhoneRefinement ==
  ASSUME Calm
  PROVE  Spec => KeepsPromise
  <1>1. Init => Phone!Init
    <2> SUFFICES ASSUME Init PROVE Phone!Init
      OBVIOUS
    <2>1. \A p \in Port : channel_state[p] = "ONHOOK"
      BY DEF Calm, Init, HookStatus
    <2>2. \A p \in Port : LineOf(p) = "idle" /\ CallOf(p) = NULL
      BY <2>1 DEF LineOf, CallOf
    <2> QED BY <2>2 DEF Phone!Init
  <1>2. IInv /\ CallInv /\ [Next]_vars => [Phone!Next]_(Phone!vars)
    BY PhoneStep DEF Facts
  <1> QED BY <1>1, <1>2, SpecCall, PTL DEF Spec, Phone!Spec, KeepsPromise
=============================================================================
