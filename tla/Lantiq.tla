------------------------------- MODULE Lantiq -------------------------------
(***************************************************************************)
(* The call control of chan_lantiq.c, the Asterisk channel driver for the   *)
(* analogue ports of a Lantiq SoC: the private structure of each port, the  *)
(* threads that work on it and the locks they take.                         *)
(*                                                                          *)
(*   monitor   fetches hook and digit events and handles them under iflock  *)
(*   sched     runs the autodial callback, which takes no lock              *)
(*   a channel is driven by the Asterisk thread that dials it or runs its   *)
(*             PBX; it calls into the driver with the channel locked, and   *)
(*             ast_lantiq_call and ast_lantiq_hangup then take iflock       *)
(*                                                                          *)
(* A handler is one step up to the point where it must wait for a channel   *)
(* lock; the dialling that the monitor (under iflock) and the callback      *)
(* (under nothing) share is one step per access to shared state.            *)
(*                                                                          *)
(* Env is the set of disciplines the surroundings keep; with Env = {} any   *)
(* handset, dialplan and schedule is possible.                              *)
(***************************************************************************)
EXTENDS Naturals, Sequences, FiniteSets

CONSTANTS Port,       \* ports 0..dev_ctx.channels-1
          Chan,       \* channel structures Asterisk may have allocated
          Digit,      \* keys other than '#'
          Ext,        \* numbers the dialplan knows (ast_exists_extension)
          MaxDigits,  \* digits pvt->dtmfbuf has room for (AST_MAX_EXTENSION)
          Handle,     \* ids (not 0) the scheduler may give to a timer
          Env,        \* disciplines of the surroundings, see below
          NULL        \* no pointer, no timer

(***************************************************************************)
(* quiettimer  the autodial callback overlaps no other work on its port     *)
(* quietlegs   ast_lantiq_call and ast_lantiq_hangup overlap no event       *)
(*             handler on their port                                        *)
(* idle        Asterisk requests a channel only for a port with the handset *)
(*             down and no channel                                          *)
(* settled     a handset is lifted only to answer, or when the channel of   *)
(*             the previous call is gone                                    *)
(* gooddata    Asterisk requests existing ports only                        *)
(* ioctlok     the device accepts every ioctl                               *)
(* onhook      all handsets are down when the module is loaded              *)
(* memory      ast_channel_alloc never fails                                *)
(* short       nobody presses more digits than dtmfbuf has room for         *)
(***************************************************************************)
Discipline == {"quiettimer", "quietlegs", "idle", "settled", "gooddata",
               "ioctlok", "onhook", "memory", "short"}

Worker == {"monitor", "sched"}

ASSUME EnvAssumption == Env \subseteq Discipline
ASSUME NumberAssumption == MaxDigits \in Nat /\ Ext \subseteq Seq(Digit)
ASSUME NullAssumption ==
          NULL \notin Port \cup Chan \cup Digit \cup Handle \cup Worker
                      \cup {"#", "elsewhere"}
ASSUME NameAssumption == Chan \cap (Worker \cup {"elsewhere"}) = {}
ASSUME KeyAssumption == "#" \notin Digit

VARIABLES
  owner,          \* pvt->owner
  channel_state,  \* pvt->channel_state
  dial_timer,     \* pvt->dial_timer, NULL for 0
  dtmfbuf,        \* pvt->dtmfbuf
  hook,           \* the handset as the events fetched so far tell it
  feed, codec,    \* line feed, and which of encoder and decoder run
  tone, bell,     \* tone in the handset, bell ringing
  ast,            \* _state of each channel, "free" when not allocated
  tech,           \* tech_pvt of each channel
  ctl,            \* control frames queued on each channel
  leg,            \* what the Asterisk thread of each channel does
  iflock,         \* holder of the interface-list lock
  chanlock,       \* holder of each channel lock
  due,            \* the port each pending timer is for
  pc, port,       \* what the monitor and the scheduler thread do, on which port,
  key, chan,      \* with which digit or timer, with which channel
  fault           \* memory that is not there was used: undefined from here

pvtVars  == <<owner, channel_state, dial_timer, dtmfbuf>>
lineVars == <<hook, feed, codec, tone, bell>>
chanVars == <<ast, tech, ctl, leg>>
runVars  == <<pc, port, key, chan>>
vars == <<pvtVars, lineVars, chanVars, iflock, chanlock, due, runVars, fault>>

State == {"ONHOOK", "OFFHOOK", "DIALING", "INCALL", "CALL_ENDED", "RINGING"}
AstState == {"free", "DOWN", "RINGING", "BUSY", "UP", "RING"}
LegStep == {"none", "requested", "calling", "waiting", "pbx", "hanging",
            "hanglocked"}
Control == {"RINGING", "BUSY", "ANSWER", "HANGUP"}
Tone == {"none", "dial", "busy", "ringing"}

\* Steps in which the monitor has fetched an event and not taken iflock,
\* in which it is inside a handler, and those of lantiq_dial.
Fetched  == {"onhook", "offhook", "digit"}
Dialling == {"lookup", "alloc", "connect", "undo", "undone", "reset"}
Inside   == {"onset", "qhangup", "endhang", "answer", "dtmf"} \cup Dialling
\* Steps in which a worker is about to use the channel it remembers.
UsesChan == {"qhangup", "endhang", "answer", "dtmf", "connect", "undo"}
Step == {"idle", "fired"} \cup Fetched \cup Inside

PvtTypeOK ==
  /\ owner \in [Port -> Chan \cup {NULL}]
  /\ channel_state \in [Port -> State]
  /\ dial_timer \in [Port -> Handle \cup {NULL}]
  /\ dtmfbuf \in [Port -> Seq(Digit)]
LineTypeOK ==
  /\ hook \in [Port -> {"on", "off"}]
  /\ feed \in [Port -> {"standby", "active"}]
  /\ codec \in [Port -> SUBSET {"enc", "dec"}]
  /\ tone \in [Port -> Tone]
  /\ bell \in [Port -> BOOLEAN]
ChanTypeOK ==
  /\ ast \in [Chan -> AstState]
  /\ tech \in [Chan -> Port \cup {NULL}]
  /\ ctl \in [Chan -> SUBSET Control]
  /\ leg \in [Chan -> LegStep]
LockTypeOK ==
  /\ iflock \in {NULL, "monitor", "elsewhere"}
  /\ chanlock \in [Chan -> Chan \cup Worker \cup {NULL}]
  /\ due \in [Handle -> Port \cup {NULL}]
  /\ fault \in BOOLEAN
RunTypeOK ==
  /\ pc \in [Worker -> Step]
  /\ port \in [Worker -> Port \cup {NULL}]
  /\ key \in [Worker -> Digit \cup {"#", NULL} \cup Handle]
  /\ pc["monitor"] = "digit" => key["monitor"] \in Digit \cup {"#"}
  /\ chan \in [Worker -> Chan \cup {NULL}]
TypeOK == PvtTypeOK /\ LineTypeOK /\ ChanTypeOK /\ LockTypeOK /\ RunTypeOK

\* lantiq_get_hookstatus.  (Each "Bug" operator of this module is a fault of the
\* operator that follows it, for the mutation of the model.)
BugHookUnread(p) == "UNKNOWN"
HookStatus(p) == IF hook[p] = "on" THEN "ONHOOK" ELSE "OFFHOOK"

\* load_module: the ports as lantiq_create_pvts leaves them, with the hook
\* status of the line, the feed in standby and the codecs stopped.
Init ==
  /\ owner = [p \in Port |-> NULL]
  /\ hook \in [Port -> IF "onhook" \in Env THEN {"on"} ELSE {"on", "off"}]
  /\ channel_state = [p \in Port |-> HookStatus(p)]
  /\ dial_timer = [p \in Port |-> NULL]
  /\ dtmfbuf = [p \in Port |-> <<>>]
  /\ feed = [p \in Port |-> "standby"]
  /\ codec = [p \in Port |-> {}]
  /\ tone = [p \in Port |-> "none"]
  /\ bell = [p \in Port |-> FALSE]
  /\ ast = [c \in Chan |-> "free"]
  /\ tech = [c \in Chan |-> NULL]
  /\ ctl = [c \in Chan |-> {}]
  /\ leg = [c \in Chan |-> "none"]
  /\ iflock = NULL
  /\ chanlock = [c \in Chan |-> NULL]
  /\ due = [h \in Handle |-> NULL]
  /\ pc = [t \in Worker |-> "idle"]
  /\ port = [t \in Worker |-> NULL]
  /\ key = [t \in Worker |-> NULL]
  /\ chan = [t \in Worker |-> NULL]
  /\ fault = FALSE

-----------------------------------------------------------------------------
(* The disciplines, as guards of the steps that start something.           *)

Busy(t, p) == pc[t] # "idle" /\ port[t] = p
InDriver(c) == leg[c] \in {"calling", "hanglocked"}

QuietTimer(p) == "quiettimer" \in Env => ~Busy("sched", p)
QuietLegs(p)  == "quietlegs" \in Env =>
                   ~\E c \in Chan : InDriver(c) /\ tech[c] = p
QuietEvents(p) == "quietlegs" \in Env => ~Busy("monitor", p)
Quiet(p) == "quiettimer" \in Env =>
              ~Busy("monitor", p) /\ ~\E c \in Chan : InDriver(c) /\ tech[c] = p
PortIdle(p) == "idle" \in Env =>
                 hook[p] = "on" /\ channel_state[p] = "ONHOOK" /\ owner[p] = NULL
Settled(p) == "settled" \in Env =>
                 owner[p] = NULL \/ channel_state[p] = "RINGING"

\* How many of the three ioctls of a sequence succeed before one fails.
Reached == IF "ioctlok" \in Env THEN {3} ELSE 0 .. 3

\* A channel structure that may be handed out: freed and remembered nowhere.
FreeChan == {c \in Chan : /\ ast[c] = "free" /\ leg[c] = "none"
                          /\ \A p \in Port : owner[p] # c
                          /\ \A t \in Worker : chan[t] # c}

\* Bound: work that may allocate starts only while there is room for it.
Allocating == {t \in Worker : \/ pc[t] \in {"fired", "lookup", "alloc"}
                              \/ pc[t] = "digit" /\ key[t] = "#"}
Room == Cardinality(FreeChan) > Cardinality(Allocating)

\* Timer ids come from a counter: never one that anybody still remembers.
FreshHandle == {h \in Handle : /\ due[h] = NULL
                               /\ \A p \in Port : dial_timer[p] # h
                               /\ key["sched"] # h}

-----------------------------------------------------------------------------
(* Device operations.                                                      *)

\* Codec directions reached by the second and third ioctl of a sequence.
BugEncoderOnly(n) == IF n >= 2 THEN {"enc"} ELSE {}
Codecs(n) == (IF n >= 2 THEN {"enc"} ELSE {}) \cup (IF n >= 3 THEN {"dec"} ELSE {})

\* lantiq_standby: feed to standby, encoder and decoder stopped, tone off;
\* the first ioctl that fails ends it.
Standby(p, n) ==
  /\ feed'  = [feed EXCEPT ![p] = IF n >= 1 THEN "standby" ELSE @]
  /\ codec' = [codec EXCEPT ![p] = @ \ Codecs(n)]
  /\ tone'  = [tone EXCEPT ![p] = IF n >= 3 THEN "none" ELSE @]

\* The three ioctls of a handset going off hook.
Wake(p, n) ==
  /\ feed'  = [feed EXCEPT ![p] = IF n >= 1 THEN "active" ELSE @]
  /\ codec' = [codec EXCEPT ![p] = @ \cup Codecs(n)]

\* lantiq_play_tone
PlayTone(p, s) == tone' = [tone EXCEPT ![p] = s]

\* ast_sched_thread_del of the recorded timer, if there is one.
BugForgetTimer(p) == UNCHANGED due /\ dial_timer' = [dial_timer EXCEPT ![p] = NULL]
BugKeepHandle(p) ==
  /\ due' = [h \in Handle |-> IF h = dial_timer[p] THEN NULL ELSE due[h]]
  /\ UNCHANGED dial_timer
CancelTimer(p) ==
  /\ due' = [h \in Handle |-> IF h = dial_timer[p] THEN NULL ELSE due[h]]
  /\ dial_timer' = [dial_timer EXCEPT ![p] = NULL]

\* A new autodial timer, replacing the recorded one (AST_SCHED_REPLACE).
BugNotArmed(p, new) ==
  /\ due' = [h \in Handle |-> IF h = dial_timer[p] THEN NULL ELSE due[h]]
  /\ dial_timer' = [dial_timer EXCEPT ![p] = new]
ReplaceTimer(p, new) ==
  /\ due' = [h \in Handle |-> IF h = new THEN p
                              ELSE IF h = dial_timer[p] THEN NULL ELSE due[h]]
  /\ dial_timer' = [dial_timer EXCEPT ![p] = new]

At(t, step) == pc[t] = step
Live(c) == ast[c] # "free"

\* The guards of the threads' steps.
Runs(t, step) == ~fault /\ At(t, step)
LegIs(c, s) == ~fault /\ leg[c] = s

\* A worker begins with port p, goes on to a step, also with channel c in
\* hand, and is done.
Begin(t, step, p, k) ==
  /\ pc' = [pc EXCEPT ![t] = step]
  /\ port' = [port EXCEPT ![t] = p]
  /\ key' = [key EXCEPT ![t] = k]
  /\ UNCHANGED chan
Goto(t, step) == pc' = [pc EXCEPT ![t] = step] /\ UNCHANGED <<port, key, chan>>
GotoWith(t, step, c) ==
  /\ pc' = [pc EXCEPT ![t] = step]
  /\ chan' = [chan EXCEPT ![t] = c]
  /\ UNCHANGED <<port, key>>
Done(t) ==
  /\ pc' = [pc EXCEPT ![t] = "idle"]
  /\ port' = [port EXCEPT ![t] = NULL]
  /\ key' = [key EXCEPT ![t] = NULL]
  /\ chan' = [chan EXCEPT ![t] = NULL]

\* The state a hangup leaves a port in: a ringing or idle port is on hook again,
\* any other plays the busy tone to its user.
BugBellState(s) == IF s \in {"RINGING", "ONHOOK"} THEN s ELSE "CALL_ENDED"
BugCallState(s) == IF s \in {"RINGING", "ONHOOK"} THEN "ONHOOK" ELSE s
BugNoBusy(s) == "ONHOOK"
AfterHangup(s) == IF s \in {"RINGING", "ONHOOK"} THEN "ONHOOK" ELSE "CALL_ENDED"

\* The port has no channel any more, whichever channel it was.
BugKeepOwner(p) == UNCHANGED owner
ClearOwner(p) == owner' = [owner EXCEPT ![p] = NULL]

\* ast_lantiq_hangup on channel c, and its release by ast_hangup.
HangupBody(c) ==
  LET p == tech[c]
      atrest == channel_state[p] \in {"RINGING", "ONHOOK"}
  IN /\ channel_state' = [channel_state EXCEPT ![p] = AfterHangup(@)]
     /\ bell' = [bell EXCEPT ![p] = IF atrest THEN FALSE ELSE @]
     /\ tone' = [tone EXCEPT ![p] = IF atrest THEN @ ELSE "busy"]
     /\ ClearOwner(p)
     /\ ast' = [ast EXCEPT ![c] = "free"]
     /\ tech' = [tech EXCEPT ![c] = NULL]
     /\ ctl' = [ctl EXCEPT ![c] = {}]
     /\ chanlock' = [chanlock EXCEPT ![c] = NULL]

-----------------------------------------------------------------------------
(* The monitor thread: lantiq_dev_event_handler gets one event of a port    *)
(* under iflock and releases it before it calls the handler.                *)

Fetch(p, step, k) ==
  /\ Runs("monitor", "idle") /\ iflock = NULL
  /\ QuietTimer(p) /\ QuietLegs(p)
  /\ Begin("monitor", step, p, k)
  /\ UNCHANGED <<pvtVars, feed, codec, tone, chanVars, iflock, chanlock, due, fault>>

FetchOnhook(p) ==
  /\ hook[p] = "off" /\ hook' = [hook EXCEPT ![p] = "on"]
  /\ Fetch(p, "onhook", NULL)
  /\ UNCHANGED bell

\* Lifting the handset trips the ringing.
FetchOffhook(p) ==
  /\ hook[p] = "on" /\ hook' = [hook EXCEPT ![p] = "off"]
  /\ Settled(p)
  /\ bell' = [bell EXCEPT ![p] = FALSE]
  /\ Fetch(p, "offhook", NULL)

\* Bound: as many timers as Handle has ids.
HasRoom(p) == Len(dtmfbuf[p]) < MaxDigits
FetchDigit(p, k) ==
  /\ hook[p] = "off"
  /\ IF k = "#" THEN Room ELSE FreshHandle # {} /\ ("short" \in Env => HasRoom(p))
  /\ Fetch(p, "digit", k)
  /\ UNCHANGED <<hook, bell>>

\* The handler of an event starts on port p when iflock is free.
Enter(p, step) == Runs("monitor", step) /\ port["monitor"] = p /\ iflock = NULL
Locked == iflock' = "monitor"
BugNoUnlock == UNCHANGED iflock
Unlocked == iflock' = NULL

\* lantiq_dev_event_hook, going on hook: up to the call that needs a channel
\* lock (ast_queue_hangup, ast_hangup) or to the end of the switch.
Onhook(p, n) ==
  /\ Enter(p, "onhook") /\ Locked
  /\ IF channel_state[p] \in {"OFFHOOK", "CALL_ENDED"}
       THEN Standby(p, n) ELSE UNCHANGED <<feed, codec, tone>>
  /\ IF channel_state[p] = "DIALING"
       THEN CancelTimer(p) ELSE UNCHANGED <<dial_timer, due>>
  /\ \/ /\ owner[p] # NULL /\ channel_state[p] = "DIALING"
        /\ GotoWith("monitor", "endhang", owner[p])
     \/ /\ owner[p] # NULL /\ channel_state[p] = "INCALL"
        /\ GotoWith("monitor", "qhangup", owner[p])
     \/ /\ owner[p] = NULL \/ channel_state[p] \notin {"DIALING", "INCALL"}
        /\ Goto("monitor", "onset")
  /\ UNCHANGED <<owner, channel_state, dtmfbuf, hook, bell, chanVars, chanlock, fault>>

\* A channel somebody else may lock.
BugNoChanLock(c) == Live(c)
Lockable(c) == Live(c) /\ chanlock[c] = NULL

\* lantiq_end_call: ast_queue_hangup locks the channel.
QueueHangup(c) ==
  /\ Runs("monitor", "qhangup") /\ chan["monitor"] = c
  /\ Lockable(c)
  /\ ctl' = [ctl EXCEPT ![c] = @ \cup {"HANGUP"}]
  /\ GotoWith("monitor", "onset", NULL)
  /\ UNCHANGED <<pvtVars, lineVars, ast, tech, leg, iflock, chanlock, due, fault>>

\* lantiq_end_dialing: ast_hangup locks the channel and takes iflock again.
EndDialingHangup(c) ==
  /\ Runs("monitor", "endhang") /\ chan["monitor"] = c
  /\ Lockable(c)
  /\ HangupBody(c)
  /\ GotoWith("monitor", "onset", NULL)
  /\ UNCHANGED <<dial_timer, dtmfbuf, hook, feed, codec, leg, iflock, due, fault>>

\* The end of the on-hook branch.
OnhookSet(p) ==
  /\ Runs("monitor", "onset") /\ port["monitor"] = p
  /\ channel_state' = [channel_state EXCEPT ![p] = "ONHOOK"]
  /\ Done("monitor") /\ Unlocked
  /\ UNCHANGED <<owner, dial_timer, dtmfbuf, lineVars, chanVars, chanlock, due, fault>>

\* lantiq_dev_event_hook, going off hook, when an ioctl fails.
OffhookFails(p, n) ==
  /\ Enter(p, "offhook") /\ n < 3
  /\ Wake(p, n)
  /\ Done("monitor")
  /\ UNCHANGED <<pvtVars, hook, tone, bell, chanVars, iflock, chanlock, due, fault>>

\* ... for dial tone
OffhookDialTone(p) ==
  /\ Enter(p, "offhook") /\ channel_state[p] # "RINGING"
  /\ Wake(p, 3) /\ PlayTone(p, "dial")
  /\ channel_state' = [channel_state EXCEPT ![p] = "OFFHOOK"]
  /\ Done("monitor")
  /\ UNCHANGED <<owner, dial_timer, dtmfbuf, hook, bell, chanVars, iflock, chanlock,
                 due, fault>>

\* ... and to answer: accept_call, up to ast_queue_control, which locks the
\* channel.  Without an owner that rings nothing happens.
OffhookAnswer(p) ==
  LET c == owner[p]
      rings == c # NULL /\ ast[c] = "RINGING"
  IN /\ Enter(p, "offhook") /\ channel_state[p] = "RINGING"
     /\ Wake(p, 3)
     /\ IF rings THEN /\ PlayTone(p, "none") /\ Locked
                      /\ GotoWith("monitor", "answer", c)
                 ELSE Done("monitor") /\ UNCHANGED <<tone, iflock>>
     /\ UNCHANGED <<pvtVars, hook, bell, chanVars, chanlock, due, fault>>

QueueAnswer(c) ==
  /\ Runs("monitor", "answer") /\ chan["monitor"] = c
  /\ Lockable(c)
  /\ ctl' = [ctl EXCEPT ![c] = @ \cup {"ANSWER"}]
  /\ channel_state' = [channel_state EXCEPT ![port["monitor"]] = "INCALL"]
  /\ Done("monitor") /\ Unlocked
  /\ UNCHANGED <<owner, dial_timer, dtmfbuf, lineVars, ast, tech, leg, chanlock, due,
                 fault>>

\* lantiq_dev_event_digit in a call: lantiq_send_digit, whose ast_queue_frame
\* locks the channel.
DigitInCall(p) ==
  /\ Enter(p, "digit") /\ channel_state[p] = "INCALL"
  /\ IF owner[p] = NULL
       THEN Done("monitor") /\ UNCHANGED iflock
       ELSE /\ GotoWith("monitor", "dtmf", owner[p])
            /\ Locked
  /\ UNCHANGED <<pvtVars, lineVars, chanVars, chanlock, due, fault>>

QueueDigit(c) ==
  /\ Runs("monitor", "dtmf") /\ chan["monitor"] = c
  /\ Lockable(c)
  /\ Done("monitor") /\ Unlocked
  /\ UNCHANGED <<pvtVars, lineVars, chanVars, chanlock, due, fault>>

\* ... a digit of a number: into the buffer, autodial timer started anew
DigitOfNumber(p) ==
  LET k == key["monitor"]
  IN /\ Enter(p, "digit") /\ channel_state[p] \in {"OFFHOOK", "DIALING"} /\ k # "#"
     /\ HasRoom(p)
     /\ channel_state' = [channel_state EXCEPT ![p] = "DIALING"]
     /\ tone' = [tone EXCEPT ![p] = IF channel_state[p] = "OFFHOOK" THEN "none" ELSE @]
     /\ dtmfbuf' = [dtmfbuf EXCEPT ![p] = Append(@, k)]
     /\ \E h \in FreshHandle : ReplaceTimer(p, h)
     /\ Done("monitor")
     /\ UNCHANGED <<owner, hook, feed, codec, bell, chanVars, iflock, chanlock, fault>>

\* ... '#': the timer is stopped and the number dialled, iflock held
DigitHash(p) ==
  /\ Enter(p, "digit") /\ channel_state[p] \in {"OFFHOOK", "DIALING"}
  /\ key["monitor"] = "#"
  /\ channel_state' = [channel_state EXCEPT ![p] = "DIALING"]
  /\ tone' = [tone EXCEPT ![p] = IF channel_state[p] = "OFFHOOK" THEN "none" ELSE @]
  /\ CancelTimer(p)
  /\ Goto("monitor", "lookup") /\ Locked
  /\ UNCHANGED <<owner, dtmfbuf, hook, feed, codec, bell, chanVars, chanlock, fault>>

\* ... and in any other state nothing
DigitIgnored(p) ==
  /\ Enter(p, "digit") /\ channel_state[p] \notin {"INCALL", "OFFHOOK", "DIALING"}
  /\ Done("monitor")
  /\ UNCHANGED <<pvtVars, lineVars, chanVars, iflock, chanlock, due, fault>>

Monitor(p) ==
  \/ FetchOnhook(p) \/ FetchOffhook(p)
  \/ \E k \in Digit \cup {"#"} : FetchDigit(p, k)
  \/ \E n \in Reached : Onhook(p, n) \/ OffhookFails(p, n)
  \/ OnhookSet(p) \/ OffhookDialTone(p) \/ OffhookAnswer(p)
  \/ DigitInCall(p) \/ DigitOfNumber(p) \/ DigitHash(p) \/ DigitIgnored(p)

-----------------------------------------------------------------------------
(* lantiq_dial, run by worker t: by the monitor inside iflock, by the       *)
(* autodial callback with no lock.                                          *)

\* The number exists, or the user hears the busy tone.
Lookup(t) ==
  /\ Runs(t, "lookup")
  /\ IF dtmfbuf[port[t]] \in Ext
       THEN Goto(t, "alloc") /\ UNCHANGED <<tone, channel_state>>
       ELSE /\ Goto(t, "reset") /\ PlayTone(port[t], "busy")
            /\ channel_state' = [channel_state EXCEPT ![port[t]] = "CALL_ENDED"]
  /\ UNCHANGED <<owner, dial_timer, dtmfbuf, hook, feed, codec, bell, chanVars, iflock,
                 chanlock, due, fault>>

\* lantiq_channel(AST_STATE_UP, ...): whoever owned the port is forgotten.
Alloc(t, c) ==
  /\ Runs(t, "alloc") /\ c \in FreeChan
  /\ ast' = [ast EXCEPT ![c] = "UP"]
  /\ tech' = [tech EXCEPT ![c] = port[t]]
  /\ owner' = [owner EXCEPT ![port[t]] = c]
  /\ GotoWith(t, "connect", c)
  /\ UNCHANGED <<channel_state, dial_timer, dtmfbuf, lineVars, ctl, leg, iflock,
                 chanlock, due, fault>>

\* The port is in a call; ast_pbx_start creates the thread of the channel,
\* or fails.  (ConnectFreed: when the channel was freed meanwhile.)
Connect(t) ==
  LET c == chan[t]
      p == port[t]
  IN /\ Runs(t, "connect") /\ Live(c)
     /\ tech' = [tech EXCEPT ![c] = p]
     /\ owner' = [owner EXCEPT ![p] = c]
     /\ ast' = [ast EXCEPT ![c] = "RING"]
     /\ channel_state' = [channel_state EXCEPT ![p] = "INCALL"]
     /\ \/ leg' = [leg EXCEPT ![c] = "pbx"]
           /\ GotoWith(t, "reset", NULL)
        \/ UNCHANGED leg /\ Goto(t, "undo")
     /\ UNCHANGED <<dial_timer, dtmfbuf, lineVars, ctl, iflock, chanlock, due, fault>>

\* Without a PBX thread the channel is hung up: ast_hangup locks the channel,
\* ast_lantiq_hangup takes iflock, which the monitor already holds.
UndoLock(t) ==
  LET c == chan[t]
  IN /\ Runs(t, "undo") /\ Lockable(c)
     /\ chanlock' = [chanlock EXCEPT ![c] = t]
     /\ Goto(t, "undone")
     /\ UNCHANGED <<pvtVars, lineVars, chanVars, iflock, due, fault>>

\* iflock is a recursive mutex.
BugNotRecursive(t) == iflock = NULL
MayLock(t) == iflock \in {NULL, t}

UndoHangup(t) ==
  /\ Runs(t, "undone") /\ MayLock(t)
  /\ HangupBody(chan[t])
  /\ GotoWith(t, "reset", NULL)
  /\ UNCHANGED <<dial_timer, dtmfbuf, hook, feed, codec, leg, iflock, due, fault>>

\* lantiq_reset_dtmfbuf, and the end of the handler or of the callback.
Reset(t) ==
  /\ Runs(t, "reset")
  /\ dtmfbuf' = [dtmfbuf EXCEPT ![port[t]] = <<>>]
  /\ Done(t)
  /\ iflock' = IF t = "monitor" THEN NULL ELSE iflock
  /\ UNCHANGED <<owner, channel_state, dial_timer, lineVars, chanVars, chanlock, due,
                 fault>>

Dial(t) == \/ Lookup(t) \/ Connect(t) \/ UndoLock(t) \/ UndoHangup(t) \/ Reset(t)
           \/ \E c \in Chan : Alloc(t, c)

-----------------------------------------------------------------------------
(* The scheduler thread: a timer that is due leaves the queue, then         *)
(* lantiq_event_dial_timeout runs.                                          *)

Fire(h) ==
  /\ Runs("sched", "idle") /\ due[h] # NULL
  /\ Quiet(due[h]) /\ Room
  /\ Begin("sched", "fired", due[h], h)
  /\ due' = [due EXCEPT ![h] = NULL]
  /\ UNCHANGED <<pvtVars, lineVars, chanVars, iflock, chanlock, fault>>

\* The handle is forgotten; the number is dialled unless the port is on hook.
DialTimeout ==
  LET p == port["sched"]
  IN /\ Runs("sched", "fired")
     /\ dial_timer' = [dial_timer EXCEPT ![p] = NULL]
     /\ IF channel_state[p] # "ONHOOK"
          THEN Goto("sched", "lookup")
          ELSE Done("sched")
     /\ UNCHANGED <<owner, channel_state, dtmfbuf, lineVars, chanVars, iflock, chanlock,
                    due, fault>>

-----------------------------------------------------------------------------
(* Asterisk's own threads (external): the one that dials a port requests a  *)
(* channel, calls it and waits; the one that runs the PBX of a channel the  *)
(* port originated indicates progress to it.  Both end with ast_hangup.     *)

\* ast_lantiq_requester for an existing port: whoever owned it is forgotten.
Request(c, p) ==
  /\ ~fault /\ iflock = NULL /\ c \in FreeChan /\ Room
  /\ PortIdle(p) /\ QuietTimer(p)
  /\ ast' = [ast EXCEPT ![c] = "DOWN"]
  /\ tech' = [tech EXCEPT ![c] = p]
  /\ owner' = [owner EXCEPT ![p] = c]
  /\ leg' = [leg EXCEPT ![c] = "requested"]
  /\ UNCHANGED <<channel_state, dial_timer, dtmfbuf, lineVars, ctl, iflock, chanlock,
                 due, runVars, fault>>

\* ast_lantiq_requester without a valid port number returns with iflock held
\* by the thread of some other call.
RequestBad ==
  /\ "gooddata" \notin Env /\ ~fault /\ iflock = NULL
  /\ iflock' = "elsewhere"
  /\ UNCHANGED <<pvtVars, lineVars, chanVars, chanlock, due, runVars, fault>>

\* Asterisk locks the channel, then calls ast_lantiq_call or _hangup.
LockLeg(c, from, to) ==
  /\ LegIs(c, from) /\ Lockable(c)
  /\ QuietTimer(tech[c]) /\ QuietEvents(tech[c])
  /\ chanlock' = [chanlock EXCEPT ![c] = c]
  /\ leg' = [leg EXCEPT ![c] = to]
  /\ UNCHANGED <<pvtVars, lineVars, ast, tech, ctl, iflock, due, runVars, fault>>

\* ast_lantiq_call: ring a port that is on hook, otherwise it is busy.
Call(c) ==
  LET p == tech[c]
      rings == channel_state[p] = "ONHOOK"
  IN /\ LegIs(c, "calling") /\ iflock = NULL
     /\ channel_state' = [channel_state EXCEPT ![p] = IF rings THEN "RINGING" ELSE @]
     /\ bell' = [bell EXCEPT ![p] = @ \/ rings]
     /\ ast' = [ast EXCEPT ![c] = IF rings THEN "RINGING" ELSE "BUSY"]
     /\ ctl' = [ctl EXCEPT ![c] = @ \cup {IF rings THEN "RINGING" ELSE "BUSY"}]
     /\ leg' = [leg EXCEPT ![c] = "waiting"]
     /\ chanlock' = [chanlock EXCEPT ![c] = NULL]
     /\ UNCHANGED <<owner, dial_timer, dtmfbuf, hook, feed, codec, tone, tech, iflock,
                    due, runVars, fault>>

\* The answer is read: the channel is up and bridged.
ReadAnswer(c) ==
  /\ LegIs(c, "waiting") /\ Lockable(c) /\ "ANSWER" \in ctl[c]
  /\ ast' = [ast EXCEPT ![c] = "UP"]
  /\ leg' = [leg EXCEPT ![c] = "pbx"]
  /\ UNCHANGED <<pvtVars, lineVars, tech, ctl, iflock, chanlock, due, runVars, fault>>

\* The far end answers a call the port originated.
PbxAnswer(c) ==
  /\ LegIs(c, "pbx") /\ ast[c] = "RING" /\ chanlock[c] = NULL
  /\ ast' = [ast EXCEPT ![c] = "UP"]
  /\ UNCHANGED <<pvtVars, lineVars, tech, ctl, leg, iflock, chanlock, due, runVars, fault>>

\* ast_lantiq_indicate with -1, BUSY or CONGESTION, and RINGING.
Indicate(c, s) ==
  /\ LegIs(c, "pbx") /\ Lockable(c) /\ QuietTimer(tech[c])
  /\ PlayTone(tech[c], s)
  /\ UNCHANGED <<pvtVars, hook, feed, codec, bell, chanVars, iflock, chanlock, due, runVars,
                 fault>>

\* The call is over: the far end left or the caller gave up, or a queued
\* hangup or busy frame is read.
Leave(c) == /\ LegIs(c, "waiting") \/ LegIs(c, "pbx")
            /\ Live(c)
            /\ leg' = [leg EXCEPT ![c] = "hanging"]
            /\ UNCHANGED <<pvtVars, lineVars, ast, tech, ctl, iflock, chanlock, due, runVars,
                           fault>>
GiveUp(c) == ctl[c] \cap {"HANGUP", "BUSY"} = {} /\ Leave(c)
HeedHangup(c) == ctl[c] \cap {"HANGUP", "BUSY"} # {} /\ Leave(c)

\* ast_lantiq_hangup by the channel's own thread.
BugNoIflock(c) ==
  /\ LegIs(c, "hanglocked")
  /\ HangupBody(c)
  /\ leg' = [leg EXCEPT ![c] = "none"]
  /\ UNCHANGED <<dial_timer, dtmfbuf, hook, feed, codec, iflock, due, runVars, fault>>
Hangup(c) ==
  /\ LegIs(c, "hanglocked") /\ iflock = NULL
  /\ HangupBody(c)
  /\ leg' = [leg EXCEPT ![c] = "none"]
  /\ UNCHANGED <<dial_timer, dtmfbuf, hook, feed, codec, iflock, due, runVars, fault>>

CallLock(c) == LockLeg(c, "requested", "calling")
HangLock(c) == LockLeg(c, "hanging", "hanglocked")

Leg(c) == \/ CallLock(c) \/ Call(c) \/ ReadAnswer(c) \/ PbxAnswer(c)
          \/ \E s \in {"none", "busy", "ringing"} : Indicate(c, s)
          \/ GiveUp(c) \/ HeedHangup(c) \/ HangLock(c) \/ Hangup(c)
          \/ \E p \in Port : Request(c, p)

-----------------------------------------------------------------------------
\* A thread that uses a channel structure after it was freed.
Dangling ==
  \/ \E t \in Worker : pc[t] \in UsesChan /\ ~Live(chan[t])
  \/ \E c \in Chan : leg[c] # "none" /\ ~Live(c)
Undefined == /\ fault' = TRUE
             /\ UNCHANGED <<channel_state, dial_timer, dtmfbuf, lineVars, chanVars, iflock,
                            chanlock, due, runVars>>
UseFreed == ~fault /\ Dangling /\ Undefined /\ UNCHANGED owner

\* lantiq_dial stores the channel it has allocated as the port's once more, also when
\* lantiq_end_dialing has hung it up and freed it since.
ConnectFreed(t) ==
  /\ Runs(t, "connect") /\ ~Live(chan[t])
  /\ owner' = [owner EXCEPT ![port[t]] = chan[t]]
  /\ Undefined

\* lantiq_channel uses what ast_channel_alloc returns, also NULL.
AllocFails(t) ==
  /\ "memory" \notin Env /\ Runs(t, "alloc")
  /\ Undefined /\ UNCHANGED owner
RequestFails(p) ==
  /\ "memory" \notin Env /\ ~fault /\ iflock = NULL
  /\ PortIdle(p) /\ QuietTimer(p)
  /\ Undefined /\ UNCHANGED owner

\* A digit more than dtmfbuf has room for is written behind it.
DigitOverflow(p) ==
  /\ Enter(p, "digit") /\ channel_state[p] \in {"OFFHOOK", "DIALING"}
  /\ key["monitor"] # "#" /\ ~HasRoom(p)
  /\ Undefined /\ UNCHANGED owner

Breaks == \/ UseFreed
          \/ \E t \in Worker : ConnectFreed(t) \/ AllocFails(t)
          \/ \E p \in Port : RequestFails(p) \/ DigitOverflow(p)

Next == \/ \E p \in Port : Monitor(p)
        \/ \E c \in Chan : \/ QueueHangup(c) \/ EndDialingHangup(c)
                           \/ QueueAnswer(c) \/ QueueDigit(c)
        \/ \E t \in Worker : Dial(t)
        \/ DialTimeout \/ \E h \in Handle : Fire(h)
        \/ \E c \in Chan : Leg(c)
        \/ RequestBad
        \/ Breaks

Spec == Init /\ [][Next]_vars

(***************************************************************************)
(* Fairness.  The threads run, and one that waits for a mutex gets it when it  *)
(* is free again and again (SF).  Nothing is assumed of the user, of        *)
(* what Asterisk requests and indicates, or of when a far end gives up.     *)
(***************************************************************************)
Fairness ==
  /\ \A p \in Port :
       /\ SF_vars(\E n \in Reached : Onhook(p, n) \/ OffhookFails(p, n))
       /\ SF_vars(\/ OffhookDialTone(p) \/ OffhookAnswer(p) \/ DigitInCall(p)
                  \/ DigitOfNumber(p) \/ DigitHash(p) \/ DigitIgnored(p))
       /\ WF_vars(OnhookSet(p))
  /\ \A c \in Chan :
       /\ WF_vars(QueueHangup(c) \/ EndDialingHangup(c) \/ QueueAnswer(c)
                  \/ QueueDigit(c))
       /\ WF_vars(ReadAnswer(c) \/ HeedHangup(c))
       /\ SF_vars(CallLock(c) \/ HangLock(c))
       /\ SF_vars(Call(c) \/ Hangup(c))
  /\ \A t \in Worker : WF_vars(Dial(t))
  /\ WF_vars(DialTimeout)
  /\ \A h \in Handle : SF_vars(Fire(h))

FairSpec == Spec /\ Fairness

-----------------------------------------------------------------------------
(* What holds whatever the surroundings do (Env = {}).                      *)

\* Each lock has the holder the code says: the monitor has iflock in its
\* handlers and only there, a channel is locked by its thread in ast_lantiq_call
\* and _hangup or by a worker that hangs up a channel without a PBX.
LockInv ==
  /\ iflock = "monitor" <=> pc["monitor"] \in Inside
  /\ \A c \in Chan :
       /\ chanlock[c] = c <=> InDriver(c)
       /\ \A t \in Worker : chanlock[c] = t <=> At(t, "undone") /\ chan[t] = c

\* pvt->dial_timer never names a timer that is gone: it is pending for this
\* port, or it has just fired and the callback has not cleared it yet.
HandleInv ==
  \A p \in Port : dial_timer[p] # NULL =>
     \/ due[dial_timer[p]] = p
     \/ /\ At("sched", "fired") /\ port["sched"] = p
        /\ key["sched"] = dial_timer[p]

\* A thread inside ast_lantiq_call or _hangup works on a channel that still
\* exists: whoever hangs a channel up holds its lock.
DriverLive == \A c \in Chan : InDriver(c) => Live(c) /\ tech[c] # NULL

-----------------------------------------------------------------------------
(* What holds when the surroundings keep disciplines.                       *)

\* "Channel we belong to, possibly NULL": the owner of a port is a channel that
\* exists and is one of the port, when the autodial callback runs alone.
OwnerIsLive == \A p \in Port : owner[p] # NULL => Live(owner[p]) /\ tech[owner[p]] = p

\* No thread goes on with a channel that was freed while it waited for a lock: not the
\* monitor in a handler, not the worker that dials, not the channel's own thread.
NoneDangles == ~Dangling

\* A port in a call has a channel to talk on, and a port that rings has one
\* that an answer will be accepted for.
CallHasOwner ==
  \A p \in Port :
    /\ channel_state[p] = "INCALL" => owner[p] # NULL
    /\ channel_state[p] = "RINGING" => owner[p] # NULL /\ ast[owner[p]] = "RINGING"

\* Between handlers channel_state tells whether the handset is down, and the
\* bell rings exactly in state RINGING.
HookAgrees ==
  \A p \in Port :
    /\ ~Busy("monitor", p) =>
         (channel_state[p] \in {"ONHOOK", "RINGING"} <=> hook[p] = "on")
    /\ bell[p] <=> channel_state[p] = "RINGING" /\ hook[p] = "on"

\* In a call the line is fed and both directions of the codec run; the dial
\* tone sounds exactly when a first digit is expected.
VoicePathUp ==
  \A p \in Port :
    /\ channel_state[p] = "INCALL" => feed[p] = "active" /\ codec[p] = {"enc", "dec"}
    /\ ~Busy("monitor", p) => (tone[p] = "dial" <=> channel_state[p] = "OFFHOOK")

\* An autodial timer is pending only for a number being dialled, and only the
\* one that pvt->dial_timer names.
TimerWhileDialing ==
  \A h \in Handle : due[h] # NULL =>
     channel_state[due[h]] = "DIALING" /\ dial_timer[due[h]] = h

\* The driver keeps the promise of a telephone line, PhoneLine.
LineOf(p) == CASE channel_state[p] = "ONHOOK" -> "idle"
               [] channel_state[p] = "OFFHOOK" -> "dialtone"
               [] channel_state[p] = "DIALING" -> "collecting"
               [] channel_state[p] = "INCALL" -> "connected"
               [] channel_state[p] = "CALL_ENDED" -> "ended"
               [] channel_state[p] = "RINGING" -> "ringing"
CallOf(p) == IF channel_state[p] \in {"RINGING", "INCALL"} THEN owner[p] ELSE NULL

Phone == INSTANCE PhoneLine WITH CallId <- Chan, line <- [p \in Port |-> LineOf(p)],
                                 call <- [p \in Port |-> CallOf(p)]
KeepsPromise == Phone!Spec

\* Every handler returns, so the monitor thread goes on as long as the module
\* is loaded.
MonitorContinues == \A p \in Port : Busy("monitor", p) ~> ~Busy("monitor", p)

\* A user who puts the handset down ends the call: the channel is released.
HangupArrives == \A c \in Chan : "HANGUP" \in ctl[c] ~> ~Live(c)

\* A number is dialled when the user stops, with or without '#', or hangs up.
NumberIsDialled ==
  \A p \in Port : channel_state[p] = "DIALING" ~> channel_state[p] # "DIALING"
=============================================================================
