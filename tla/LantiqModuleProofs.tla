-------------------------- MODULE LantiqModuleProofs --------------------------
(***************************************************************************)
(* Proofs about LantiqModule: its types, that there is never a second       *)
(* monitor thread, that a voice frame is queued under the lock of the       *)
(* channel it is for, and that a port loaded once, with a channel of its    *)
(* own and no ioctl refused, knows its handset.                             *)
(***************************************************************************)
EXTENDS LantiqModule, TLAPS

\* The three invariants need no history but this: the ports whose files have been opened
\* are ports of the build.
Opened == /\ ld = "files" => \A n \in 0 .. at - 1 : n \in Port
          /\ ld \in {"start", "setup", "hook"} => channels \subseteq Port
Segment == channels \subseteq Nat /\ \A n \in channels : 0 .. n \subseteq channels
TypeInv == TypeOK /\ Segment /\ (fault = NULL => Opened)

\* Between fetch and handler the event is still the first of its port.
Handling == pc = "hook" => port \in Port /\ events[port] # <<>>

\* monitor_thread says where the loader is, and what it says of the thread is true until
\* the module is unloaded.
MonitorInv ==
  /\ threads \in {0, 1} /\ (pc = "none" <=> threads = 0)
  /\ monitor_thread = "NULL" => threads = 0
  /\ monitor_thread = "thread" => ld \in {"in", "softhangup", "owners", "stop"}

\* The port and the channel of a call point at each other while the channel lives.
Paired ==
  /\ \A p \in Port : owner[p] # NULL => ast[owner[p]] # "free" /\ line[owner[p]] = p
  /\ \A c \in Chan : line[c] # NULL => ast[c] # "free" /\ owner[line[c]] = c
FreeIsIdle == \A c \in Chan : ast[c] = "free" => chanlock[c] = NULL /\ line[c] = NULL
\* No channel is forgotten by a load, and in the only load none is made before lantiq_tech
\* is registered.
NoneLive == \A c \in Chan : ast[c] = "free"
Drained ==
  /\ ld = "values" => NoneLive
  /\ "drained" \in env /\ ld \in Loading => NoneLive
  /\ "once" \in env => /\ loads = 0 => ld = "out"
                       /\ loads = 0 \/ ld \in {"values", "register"} => ~registered /\ NoneLive
\* The channel of a port that rings is ringing.
Rings ==
  \A p \in Port : channel_state[p] = "RINGING" => owner[p] # NULL /\ ast[owner[p]] = "RINGING"
LockedByMonitor ==
  /\ \A c \in Chan : chanlock[c] = "monitor" => pc \in {"queue", "release"} /\ owner[port] = c
  /\ pc \in {"queue", "release"} => owner[port] # NULL /\ chanlock[owner[port]] = "monitor"
VoiceInv ==
  /\ pc \in Voice => port \in Port
  /\ Alone =>
       /\ Paired /\ FreeIsIdle /\ Drained /\ Rings /\ LockedByMonitor
       /\ fault \notin {"queue", "release"}

-----------------------------------------------------------------------------
(* Types                                                                   *)

LEMMA TypeInit == Init => TypeInv
<1> SUFFICES ASSUME Init PROVE TypeInv
  OBVIOUS
<1>1. events \in [Port -> Seq({"ONHOOK", "OFFHOOK"})]
  BY DEF Init
<1>2. TypeOK
  BY <1>1, SurroundingsAssumption DEF Init, TypeOK, State, Loading, Unloading, Voice
<1>3. Segment /\ Opened
  BY DEF Init, Segment, Opened
<1> QED
  BY <1>2, <1>3 DEF TypeInv

\* The steps of the loader keep the types, and open no file of a port that is not there
\* without a fault.
LEMMA TypeLoader == TypeInv /\ fault = NULL /\ Loader => TypeInv'
<1> SUFFICES ASSUME TypeInv, fault = NULL, Loader PROVE TypeInv'
  OBVIOUS
<1> USE DEF TypeInv, TypeOK, loadVars, threadVars, chanVars, State, Loading, Unloading, Voice,
            Goto, Fail
<1>1. CASE LoadConfig
  BY <1>1 DEF LoadConfig, Loader, Segment, Opened
<1>2. CASE LoadValues
  <2>1. channels' \subseteq Nat /\ Segment'
    BY <1>2, ChannelsAssumption DEF LoadValues, Segment
  <2>2. TypeOK'
    BY <1>2, <2>1 DEF LoadValues, Loader
  <2>3. Opened'
    BY <1>2 DEF LoadValues, Opened
  <2> QED
    BY <2>1, <2>2, <2>3
<1>3. CASE LoadDevice
  <2>1. UNCHANGED <<env, loads, moves, seen, iflock, monlock, channels, iflist, owner,
                    channel_state, monitor, monitor_thread, threads, pc, port, todo, hook,
                    events, ast, line, chanlock>>
    BY <1>3 DEF LoadDevice, Loader
  <2>a. ld' \in {"out", "in"} \cup Loading \cup Unloading
    BY <1>3 DEF LoadDevice
  <2>b. at' \in Nat
    <3>1. at' = 0 \/ at' = at + 1 \/ at' = at
      BY <1>3, Zenon DEF LoadDevice
    <3> QED
      BY <3>1
  <2>e. registered' \in BOOLEAN /\ started' \in BOOLEAN
    <3>1. (registered' = registered \/ registered' = TRUE) /\ started' \in {started, TRUE, FALSE}
      BY <1>3, Zenon DEF LoadDevice
    <3> QED
      BY <3>1
  <2>c. fault' \in {NULL, "ports", "iflist"} \cup Voice
    BY <1>3 DEF LoadDevice
  <2>d. TypeOK'
    BY <2>1, <2>a, <2>b, <2>c, <2>e
  <2>2. Segment'
    BY <1>3 DEF LoadDevice, Segment
  <2>3. ASSUME fault' = NULL PROVE Opened'
    <3>1. CASE ld = "register"
      BY <1>3, <3>1 DEF LoadDevice, Opened
    <3>5. CASE ld = "device"
      <4>1. ld' \in {"out", "files"} /\ at' = 0
        BY <1>3, <3>5 DEF LoadDevice
      <4> QED
        BY <4>1 DEF Opened
    <3>2. CASE ld = "files" /\ at \in channels
      <4>1. at \in Port
        BY <1>3, <2>3, <3>2, NullAssumption DEF LoadDevice
      <4>2. \A n \in 0 .. at' - 1 : ld' = "files" => n \in Port
        BY <1>3, <3>2, <4>1 DEF LoadDevice, Opened
      <4> QED
        BY <1>3, <3>2, <4>2 DEF LoadDevice, Opened
    <3>3. CASE ld = "files" /\ at \notin channels
      <4>1. ASSUME NEW n \in channels PROVE n \in Port
        <5>1. n \in Nat /\ n < at
          BY <3>3 DEF Segment
        <5> QED
          BY <5>1, <3>3 DEF Opened
      <4> QED
        BY <1>3, <3>3, <4>1 DEF LoadDevice, Opened
    <3>4. CASE ld = "start"
      BY <1>3, <3>4 DEF LoadDevice, Opened
    <3> QED
      BY <1>3, <3>1, <3>2, <3>3, <3>4, <3>5 DEF LoadDevice
  <2> QED
    BY <2>d, <2>2, <2>3
<1>4. CASE LoadSetup
  <2>1. seen' \in {"UNKNOWN", "ONHOOK", "OFFHOOK"}
    BY <1>4 DEF LoadSetup, HookStatus, Opened
  <2>2. TypeOK'
    BY <1>4, <2>1 DEF LoadSetup, Loader
  <2> QED
    BY <1>4, <2>2 DEF LoadSetup, Segment, Opened
<1>5. CASE LoadHook
  <2>1. UNCHANGED <<env, loads, moves, registered, iflock, monlock, channels, started, iflist,
                    owner, monitor, monitor_thread, threads, pc, port, todo, hook, events,
                    ast, line, chanlock>>
    BY <1>5 DEF LoadHook, Loader
  <2>2. channel_state' \in [Port -> State]
    BY <1>5 DEF LoadHook
  <2>3. ld' \in {"out", "setup"} /\ at' \in Nat /\ seen' = "UNKNOWN"
    BY <1>5 DEF LoadHook
  <2>4. fault' \in {NULL, "ports", "iflist"} \cup Voice
    BY <1>5 DEF LoadHook
  <2>5. TypeOK'
    BY <2>1, <2>2, <2>3, <2>4
  <2>6. Opened'
    BY <1>5, <2>1, <2>3 DEF LoadHook, Opened
  <2> QED
    BY <2>1, <2>5, <2>6 DEF Segment
<1>6. CASE LoadMonitor
  <2>1. UNCHANGED <<env, loads, moves, seen, registered, iflock, monlock, channels, started,
                    iflist, owner, channel_state, port, todo, hook, events, ast, line,
                    chanlock, fault>>
    BY <1>6 DEF LoadMonitor, Loader
  <2>2. ld' = "in" /\ at' = 0
    BY <1>6 DEF LoadMonitor
  <2>3. /\ monitor' \in BOOLEAN /\ monitor_thread' \in {"NULL", "thread", "STOP"}
        /\ threads' \in Nat
    <3>1. monitor' = TRUE \/ monitor' = monitor
      BY <1>6 DEF LoadMonitor
    <3>2. monitor_thread' = "thread" \/ monitor_thread' = monitor_thread
      BY <1>6 DEF LoadMonitor
    <3>3. threads' = threads + 1 \/ threads' = threads
      BY <1>6 DEF LoadMonitor
    <3>4. monitor' \in BOOLEAN
      BY <3>1, Zenon
    <3> QED
      BY <3>2, <3>3, <3>4
  <2>4. pc' \in {"none", "while", "lock", "poll", "event", "hook", "data"} \cup Voice
    BY <1>6 DEF LoadMonitor
  <2>5. TypeOK'
    BY <2>1, <2>2, <2>3, <2>4
  <2> QED
    BY <2>1, <2>2, <2>5 DEF Segment, Opened
<1>7. CASE Unload
  <2>1. UNCHANGED <<env, loads, moves, at, seen, channels, started, iflist, owner,
                    channel_state, monitor, threads, pc, port, todo, hook, events, ast, line,
                    chanlock>>
    BY <1>7 DEF Unload, Loader, Stops
  <2>2. ld' \in {"softhangup", "owners", "stop", "out"}
    BY <1>7 DEF Unload, Stops
  <2>3. /\ registered' \in BOOLEAN /\ monlock' \in {NULL, "loader", "monitor"}
        /\ monitor_thread' \in {"NULL", "thread", "STOP"} /\ iflock' \in {NULL, "loader"}
        /\ fault' \in {NULL, "iflist"}
    BY <1>7 DEF Unload, Stops, AfterUnload
  <2>4. TypeOK'
    BY <2>1, <2>2, <2>3
  <2> QED
    BY <2>1, <2>2, <2>4 DEF Segment, Opened
<1> QED
  BY <1>1, <1>2, <1>3, <1>4, <1>5, <1>6, <1>7 DEF Loader

LEMMA TypeMonitor ==
  TypeInv /\ Handling /\ MonitorInv /\ VoiceInv /\ fault = NULL /\ Monitor => TypeInv'
<1> SUFFICES ASSUME TypeInv, Handling, MonitorInv, VoiceInv, fault = NULL, Monitor PROVE TypeInv'
  OBVIOUS
<1> USE DEF TypeInv, TypeOK, loadVars, runVars, State, Loading, Unloading, Voice, Run
<1>1. UNCHANGED <<env, loads, moves, ld, at, seen, registered, iflock, channels, started, iflist,
                  owner, monitor, monitor_thread, hook, ast, line>>
  BY DEF Monitor
<1>2. Segment' /\ Opened'
  BY <1>1 DEF Segment, Opened
<1>3. CASE Round
  <2>1. UNCHANGED <<channel_state, events, chanlock, fault>>
    BY <1>3 DEF Round
  <2>2. /\ monlock' \in {NULL, "loader", "monitor"} /\ port' = NULL
        /\ pc' \in {"none", "while", "lock", "poll", "event", "data"}
    BY <1>3 DEF Round
  <2>3. todo' \subseteq Source
    BY <1>3 DEF Round
  <2>4. threads' \in Nat
    <3>1. threads' = threads \/ (pc = "while" /\ threads' = threads - 1)
      BY <1>3 DEF Round
    <3> QED
      BY <3>1 DEF MonitorInv
  <2> QED
    BY <1>1, <1>2, <2>1, <2>2, <2>3, <2>4
<1>4. ASSUME NEW p \in Port, Fetch(p) PROVE TypeInv'
  BY <1>1, <1>2, <1>4 DEF Fetch
<1>6. CASE Hook
  <2> DEFINE s == events[port]
  <2>1. UNCHANGED <<todo, monlock, threads, chanlock>> /\ pc' = "event" /\ port' = NULL
    BY <1>6 DEF Hook
  <2>2. /\ port \in Port /\ s \in Seq({"ONHOOK", "OFFHOOK"}) /\ s # <<>>
        /\ Head(s) \in {"ONHOOK", "OFFHOOK"}
        /\ Tail(s) \in Seq({"ONHOOK", "OFFHOOK"})
    BY <1>6 DEF Hook, Handling
  <2>3. events' \in [Port -> Seq({"ONHOOK", "OFFHOOK"})]
    BY <1>6, <2>2 DEF Hook
  <2>4. channel_state' \in [Port -> State]
    <3>1. Lifted(port) \in State
      BY <2>2 DEF Lifted
    <3> QED
      BY <1>6, <2>2, <3>1 DEF Hook
  <2>5. fault' \in {NULL, "ports", "iflist"} \cup Voice
    BY <1>6 DEF Hook
  <2> QED
    BY <1>1, <1>2, <2>1, <2>3, <2>4, <2>5
<1>5. ASSUME Frame \/ Handler, UNCHANGED <<monlock, channel_state, events, threads>>
      PROVE TypeInv'
  <2>1. pc' \in {"while", "data"} \cup Voice /\ port' \in Port \cup {NULL} /\ todo' \subseteq Source
    <3>1. CASE Frame
      BY <3>1 DEF Frame, Source
    <3>2. CASE Handler
      BY <3>2 DEF Handler, Keep, FrameDone
    <3> QED
      BY <1>5, <3>1, <3>2
  <2>2. chanlock' \in [Chan -> {NULL, "monitor", "hangup"}]
    <3>1. \/ chanlock' = chanlock
          \/ chanlock' = [chanlock EXCEPT ![owner[port]] = "monitor"]
          \/ chanlock' = [chanlock EXCEPT ![owner[port]] = NULL]
      BY <1>5 DEF Frame, Handler, Keep
    <3> QED
      BY <3>1
  <2>3. fault' \in {NULL, "ports", "iflist"} \cup Voice
    BY <1>5 DEF Frame, Handler, Keep
  <2> QED
    BY <1>1, <1>2, <1>5, <2>1, <2>2, <2>3
<1> QED
  BY <1>3, <1>4, <1>5, <1>6 DEF Monitor

LEMMA TypeOthers == TypeInv /\ fault = NULL /\ Others => TypeInv'
<1> SUFFICES ASSUME TypeInv, fault = NULL, Others PROVE TypeInv'
  OBVIOUS
<1> USE DEF TypeInv, TypeOK, loadVars, threadVars, runVars, chanVars, State
<1>1. UNCHANGED <<env, loads, ld, at, seen, registered, channels, started, iflist, iflock, monlock,
                  monitor, monitor_thread, threads, pc, port, todo>>
  BY DEF Others
<1>2. Segment' /\ Opened'
  BY <1>1 DEF Segment, Opened
<1>3. ASSUME NEW p \in Port, Move(p) PROVE TypeInv'
  <2>1. hook' \in [Port -> {"ONHOOK", "OFFHOOK"}] /\ hook'[p] \in {"ONHOOK", "OFFHOOK"}
    BY <1>3 DEF Move
  <2>2. events[p] \in Seq({"ONHOOK", "OFFHOOK"})
    OBVIOUS
  <2>3. Append(events[p], hook'[p]) \in Seq({"ONHOOK", "OFFHOOK"})
    BY <2>1, <2>2
  <2>4. events' \in [Port -> Seq({"ONHOOK", "OFFHOOK"})]
    BY <1>3, <2>3 DEF Move
  <2> QED
    BY <1>1, <1>2, <1>3, <2>1, <2>4 DEF Move
<1>4. ASSUME NEW c \in Chan, Call(c) \/ Answer(c) PROVE TypeInv'
  <2>1. channel_state' \in [Port -> State] /\ ast' \in [Chan -> {"free", "DOWN", "RINGING", "UP"}]
    BY <1>4 DEF Call, Answer
  <2>2. UNCHANGED <<moves, hook, events, owner, line, chanlock, fault>>
    BY <1>4 DEF Call, Answer
  <2> QED
    BY <1>1, <1>2, <2>1, <2>2
<1>5. ASSUME NEW c \in Chan, Hangup(c) PROVE TypeInv'
  <2>1. /\ owner' \in [Port -> Chan \cup {NULL}] /\ line' \in [Chan -> Port \cup {NULL}]
        /\ ast' \in [Chan -> {"free", "DOWN", "RINGING", "UP"}]
        /\ chanlock' \in [Chan -> {NULL, "monitor", "hangup"}]
    BY <1>5 DEF Hangup
  <2>2. channel_state' \in [Port -> State]
    BY <1>5 DEF Hangup
  <2> QED
    BY <1>1, <1>2, <1>5, <2>1, <2>2 DEF Hangup
<1>6. ASSUME NEW c \in Chan, NEW p \in Port, NewChannel(c, p) PROVE TypeInv'
  BY <1>1, <1>2, <1>6 DEF NewChannel
<1> QED
  BY <1>3, <1>4, <1>5, <1>6 DEF Others

-----------------------------------------------------------------------------
(* One monitor thread                                                      *)

LEMMA MonitorInit == Init => MonitorInv
BY DEF Init, MonitorInv

LEMMA MonitorStep == TypeInv /\ MonitorInv /\ VoiceInv /\ [Next]_vars => MonitorInv'
<1> SUFFICES ASSUME TypeInv, MonitorInv, [Next]_vars PROVE MonitorInv'
  OBVIOUS
<1> USE DEF MonitorInv, loadVars, threadVars, chanVars, runVars, Goto, Fail, Run
<1>1. CASE LoadConfig \/ LoadValues
  BY <1>1 DEF LoadConfig, LoadValues
<1>2. CASE LoadDevice
  <2>1. /\ ld \in {"register", "device", "files", "start"}
        /\ UNCHANGED <<monitor, monitor_thread, threads, pc>>
    BY <1>2 DEF LoadDevice
  <2> QED
    BY <2>1
<1>3. CASE LoadSetup \/ LoadHook
  BY <1>3 DEF LoadSetup, LoadHook
<1>4. CASE LoadMonitor
  <2>1. CASE monitor_thread = "NULL"
    BY <1>4, <2>1 DEF LoadMonitor
  <2>2. CASE monitor_thread # "NULL"
    BY <1>4, <2>2 DEF LoadMonitor
  <2> QED
    BY <2>1, <2>2
<1>5. CASE Unload
  BY <1>5 DEF Unload, Stops, AfterUnload
<1>6. CASE Monitor
  <2>1. UNCHANGED <<ld, monitor_thread>>
    BY <1>6 DEF Monitor
  <2>2. CASE Round
    BY <2>1, <2>2 DEF Round
  <2>3. CASE Hook \/ \E p \in Port : Fetch(p)
    BY <2>1, <2>3 DEF Fetch, Hook
  <2>4. CASE (Frame \/ Handler) /\ UNCHANGED threads
    <3>1. pc # "none" /\ pc' # "none"
      BY <2>4 DEF Frame, Handler, Keep, FrameDone, Voice
    <3> QED
      BY <2>1, <2>4, <3>1
  <2> QED
    BY <1>6, <2>2, <2>3, <2>4 DEF Monitor
<1>7. CASE Others
  BY <1>7 DEF Others
<1>8. CASE UNCHANGED vars
  BY <1>8 DEF vars
<1> QED
  BY <1>1, <1>2, <1>3, <1>4, <1>5, <1>6, <1>7, <1>8 DEF Next, Loader

\* Whatever is loaded, unloaded and loaded again: there is never a second monitor thread, and
\* the branches of restart_monitor for a thread that is running are never reached.
LEMMA MonitorImplies == TypeInv /\ MonitorInv => OneMonitor
BY DEF MonitorInv, OneMonitor, TypeInv, TypeOK

-----------------------------------------------------------------------------
(* The event between its fetch and its handler                             *)

LEMMA HandlingStep == TypeInv /\ Handling /\ [Next]_vars => Handling'
<1> SUFFICES ASSUME TypeInv, Handling, [Next]_vars, pc' = "hook"
             PROVE port' \in Port /\ events'[port'] # <<>>
  BY DEF Handling
<1> USE DEF loadVars, threadVars, runVars, chanVars, Run
<1>1. CASE Loader
  <2>1. UNCHANGED <<port, events>>
    BY <1>1 DEF Loader
  <2>2. pc' = pc \/ pc' = "while"
    BY <1>1 DEF Loader, LoadConfig, LoadValues, LoadDevice, LoadSetup, LoadHook, LoadMonitor,
       Unload, Stops
  <2> QED
    BY <2>1, <2>2 DEF Handling
<1>2. CASE Monitor
  <2>1. ASSUME NEW p \in Port, Fetch(p) PROVE port' \in Port /\ events'[port'] # <<>>
    BY <2>1 DEF Fetch
  <2>2. ~Round /\ ~Hook
    BY DEF Round, Hook
  <2>3. ~Frame /\ ~Handler
    <3>1. ~Frame
      BY DEF Frame
    <3>2. ~Handler
      BY DEF Handler, Keep, FrameDone, Voice
    <3> QED
      BY <3>1, <3>2
  <2> QED
    BY <1>2, <2>1, <2>2, <2>3 DEF Monitor
<1>3. CASE Others
  <2>1. UNCHANGED <<pc, port>>
    BY <1>3 DEF Others
  <2>2. ASSUME NEW p \in Port, events[p] # <<>> PROVE events'[p] # <<>>
    <3>1. ASSUME NEW q \in Port, Move(q) PROVE events'[p] # <<>>
      <4>1. hook'[q] \in {"ONHOOK", "OFFHOOK"}
        BY <3>1 DEF Move, TypeInv, TypeOK
      <4>2. events[q] \in Seq({"ONHOOK", "OFFHOOK"})
        BY DEF TypeInv, TypeOK
      <4>3. Append(events[q], hook'[q]) # <<>>
        BY <4>1, <4>2
      <4> QED
        BY <2>2, <3>1, <4>3 DEF Move, TypeInv, TypeOK
    <3>2. (\E q \in Port : Move(q)) \/ UNCHANGED events
      BY <1>3 DEF Others, Call, Answer, Hangup, NewChannel
    <3> QED
      BY <2>2, <3>1, <3>2
  <2> QED
    BY <2>1, <2>2 DEF Handling
<1>4. CASE UNCHANGED vars
  BY <1>4 DEF vars, Handling
<1> QED
  BY <1>1, <1>2, <1>3, <1>4 DEF Next

-----------------------------------------------------------------------------
(* Voice frames                                                            *)

LEMMA VoiceInit == Init => VoiceInv
<1> SUFFICES ASSUME Init PROVE VoiceInv
  OBVIOUS
<1> QED
  BY NullAssumption DEF Init, VoiceInv, Voice, Paired, FreeIsIdle, Drained, NoneLive, Rings,
     LockedByMonitor, Loading

\* Nothing VoiceInv is about changes.
LEMMA VoiceKept ==
  ASSUME VoiceInv, UNCHANGED <<env, owner, pc, port, ast, line, chanlock>>, Drained => Drained',
         Rings => Rings', fault' \notin {"queue", "release"} \/ fault' = fault
  PROVE  VoiceInv'
BY DEF VoiceInv, Alone, Paired, FreeIsIdle, LockedByMonitor

\* The end of a load, and an unload, meet no earlier state of the load.
LEMMA DrainedLater ==
  ASSUME ld \notin {"out", "values"}, ld' \notin {"values", "register"},
         ld' \in Loading => ld \in Loading, UNCHANGED <<env, loads, ast>>, Drained
  PROVE  Drained'
BY DEF Drained, NoneLive

\* Nothing Drained is about changes.
LEMMA DrainedSame ==
  ASSUME UNCHANGED <<env, ld, loads, registered, ast>>, Drained PROVE Drained'
BY DEF Drained, NoneLive

LEMMA VoiceLoader == TypeInv /\ VoiceInv /\ fault = NULL /\ Loader => VoiceInv'
<1> SUFFICES ASSUME TypeInv, VoiceInv, fault = NULL, Loader PROVE VoiceInv'
  OBVIOUS
<1> USE DEF loadVars, threadVars, chanVars, Goto, Fail
<1>a. UNCHANGED <<env, port, ast, line, chanlock>>
  BY DEF Loader
<1>1. CASE LoadConfig
  <2>1. UNCHANGED <<owner, pc, fault, channel_state, registered>>
    BY <1>1 DEF LoadConfig
  <2>2. ASSUME Alone, Drained PROVE Drained'
    <3>1. loads \in Nat /\ loads' = loads + 1 /\ (ld' = "out" \/ ld' = "values")
      BY <1>1 DEF LoadConfig, TypeInv, TypeOK
    <3>2. "once" \in env => loads = 0 /\ ~registered /\ NoneLive
      BY <1>1, <2>2, <3>1 DEF LoadConfig, Holds, Drained
    <3>3. NoneLive
      BY <1>1, <2>2, <3>2 DEF LoadConfig, Holds, NoneLive, Alone
    <3> QED
      BY <1>a, <2>1, <3>1, <3>2, <3>3 DEF Drained, NoneLive
  <2> QED
    BY <1>a, <2>1, <2>2 DEF VoiceInv, Alone, Paired, FreeIsIdle, Rings, LockedByMonitor
<1>2. CASE LoadValues
  <2>0. ASSUME Drained PROVE Drained' /\ NoneLive
    BY <1>2, <1>a, <2>0 DEF LoadValues, Drained, NoneLive
  <2>1. CASE UNCHANGED <<owner, channel_state>>
    <3>1. UNCHANGED <<pc, fault>>
      BY <1>2 DEF LoadValues
    <3> QED
      BY <1>a, <2>0, <2>1, <3>1, VoiceKept DEF Rings
  <2>2. CASE owner' = [p \in Port |-> NULL] /\ channel_state' = [p \in Port |-> "UNKNOWN"]
    <3>1. UNCHANGED <<pc, fault>> /\ ld = "values"
      BY <1>2 DEF LoadValues
    <3>2. ASSUME Alone
          PROVE Paired' /\ FreeIsIdle' /\ Drained' /\ Rings' /\ LockedByMonitor'
      <4>1. \A c \in Chan : ast[c] = "free" /\ line[c] = NULL /\ chanlock[c] = NULL
        BY <2>0, <3>2 DEF VoiceInv, FreeIsIdle, NoneLive
      <4>2. pc \notin {"queue", "release"}
        <5>1. ASSUME pc \in {"queue", "release"} PROVE FALSE
          <6>1. port \in Port /\ owner[port] # NULL
            BY <5>1, <3>2 DEF VoiceInv, LockedByMonitor, Voice
          <6>2. owner[port] \in Chan /\ ast[owner[port]] # "free"
            BY <6>1, <3>2 DEF VoiceInv, Paired, TypeInv, TypeOK
          <6> QED
            BY <4>1, <6>2
        <5> QED
          BY <5>1
      <4>3. Drained'
        BY <2>0, <3>2 DEF VoiceInv
      <4> QED
        BY <1>a, <2>2, <3>1, <4>1, <4>2, <4>3, NullAssumption
           DEF Paired, FreeIsIdle, Rings, LockedByMonitor
    <3> QED
      BY <1>a, <3>1, <3>2 DEF VoiceInv, Alone
  <2> QED
    BY <1>2, <2>1, <2>2 DEF LoadValues
<1>3. CASE LoadDevice
  <2>1. UNCHANGED <<owner, pc, channel_state, loads>>
    BY <1>3 DEF LoadDevice
  <2>2. fault' = fault \/ fault' = "ports"
    BY <1>3 DEF LoadDevice
  <2>3. ld \in {"register", "device", "files", "start"} /\ ld' \notin {"values", "register"}
    BY <1>3 DEF LoadDevice
  <2>4. Drained => Drained'
    BY <1>a, <2>1, <2>3, DrainedLater DEF Loading
  <2> QED
    BY <1>a, <2>1, <2>2, <2>4, VoiceKept DEF Rings
<1>4. CASE LoadSetup \/ LoadHook
  <2>1. /\ UNCHANGED <<owner, pc, loads>> /\ (fault' = fault \/ fault' = "iflist")
        /\ ld \in {"setup", "hook"} /\ ld' \in {"out", "setup", "hook", "restart"}
    BY <1>4 DEF LoadSetup, LoadHook
  <2>2. Drained => Drained'
    BY <1>a, <2>1, DrainedLater DEF Loading
  <2>3. Rings => Rings'
    <3>1. UNCHANGED channel_state \/ channel_state' = [channel_state EXCEPT ![at] = seen]
      BY <1>4 DEF LoadSetup, LoadHook
    <3>2. seen # "RINGING" /\ channel_state \in [Port -> State]
      BY DEF TypeInv, TypeOK
    <3> QED
      BY <1>a, <2>1, <3>1, <3>2 DEF Rings
  <2> QED
    BY <1>a, <2>1, <2>2, <2>3, VoiceKept
<1>5. CASE LoadMonitor
  <2>1. UNCHANGED <<owner, fault, channel_state, loads>> /\ ld = "restart" /\ ld' = "in"
    BY <1>5 DEF LoadMonitor
  <2>2. pc' = pc \/ (pc = "none" /\ pc' = "while")
    BY <1>5 DEF LoadMonitor
  <2>3. Drained => Drained'
    BY <1>a, <2>1, DrainedLater DEF Loading
  <2> QED
    BY <1>a, <2>1, <2>2, <2>3
       DEF VoiceInv, Alone, Voice, Paired, FreeIsIdle, Rings, LockedByMonitor
<1>6. CASE Unload
  <2>1. UNCHANGED <<owner, pc, channel_state, loads>> /\ fault' \in {fault, "iflist"}
    BY <1>6 DEF Unload, Stops
  <2>2. /\ ld \in {"in", "softhangup", "owners", "stop"}
        /\ ld' \in {"softhangup", "owners", "stop", "out"}
    BY <1>6 DEF Unload, Stops
  <2>3. Drained => Drained'
    BY <1>a, <2>1, <2>2, DrainedLater DEF Loading
  <2> QED
    BY <1>a, <2>1, <2>3, VoiceKept DEF Rings
<1> QED
  BY <1>1, <1>2, <1>3, <1>4, <1>5, <1>6 DEF Loader

LEMMA VoiceMonitor ==
  TypeInv /\ Handling /\ VoiceInv /\ fault = NULL /\ Monitor => VoiceInv'
<1> SUFFICES ASSUME TypeInv, Handling, VoiceInv, fault = NULL, Monitor PROVE VoiceInv'
  OBVIOUS
<1> USE DEF loadVars, runVars, Run
<1>a. UNCHANGED <<env, ld, loads, registered, owner, ast, line>>
  BY DEF Monitor
<1>d. Alone <=> Alone'
  BY <1>a DEF Alone
<1>b. Paired => Paired'
  BY <1>a DEF Paired
<1>c. Drained => Drained'
  BY <1>a, DrainedSame
<1>e. UNCHANGED channel_state => (Rings => Rings')
  BY <1>a DEF Rings
<1>1. ASSUME Round \/ \E p \in Port : Fetch(p) PROVE VoiceInv'
  <2>1. UNCHANGED <<chanlock, fault, channel_state>> /\ pc \notin Voice /\ pc' \notin Voice
    BY <1>1 DEF Round, Fetch, Voice
  <2> QED
    BY <1>a, <1>b, <1>c, <1>d, <1>e, <2>1 DEF VoiceInv, FreeIsIdle, LockedByMonitor, Voice
<1>2. CASE Hook
  <2>1. /\ UNCHANGED chanlock /\ fault' \in {"iflist", "owner", fault}
        /\ pc = "hook" /\ pc' = "event"
    BY <1>2 DEF Hook
  <2>2. Rings => Rings'
    <3>1. port \in Port /\ events[port] # <<>> /\ events[port] \in Seq({"ONHOOK", "OFFHOOK"})
      BY <1>2 DEF Hook, Handling, TypeInv, TypeOK
    <3>2. Head(events[port]) \in {"ONHOOK", "OFFHOOK"}
      BY <3>1
    <3>3. Lifted(port) = "RINGING" => channel_state[port] = "RINGING"
      BY DEF Lifted
    <3>4. \A p \in Port : channel_state'[p] = "RINGING" => channel_state[p] = "RINGING"
      BY <1>2, <3>1, <3>2, <3>3 DEF Hook, TypeInv, TypeOK
    <3> QED
      BY <1>a, <3>4 DEF Rings
  <2> QED
    BY <1>a, <1>b, <1>c, <1>d, <2>1, <2>2
       DEF VoiceInv, FreeIsIdle, LockedByMonitor, Voice
<1>3. ASSUME Frame, UNCHANGED channel_state PROVE VoiceInv'
  <2>1. UNCHANGED <<chanlock, fault>> /\ pc = "data"
    BY <1>3 DEF Frame
  <2>2. pc' = "while" \/ (pc' = "owner" /\ port' \in Port)
    BY <1>3 DEF Frame, TypeInv, TypeOK, Source
  <2> QED
    BY <1>3, <1>a, <1>b, <1>c, <1>d, <1>e, <2>1, <2>2
       DEF VoiceInv, FreeIsIdle, LockedByMonitor, Voice
<1>4. ASSUME Handler, UNCHANGED channel_state PROVE VoiceInv'
  <2> DEFINE c == owner[port]
  <2>a. pc \in Voice /\ port \in Port /\ c \in Chan \cup {NULL}
    BY <1>4 DEF Handler, Voice, VoiceInv, TypeInv, TypeOK
  <2>b. ASSUME pc \in {"queue", "release"}, Alone
        PROVE c \in Chan /\ Live(c) /\ chanlock[c] = "monitor"
    BY <2>a, <2>b DEF VoiceInv, Paired, LockedByMonitor, Live
  <2>1. ASSUME UNCHANGED chanlock, fault' = fault \/ fault' \in {"ports", "iflist"}, pc # "release",
               pc = "queue" => pc' = "release", pc # "queue" => pc' \notin {"queue", "release"},
               pc' = "data" \/ (pc' \in Voice /\ port' = port), pc' = "release" => port' = port
        PROVE  VoiceInv'
    BY <1>4, <1>a, <1>b, <1>c, <1>d, <1>e, <2>a, <2>1
       DEF VoiceInv, FreeIsIdle, LockedByMonitor, Voice
  <2>2. CASE /\ pc = "trylock" /\ Live(c) /\ TryLock(c) /\ pc' = "queue" /\ port' = port
             /\ chanlock' = [chanlock EXCEPT ![c] = "monitor"] /\ UNCHANGED fault
    <3>1. c \in Chan
      BY <2>a, <2>2 DEF Live
    <3>2. ASSUME Alone PROVE FreeIsIdle' /\ LockedByMonitor'
      <4>1. FreeIsIdle'
        BY <1>a, <2>2, <3>1, <3>2 DEF VoiceInv, FreeIsIdle, Live, TypeInv, TypeOK
      <4>2. LockedByMonitor'
        BY <1>a, <2>2, <3>1, <3>2, NullAssumption DEF VoiceInv, LockedByMonitor, TypeInv, TypeOK
      <4> QED
        BY <4>1, <4>2
    <3> QED
      BY <1>4, <1>a, <1>b, <1>c, <1>d, <1>e, <2>a, <2>2, <3>2 DEF VoiceInv
  <2>3. CASE /\ pc = "release" /\ Live(c) /\ pc' = "data"
             /\ chanlock' = [chanlock EXCEPT ![c] = NULL] /\ UNCHANGED fault
    <3>1. c \in Chan
      BY <2>a, <2>3 DEF Live
    <3>2. ASSUME Alone PROVE FreeIsIdle' /\ LockedByMonitor'
      BY <1>a, <2>3, <3>1, <3>2, NullAssumption
         DEF VoiceInv, FreeIsIdle, LockedByMonitor, TypeInv, TypeOK
    <3> QED
      BY <1>4, <1>a, <1>b, <1>c, <1>d, <1>e, <2>3, <3>2 DEF VoiceInv, Voice
  <2>4. CASE ~Live(c) /\ pc # "owner" /\ fault' = pc /\ UNCHANGED <<pc, port, chanlock>>
    <3>1. pc \in {"queue", "release"} => ~Alone
      BY <2>b, <2>4
    <3> QED
      BY <1>4, <1>a, <1>b, <1>c, <1>d, <1>e, <2>4, <3>1 DEF VoiceInv, FreeIsIdle, LockedByMonitor
  <2>5. CASE pc = "owner"
    <3>1. /\ UNCHANGED chanlock /\ (fault' = fault \/ fault' \in {"ports", "iflist"})
          /\ pc' = "data" \/ (pc' \in {"owner", "state"} /\ port' = port)
      BY <1>4, <2>5 DEF Handler, Keep, FrameDone
    <3> QED
      BY <2>1, <2>5, <3>1 DEF Voice
  <2>6. CASE pc = "state" /\ Live(c)
    <3>1. CASE ast[c] = "UP"
      <4>1. UNCHANGED <<port, chanlock, fault>> /\ pc' = "trylock"
        BY <1>4, <2>6, <3>1 DEF Handler, Keep
      <4> QED
        BY <2>1, <2>6, <4>1 DEF Voice
    <3>2. CASE ast[c] # "UP"
      <4>1. UNCHANGED <<chanlock, fault>> /\ pc' = "data"
        BY <1>4, <2>6, <3>2 DEF Handler, FrameDone
      <4> QED
        BY <2>1, <2>6, <4>1
    <3> QED
      BY <3>1, <3>2
  <2>7. CASE pc = "trylock" /\ Live(c)
    <3>1. CASE TryLock(c)
      BY <1>4, <2>2, <2>7, <3>1 DEF Handler
    <3>2. CASE ~TryLock(c)
      <4>1. UNCHANGED <<chanlock, fault>> /\ pc' = "data"
        BY <1>4, <2>7, <3>2 DEF Handler, FrameDone
      <4> QED
        BY <2>1, <2>7, <4>1
    <3> QED
      BY <3>1, <3>2
  <2>8. CASE pc = "queue" /\ Live(c)
    BY <1>4, <2>1, <2>8 DEF Handler, Keep, Voice
  <2>9. CASE pc = "release" /\ Live(c)
    BY <1>4, <2>3, <2>9 DEF Handler, FrameDone
  <2>10. CASE pc # "owner" /\ ~Live(c)
    BY <1>4, <2>4, <2>10 DEF Handler
  <2> QED
    BY <2>a, <2>5, <2>6, <2>7, <2>8, <2>9, <2>10 DEF Voice
<1> QED
  BY <1>1, <1>2, <1>3, <1>4 DEF Monitor

LEMMA VoiceOthers == TypeInv /\ VoiceInv /\ fault = NULL /\ Others => VoiceInv'
<1> SUFFICES ASSUME TypeInv, VoiceInv, fault = NULL, Others PROVE VoiceInv'
  OBVIOUS
<1> USE DEF loadVars, threadVars, runVars, chanVars
<1>a. UNCHANGED <<env, ld, loads, registered, channels, pc, port>>
  BY DEF Others
<1>c. Alone <=> Alone'
  BY <1>a DEF Alone
<1>b. /\ owner \in [Port -> Chan \cup {NULL}] /\ line \in [Chan -> Port \cup {NULL}]
      /\ ast \in [Chan -> {"free", "DOWN", "RINGING", "UP"}] /\ channel_state \in [Port -> State]
      /\ chanlock \in [Chan -> {NULL, "monitor", "hangup"}]
      /\ NULL \notin Port /\ NULL \notin Chan
  BY NullAssumption, ChannelsAssumption DEF TypeInv, TypeOK
<1>1. ASSUME NEW p \in Port, Move(p) PROVE VoiceInv'
  <2>1. UNCHANGED <<owner, channel_state, ast, line, chanlock, fault>>
    BY <1>1 DEF Move
  <2>2. (Drained => Drained') /\ (Rings => Rings')
    BY <1>a, <2>1, DrainedSame DEF Rings
  <2> QED
    BY <1>a, <2>1, <2>2, VoiceKept
<1>2. ASSUME NEW c \in Chan, Call(c) \/ Answer(c) PROVE VoiceInv'
  <2>1. /\ ast[c] # "free" /\ chanlock[c] = NULL /\ UNCHANGED <<owner, line, chanlock, fault>>
        /\ ast' \in [Chan -> {"free", "DOWN", "RINGING", "UP"}] /\ ast'[c] # "free"
        /\ \A d \in Chan \ {c} : ast'[d] = ast[d]
    BY <1>2, <1>b DEF Call, Answer
  <2>2. ASSUME Alone, Paired, Rings PROVE Rings'
    <3>1. CASE Call(c)
      <4>1. \A p \in Port : channel_state'[p] = "RINGING" =>
              channel_state[p] = "RINGING" \/ p = line[c]
        BY <1>b, <3>1 DEF Call
      <4>2. ast'[c] = "RINGING"
        BY <1>b, <3>1 DEF Call
      <4>3. line[c] \in Port => owner[line[c]] = c
        BY <1>b, <2>2 DEF Paired
      <4>4. ASSUME NEW p \in Port, channel_state'[p] = "RINGING"
            PROVE  owner[p] # NULL /\ ast'[owner[p]] = "RINGING"
        <5>1. CASE p = line[c]
          BY <1>b, <4>2, <4>3, <5>1
        <5>2. CASE p # line[c]
          BY <1>b, <2>1, <2>2, <4>1, <4>2, <4>4, <5>2 DEF Rings
        <5> QED
          BY <5>1, <5>2
      <4> QED
        BY <2>1, <4>4 DEF Rings
    <3>2. CASE Answer(c)
      <4>1. UNCHANGED channel_state /\ (ast[c] = "RINGING" => channel_state[line[c]] # "RINGING")
        BY <3>2 DEF Answer
      <4>2. ASSUME NEW p \in Port, channel_state[p] = "RINGING", owner[p] = c PROVE FALSE
        BY <1>b, <2>2, <4>1, <4>2 DEF Rings, Paired
      <4> QED
        BY <1>b, <2>1, <2>2, <4>1, <4>2 DEF Rings
    <3> QED
      BY <1>2, <3>1, <3>2
  <2>3. ASSUME Alone PROVE Paired' /\ FreeIsIdle' /\ Drained' /\ LockedByMonitor'
    <3>1. Paired /\ FreeIsIdle /\ Drained /\ LockedByMonitor
      BY <2>3 DEF VoiceInv
    <3>2. Paired'
      BY <1>b, <2>1, <3>1 DEF Paired
    <3>3. FreeIsIdle' /\ LockedByMonitor'
      BY <1>a, <1>b, <2>1, <3>1 DEF FreeIsIdle, LockedByMonitor
    <3>4. \A d \in Chan : ast[d] = "free" <=> ast'[d] = "free"
      BY <2>1
    <3>5. NoneLive <=> NoneLive'
      BY <3>4 DEF NoneLive
    <3>6. Drained'
      BY <1>a, <3>1, <3>5 DEF Drained
    <3> QED
      BY <3>2, <3>3, <3>6
  <2> QED
    BY <1>a, <1>c, <2>1, <2>2, <2>3 DEF VoiceInv
<1>4. ASSUME NEW c \in Chan, Hangup(c) PROVE VoiceInv'
  <2>0. UNCHANGED fault /\ (pc \in Voice => port \in Port)
    BY <1>4 DEF Hangup, VoiceInv
  <2>1. SUFFICES ASSUME Alone
                 PROVE Paired' /\ FreeIsIdle' /\ Drained' /\ Rings' /\ LockedByMonitor'
    BY <1>a, <1>c, <2>0 DEF VoiceInv
  <2>2. Paired /\ FreeIsIdle /\ Drained /\ Rings /\ LockedByMonitor
    BY <2>1 DEF VoiceInv
  <2>3. CASE /\ Live(c) /\ chanlock[c] = NULL /\ chanlock' = [chanlock EXCEPT ![c] = "hangup"]
             /\ UNCHANGED <<owner, channel_state, ast, line>>
    <3>1. ast[c] # "free" /\ (\A d \in Chan \ {c} : chanlock'[d] = chanlock[d])
          /\ chanlock'[c] = "hangup"
      BY <1>b, <2>3 DEF Live
    <3>2. Paired' /\ FreeIsIdle' /\ Drained' /\ Rings'
      BY <1>a, <1>b, <2>2, <2>3, <3>1, DrainedSame DEF Paired, FreeIsIdle, Rings
    <3>3. LockedByMonitor'
      <4>1. pc \in {"queue", "release"} => owner[port] \in Chan \ {c}
        BY <1>b, <2>0, <2>2, <2>3, NullAssumption DEF LockedByMonitor, Voice
      <4> QED
        BY <1>a, <2>2, <2>3, <3>1, <4>1 DEF LockedByMonitor
    <3> QED
      BY <3>2, <3>3
  <2>4. CASE /\ chanlock[c] = "hangup" /\ line[c] # NULL
             /\ owner' = [owner EXCEPT ![line[c]] = NULL] /\ line' = [line EXCEPT ![c] = NULL]
             /\ channel_state' = [channel_state EXCEPT ![line[c]] =
                  IF channel_state[line[c]] \in {"RINGING", "ONHOOK"} THEN "ONHOOK"
                  ELSE "CALL_ENDED"]
             /\ UNCHANGED <<ast, chanlock>>
    <3>1. line[c] \in Port /\ owner[line[c]] = c
      BY <1>b, <2>2, <2>4 DEF Paired
    <3>2. Paired' /\ FreeIsIdle' /\ Drained'
      BY <1>a, <1>b, <2>2, <2>4, <3>1, DrainedSame DEF Paired, FreeIsIdle
    <3>4. Rings'
      <4>1. /\ channel_state'[line[c]] # "RINGING"
            /\ \A p \in Port \ {line[c]} :
                 channel_state'[p] = channel_state[p] /\ owner'[p] = owner[p]
        <5>1. channel_state'[line[c]] = IF channel_state[line[c]] \in {"RINGING", "ONHOOK"}
                                        THEN "ONHOOK" ELSE "CALL_ENDED"
          BY <1>b, <2>4, <3>1
        <5>2. ASSUME NEW p \in Port \ {line[c]}
              PROVE  channel_state'[p] = channel_state[p] /\ owner'[p] = owner[p]
          <6>1. channel_state'[p] = channel_state[p]
            BY <1>b, <2>4, Zenon
          <6>2. owner'[p] = owner[p]
            BY <1>b, <2>4, Zenon
          <6> QED
            BY <6>1, <6>2
        <5> QED
          BY <5>1, <5>2
      <4> QED
        BY <2>2, <2>4, <4>1 DEF Rings
    <3>3. LockedByMonitor'
      <4>1. pc \in {"queue", "release"} => port \in Port /\ port # line[c]
        BY <2>0, <2>2, <2>4, <3>1 DEF LockedByMonitor, Voice
      <4> QED
        BY <1>a, <1>b, <2>2, <2>4, <4>1 DEF LockedByMonitor
    <3> QED
      BY <3>2, <3>3, <3>4
  <2>5. CASE /\ chanlock[c] = "hangup" /\ line[c] = NULL /\ ast' = [ast EXCEPT ![c] = "free"]
             /\ chanlock' = [chanlock EXCEPT ![c] = NULL]
             /\ UNCHANGED <<owner, channel_state, line>>
    <3>0. \A p \in Port : owner[p] # c
      BY <1>b, <2>2, <2>5 DEF Paired
    <3>1. Paired'
      BY <1>b, <2>2, <2>5 DEF Paired
    <3>2. FreeIsIdle' /\ Rings'
      BY <1>a, <1>b, <2>2, <2>5, <3>0 DEF FreeIsIdle, Rings
    <3>4. Drained'
      <4>1. NoneLive => NoneLive'
        BY <1>b, <2>5 DEF NoneLive
      <4> QED
        BY <1>a, <2>2, <4>1 DEF Drained
    <3>3. LockedByMonitor'
      <4>1. pc \in {"queue", "release"} => owner[port] \in Chan \ {c}
        BY <1>b, <2>0, <2>2, <2>5 DEF LockedByMonitor, Voice
      <4>2. (\A d \in Chan \ {c} : chanlock'[d] = chanlock[d]) /\ chanlock'[c] = NULL
        BY <1>b, <2>5
      <4> QED
        BY <1>a, <2>2, <2>5, <4>1, <4>2, NullAssumption DEF LockedByMonitor
    <3> QED
      BY <3>1, <3>2, <3>3, <3>4
  <2> QED
    BY <1>4, <2>3, <2>4, <2>5 DEF Hangup, Lockable
<1>5. ASSUME NEW c \in Chan, NEW p \in Port, NewChannel(c, p) PROVE VoiceInv'
  <2>0. /\ ast[c] = "free" /\ Wanted(p) /\ UNCHANGED <<channel_state, chanlock>> /\ registered
        /\ owner' = [owner EXCEPT ![p] = c] /\ ast' = [ast EXCEPT ![c] = "DOWN"]
        /\ line' = [line EXCEPT ![c] = p] /\ fault' \notin {"queue", "release"}
    BY <1>5, NullAssumption DEF NewChannel
  <2>1. SUFFICES ASSUME Alone
                 PROVE Paired' /\ FreeIsIdle' /\ Drained' /\ Rings' /\ LockedByMonitor'
    BY <1>a, <1>c, <2>0 DEF VoiceInv
  <2>2. /\ Paired /\ FreeIsIdle /\ Drained /\ Rings /\ LockedByMonitor
        /\ pc \in Voice => port \in Port
    BY <2>1 DEF VoiceInv
  <2>3. owner[p] = NULL
    BY <2>0, <2>1 DEF Wanted, Holds, Alone
  <2>4. Paired'
    BY <1>b, <2>0, <2>2, <2>3 DEF Paired
  <2>5. FreeIsIdle' /\ Rings'
    <3>1. channel_state[p] # "RINGING" /\ \A q \in Port : owner[q] # c
      BY <1>b, <2>0, <2>2, <2>3 DEF Rings, Paired
    <3> QED
      BY <1>a, <1>b, <2>0, <2>2, <2>3, <3>1 DEF FreeIsIdle, Rings
  <2>7. Drained'
    <3>1. "drained" \in env => ld \notin Loading
      BY <2>0 DEF Wanted, Holds
    <3>2. "once" \in env => loads # 0 /\ ld \notin {"values", "register"}
      BY <2>0, <2>2 DEF Drained
    <3>3. ld # "values"
      BY <2>1, <3>1, <3>2 DEF Alone, Loading
    <3> QED
      BY <1>a, <3>1, <3>2, <3>3, <2>2 DEF Drained
  <2>6. LockedByMonitor'
    <3>1. pc \in {"queue", "release"} => port \in Port /\ port # p
      BY <2>2, <2>3 DEF LockedByMonitor, Voice
    <3> QED
      BY <1>a, <1>b, <2>0, <2>2, <3>1 DEF LockedByMonitor
  <2> QED
    BY <2>4, <2>5, <2>6, <2>7
<1> QED
  BY <1>1, <1>2, <1>4, <1>5 DEF Others

\* At each step the lock the monitor holds is that of the channel it is about.
LEMMA VoiceImplies == TypeInv /\ VoiceInv => VoiceSafe
<1> SUFFICES ASSUME TypeInv, VoiceInv, Alone
             PROVE /\ fault \notin {"queue", "release"}
                   /\ \A c \in Chan : chanlock[c] = "monitor" <=>
                        (pc \in {"queue", "release"} /\ owner[port] = c)
  BY DEF VoiceSafe
<1>1. \A c \in Chan : chanlock[c] = "monitor" => pc \in {"queue", "release"} /\ owner[port] = c
  BY DEF VoiceInv, LockedByMonitor
<1>2. pc \in {"queue", "release"} => chanlock[owner[port]] = "monitor"
  BY DEF VoiceInv, LockedByMonitor
<1> QED
  BY <1>1, <1>2 DEF VoiceInv

-----------------------------------------------------------------------------
(* The hook status: what load_module has read and what is still queued.     *)

\* A handset that is down is known to be, or nobody has answered with it: the states a
\* port must not be in.
Wrong(p) == IF hook[p] = "ONHOOK" THEN {"OFFHOOK", "UNKNOWN"}
            ELSE {"ONHOOK", "RINGING", "UNKNOWN"}

\* Ports whose state load_module has written.
Written(p) == \/ ld \in {"setup", "hook"} /\ p < at
              \/ ld \in {"restart", "in"}

\* In the only load the monitor thread starts at the end, and the device when all files
\* are open.
LoadOnce ==
  /\ loads = 0 => ld = "out" /\ monitor_thread = "NULL" /\ ~started
  /\ ld \in Loading => monitor_thread = "NULL"
  /\ ld \in {"values", "register", "device", "files", "start"} => ~started
  /\ ld \in {"setup", "hook", "restart", "in"} => started
  /\ ld = "start" => at = 0
  /\ ld = "hook" => at \in channels

\* The last event of a port tells its handset, and without one load_module has read it.
EventsTell ==
  /\ \A p \in Port : events[p] # <<>> => started /\ events[p][Len(events[p])] = hook[p]
  /\ ld = "hook" /\ events[at] = <<>> => seen \in {hook[at], "UNKNOWN"}
StatesTell ==
  \A p \in channels \cap Port :
    Written(p) /\ events[p] = <<>> => channel_state[p] \notin Wrong(p)
HookInv ==
  Alone /\ {"once", "ioctlok"} \subseteq env /\ fault = NULL => LoadOnce /\ EventsTell /\ StatesTell

LEMMA LastAppend ==
  ASSUME NEW S, NEW s \in Seq(S), NEW x \in S
  PROVE  Append(s, x) # <<>> /\ Append(s, x)[Len(Append(s, x))] = x
OBVIOUS

LEMMA EmptyLen == ASSUME NEW S, NEW s \in Seq(S), s = <<>> PROVE Len(s) = 0
OBVIOUS

LEMMA LastTail ==
  ASSUME NEW S, NEW s \in Seq(S), s # <<>>
  PROVE  /\ Tail(s) # <<>> => Tail(s)[Len(Tail(s))] = s[Len(s)]
         /\ Tail(s) = <<>> => Head(s) = s[Len(s)]
<1>1. Tail(s) # <<>> => Tail(s)[Len(Tail(s))] = s[Len(s)]
  OBVIOUS
<1>2. Len(Tail(s)) = Len(s) - 1 /\ Len(s) \in Nat /\ Head(s) = s[1]
  OBVIOUS
<1>3. Tail(s) = <<>> => Len(s) = 1
  <2>1. Tail(s) \in Seq(S)
    OBVIOUS
  <2> QED
    BY <1>2, <2>1, EmptyLen
<1> QED
  BY <1>1, <1>2, <1>3

LEMMA HookInit == Init => HookInv
BY DEF Init, HookInv, LoadOnce, EventsTell, StatesTell, Written, Loading

\* What the states of the ports say survives a step that changes only where the loader is,
\* as long as it has written no further port.
LEMMA StatesStay ==
  ASSUME StatesTell, UNCHANGED <<hook, events, channel_state, channels>>,
         \A p \in channels \cap Port : Written(p)' => Written(p)
  PROVE  StatesTell'
BY DEF StatesTell, Wrong

\* load_module writes what it read, or older than an event that is still queued.
LEMMA HookLoader ==
  ASSUME TypeInv, MonitorInv, HookInv, Alone, {"once", "ioctlok"} \subseteq env,
         fault = NULL, fault' = NULL, Loader
  PROVE  LoadOnce' /\ EventsTell' /\ StatesTell'
<1> USE DEF Goto, Fail
<1>1. LoadOnce /\ EventsTell /\ StatesTell
  BY DEF HookInv
<1>2. UNCHANGED <<env, hook, events>>
  BY DEF Loader
<1>3. CASE LoadConfig
  <2>1. /\ loads = 0 /\ loads' = 1 /\ ld' \in {"out", "values"} /\ ~started
        /\ monitor_thread = "NULL"
        /\ UNCHANGED <<at, started, channels, channel_state, monitor_thread>>
    BY <1>1, <1>3 DEF LoadConfig, threadVars, Holds, TypeInv, TypeOK, LoadOnce
  <2>2. LoadOnce'
    BY <2>1 DEF LoadOnce
  <2>3. EventsTell'
    BY <1>1, <1>2, <2>1 DEF EventsTell
  <2>4. \A p \in channels \cap Port : ~Written(p)'
    BY <2>1 DEF Written
  <2> QED
    BY <1>1, <1>2, <2>1, <2>2, <2>3, <2>4, StatesStay
<1>4. CASE LoadValues
  <2>1. /\ ld = "values" /\ loads' = loads /\ ld' \in {"out", "register"} /\ loads # 0
        /\ UNCHANGED <<started, monitor_thread>> /\ monitor_thread = "NULL" /\ ~started
    BY <1>1, <1>4 DEF LoadValues, threadVars, LoadOnce, Loading
  <2>2. LoadOnce'
    BY <2>1 DEF LoadOnce
  <2>3. EventsTell'
    BY <1>1, <1>2, <2>1 DEF EventsTell
  <2>4. StatesTell'
    BY <2>1 DEF StatesTell, Written
  <2> QED
    BY <2>2, <2>3, <2>4
<1>5. CASE LoadDevice
  <2>1. /\ ld \in {"register", "device", "files", "start"} /\ loads' = loads
        /\ UNCHANGED <<channels, channel_state, monitor_thread>>
    BY <1>5 DEF LoadDevice, threadVars
  <2>2. loads # 0 /\ monitor_thread = "NULL" /\ ~started /\ (ld = "start" => at = 0)
    BY <1>1, <2>1 DEF LoadOnce, Loading
  <2>3. /\ \/ ld' \in {"device", "softhangup", "out", "files", "start"} /\ ~started'
           \/ ld = "start" /\ ld' = "setup" /\ at = 0 /\ started'
        /\ ld' \in {"start", "setup"} => at' = 0
    <3>1. CASE ld \in {"register", "device"}
      <4>1. /\ ld' \in {"device", "softhangup", "files", "out"} /\ UNCHANGED started
            /\ ld' \notin {"start", "setup"}
        BY <1>5, <3>1 DEF LoadDevice
      <4> QED
        BY <2>2, <4>1
    <3>2. CASE ld = "files"
      <4>1. ld' \in {"start", "out", "files"} /\ (ld' = "start" => at' = 0)
        BY <1>5, <3>2 DEF LoadDevice
      <4>2. UNCHANGED started
        BY <1>5, <3>2 DEF LoadDevice
      <4> QED
        BY <2>2, <4>1, <4>2
    <3>3. CASE ld = "start"
      <4>1. /\ UNCHANGED at
            /\ (ld' = "setup" /\ started') \/ (ld' = "out" /\ started' \in {started, FALSE})
        BY <1>5, <3>3 DEF LoadDevice
      <4>2. (ld' = "setup" /\ started') \/ (ld' = "out" /\ ~started')
        BY <2>2, <4>1, Zenon
      <4> QED
        BY <2>2, <3>3, <4>1, <4>2
    <3> QED
      BY <2>1, <3>1, <3>2, <3>3
  <2>4. LoadOnce'
    BY <2>1, <2>2, <2>3 DEF LoadOnce, Loading
  <2>5. EventsTell'
    <3>1. \A p \in Port : events[p] = <<>>
      BY <1>1, <2>2 DEF EventsTell
    <3> QED
      BY <1>2, <2>3, <3>1 DEF EventsTell
  <2>6. \A p \in channels \cap Port : ~Written(p)'
    <3>1. \A p \in channels : p \in Nat
      BY DEF TypeInv, TypeOK
    <3> QED
      BY <2>3, <3>1 DEF Written
  <2> QED
    BY <1>1, <1>2, <2>1, <2>4, <2>5, <2>6, StatesStay
<1>6. CASE LoadSetup
  <2>1. /\ ld = "setup" /\ loads' = loads /\ loads # 0 /\ monitor_thread = "NULL" /\ started
        /\ UNCHANGED <<at, channels, channel_state, monitor_thread, started>>
        /\ \/ at \in channels /\ ld' = "out"
           \/ at \in channels /\ ld' = "hook" /\ seen' \in {hook[at], "UNKNOWN"}
           \/ at \notin channels /\ ld' = "restart"
    BY <1>1, <1>6 DEF LoadSetup, threadVars, LoadOnce, Loading, HookStatus
  <2>2. LoadOnce'
    BY <2>1 DEF LoadOnce
  <2>3. EventsTell'
    BY <1>1, <1>2, <2>1 DEF EventsTell
  <2>4. ASSUME NEW p \in channels \cap Port, Written(p)' PROVE Written(p)
    <3>1. CASE at \in channels
      BY <2>1, <2>4, <3>1 DEF Written
    <3>2. CASE at \notin channels
      <4>1. p \in Nat /\ at \in Nat /\ at \notin 0 .. p
        BY <3>2 DEF TypeInv, TypeOK, Segment
      <4>2. p < at
        BY <4>1
      <4> QED
        BY <2>1, <4>2 DEF Written
    <3> QED
      BY <3>1, <3>2
  <2> QED
    BY <1>1, <1>2, <2>1, <2>2, <2>3, <2>4, StatesStay
<1>7. CASE LoadHook
  <2>1. /\ ld = "hook" /\ loads' = loads /\ loads # 0 /\ monitor_thread = "NULL" /\ started
        /\ UNCHANGED <<channels, monitor_thread, started>>
        /\ at \in channels /\ at \in Port /\ at \in Nat
        /\ channel_state' = [channel_state EXCEPT ![at] = seen]
        /\ \/ ld' = "out"
           \/ seen # "UNKNOWN" /\ ld' = "setup" /\ at' = at + 1
    BY <1>1, <1>7 DEF LoadHook, threadVars, LoadOnce, Loading, TypeInv, TypeOK, Opened
  <2>2. LoadOnce'
    BY <2>1 DEF LoadOnce, Loading
  <2>3. EventsTell'
    BY <1>1, <1>2, <2>1 DEF EventsTell
  <2>4. ASSUME NEW p \in channels \cap Port, Written(p)', events[p] = <<>>
        PROVE  channel_state'[p] \notin Wrong(p)
    <3>1. ld' = "setup" /\ at' = at + 1 /\ seen # "UNKNOWN"
      BY <2>1, <2>4 DEF Written
    <3>2. p \in Nat /\ p < at + 1
      BY <2>4, <3>1 DEF Written, TypeInv, TypeOK
    <3>3. CASE p = at
      <4>1. channel_state'[p] = seen /\ seen = hook[p] /\ hook[p] \in {"ONHOOK", "OFFHOOK"}
        BY <1>1, <2>1, <2>4, <3>1, <3>3 DEF EventsTell, TypeInv, TypeOK
      <4> QED
        BY <4>1 DEF Wrong
    <3>4. CASE p # at
      <4>1. Written(p)
        BY <2>1, <3>2, <3>4 DEF Written
      <4>2. channel_state'[p] = channel_state[p]
        BY <2>1, <3>4 DEF TypeInv, TypeOK
      <4> QED
        BY <1>1, <2>4, <4>1, <4>2 DEF StatesTell
    <3> QED
      BY <3>3, <3>4
  <2>5. StatesTell'
    BY <1>2, <2>1, <2>4 DEF StatesTell, Wrong
  <2> QED
    BY <2>2, <2>3, <2>5
<1>8. CASE LoadMonitor
  <2>1. /\ ld = "restart" /\ ld' = "in" /\ loads' = loads /\ loads # 0 /\ started
        /\ UNCHANGED <<channels, channel_state, started>>
    BY <1>1, <1>8 DEF LoadMonitor, LoadOnce
  <2>2. LoadOnce'
    BY <2>1 DEF LoadOnce, Loading
  <2>3. EventsTell'
    BY <1>1, <1>2, <2>1 DEF EventsTell
  <2>4. \A p \in channels \cap Port : Written(p)
    BY <2>1 DEF Written
  <2> QED
    BY <1>1, <1>2, <2>1, <2>2, <2>3, <2>4, StatesStay
<1>9. CASE Unload
  <2>1. /\ ld' \in {"softhangup", "owners", "stop", "out"} /\ loads' = loads /\ loads # 0
        /\ UNCHANGED <<channels, channel_state, started>>
    BY <1>1, <1>9 DEF Unload, LoadOnce
  <2>2. LoadOnce'
    BY <2>1 DEF LoadOnce, Loading
  <2>3. EventsTell'
    BY <1>1, <1>2, <2>1 DEF EventsTell
  <2>4. \A p \in channels \cap Port : ~Written(p)'
    BY <2>1 DEF Written
  <2> QED
    BY <1>1, <1>2, <2>1, <2>2, <2>3, <2>4, StatesStay
<1> QED
  BY <1>3, <1>4, <1>5, <1>6, <1>7, <1>8, <1>9 DEF Loader

\* The monitor handles events in the order they came.
LEMMA HookMonitor ==
  ASSUME TypeInv, Handling, MonitorInv, VoiceInv, HookInv, Alone,
         {"once", "ioctlok"} \subseteq env, fault = NULL, fault' = NULL, Monitor
  PROVE  LoadOnce' /\ EventsTell' /\ StatesTell'
<1>1. LoadOnce /\ EventsTell /\ StatesTell
  BY DEF HookInv
<1>2. UNCHANGED <<env, loads, ld, at, seen, started, channels, monitor_thread, hook>>
  BY DEF Monitor, loadVars
<1>3. LoadOnce'
  BY <1>1, <1>2 DEF LoadOnce
<1>4. CASE UNCHANGED <<channel_state, events>>
  <2>1. EventsTell'
    BY <1>1, <1>2, <1>4 DEF EventsTell
  <2> QED
    BY <1>1, <1>2, <1>3, <1>4, <2>1, StatesStay DEF Written
<1>5. CASE Hook
  <2> DEFINE p == port
  <2>1. ld \notin Loading
    BY <1>1, <1>5 DEF Hook, LoadOnce, MonitorInv
  <2>a. Lifted(p) \in {"INCALL", "OFFHOOK"}
    BY <1>5 DEF Hook, Handling, VoiceInv, Rings, Lifted, Accepts
  <2>2. /\ p \in Port /\ events[p] \in Seq({"ONHOOK", "OFFHOOK"}) /\ events[p] # <<>>
        /\ events' = [events EXCEPT ![p] = Tail(events[p])]
        /\ channel_state' = [channel_state EXCEPT ![p] =
             IF Head(events[p]) = "ONHOOK" THEN "ONHOOK" ELSE Lifted(p)]
    BY <1>5 DEF Hook, Handling, Holds, TypeInv, TypeOK
  <2>b. Head(events[p]) \in {"ONHOOK", "OFFHOOK"}
    BY <2>2
  <2>3. \A q \in Port \ {p} : events'[q] = events[q] /\ channel_state'[q] = channel_state[q]
    BY <2>2 DEF TypeInv, TypeOK
  <2>4. /\ events'[p] # <<>> => events'[p][Len(events'[p])] = hook[p]
        /\ events'[p] = <<>> => Head(events[p]) = hook[p]
    <3>1. events[p][Len(events[p])] = hook[p] /\ events'[p] = Tail(events[p])
      BY <1>1, <2>2 DEF EventsTell, TypeInv, TypeOK
    <3> QED
      BY <2>2, <3>1, LastTail
  <2>5. EventsTell'
    <3>1. \A q \in Port : events'[q] # <<>> => started /\ events'[q][Len(events'[q])] = hook[q]
      BY <1>1, <2>2, <2>3, <2>4 DEF EventsTell
    <3>2. ld' # "hook"
      BY <1>2, <2>1 DEF Loading
    <3> QED
      BY <1>2, <3>1, <3>2 DEF EventsTell
  <2>6. events'[p] = <<>> => channel_state'[p] \notin Wrong(p)
    <3>1. channel_state'[p] \in {"INCALL", Head(events[p])} /\ hook[p] \in {"ONHOOK", "OFFHOOK"}
      BY <2>2, <2>a, <2>b DEF TypeInv, TypeOK
    <3> QED
      BY <2>4, <3>1 DEF Wrong
  <2>7. StatesTell'
    BY <1>1, <1>2, <2>3, <2>6 DEF StatesTell, Written, Wrong
  <2> QED
    BY <1>3, <2>5, <2>7
<1> QED
  BY <1>3, <1>4, <1>5 DEF Monitor, Round, Fetch

\* A handset that moves leaves an event; a call changes a state the user does not contradict.
LEMMA HookOthers ==
  ASSUME TypeInv, MonitorInv, HookInv, Alone, {"once", "ioctlok"} \subseteq env,
         fault = NULL, fault' = NULL, Others
  PROVE  LoadOnce' /\ EventsTell' /\ StatesTell'
<1>1. LoadOnce /\ EventsTell /\ StatesTell
  BY DEF HookInv
<1>2. UNCHANGED <<env, loads, ld, at, seen, started, channels, monitor_thread>>
  BY DEF Others, loadVars, threadVars
<1>3. LoadOnce'
  BY <1>1, <1>2 DEF LoadOnce
<1>4. ASSUME NEW p \in Port, Move(p) PROVE EventsTell' /\ StatesTell'
  <2>1. /\ UNCHANGED channel_state /\ hook[p] \in {"ONHOOK", "OFFHOOK"}
        /\ events[p] \in Seq({"ONHOOK", "OFFHOOK"})
        /\ hook'[p] \in {"ONHOOK", "OFFHOOK"}
        /\ \A q \in Port \ {p} : hook'[q] = hook[q] /\ events'[q] = events[q]
    BY <1>4 DEF Move, TypeInv, TypeOK
  <2>2. CASE started
    <3>1. events'[p] = Append(events[p], hook'[p])
      BY <1>4, <2>2 DEF Move, TypeInv, TypeOK
    <3>2. events'[p] # <<>> /\ events'[p][Len(events'[p])] = hook'[p]
      BY <2>1, <3>1, LastAppend
    <3>3. \A q \in Port :
            events'[q] # <<>> => started' /\ events'[q][Len(events'[q])] = hook'[q]
      BY <1>1, <1>2, <2>1, <2>2, <3>2 DEF EventsTell
    <3>4. ld' = "hook" /\ events'[at] = <<>> => seen \in {hook'[at], "UNKNOWN"}
      <4>1. ld = "hook" => at \in Port
        BY <1>1 DEF LoadOnce, TypeInv, Opened
      <4> QED
        BY <1>1, <1>2, <2>1, <3>2, <4>1 DEF EventsTell
    <3>5. EventsTell'
      BY <1>2, <3>3, <3>4 DEF EventsTell
    <3>6. StatesTell'
      BY <1>1, <1>2, <2>1, <3>2 DEF StatesTell, Written, Wrong
    <3> QED
      BY <3>5, <3>6
  <2>3. CASE ~started
    <3>1. UNCHANGED events /\ \A q \in Port : events[q] = <<>>
      BY <1>1, <1>4, <2>3 DEF Move, EventsTell
    <3>2. ld \notin {"hook", "setup", "restart", "in"}
      BY <1>1, <2>3 DEF LoadOnce
    <3>3. EventsTell'
      BY <1>2, <3>1, <3>2 DEF EventsTell
    <3>4. StatesTell'
      BY <1>2, <3>2 DEF StatesTell, Written
    <3> QED
      BY <3>3, <3>4
  <2> QED
    BY <2>2, <2>3
<1>5. ASSUME UNCHANGED <<hook, events>>,
             \A p \in Port :
               \/ channel_state'[p] = channel_state[p]
               \/ channel_state[p] = "ONHOOK" /\ channel_state'[p] = "RINGING"
               \/ channel_state[p] = "RINGING" /\ channel_state'[p] = "ONHOOK"
               \/ channel_state'[p] = "CALL_ENDED"
      PROVE  EventsTell' /\ StatesTell'
  <2>1. EventsTell'
    BY <1>1, <1>2, <1>5 DEF EventsTell
  <2>2. ASSUME NEW p \in channels \cap Port, Written(p), events[p] = <<>>
        PROVE  channel_state'[p] \notin Wrong(p)
    <3>1. channel_state[p] \notin Wrong(p) /\ hook[p] \in {"ONHOOK", "OFFHOOK"}
      BY <1>1, <2>2 DEF StatesTell, TypeInv, TypeOK
    <3> QED
      BY <1>5, <3>1 DEF Wrong
  <2>3. StatesTell'
    BY <1>2, <1>5, <2>2 DEF StatesTell, Written, Wrong
  <2> QED
    BY <2>1, <2>3
<1>6. ASSUME NEW c \in Chan, \/ Call(c) \/ Answer(c) \/ Hangup(c)
                             \/ \E p \in Port : NewChannel(c, p)
      PROVE  EventsTell' /\ StatesTell'
  <2>1. UNCHANGED <<hook, events>>
    BY <1>6 DEF Call, Answer, Hangup, NewChannel
  <2>2. ASSUME NEW p \in Port
        PROVE  \/ channel_state'[p] = channel_state[p]
               \/ channel_state[p] = "ONHOOK" /\ channel_state'[p] = "RINGING"
               \/ channel_state[p] = "RINGING" /\ channel_state'[p] = "ONHOOK"
               \/ channel_state'[p] = "CALL_ENDED"
    <3>1. \/ UNCHANGED channel_state
          \/ /\ channel_state[line[c]] = "ONHOOK"
             /\ channel_state' = [channel_state EXCEPT ![line[c]] = "RINGING"]
          \/ channel_state' = [channel_state EXCEPT ![line[c]] =
               IF channel_state[line[c]] \in {"RINGING", "ONHOOK"} THEN "ONHOOK"
               ELSE "CALL_ENDED"]
      BY <1>6 DEF Call, Answer, Hangup, NewChannel
    <3> QED
      BY <3>1 DEF TypeInv, TypeOK
  <2> QED
    BY <1>5, <2>1, <2>2
<1> QED
  BY <1>3, <1>4, <1>6 DEF Others

LEMMA HookStep ==
  TypeInv /\ Handling /\ MonitorInv /\ VoiceInv /\ HookInv /\ [Next]_vars => HookInv'
<1> SUFFICES ASSUME TypeInv, Handling, MonitorInv, VoiceInv, HookInv, [Next]_vars, Alone',
                    {"once", "ioctlok"} \subseteq env', fault' = NULL
             PROVE LoadOnce' /\ EventsTell' /\ StatesTell'
  BY DEF HookInv
<1>1. CASE UNCHANGED vars
  BY <1>1 DEF vars, loadVars, threadVars, HookInv, Alone, LoadOnce, EventsTell, StatesTell, Written,
     Wrong
<1>2. CASE Next
  <2>1. UNCHANGED env
    BY <1>2 DEF Next, Loader, Monitor, Others, loadVars
  <2> QED
    BY <1>2, <2>1, HookLoader, HookMonitor, HookOthers DEF Next, Alone
<1> QED
  BY <1>1, <1>2

LEMMA HookImplies == HookInv => KnowsHook
BY DEF HookInv, StatesTell, Written, Wrong, KnowsHook

-----------------------------------------------------------------------------
(* Theorems                                                                *)

\* The inductive invariant, for any ports, channels, configurations and number of loads.
THEOREM InvariantHolds == Spec => [](TypeInv /\ Handling /\ MonitorInv /\ VoiceInv)
<1>1. Init => TypeInv /\ Handling /\ MonitorInv /\ VoiceInv
  BY TypeInit, MonitorInit, VoiceInit DEF Init, Handling
<1>2. TypeInv /\ Handling /\ MonitorInv /\ VoiceInv /\ [Next]_vars
        => (TypeInv /\ Handling /\ MonitorInv /\ VoiceInv)'
  <2> SUFFICES ASSUME TypeInv, Handling, MonitorInv, VoiceInv, [Next]_vars
               PROVE TypeInv' /\ Handling' /\ MonitorInv' /\ VoiceInv'
    OBVIOUS
  <2>1. Handling' /\ MonitorInv'
    BY HandlingStep, MonitorStep
  <2>2. CASE Next
    <3>1. TypeInv'
      BY <2>2, TypeLoader, TypeMonitor, TypeOthers DEF Next
    <3>2. VoiceInv'
      BY <2>2, VoiceLoader, VoiceMonitor, VoiceOthers DEF Next
    <3> QED
      BY <2>1, <3>1, <3>2
  <2>3. CASE UNCHANGED vars
    <3>1. TypeInv'
      BY <2>3 DEF vars, loadVars, threadVars, runVars, chanVars, TypeInv, TypeOK, Segment,
         Opened
    <3>2. Drained => Drained'
      BY <2>3, DrainedSame DEF vars, loadVars, chanVars
    <3>3. Rings => Rings'
      BY <2>3 DEF vars, chanVars, Rings
    <3>4. VoiceInv'
      BY <2>3, <3>2, <3>3, VoiceKept DEF vars, loadVars, threadVars, runVars, chanVars
    <3> QED
      BY <2>1, <3>1, <3>4
  <2> QED
    BY <2>2, <2>3
<1> QED
  BY <1>1, <1>2, PTL DEF Spec

\* Every variable of the module has its type, as long as load_module opens no more files
\* than the build has ports.
THEOREM TypeCorrect == Spec => []TypeOK
<1>1. TypeInv => TypeOK
  BY DEF TypeInv
<1> QED
  BY <1>1, InvariantHolds, PTL

\* restart_monitor: one monitor thread at most, and none is ever killed to start another.
THEOREM OneMonitorCorrect == Spec => []OneMonitor
BY InvariantHolds, MonitorImplies, PTL

\* lantiq_dev_data_handler: with one channel for a port, a frame is queued to a channel that
\* is locked and lives, although owner is read again without a lock.
THEOREM VoiceCorrect == Spec => []VoiceSafe
BY InvariantHolds, VoiceImplies, PTL

\* load_module: the hook status it writes without iflock is not older than the events that
\* are still queued, so a port of the only load, whose channel is its owner, knows its
\* handset when they are handled and no ioctl of the handler was refused.
THEOREM HookCorrect == Spec => []KnowsHook
<1>1. Init => HookInv
  BY HookInit
<1>2. TypeInv /\ Handling /\ MonitorInv /\ VoiceInv /\ HookInv /\ [Next]_vars => HookInv'
  BY HookStep
<1>3. HookInv => KnowsHook
  BY HookImplies
<1> QED
  BY <1>1, <1>2, <1>3, InvariantHolds, PTL DEF Spec
===============================================================================
