----------------------------- MODULE LantiqModule -----------------------------
(***************************************************************************)
(* chan_lantiq.c as a loadable module: load_module and unload_module, the   *)
(* life of the monitor thread, and the voice frames that thread hands to    *)
(* the channels.  Module Lantiq has the call control; what it does to the   *)
(* state of a port is here only as far as loading and voice depend on it.   *)
(*                                                                          *)
(* The loader is the Asterisk thread that runs load_module, unload_module   *)
(* or the exit handlers; the module's variables survive an unload, as the   *)
(* test of monitor_thread in restart_monitor expects.                       *)
(*                                                                          *)
(* (Each "Bug" operator is a fault of the operator that follows it, for the *)
(* mutation of the model.)                                                  *)
(*                                                                          *)
(* env holds how the surroundings behave, chosen once:                      *)
(*   idle     a channel is made only for a port that has none               *)
(*   drained  load_module runs only while there is no channel               *)
(*   once     ... only once                                                 *)
(*   nocalls  no channel is made at all                                     *)
(*   still    the handsets are not moved                                    *)
(*   ioctlok  no ioctl of the hook handler is refused                       *)
(***************************************************************************)
EXTENDS Integers, Sequences, FiniteSets

CONSTANTS Port,      \* entries of dev_ctx.ch_fd, TAPI_AUDIO_PORT_NUM_MAX
          Channels,  \* ports the configuration may name, as sets
          Chan,      \* channel structures Asterisk may allocate
          Surroundings,
          MaxLoads,  \* bound: calls of load_module
          MaxMoves,  \* bound: times a handset is moved
          NULL

Discipline == {"idle", "drained", "once", "nocalls", "still", "ioctlok"}

ASSUME SurroundingsAssumption == Surroundings \subseteq SUBSET Discipline
ASSUME ChannelsAssumption ==
  /\ Channels \subseteq SUBSET Nat /\ Port \subseteq Nat
  /\ \A C \in Channels : \A n \in C : 0 .. n \subseteq C
ASSUME BoundAssumption == MaxLoads \in Nat /\ MaxMoves \in Nat
ASSUME NullAssumption ==
  NULL \notin Chan \cup Nat \cup {"loader", "monitor", "hangup", "ports", "queue", "release"}

VARIABLES
  env, loads, moves,
  ld,             \* what the loader does
  at, seen,       \* port it is at, and the hook status read of it
  registered,     \* lantiq_tech is registered
  iflock, monlock,
  channels,       \* ports 0..dev_ctx.channels-1
  started,        \* the device is started
  iflist,         \* the array of ports is allocated
  owner, channel_state,
  monitor, monitor_thread,
  threads,        \* monitor threads that run
  pc, port,       \* what the monitor thread does, for which port
  todo,           \* what poll has reported and is not handled yet
  hook, events,   \* the handsets, and the hook events nobody has handled
  ast, line,      \* _state of a channel, and its port
  chanlock,
  fault           \* where memory was used that is not there, or NULL

loadVars  == <<env, loads, ld, at, seen, registered, channels, started, iflist>>
threadVars == <<monitor, monitor_thread, threads, pc>>
runVars    == <<port, todo>>
chanVars   == <<ast, line, chanlock>>
vars == <<loadVars, moves, iflock, monlock, owner, channel_state, threadVars, runVars,
          hook, events, chanVars, fault>>

Device == -1
Source == Port \cup {Device}
State == {"UNKNOWN", "ONHOOK", "OFFHOOK", "RINGING", "INCALL", "CALL_ENDED"}
Loading == {"values", "register", "device", "files", "start", "setup", "hook", "restart"}
Unloading == {"softhangup", "owners", "stop"}
Voice == {"owner", "state", "trylock", "queue", "release"}

TypeOK ==
  /\ env \subseteq Discipline /\ loads \in Nat /\ moves \in Nat
  /\ ld \in {"out", "in"} \cup Loading \cup Unloading
  /\ at \in Nat /\ seen \in {"UNKNOWN", "ONHOOK", "OFFHOOK"} /\ registered \in BOOLEAN
  /\ iflock \in {NULL, "loader"} /\ monlock \in {NULL, "loader", "monitor"}
  /\ channels \subseteq Nat /\ started \in BOOLEAN /\ iflist \in BOOLEAN
  /\ owner \in [Port -> Chan \cup {NULL}] /\ channel_state \in [Port -> State]
  /\ monitor \in BOOLEAN /\ monitor_thread \in {"NULL", "thread", "STOP"}
  /\ threads \in Nat
  /\ pc \in {"none", "while", "lock", "poll", "event", "hook", "data"} \cup Voice
  /\ port \in Port \cup {NULL} /\ todo \subseteq Source
  /\ hook \in [Port -> {"ONHOOK", "OFFHOOK"}]
  /\ events \in [Port -> Seq({"ONHOOK", "OFFHOOK"})]
  /\ ast \in [Chan -> {"free", "DOWN", "RINGING", "UP"}] /\ line \in [Chan -> Port \cup {NULL}]
  /\ chanlock \in [Chan -> {NULL, "monitor", "hangup"}]
  /\ fault \in {NULL, "ports", "iflist"} \cup Voice

Init ==
  /\ env \in Surroundings /\ loads = 0 /\ moves = 0
  /\ ld = "out" /\ at = 0 /\ seen = "UNKNOWN"
  /\ registered = FALSE /\ iflock = NULL /\ monlock = NULL
  /\ channels = {} /\ started = FALSE /\ iflist = FALSE
  /\ owner = [p \in Port |-> NULL] /\ channel_state = [p \in Port |-> "UNKNOWN"]
  /\ monitor = FALSE /\ monitor_thread = "NULL" /\ threads = 0
  /\ pc = "none" /\ port = NULL /\ todo = {}
  /\ hook \in [Port -> {"ONHOOK", "OFFHOOK"}] /\ events = [p \in Port |-> <<>>]
  /\ ast = [c \in Chan |-> "free"] /\ line = [c \in Chan |-> NULL]
  /\ chanlock = [c \in Chan |-> NULL]
  /\ fault = NULL

Holds(d) == d \in env
Live(c) == c # NULL /\ ast[c] # "free"

-----------------------------------------------------------------------------
(* load_module.  A failure returns at once and undoes nothing.              *)

Goto(step) == ld' = step
Fail == Goto("out")

\* The scheduler thread, then the configuration file.
LoadConfig ==
  /\ ld = "out" /\ loads < (IF Holds("once") THEN 1 ELSE MaxLoads)
  /\ Holds("drained") => \A c \in Chan : ast[c] = "free"
  /\ loads' = loads + 1
  /\ Fail \/ Goto("values")
  /\ UNCHANGED <<at, seen, registered, iflock, channels, started, iflist,
                 owner, channel_state, monlock, threadVars, fault>>

\* Its values under iflock, which a value that is refused leaves locked;
\* lantiq_create_pvts, whose result is ignored.
LoadValues ==
  /\ ld = "values" /\ iflock = NULL
  /\ \/ /\ Fail /\ iflock' = "loader"
        /\ UNCHANGED <<channels, iflist, owner, channel_state>>
     \/ /\ channels' \in Channels /\ iflist' \in BOOLEAN
        /\ owner' = [p \in Port |-> NULL]
        /\ channel_state' = [p \in Port |-> "UNKNOWN"]
        /\ iflock' = NULL /\ Goto("register")
  /\ UNCHANGED <<loads, at, seen, registered, started, monlock,
                 threadVars, fault>>

\* ast_channel_register, then the files, the firmware and the ioctls of the device
\* and of each port; the array of files has one entry per port of the build.
LoadDevice ==
  /\ \/ /\ ld = "register"
        /\ \/ registered' = TRUE /\ Goto("device")
           \/ Goto("softhangup") /\ UNCHANGED registered
        /\ UNCHANGED <<at, started, fault>>
     \/ /\ ld = "device"
        /\ Fail \/ Goto("files")
        /\ at' = 0 /\ UNCHANGED <<registered, started, fault>>
     \/ /\ ld = "files" /\ at \in channels
        /\ \/ Fail /\ at' = 0
           \/ ld' = ld /\ at' = at + 1
        /\ fault' = IF at \in Port THEN fault ELSE "ports"
        /\ UNCHANGED <<registered, started>>
     \/ /\ ld = "files" /\ at \notin channels
        /\ Goto("start") /\ at' = 0 /\ UNCHANGED <<registered, started, fault>>
     \/ /\ ld = "start"
        /\ \/ Fail /\ started' \in {started, FALSE}
           \/ Goto("setup") /\ started' = TRUE
        /\ UNCHANGED <<registered, at, fault>>
  /\ UNCHANGED <<loads, seen, iflock, channels, iflist, owner,
                 channel_state, monlock, threadVars>>

\* lantiq_get_hookstatus
BugUnchecked(p) == {"ONHOOK", "OFFHOOK"}
HookStatus(p) == {hook[p], "UNKNOWN"}

\* A port is configured and its hook status read; then written, without iflock.
LoadSetup ==
  /\ ld = "setup"
  /\ IF at \in channels
       THEN \/ Fail /\ UNCHANGED seen
            \/ Goto("hook") /\ seen' \in HookStatus(at)
       ELSE Goto("restart") /\ UNCHANGED seen
  /\ UNCHANGED <<loads, at, registered, iflock, channels, started,
                 iflist, owner, channel_state, monlock, threadVars, fault>>
LoadHook ==
  /\ ld = "hook"
  /\ channel_state' = [channel_state EXCEPT ![at] = seen]
  /\ fault' = IF iflist THEN fault ELSE "iflist"
  /\ IF seen = "UNKNOWN" THEN Fail /\ at' = 0 ELSE Goto("setup") /\ at' = at + 1
  /\ seen' = "UNKNOWN"
  /\ UNCHANGED <<loads, registered, iflock, channels, started,
                 iflist, owner, monlock, threadVars>>

\* restart_monitor, which does nothing after an unload, and whose result is ignored.
\* (Its branch for a thread that runs is never reached, see OneMonitor.)
MayStart == monitor_thread # "STOP"
LoadMonitor ==
  /\ ld = "restart" /\ Goto("in") /\ at' = 0
  /\ \/ /\ MayStart /\ monlock = NULL /\ monitor_thread = "NULL"
        /\ monitor' = TRUE
        /\ \/ /\ monitor_thread' = "thread" /\ threads' = threads + 1
              /\ pc' = IF pc = "none" THEN "while" ELSE pc
           \/ UNCHANGED <<monitor_thread, threads, pc>>
     \/ ~MayStart /\ UNCHANGED threadVars
  /\ UNCHANGED <<loads, seen, registered, iflock, monlock, channels, started, iflist,
                 owner, channel_state, fault>>

-----------------------------------------------------------------------------
(* unload_module, also called when the registration fails.                  *)

Stops(t) == FALSE
BugForgets == "NULL"
AfterUnload == "STOP"
Wants(c) == ld = "owners" /\ iflist /\ \E p \in channels \cap Port : owner[p] = c
Unload ==
  /\ \/ /\ ld = "in" /\ Goto("softhangup") /\ registered' = FALSE
        /\ UNCHANGED <<iflock, monlock, threadVars, fault>>
     \/ /\ ld = "softhangup" /\ iflock = NULL /\ Goto("owners") /\ iflock' = "loader"
        /\ UNCHANGED <<registered, monlock, threadVars, fault>>
     \/ /\ ld = "owners" /\ \A c \in Chan : Wants(c) => chanlock[c] = NULL
        /\ Goto("stop") /\ iflock' = NULL
        /\ fault' = IF iflist \/ channels = {} THEN fault ELSE "iflist"
        /\ UNCHANGED <<registered, monlock, threadVars>>
     \/ /\ ld = "stop" /\ monlock # "monitor"
        /\ IF Stops(monitor_thread) /\ threads > 0
             THEN monlock' = "loader" /\ monitor' = FALSE /\ UNCHANGED <<ld, monitor_thread>>
             ELSE /\ Goto("out") /\ monitor_thread' = AfterUnload
                  /\ monlock' = NULL /\ UNCHANGED monitor
        /\ UNCHANGED <<threads, registered, iflock, pc, fault>>
  /\ UNCHANGED <<loads, at, seen, channels, started, iflist, owner, channel_state>>

Loader ==
  /\ \/ LoadConfig \/ LoadValues \/ LoadDevice \/ LoadSetup \/ LoadHook \/ LoadMonitor
     \/ Unload
  /\ UNCHANGED <<env, moves, port, todo, hook, events, chanVars>>

-----------------------------------------------------------------------------
(* The monitor thread                                                      *)

Run(step, p, what) == pc' = step /\ port' = p /\ todo' = what

\* A round: as long as monitor is set, poll under monlock; the array has an entry for
\* each port of the build, and what is in one that is not polled is undefined,
Round ==
  /\ \/ /\ pc = "while"
        /\ IF monitor THEN Run("lock", NULL, {}) /\ UNCHANGED threads
                        ELSE Run("none", NULL, {}) /\ threads' = threads - 1
        /\ UNCHANGED monlock
     \/ /\ pc = "lock" /\ monlock = NULL
        /\ monlock' = "monitor" /\ Run("poll", NULL, {}) /\ UNCHANGED threads
     \/ /\ pc = "poll"
        /\ \/ monlock' = NULL /\ Run("while", NULL, {})
           \/ \E what \in SUBSET Source :
                /\ what \cap ({Device} \cup channels) # {}
                /\ IF Device \in what THEN Run("event", NULL, what) /\ UNCHANGED monlock
                                     ELSE Run("data", NULL, what) /\ monlock' = NULL
        /\ UNCHANGED threads
     \/ /\ pc = "event"
        /\ Run("data", NULL, todo) /\ monlock' = NULL /\ UNCHANGED threads
  /\ UNCHANGED <<channel_state, events, chanlock, fault>>

\* ... an event of each port, unless the ioctl is refused: fetched under iflock, which is
\* given back before the handler takes it again.  A hook event stays the first of its port
\* until it is handled.
Fetch(p) ==
  /\ pc = "event" /\ iflock = NULL /\ p \in channels /\ events[p] # <<>>
  /\ Run("hook", p, todo)
  /\ UNCHANGED <<channel_state, events, monlock, threads, chanlock, fault>>

\* lantiq_dev_event_hook: the handset is put down, or lifted and the port left as it was
\* when an ioctl is refused; a ringing port is answered if its owner rings (accept_call).
Accepts(p) == owner[p] # NULL /\ ast[owner[p]] = "RINGING"
Lifted(p) == CASE channel_state[p] # "RINGING" -> "OFFHOOK"
               [] Accepts(p) -> "INCALL"
               [] OTHER -> "RINGING"
Hook ==
  LET e == Head(events[port])
  IN /\ pc = "hook" /\ iflock = NULL
     /\ Run("event", NULL, todo)
     /\ events' = [events EXCEPT ![port] = Tail(@)]
     /\ \/ channel_state' = [channel_state EXCEPT ![port] =
              IF e = "ONHOOK" THEN "ONHOOK" ELSE Lifted(port)]
        \/ e = "OFFHOOK" /\ ~Holds("ioctlok") /\ UNCHANGED channel_state
     /\ fault' = IF ~iflist THEN "iflist"
                 ELSE IF /\ e = "OFFHOOK" /\ channel_state[port] = "RINGING"
                         /\ owner[port] # NULL /\ ~Live(owner[port]) THEN "owner"
                 ELSE fault
     /\ UNCHANGED <<monlock, threads, chanlock>>

\* ... and a voice frame of each port that has one, with no lock at all:
\* lantiq_dev_data_handler reads pvt->owner again for each thing it does.
Frame ==
  /\ pc = "data"
  /\ \/ /\ todo \subseteq {Device} /\ Run("while", NULL, {})
     \/ \E p \in todo \ {Device} : /\ \A q \in todo \ {Device} : p <= q
                                  /\ Run("owner", p, todo \ {p})
  /\ UNCHANGED <<chanlock, fault>>
Keep(step) == Run(step, port, todo) /\ UNCHANGED <<chanlock, fault>>
FrameDone == Run("data", NULL, todo)
TryLock(c) == chanlock[c] = NULL
Handler ==
  LET c == owner[port]
  IN \/ /\ pc = "owner" /\ port \notin channels
        /\ fault' = "ports" /\ UNCHANGED <<pc, runVars, chanlock>>
     \/ /\ pc = "owner" /\ port \in channels /\ ~iflist
        /\ fault' = "iflist" /\ UNCHANGED <<pc, runVars, chanlock>>
     \/ /\ pc = "owner" /\ port \in channels /\ iflist
        /\ IF c = NULL THEN FrameDone /\ UNCHANGED <<chanlock, fault>> ELSE Keep("state")
     \/ /\ pc = "state" /\ Live(c)
        /\ IF ast[c] = "UP" THEN Keep("trylock") ELSE FrameDone /\ UNCHANGED <<chanlock, fault>>
     \/ /\ pc = "trylock" /\ Live(c)
        /\ IF TryLock(c)
             THEN Run("queue", port, todo) /\ chanlock' = [chanlock EXCEPT ![c] = "monitor"]
             ELSE FrameDone /\ UNCHANGED chanlock
        /\ UNCHANGED fault
     \/ /\ pc = "queue" /\ Live(c) /\ Keep("release")
     \/ /\ pc = "release" /\ Live(c)
        /\ FrameDone /\ chanlock' = [chanlock EXCEPT ![c] = NULL] /\ UNCHANGED fault
     \/ /\ pc \in Voice \ {"owner"} /\ ~Live(c)
        /\ fault' = pc /\ UNCHANGED <<pc, runVars, chanlock>>

Monitor == /\ \/ Round
              \/ \E p \in Port : Fetch(p)
              \/ Hook
              \/ (Frame \/ Handler) /\ UNCHANGED <<monlock, channel_state, events, threads>>
           /\ UNCHANGED <<loadVars, moves, iflock, owner, monitor, monitor_thread, hook,
                          ast, line>>

-----------------------------------------------------------------------------
(* External: handsets, and the life of a channel of this driver.            *)

Move(p) ==
  /\ moves < MaxMoves /\ ~Holds("still")
  /\ moves' = moves + 1
  /\ hook' = [hook EXCEPT ![p] = IF @ = "ONHOOK" THEN "OFFHOOK" ELSE "ONHOOK"]
  /\ events' = IF started THEN [events EXCEPT ![p] = Append(@, hook'[p])] ELSE events
  /\ UNCHANGED <<owner, channel_state, chanVars, fault>>

\* lantiq_channel, for a request while lantiq_tech is registered or a number dialled.
Wanted(p) == /\ ~Holds("nocalls")
             /\ Holds("idle") => owner[p] = NULL
             /\ Holds("drained") => ld \notin Loading
NewChannel(c, p) ==
  /\ registered /\ iflock = NULL /\ p \in channels /\ ast[c] = "free" /\ Wanted(p)
  /\ owner' = [owner EXCEPT ![p] = c]
  /\ ast' = [ast EXCEPT ![c] = "DOWN"] /\ line' = [line EXCEPT ![c] = p]
  /\ fault' = IF iflist THEN fault ELSE "iflist"
  /\ UNCHANGED <<moves, hook, events, channel_state, chanlock>>
\* ast_lantiq_call rings the port; the far end answers a number dialled, and a channel that
\* rang comes up with the answer accept_call has queued.
Call(c) ==
  /\ ast[c] = "DOWN" /\ iflock = NULL /\ chanlock[c] = NULL
  /\ channel_state[line[c]] = "ONHOOK"
  /\ channel_state' = [channel_state EXCEPT ![line[c]] = "RINGING"]
  /\ ast' = [ast EXCEPT ![c] = "RINGING"]
  /\ UNCHANGED <<moves, hook, events, owner, line, chanlock, fault>>
Answer(c) ==
  /\ chanlock[c] = NULL
  /\ \/ ast[c] = "DOWN"
     \/ ast[c] = "RINGING" /\ channel_state[line[c]] # "RINGING"
  /\ ast' = [ast EXCEPT ![c] = "UP"]
  /\ UNCHANGED <<moves, hook, events, owner, channel_state, line, chanlock, fault>>
\* ast_hangup locks the channel, ast_lantiq_hangup takes iflock, and the channel is
\* freed.
BugNoLock(c) == chanlock[c] # "hangup"
Lockable(c) == chanlock[c] = NULL
Hangup(c) ==
  /\ \/ /\ Live(c) /\ Lockable(c)
        /\ chanlock' = [chanlock EXCEPT ![c] = "hangup"]
        /\ UNCHANGED <<owner, channel_state, ast, line>>
     \/ /\ chanlock[c] = "hangup" /\ line[c] # NULL /\ iflock = NULL
        /\ channel_state' = [channel_state EXCEPT ![line[c]] =
             IF @ \in {"RINGING", "ONHOOK"} THEN "ONHOOK" ELSE "CALL_ENDED"]
        /\ owner' = [owner EXCEPT ![line[c]] = NULL]
        /\ line' = [line EXCEPT ![c] = NULL] /\ UNCHANGED <<ast, chanlock>>
     \/ /\ chanlock[c] = "hangup" /\ line[c] = NULL
        /\ ast' = [ast EXCEPT ![c] = "free"] /\ chanlock' = [chanlock EXCEPT ![c] = NULL]
        /\ UNCHANGED <<owner, channel_state, line>>
  /\ UNCHANGED <<moves, hook, events, fault>>

Others == /\ \/ \E p \in Port : Move(p)
             \/ \E c \in Chan : \/ Call(c) \/ Answer(c) \/ Hangup(c)
                                \/ \E p \in Port : NewChannel(c, p)
          /\ UNCHANGED <<loadVars, iflock, monlock, threadVars, runVars>>

Next == fault = NULL /\ (Loader \/ Monitor \/ Others)
Spec == Init /\ [][Next]_vars

\* Every thread goes on; a lock that is free again and again is obtained in the end.
FairSpec == /\ Spec /\ SF_vars(fault = NULL /\ Loader /\ ld # "out" /\ ld # "in")
            /\ SF_vars(fault = NULL /\ Monitor)

-----------------------------------------------------------------------------
(* Properties                                                              *)

\* "so only one process can kill or start it": never a second monitor thread, and
\* restart_monitor never meets one it has to kill.
OneMonitor == threads <= 1 /\ (ld = "restart" => monitor_thread \in {"NULL", "STOP"})

\* What the surroundings must be for the channel of a port to be its owner: one channel for
\* a port, and no load_module that forgets channels.
Alone == "idle" \in env /\ ("drained" \in env \/ "once" \in env)

\* The hook status that load_module writes without iflock is not older than the events
\* that are handled: with no event left, a loaded port knows its handset, in the only load
\* of the module and as long as no ioctl of the hook handler is refused.
KnowsHook ==
  Alone /\ {"once", "ioctlok"} \subseteq env /\ ld = "in" /\ fault = NULL =>
    \A p \in channels \cap Port : events[p] = <<>> =>
      channel_state[p] \notin (IF hook[p] = "ONHOOK" THEN {"OFFHOOK", "UNKNOWN"}
                               ELSE {"ONHOOK", "RINGING", "UNKNOWN"})

\* pvt->owner is read without a lock, but once the trylock has succeeded it stays the
\* channel that is locked: the frame is queued there and that lock released.
VoiceSafe ==
  Alone =>
    /\ fault \notin {"queue", "release"}
    /\ \A c \in Chan : chanlock[c] = "monitor" <=>
         (pc \in {"queue", "release"} /\ owner[port] = c)

\* load_module and unload_module return, unless load_module waits for iflock that a refused
\* value has left locked, or unload_module, which holds it, for the lock of a channel that
\* is being hung up and waits for iflock.
Stuck == \/ ld = "values" /\ iflock = "loader"
         \/ \E c \in Chan : Wants(c) /\ chanlock[c] = "hangup"
===============================================================================
