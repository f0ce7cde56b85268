-------------------------------- MODULE Wiviz --------------------------------
(***************************************************************************)
(* The wiviz daemon: the table of hosts it hears, the two signals by which  *)
(* the web pages ask for that table and for a new configuration, the child  *)
(* process that changes the channel, and the life of the daemon from the    *)
(* get.cgi that starts it to the day nobody asks any more.                  *)
(*                                                                          *)
(* A signal handler runs between any two steps of main, and of the handler  *)
(* of the other signal: stack holds what is suspended, the activity that    *)
(* runs on top.  Most of what an activity does is a sequence of calls of    *)
(* gotHost (todo); each takes four steps (step), then its result is used.   *)
(*                                                                          *)
(* (Each "Bug" operator is a fault of the operator that follows it, for the *)
(* mutation of the model.)                                                  *)
(*                                                                          *)
(* env holds how the surroundings behave, chosen once:                      *)
(*   deferred  signals arrive only while main waits for a packet            *)
(*   young     no host is silent for HOST_TIMEOUT                           *)
(*   few       only the addresses in Few are heard                          *)
(*   forks     fork succeeds                                                *)
(*   opens     the capture device can be opened, and goes on                *)
(*   short     a configuration names no more channels than there is room for *)
(*   silent    no frame names a host, and the driver does not either        *)
(*   kept      the configuration is not changed after the start             *)
(***************************************************************************)
EXTENDS Integers, Sequences, FiniteSets

CONSTANTS MaxHosts,  \* MAX_HOSTS
          Mac, Own,  \* addresses, that of the router
          Few,
          Hash,      \* first slot tried for an address
          Pid,       \* processes fork may make
          MaxStations, \* MAX_STA_COUNT
          Surroundings,
          MaxAsks,   \* bound: requests of get.cgi
          NULL

Discipline == {"deferred", "young", "few", "forks", "opens", "short", "silent", "kept"}
Slot == 0 .. MaxHosts - 1
MaxProbes == MaxHosts \div 2

ASSUME SizeAssumption == MaxHosts \in Nat \ {0} /\ MaxAsks \in Nat /\ MaxStations \in Nat
ASSUME MacAssumption == Own \in Few /\ Few \subseteq Mac /\ Hash \in [Mac -> Slot]
ASSUME NullAssumption == NULL \notin Mac \cup {"memory", "info", "killall"}
ASSUME PidAssumption == Pid \subseteq Nat \ {0}
ASSUME SurroundingsAssumption == Surroundings \subseteq SUBSET Discipline

VARIABLES
  env, asks,
  again,    \* get.cgi that have started the daemon and will signal once more
  hosts,    \* cfg.hosts
  stack,    \* main, and the handlers that have interrupted it
  life,     \* how far main has come
  stale,    \* lastKeepAlive is more than 30 seconds ago
  hopping,  \* channelHopping
  pid,      \* channelHopperPID, -1 after a fork that failed
  hoppers,  \* channel hoppers that run
  fault     \* what the daemon did that it has no memory or process for

hopper == <<hopping, pid, hoppers>>
vars == <<env, asks, again, hosts, stack, life, stale, hopping, pid, hoppers, fault>>

Type == {"Unknown", "AP", "Sta", "AdhocHub"}
Call == {c \in [mac : Mac, type : {"AP", "Sta"}, hub : BOOLEAN] : c.hub => c.type = "AP"}
Host == [occupied : BOOLEAN, mac : Mac \cup {NULL}, type : Type, old : BOOLEAN,
         apInfo : BOOLEAN, staInfo : BOOLEAN]
Frame == [who : {"wait", "packet", "page", "config", "start"},
          step : {"look", "mark", "name", "info", "use", "print", "apply", "fork", "note",
                   "end", "exit"},
          todo : Seq(Call), slot : 0 .. MaxHosts, sel : {"hop", "set", "same"},
          child : Pid \cup {-1}]

NoHost == [occupied |-> FALSE, mac |-> NULL, type |-> "Unknown", old |-> FALSE,
           apInfo |-> FALSE, staInfo |-> FALSE]
Begin(who, todo, sel) ==
  [who |-> who, step |-> "look", todo |-> todo, slot |-> 0, sel |-> sel, child |-> -1]
Wait == Begin("wait", <<>>, "same")

TypeOK ==
  /\ env \subseteq Discipline /\ asks \in Nat /\ again \in Nat
  /\ hosts \in [Slot -> Host] /\ stack \in Seq(Frame)
  /\ life \in {"off", "exec", "blank", "config", "loop", "final"}
  /\ stale \in BOOLEAN /\ hopping \in BOOLEAN
  /\ pid \in Pid \cup {0, -1} /\ hoppers \subseteq Pid
  /\ fault \in {NULL, "memory", "info", "killall"}

Init ==
  /\ env \in Surroundings /\ asks = 0 /\ again = 0
  /\ hosts = [i \in Slot |-> NoHost] /\ stack = <<>> /\ life = "off" /\ stale = FALSE
  /\ hopping = FALSE /\ pid = 0 /\ hoppers = {} /\ fault = NULL

Holds(d) == d \in env

top == stack[Len(stack)]
Set(frame) == stack' = [stack EXCEPT ![Len(stack)] = frame]
Step(s) == Set([top EXCEPT !.step = s])
Pop(s) == SubSeq(s, 1, Len(s) - 1)
At(step) == stack # <<>> /\ top.who # "wait" /\ top.step = step
call == Head(top.todo)

-----------------------------------------------------------------------------
(* gotHost                                                                 *)

\* The slot the loop ends at: the first that is free or has the address, or the one
\* after MAX_PROBES + 1 others, which it takes from its owner.
Probe(m, c) == (Hash[m] + c) % MaxHosts
BugNotCompared(m, c) == ~hosts[Probe(m, c)].occupied \/ c > MaxProbes
Ends(m, c) == \/ ~hosts[Probe(m, c)].occupied \/ hosts[Probe(m, c)].mac = m
              \/ c > MaxProbes
Found(m) == Probe(m, CHOOSE c \in 0 .. MaxProbes + 1 :
                       Ends(m, c) /\ \A d \in 0 .. c - 1 : ~Ends(m, d))
Look ==
  /\ At("look") /\ top.todo # <<>>
  /\ Set([top EXCEPT !.step = "mark", !.slot = Found(call.mac)])
  /\ UNCHANGED <<hosts, fault>>

\* occupied, lastSeen and type, then the address,
Mark ==
  /\ At("mark") /\ Step("name")
  /\ hosts' = [hosts EXCEPT ![top.slot] =
                 [@ EXCEPT !.occupied = TRUE, !.old = FALSE, !.type = call.type]]
  /\ UNCHANGED fault
Name ==
  /\ At("name") /\ Step("info")
  /\ hosts' = [hosts EXCEPT ![top.slot].mac = call.mac] /\ UNCHANGED fault

\* and what goes with the type it has now, unless the slot has that from before.
BugNewOnly(h) == IF h.apInfo \/ h.staInfo THEN h
                 ELSE [h EXCEPT !.apInfo = h.type = "AP", !.staInfo = h.type = "Sta"]
Informed(h) == [h EXCEPT !.apInfo = @ \/ h.type = "AP", !.staInfo = @ \/ h.type = "Sta"]
Info ==
  /\ At("info") /\ Step("use")
  /\ hosts' = [hosts EXCEPT ![top.slot] = Informed(@)] /\ UNCHANGED fault

\* The caller writes through the pointer of the type it has asked for; a beacon of an
\* ad-hoc network makes its second host a hub.
Use ==
  /\ At("use")
  /\ LET h == hosts[top.slot]
     IN /\ fault' = IF (call.type = "AP" /\ ~h.apInfo) \/ (call.type = "Sta" /\ ~h.staInfo)
                    THEN "info" ELSE fault
        /\ hosts' = IF call.hub THEN [hosts EXCEPT ![top.slot].type = "AdhocHub"] ELSE hosts
  /\ Set([top EXCEPT !.step = "look", !.todo = Tail(@), !.slot = 0])

GotHost == Look \/ Mark \/ Name \/ Info \/ Use

-----------------------------------------------------------------------------
(* writeJavascript, on SIGUSR1                                             *)

\* readWL makes these calls: none without an address, one as a client, those of the
\* router and of the stations that are associated with it as an access point.
Heard == IF Holds("few") THEN Few ELSE Mac
Calls(m, t) == [mac |-> m, type |-> t, hub |-> FALSE]
Stations == {s \in UNION {[1 .. n -> Heard \ {Own}] : n \in 0 .. MaxStations} :
               \A i, j \in DOMAIN s : s[i] = s[j] => i = j}
WlCalls ==
  IF Holds("silent") THEN {<<>>}
  ELSE {<<>>, <<Calls(Own, "Sta")>>}
         \cup {<<Calls(Own, "AP")>> \o [i \in DOMAIN s |-> Calls(s[i], "Sta")] : s \in Stations}

\* One host of the page: a host that is too old is forgotten, another is printed with
\* what goes with its type.
BugForgetsAll(h) == h.occupied
Expires(h) == h.occupied /\ h.old
Missing(h) == \/ h.type = "Sta" /\ ~h.staInfo
              \/ h.type \in {"AP", "AdhocHub"} /\ ~h.apInfo
PrintHost ==
  /\ At("print") /\ top.slot \in Slot
  /\ LET h == hosts[top.slot]
     IN /\ hosts' = IF Expires(h)
                    THEN [hosts EXCEPT ![top.slot] = [@ EXCEPT !.occupied = FALSE, !.old = FALSE]]
                    ELSE hosts
        /\ fault' = IF h.occupied /\ ~Expires(h) /\ Missing(h) THEN "info" ELSE fault
  /\ Set([top EXCEPT !.slot = @ + 1])

-----------------------------------------------------------------------------
(* reloadConfig, on SIGUSR2 and at the start                               *)

\* kill(-1) goes to every process there is.
\* sel is what the file says of channelsel; a file without it may change the dwell time.
BugLetsLive(p) == hoppers
Killed(p) == IF p = -1 THEN {} ELSE hoppers \ {p}
Kill(p) == /\ hoppers' = (IF p = 0 THEN hoppers ELSE Killed(p))
           /\ fault' = (IF p = -1 THEN "killall" ELSE fault)
Apply ==
  /\ At("apply")
  /\ \E changed \in BOOLEAN :
       LET hop == IF top.sel = "same" THEN hopping ELSE top.sel = "hop"
       IN /\ hopping' = hop
          /\ IF hop /\ (changed \/ top.sel = "hop")
               THEN Kill(pid) /\ UNCHANGED pid /\ Step("fork")
               ELSE /\ Step("end")
                    /\ IF hop THEN UNCHANGED <<pid, hoppers, fault>>
                              ELSE Kill(pid) /\ pid' = 0
\* No file, or one that is too long, changes nothing.
Unread == /\ At("apply") /\ top.sel = "same" /\ Step("end")
          /\ UNCHANGED <<hopping, pid, hoppers, fault>>
\* "hopseq" does not count the elements of channelHopSeq: what is too long overwrites its
\* length, the channel and channelHopperPID.
Overrun == /\ At("apply") /\ ~Holds("short") /\ fault' = "memory"
           /\ UNCHANGED <<stack, hopping, pid, hoppers>>
\* fork and the assignment of what it returns are two steps.
Fork ==
  /\ At("fork")
  /\ \E c \in (Pid \ hoppers) \cup (IF Holds("forks") THEN {} ELSE {-1}) :
       hoppers' = hoppers \cup ({c} \ {-1}) /\ Set([top EXCEPT !.step = "note", !.child = c])
  /\ UNCHANGED <<hopping, pid, fault>>
Note ==
  /\ At("note") /\ pid' = top.child /\ Set([top EXCEPT !.step = "end", !.child = -1])
  /\ UNCHANGED <<hopping, hoppers, fault>>

-----------------------------------------------------------------------------
(* Signals.  A handler is not interrupted by its own signal.                *)

Quiet == life = "loop" /\ stack = <<Wait>>
MayInterrupt(who) ==
  /\ stack # <<>> /\ (Holds("deferred") => Quiet)
  /\ \A i \in 2 .. Len(stack) : stack[i].who # who
Configs == {Begin("config", todo, "set") : todo \in WlCalls \cup {<<>>}}
             \cup {Begin("config", <<>>, sel) : sel \in {"hop", "same"}}

\* killall finds the daemon, a channel hopper, which ignores the signal, or nothing.
\* Before main has installed its handlers the signal kills it; before the memset of cfg
\* they use what is on the stack.
Struck == /\ ~Holds("deferred")
          /\ \/ life = "exec" /\ life' = "off" /\ UNCHANGED fault
             \/ life = "blank" /\ fault' = "memory" /\ UNCHANGED life
          /\ UNCHANGED <<hosts, stack, stale, hopper>>
Page ==
  \/ Struck
  \/ /\ MayInterrupt("page")
     /\ \/ UNCHANGED <<stack, stale>>
        \/ /\ \E todo \in WlCalls : stack' = Append(stack, Begin("page", todo, "same"))
           /\ stale' = FALSE
     /\ UNCHANGED <<hosts, life, hopper, fault>>
Nothing == UNCHANGED <<hosts, stack, life, stale, hopper, fault>>

\* get.cgi starts the daemon when killall finds nothing,
Ask ==
  /\ asks < MaxAsks /\ asks' = asks + 1
  /\ \/ Page /\ UNCHANGED again
     \/ life = "off" /\ hoppers # {} /\ Nothing /\ UNCHANGED again
     \/ /\ life = "off" /\ hoppers = {} /\ life' = "exec" /\ again' = again + 1
        /\ UNCHANGED <<hosts, stack, stale, hopper, fault>>
\* and sends the signal once more, whether the daemon runs by then or not.
Again ==
  /\ again > 0 /\ again' = again - 1 /\ UNCHANGED asks
  /\ Page \/ (life \in {"off", "exec"} /\ Nothing)
\* set.cgi
Reload ==
  /\ \/ Struck
     \/ /\ MayInterrupt("config") /\ ~Holds("kept")
        /\ \E frame \in Configs : stack' = Append(stack, frame)
        /\ UNCHANGED <<hosts, life, stale, hopper, fault>>
  /\ UNCHANGED <<asks, again>>

-----------------------------------------------------------------------------
(* main                                                                    *)

Start ==
  /\ \/ life = "exec" /\ life' = "blank" /\ UNCHANGED <<stack, stale>>
     \/ /\ life = "blank" /\ life' = "config" /\ stale' = FALSE
        /\ \E frame \in Configs : stack' = <<frame>>
  /\ UNCHANGED <<hosts, hopper, fault>>

\* dealWithPacket: no host, its sender, or a station and the network it belongs to.
Frames ==
  {<<>>} \cup (IF Holds("silent") THEN {}
               ELSE {<<Calls(m, t)>> : m \in Heard, t \in {"AP", "Sta"}}
                      \cup {<<Calls(m, "Sta"), [Calls(b, "AP") EXCEPT !.hub = hub]>> :
                              m \in Heard, b \in Heard, hub \in BOOLEAN})
\* main ends when the capture does.
Exit == /\ life' = "off" /\ stack' = <<>> /\ hosts' = [i \in Slot |-> NoHost]
        /\ hopping' = FALSE /\ pid' = 0 /\ UNCHANGED hoppers
Final == /\ life' = "final"
         /\ stack' \in {<<Begin("page", todo, "same")>> : todo \in WlCalls}
                         \cup {<<[Begin("page", <<>>, "same") EXCEPT !.step = "end"]>>}
Packet ==
  /\ Quiet
  /\ \/ \E todo \in Frames : Set(Begin("packet", todo, "same")) /\ UNCHANGED life
     \/ ~Holds("opens") /\ Final
  /\ UNCHANGED <<hosts, stale, hopper, fault>>

\* What comes after the calls of gotHost, and after the whole of an activity.
BugAsLongAsSet == stale /\ hopping
TimedOut == stale
Called ==
  /\ At("look") /\ top.todo = <<>> /\ UNCHANGED fault
  /\ \/ /\ top.who = "page" /\ Step("print") /\ UNCHANGED <<hosts, life, hopper>>
     \/ /\ top.who = "config" /\ Step("apply") /\ UNCHANGED <<hosts, life, hopper>>
     \/ /\ top.who = "packet" /\ UNCHANGED <<hosts, hopper>>
        /\ IF TimedOut THEN Final ELSE Set(Wait) /\ UNCHANGED life
     \/ /\ top.who = "start"
        /\ \/ Set(Wait) /\ life' = "loop" /\ UNCHANGED <<hosts, hopper>>
           \/ ~Holds("opens") /\ Exit
Ended ==
  /\ \/ At("print") /\ top.slot = MaxHosts
     \/ At("end")
  /\ \/ /\ Len(stack) > 1
        /\ stack' = Pop(stack) /\ UNCHANGED <<hosts, life, hopper, fault>>
     \/ /\ Len(stack) = 1 /\ life = "config"
        /\ \E todo \in WlCalls : Set(Begin("start", todo, "same"))
        /\ UNCHANGED <<hosts, life, hopper, fault>>
     \/ /\ Len(stack) = 1 /\ life = "final" /\ Kill(pid)
        /\ Step("exit") /\ UNCHANGED <<hosts, life, hopping, pid>>
Leave ==
  /\ At("exit") /\ Exit
  /\ fault' = IF \E i \in Slot : hosts[i].occupied /\ Missing(hosts[i]) THEN "info" ELSE fault

Main ==
  /\ \/ (GotHost \/ PrintHost) /\ UNCHANGED <<life, hopper>>
     \/ (Unread \/ Overrun \/ Apply \/ Fork \/ Note) /\ UNCHANGED <<hosts, life>>
     \/ Called \/ Ended \/ Leave
  /\ UNCHANGED stale

-----------------------------------------------------------------------------
(* External: time, which passes while main waits for a packet.             *)

Tick == /\ Quiet /\ stale' = TRUE
        /\ UNCHANGED <<hosts, stack, life, hopper, fault>>
Age(i) == /\ Quiet /\ ~Holds("young") /\ hosts[i].occupied
          /\ hosts' = [hosts EXCEPT ![i].old = TRUE]
          /\ UNCHANGED <<stack, life, stale, hopper, fault>>

Runs(action) == fault = NULL /\ action /\ UNCHANGED <<env, asks, again>>
Next == \/ Runs(Start \/ Packet \/ Main \/ Tick \/ \E i \in Slot : Age(i))
        \/ fault = NULL /\ (Ask \/ Again \/ Reload) /\ UNCHANGED env
Spec == Init /\ [][Next]_vars

\* The process runs, time passes, and frames go on arriving between the signals.
FairSpec == /\ Spec /\ WF_vars(Runs(Start \/ Main)) /\ SF_vars(Runs(Tick))
            /\ SF_vars(Runs(Packet))

-----------------------------------------------------------------------------
(* Properties                                                              *)

\* The slots a host is in; one that is being filled for another still has its address.
Occupied(m) ==
  {i \in Slot : /\ hosts[i].occupied /\ hosts[i].mac = m
                /\ \A k \in 1 .. Len(stack) :
                     stack[k].step = "name" /\ stack[k].slot = i => Head(stack[k].todo).mac = m}
Reachable(m) == LET i == Found(m) IN hosts[i].occupied /\ hosts[i].mac = m

\* Whatever is printed or written through a pointer of a slot is there, also when the slot
\* was used before for a host of the other type, or hosts are forgotten and evicted; as long
\* as signals arrive between the packets only, which the code does not see to.
Printable == "deferred" \in env => fault # "info"

\* A host is in one slot only, and gotHost finds it there again, before any host has been
\* forgotten or taken the slot of another; once one has, or a handler has run inside of
\* gotHost, neither is true.
OneSlot ==
  {"deferred", "young", "few"} \subseteq env =>
    \A m \in Mac : /\ Cardinality(Occupied(m)) <= 1
                   /\ (stack = <<Wait>> /\ Occupied(m) # {}) => Reachable(m)

\* A host that was heard stays in the table until it is silent for HOST_TIMEOUT and a page has
\* been written since, or another is heard for which each of its slots is taken, or the daemon
\* ends; as long as signals arrive between the packets only.
Crowded(m) == \A c \in 0 .. MaxProbes :
                hosts[Probe(m, c)].occupied /\ hosts[Probe(m, c)].mac # m
NotForgotten ==
  [][Holds("deferred") /\ life' # "off" =>
       \A m \in Mac : Occupied(m) # {} /\ Occupied(m)' = {} =>
         \/ At("print") /\ \E i \in Occupied(m) : hosts[i].old
         \/ At("mark") /\ top.slot \in Occupied(m) /\ Crowded(call.mac)]_vars

\* As long as signals arrive between the packets, and no configuration is too long, the daemon
\* knows the one channel hopper there is, and has one exactly when it hops, whether fork
\* succeeds or not.  If it could open the capture device it takes the hopper down when it ends:
\* one left alone answers to the name get.cgi looks for, and the daemon is not started again.
OneHopper ==
  {"deferred", "short"} \subseteq env =>
    /\ Cardinality(hoppers) <= 1
    /\ "opens" \in env /\ life = "off" => hoppers = {}
    /\ Quiet => hoppers = {pid} \ {0, -1} /\ (hopping <=> pid # 0)

\* The daemon ends when nobody asks for the page any more.
Stops ==
  asks = MaxAsks /\ {"deferred", "forks", "opens", "short"} \subseteq env ~> life = "off"
===============================================================================
