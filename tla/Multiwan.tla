------------------------------ MODULE Multiwan ------------------------------
(***************************************************************************)
(* /usr/bin/multiwan: the agent that watches several WANs, takes a failed   *)
(* one out of service and redirects its traffic.                            *)
(*                                                                          *)
(*   main      executes the tasks of the job file (do_tasks)                *)
(*   monitors  one background process per WAN (monitor_wan); it compares    *)
(*             what netifd says of the interface with what it read from the *)
(*             cache file, pings, and appends tasks to the job file         *)
(*                                                                          *)
(* health_monitor is 'parallel', the default.  The script keeps its state   *)
(* in shell variables that update_cache writes to /tmp/.mwan/cache; only    *)
(* main changes them, so they stand for both.                               *)
(***************************************************************************)
EXTENDS Naturals, Sequences, SequencesExt

CONSTANTS WanCount,    \* wancount: WANs are numbered in the order of the config
          Addr,        \* device, address and gateway of an interface, all known
          NOIP,        \* a device and a gateway are known, and no address ("x")
          X,           \* no device or no gateway is known
          NULL,        \* no failover rule
          Balancer, FastBalancer, Disable,  \* values of failover_to besides WANs
          FailRetries, RecoveryRetries,     \* health_fail_retries, _recovery_retries
          FailoverTo,  \* failover_to of each WAN
          Weighted,    \* WANs whose weight is not "disable"
          Monitored,   \* WANs whose health_interval is not "disable"
          Pinged,      \* WANs whose icmp_hosts is not "disable"
          MaxJobs,     \* bound: own tasks in the job file when a monitor starts a round
          Env          \* what the surroundings do, see below

Wan == 1 .. WanCount
Reported == Addr \cup {NOIP, X}

(***************************************************************************)
(* link      interfaces go up and down and change their address             *)
(* loss      hosts stop and start answering pings                           *)
(* route     the route to a gateway disappears from the main table          *)
(* resolv    netifd rewrites /tmp/resolv.conf.auto                          *)
(* firewall  the mangle table is changed by somebody else                   *)
(* restart   /etc/init.d/multiwan restart is called at any time             *)
(* append    a task can be appended while main moves and removes the file   *)
(* vanish    a monitor can start between the rm and the touch of            *)
(*           update_cache; the shell exits when there is no file to source  *)
(***************************************************************************)
Event == {"link", "loss", "route", "resolv", "firewall", "restart",
          "append", "vanish"}

ASSUME CountAssumption == WanCount \in Nat
ASSUME EnvAssumption == Env \subseteq Event
ASSUME ConfigAssumption ==
  /\ FailRetries \in [Wan -> Nat] /\ RecoveryRetries \in [Wan -> Nat \ {0}]
  /\ FailoverTo \in [Wan -> Wan \cup {Balancer, FastBalancer, Disable}]
  /\ Weighted \subseteq Wan /\ Monitored \subseteq Wan /\ Pinged \subseteq Wan
ASSUME ValueAssumption ==
  /\ X \notin Addr /\ NOIP \notin Addr \cup {X}
  /\ {NULL, Balancer, FastBalancer, Disable} \cap Wan = {}
  /\ NULL \notin {Balancer, FastBalancer, Disable}
  /\ Disable \notin {Balancer, FastBalancer}
ASSUME BoundAssumption == MaxJobs \in Nat

VARIABLES
  \* what the rest of the system does
  link,       \* what netifd reports of each interface
  good,       \* WANs over which the test hosts answer
  resolv,     \* resolv.conf.auto is as main wrote it
  table,      \* mangle table: "hooked", "unhooked" from the built-in chains, "gone"
  \* the variables of main, and the cache
  wan_addr,   \* wan_if_map, wan_ip_map and wan_gw_map
  failed,     \* WANs with [x] in wan_fail_map
  misses,     \* the number in wan_fail_map, 0 for none
  passes,     \* the number in wan_recovery_map, 0 for none
  main,       \* where main is
  \* what main configures
  rule,       \* second rule of each chain FW<i>MARK when there are three
  balancer,   \* WANs that the load balancer uses
  dns,        \* WANs whose name servers main wrote to resolv.conf.auto
  routed,     \* WANs with a default route in their table and the main one
  \* the job file and the monitors
  exists,     \* there is a job file
  jobs, work, \* lines of jobqueue, lines of jobqueue.work not yet read
  mon,        \* where the monitor of each WAN is
  cur,        \* ifname_cur, ipaddr_cur and gateway_cur
  todo, fd    \* the task it appends, and the file it has opened for that

netVars  == <<link, good, resolv, table>>
mapVars  == <<wan_addr, failed, misses, passes>>
ruleVars == <<rule, balancer, dns, routed>>
jobVars  == <<exists, jobs, work>>
monVars  == <<mon, cur, todo, fd>>
vars == <<netVars, mapVars, main, ruleVars, jobVars, monVars>>

\* A task is a pair of group and task; "route.refresh" has no WAN.
Task == (Wan \X {"fail", "pass", "acquire"}) \cup {<<NULL, "refresh">>}
Refresh == <<NULL, "refresh">>

\* The second rule of a chain jumps to another one, or there is none.
Target == Wan \cup {NULL, Balancer, FastBalancer}

NetTypeOK == /\ link \in [Wan -> Reported]
             /\ good \subseteq Wan
             /\ resolv \in BOOLEAN
             /\ table \in {"hooked", "unhooked", "gone"}
MapTypeOK == /\ wan_addr \in [Wan -> Reported]
             /\ failed \subseteq Wan
             /\ misses \in [Wan -> Nat]
             /\ passes \in [Wan -> Nat]
RuleTypeOK == /\ rule \in [Wan -> Target]
              /\ balancer \subseteq Wan
              /\ dns \subseteq Wan
              /\ routed \subseteq Wan
JobTypeOK == /\ exists \in BOOLEAN
             /\ jobs \in Seq(Task)
             /\ work \in Seq(Task)
MonTypeOK == /\ mon \in [Wan -> {"off", "boot", "look", "ping", "write"}]
             /\ cur \in [Wan -> Reported]
             /\ todo \in [Wan -> Task \cup {NULL}]
             /\ fd \in [Wan -> {"none", "queue", "work", "gone"}]
             /\ \A w \in Wan : mon[w] = "write" => todo[w] \in Task
TypeOK == /\ NetTypeOK /\ MapTypeOK /\ RuleTypeOK /\ JobTypeOK /\ MonTypeOK
          /\ main \in {"down", "loop", "work", "eof", "leaving"}

-----------------------------------------------------------------------------
(* Redirection: failover inserts a jump to another chain as the second rule *)
(* of FW<i>MARK.  netfilter refuses a jump that closes a loop, and there is *)
(* nothing to insert into when the table is gone.                           *)

LeadsTo(r, t, w) ==
  \A S \in SUBSET Wan : t \in S /\ (\A v \in S : r[v] \in Wan => r[v] \in S) => w \in S
BugDisabledToo(r, w) == FailoverTo[w] # w /\ ~(FailoverTo[w] \in Wan /\ LeadsTo(r, FailoverTo[w], w))
Redirects(r, w) ==
  LET t == FailoverTo[w]
  IN t # Disable /\ t # w /\ ~(t \in Wan /\ LeadsTo(r, t, w))

BugNoRule(r, w) == r
RuleAdded(r, w) ==
  [r EXCEPT ![w] = IF @ = NULL /\ Redirects(r, w) THEN FailoverTo[w] ELSE @]

\* failover add, failover del
Add(w) == /\ failed' = failed \cup {w}
          /\ misses' = [misses EXCEPT ![w] = 0]
          /\ passes' = [passes EXCEPT ![w] = 0]
          /\ rule' = IF table = "gone" THEN rule ELSE RuleAdded(rule, w)
Del(w) == /\ failed' = failed \ {w}
          /\ misses' = [misses EXCEPT ![w] = 0]
          /\ passes' = [passes EXCEPT ![w] = 0]
          /\ rule' = [rule EXCEPT ![w] = NULL]

\* The WANs that carry traffic: device, address and gateway are known and they did not
\* fail.  The load balancer does not ask for the address.
InService == {w \in Wan : wan_addr[w] \in Addr /\ w \notin failed}
Balanced(addr, off) == {w \in Weighted : addr[w] # X /\ w \notin off}

BugSkipBalancer == UNCHANGED balancer
RefreshLoadbalancer == balancer' = Balanced(wan_addr', failed')
BugAllServers == dns' = {w \in Wan : wan_addr'[w] \in Addr} /\ resolv' = TRUE
RefreshDns == dns' = InService' /\ resolv' = TRUE
\* A default route can be added only over an interface that is up.
BugOnlineOnly == routed' = {w \in InService' : wan_addr'[w] = link[w]}
RefreshRoutes == routed' = {w \in Wan : wan_addr'[w] \in Addr /\ wan_addr'[w] = link[w]}

\* What fail_wan and recover_wan do besides when the state of w changes.
Refreshes(w) == /\ RefreshDns
                /\ IF w \in Weighted THEN RefreshLoadbalancer ELSE UNCHANGED balancer

-----------------------------------------------------------------------------
(* The tasks of main.                                                       *)

\* fail_wan.  The counter starts with 1 and is incremented at once.
BugSameMiss(n) == 1
NextMiss(n) == IF n = 0 THEN 2 ELSE n + 1

ForgetPasses(w) == passes' = [passes EXCEPT ![w] = 0]

ExecFail(w) ==
  LET n == NextMiss(misses[w])
  IN /\ UNCHANGED <<wan_addr, routed, mon>>
     /\ \/ /\ w \in failed
           /\ ForgetPasses(w)
           /\ UNCHANGED <<failed, misses, rule, balancer, dns, resolv>>
        \/ /\ w \notin failed /\ n < FailRetries[w]
           /\ misses' = [misses EXCEPT ![w] = n]
           /\ ForgetPasses(w)
           /\ UNCHANGED <<failed, rule, balancer, dns, resolv>>
        \/ /\ w \notin failed /\ n >= FailRetries[w]
           /\ Add(w) /\ Refreshes(w)

\* recover_wan, which calls itself when one pass is enough.
Recovered(w) == passes[w] + 1 >= RecoveryRetries[w]
ExecPass(w) ==
  /\ UNCHANGED <<wan_addr, routed, mon>>
  /\ \/ /\ w \notin failed
        /\ misses' = [misses EXCEPT ![w] = 0]
        /\ UNCHANGED <<failed, passes, rule, balancer, dns, resolv>>
     \/ /\ w \in failed /\ ~Recovered(w)
        /\ passes' = [passes EXCEPT ![w] = @ + 1]
        /\ UNCHANGED <<failed, misses, rule, balancer, dns, resolv>>
     \/ /\ w \in failed /\ Recovered(w)
        /\ Del(w) /\ Refreshes(w)

\* acquire_wan_data for a known group, then its monitor is started again.
BugNotRestarted(w) == UNCHANGED mon
StartMonitor(w) == mon' = [mon EXCEPT ![w] = "boot"]
ExecAcquire(w) ==
  /\ wan_addr' = [wan_addr EXCEPT ![w] = link[w]]
  /\ IF link[w] \in Addr THEN Del(w) ELSE Add(w)
  /\ RefreshRoutes /\ RefreshLoadbalancer /\ RefreshDns
  /\ StartMonitor(w)

ExecRefresh == /\ UNCHANGED <<mapVars, rule, balancer, dns, resolv, mon>>
               /\ RefreshRoutes

\* do_tasks, one line of jobqueue.work
Execute(task) ==
  /\ main = "work" /\ work # <<>> /\ Head(work) = task
  /\ work' = Tail(work)
  /\ CASE task[2] = "fail" -> ExecFail(task[1])
       [] task[2] = "pass" -> ExecPass(task[1])
       [] task[2] = "acquire" -> ExecAcquire(task[1])
       [] task[2] = "refresh" -> ExecRefresh
  /\ UNCHANGED <<link, good, table, main, exists, jobs, cur, todo, fd>>

-----------------------------------------------------------------------------
(* The loop of main.                                                        *)

Moved(from, to) == fd' = [w \in Wan |-> IF fd[w] = from THEN to ELSE fd[w]]
Appending == \E w \in Wan : fd[w] # "none"

\* mv $jobfile $jobfile.work.  A monitor that has opened the file keeps it open.
Take == /\ main = "loop" /\ exists
        /\ "append" \notin Env => ~Appending
        /\ main' = "work"
        /\ exists' = FALSE /\ jobs' = <<>> /\ work' = jobs
        /\ Moved("queue", "work")
        /\ UNCHANGED <<netVars, mapVars, ruleVars, mon, cur, todo>>

\* read finds no further line, then rm $jobfile.work
Eof == /\ main = "work" /\ work = <<>>
       /\ main' = "eof"
       /\ UNCHANGED <<netVars, mapVars, ruleVars, jobVars, monVars>>
RemoveWork == /\ main = "eof"
          /\ main' = "loop"
          /\ work' = <<>> /\ Moved("work", "gone")
          /\ UNCHANGED <<netVars, mapVars, ruleVars, exists, jobs, mon, cur, todo>>

\* Every fifth round: a changed table makes main call the init script and exit, a
\* changed resolv.conf.auto is written again.
Altered == table # "hooked"
Rewritten == ~resolv
Inspect ==
  /\ main = "loop"
  /\ UNCHANGED <<link, good, table, mapVars, rule, balancer, routed, jobVars, monVars>>
  /\ \/ Altered /\ main' = "leaving" /\ UNCHANGED <<dns, resolv>>
     \/ ~Altered /\ Rewritten /\ RefreshDns /\ UNCHANGED main

\* iptables_init makes the chains and hooks them in, clear_rules removes them.
HookTable == table' = "hooked"
ClearTable == table' = "gone" /\ rule' = [w \in Wan |-> NULL]

\* flush removes the job file, restart the whole directory
BugKeepJobs == UNCHANGED <<exists, jobs>> /\ work' = <<>>
FlushJobs == exists' = FALSE /\ jobs' = <<>> /\ work' = <<>>

\* multiwan restart: every agent process is killed, then rules, routes and the
\* job file are flushed.
Leave ==
  /\ main = "leaving" \/ ("restart" \in Env /\ main # "down")
  /\ main' = "down"
  /\ ClearTable
  /\ balancer' = {} /\ routed' = {}
  /\ FlushJobs
  /\ mon' = [w \in Wan |-> "off"] /\ fd' = [w \in Wan |-> "none"]
  /\ todo' = [w \in Wan |-> NULL]
  /\ UNCHANGED <<link, good, resolv, mapVars, dns, cur>>

\* fail_start_check goes through the WANs in their order and adds the rule of each
\* that has no address to those added before.
Before(r, w) == [v \in Wan |-> IF v < w THEN r[v] ELSE NULL]
StartRules == {r \in [Wan -> Target] :
  \A w \in Wan : r[w] = IF link[w] \notin Addr /\ Redirects(Before(r, w), w)
                        THEN FailoverTo[w] ELSE NULL}

\* multiwan agent: acquire_wan_data for each group of the config, main_init, which
\* refreshes the load balancer before fail_start_check fails anyone, then schedule_tasks.
BugKeepCounts == UNCHANGED <<misses, passes>>
ForgetCounts == /\ misses' = [w \in Wan |-> 0]
                /\ passes' = [w \in Wan |-> 0]

Start ==
  /\ main = "down"
  /\ main' = "loop"
  /\ wan_addr' = link
  /\ failed' = {w \in Wan : link[w] \notin Addr}
  /\ ForgetCounts
  /\ HookTable /\ rule' \in StartRules
  /\ RefreshRoutes /\ RefreshDns
  /\ balancer' = Balanced(link, {})
  /\ mon' = [w \in Wan |-> IF w \in Monitored THEN "boot" ELSE "off"]
  /\ UNCHANGED <<link, good, jobVars, cur, todo, fd>>

Main == \/ \E w \in Wan, t \in {"fail", "pass", "acquire"} : Execute(<<w, t>>)
        \/ Execute(Refresh)
        \/ Take \/ Eof \/ RemoveWork \/ Inspect \/ Leave \/ Start

-----------------------------------------------------------------------------
(* The monitor of a WAN.                                                    *)

\* A subshell of main, it has the variables of main and sources the cache, whose lines
\* main writes whole and whose addresses only an "acquire" of this WAN changes.
BootReads(w) ==
  /\ mon[w] = "boot"
  /\ cur' = [cur EXCEPT ![w] = wan_addr[w]]
  /\ mon' = [mon EXCEPT ![w] = "look"]
  /\ UNCHANGED <<netVars, mapVars, main, ruleVars, jobVars, todo, fd>>
BootDies(w) ==
  /\ "vanish" \in Env /\ main = "work" /\ work # <<>>
  /\ mon[w] = "boot" /\ mon' = [mon EXCEPT ![w] = "off"]
  /\ UNCHANGED <<netVars, mapVars, main, ruleVars, jobVars, cur, todo, fd>>
Boot(w) == BootReads(w) \/ BootDies(w)

\* Where it goes on after a task: it exits after "acquire".
After(task) == CASE task[2] = "acquire" -> "off"
                 [] task[2] = "refresh" -> "ping"
                 [] OTHER -> "look"

\* add_task: unless grep finds the line in the job file, the file is opened (and
\* created) to append to it.
BugNoGrep(task) == FALSE
Queued(task) == task \in ToSet(jobs)
AddTask(w, task) ==
  IF Queued(task)
    THEN /\ mon' = [mon EXCEPT ![w] = After(task)]
         /\ UNCHANGED <<exists, todo, fd>>
    ELSE /\ mon' = [mon EXCEPT ![w] = "write"]
         /\ todo' = [todo EXCEPT ![w] = task]
         /\ fd' = [fd EXCEPT ![w] = "queue"]
         /\ exists' = TRUE

OwnJobs(w) == SelectSeq(jobs, LAMBDA t : t[1] = w)

\* A round begins: is the interface as it was, is there a route to its gateway?  (A
\* gateway without an address never has one.)
Look(w) ==
  /\ mon[w] = "look" /\ Len(OwnJobs(w)) < MaxJobs
  /\ \/ link[w] # cur[w] /\ AddTask(w, <<w, "acquire">>)
     \/ link[w] = cur[w] /\ link[w] # X /\ w \notin routed /\ AddTask(w, Refresh)
     \/ /\ link[w] = cur[w] /\ (link[w] = X \/ w \in routed)
        /\ mon' = [mon EXCEPT ![w] = "ping"]
        /\ UNCHANGED <<exists, todo, fd>>
  /\ UNCHANGED <<netVars, mapVars, main, ruleVars, jobs, work, cur>>

\* ping_test, over an interface with an address and for a WAN that has test hosts.
BugPingless(w) == w \in Pinged
Pings(w) == w \in Pinged /\ cur[w] \in Addr
Ping(w) ==
  /\ mon[w] = "ping"
  /\ \/ /\ Pings(w)
        /\ AddTask(w, <<w, IF w \in good THEN "pass" ELSE "fail">>)
     \/ w \notin Pinged /\ AddTask(w, <<w, "pass">>)
     \/ /\ w \in Pinged /\ ~Pings(w)
        /\ mon' = [mon EXCEPT ![w] = "look"] /\ UNCHANGED <<exists, todo, fd>>
  /\ UNCHANGED <<netVars, mapVars, main, ruleVars, jobs, work, cur>>

\* echo appends the line to the file that was opened, wherever it is by now.
Write(w) ==
  /\ mon[w] = "write"
  /\ jobs' = IF fd[w] = "queue" THEN Append(jobs, todo[w]) ELSE jobs
  /\ work' = IF fd[w] = "work" THEN Append(work, todo[w]) ELSE work
  /\ mon' = [mon EXCEPT ![w] = After(todo[w])]
  /\ todo' = [todo EXCEPT ![w] = NULL]
  /\ fd' = [fd EXCEPT ![w] = "none"]
  /\ UNCHANGED <<netVars, mapVars, main, ruleVars, exists, cur>>

Monitor(w) == Boot(w) \/ Look(w) \/ Ping(w) \/ Write(w)

-----------------------------------------------------------------------------
(* The rest of the system (external).                                       *)

LinkChange(w, a) ==
  /\ "link" \in Env /\ link[w] # a
  /\ link' = [link EXCEPT ![w] = a]
  /\ routed' = routed \ {w}
  /\ UNCHANGED <<good, resolv, table, mapVars, main, rule, balancer, dns, jobVars,
                 monVars>>

PingChange(w) ==
  /\ "loss" \in Env
  /\ good' = IF w \in good THEN good \ {w} ELSE good \cup {w}
  /\ UNCHANGED <<link, resolv, table, mapVars, main, ruleVars, jobVars, monVars>>

RouteLost(w) ==
  /\ "route" \in Env /\ w \in routed
  /\ routed' = routed \ {w}
  /\ UNCHANGED <<netVars, mapVars, main, rule, balancer, dns, jobVars, monVars>>

ResolvRewritten ==
  /\ "resolv" \in Env /\ resolv /\ resolv' = FALSE
  /\ UNCHANGED <<link, good, table, mapVars, main, ruleVars, jobVars, monVars>>

\* Another program flushes the built-in chains of the mangle table, or all of it.
Firewall ==
  /\ "firewall" \in Env /\ table = "hooked"
  /\ \/ table' = "unhooked" /\ UNCHANGED rule
     \/ table' = "gone" /\ rule' = [w \in Wan |-> NULL]
  /\ UNCHANGED <<link, good, resolv, mapVars, main, balancer, dns, routed, jobVars,
                 monVars>>

World == \/ \E w \in Wan : PingChange(w) \/ RouteLost(w)
                           \/ \E a \in Reported : LinkChange(w, a)
         \/ ResolvRewritten \/ Firewall

Init ==
  /\ link \in [Wan -> Reported]
  /\ good = Wan /\ resolv = FALSE /\ table = "gone"
  /\ wan_addr = [w \in Wan |-> X] /\ failed = {}
  /\ misses = [w \in Wan |-> 0] /\ passes = [w \in Wan |-> 0]
  /\ main = "down"
  /\ rule = [w \in Wan |-> NULL] /\ balancer = {} /\ dns = {} /\ routed = {}
  /\ exists = FALSE /\ jobs = <<>> /\ work = <<>>
  /\ mon = [w \in Wan |-> "off"] /\ cur = [w \in Wan |-> X]
  /\ todo = [w \in Wan |-> NULL] /\ fd = [w \in Wan |-> "none"]

Next == Main \/ (\E w \in Wan : Monitor(w)) \/ World
Spec == Init /\ [][Next]_vars

(***************************************************************************)
(* Fairness.  Processes run.  A pass of the loop of main looks for a job    *)
(* file and every fifth one also at the table and at resolv.conf.auto; it   *)
(* comes to each again and again whatever it found at the other (SF).       *)
(* Nothing is assumed of the rest of the system.                            *)
(***************************************************************************)
Fairness ==
  /\ WF_vars(Main) /\ SF_vars(Inspect) /\ SF_vars(Take)
  /\ \A w \in Wan : WF_vars(Monitor(w))
FairSpec == Spec /\ Fairness

-----------------------------------------------------------------------------
(* Properties.                                                              *)

Running == main \in {"loop", "work", "eof"}
Pending == ToSet(jobs) \cup ToSet(work)

\* "start a background monitor for each group": there is one, or main has been asked
\* to start it again.
MonitorForEach ==
  Running => \A w \in Monitored : mon[w] # "off" \/ <<w, "acquire">> \in Pending

\* The monitor of a WAN knows the address main knows, or it has asked main to look and
\* exited: there are never two of them.
KnowsAddress ==
  \A w \in Wan :
    /\ <<w, "acquire">> \in Pending => mon[w] = "off"
    /\ mon[w] \in {"look", "ping", "write"} => cur[w] = wan_addr[w]

\* Every WAN with a health check is watched by one monitor that knows its current
\* address, or main has been asked to look at it again: no change goes unnoticed.
Watched == MonitorForEach /\ KnowsAddress

\* Only the chain of a failed WAN is redirected, and to where it should.
RuleJustified == \A w \in Wan : rule[w] # NULL => w \in failed /\ rule[w] = FailoverTo[w]

\* The chain of a WAN is redirected while the WAN is failed and only then, unless
\* there is nowhere to redirect it to; redirections never form a loop.
Redirected ==
  /\ RuleJustified
  /\ Running /\ table # "gone" =>
       \A w \in failed : FailoverTo[w] \notin {Disable, w} => rule[w] # NULL

\* The load balancer uses every WAN with a weight that is in service, and of the others at
\* most those whose gateway is known without an address: fail_start_check takes them
\* offline after the only refresh_loadbalancer of the start.
BalancerSound ==
  Running =>
    /\ Weighted \cap InService \subseteq balancer
    /\ balancer \subseteq {w \in Weighted : w \in InService \/ wan_addr[w] = NOIP}

\* resolv.conf.auto has the name servers of exactly the WANs in service.
DnsSound == Running /\ resolv => dns = InService

\* "$1 has recovered and is back online!": a WAN online has an address.
OnlineHasAddress == Running => \A w \in Wan : w \notin failed => wan_addr[w] \in Addr

\* "ensuring no duplicate tasks for the specified group": of the tasks of a WAN none is in
\* the job file twice, since only its monitor appends them; but "route.refresh" can be
\* there once for each monitor, since each may grep before the others append.
OwnOnce == \A i, j \in DOMAIN jobs : jobs[i] = jobs[j] /\ jobs[i] # Refresh => i = j
OnceQueued == OwnOnce /\ Len(SelectSeq(jobs, LAMBDA t : t = Refresh)) <= WanCount

\* "Process each task in the $jobfile in FIFO order": none is in a file that is not
\* read any more.
EachTaskProcessed ==
  /\ main = "eof" => work = <<>>
  /\ \A w \in Wan : fd[w] # "gone"

\* WANs go offline and online as WanHealth promises, with one failed check in a row less
\* than health_fail_retries says, but one at least, since the first is counted twice.
Health == INSTANCE WanHealth
  WITH running <- Running, checked <- {w \in Wan : mon[w] # "off"},
       online <- Wan \ failed,
       missed <- [w \in Wan |-> IF misses[w] = 0 THEN 0 ELSE misses[w] - 1],
       passed <- passes,
       MaxMisses <- [w \in Wan |-> IF FailRetries[w] > 2 THEN FailRetries[w] - 1 ELSE 1],
       MinPasses <- RecoveryRetries
KeepsHealth == Health!Spec

\* A WAN that answers from some time on is online from some time on, one that does
\* not answer, or has no address, is offline.
Steady(w, a) == link[w] = a /\ table = "hooked"
BackOnline ==
  \A w \in Monitored \cap Pinged, a \in Addr :
    <>[](Steady(w, a) /\ w \in good) => <>[](w \notin failed /\ wan_addr[w] = a)
TakenOut ==
  \A w \in Monitored \cap Pinged, a \in Reported :
    <>[](Steady(w, a) /\ (w \notin good \/ a \notin Addr)) => <>[](w \in failed)

\* What others destroy is restored: a route that disappears comes back, and so does the
\* file of name servers; when the rules were altered multiwan starts anew.
RouteReturns ==
  \A w \in Monitored, a \in Addr : <>[]Steady(w, a) => []<>(w \in routed)
ResolvReturns == <>[](table = "hooked") => []<>resolv
RulesReturn == table # "hooked" ~> table = "hooked"
Restored == RouteReturns /\ ResolvReturns /\ RulesReturn
=============================================================================
