--------------------------- MODULE MultiwanProofs ---------------------------
(***************************************************************************)
(* Proofs about Multiwan, for any number of WANs, any configuration and     *)
(* whatever the rest of the system does.                                    *)
(***************************************************************************)
EXTENDS Multiwan, TLAPS

\* Before anything runs the variables have their types.
LEMMA InitTypeOK == Init => TypeOK
  <1> SUFFICES ASSUME Init PROVE TypeOK
    OBVIOUS
  <1>1. NetTypeOK
    BY DEF Init, NetTypeOK
  <1>2. MapTypeOK
    BY DEF Init, MapTypeOK, Reported
  <1>3. RuleTypeOK
    BY DEF Init, RuleTypeOK, Target
  <1>4. JobTypeOK
    <2>1. exists = FALSE /\ jobs = <<>> /\ work = <<>>
      BY DEF Init
    <2>2. <<>> \in Seq(Task)
      OBVIOUS
    <2> QED
      BY <2>1, <2>2, Zenon DEF JobTypeOK
  <1>5. MonTypeOK
    BY DEF Init, MonTypeOK, Reported
  <1> QED
    BY <1>1, <1>2, <1>3, <1>4, <1>5 DEF Init, TypeOK

\* failover add and del, and the refresh_ functions.
LEMMA AddType ==
  ASSUME TypeOK, NEW w \in Wan, Add(w)
  PROVE  /\ failed' \subseteq Wan /\ misses' \in [Wan -> Nat] /\ passes' \in [Wan -> Nat]
         /\ rule' \in [Wan -> Target]
  BY ConfigAssumption DEF TypeOK, MapTypeOK, RuleTypeOK, Add, RuleAdded, Redirects, Target

\* failover del.
LEMMA DelType ==
  ASSUME TypeOK, NEW w \in Wan, Del(w)
  PROVE  /\ failed' \subseteq Wan /\ misses' \in [Wan -> Nat] /\ passes' \in [Wan -> Nat]
         /\ rule' \in [Wan -> Target]
  BY DEF TypeOK, MapTypeOK, RuleTypeOK, Del, Target

\* The refresh functions.
LEMMA RefreshType ==
  ASSUME TypeOK
  PROVE  /\ RefreshDns => dns' \subseteq Wan /\ resolv' \in BOOLEAN
         /\ RefreshLoadbalancer => balancer' \subseteq Wan
         /\ RefreshRoutes => routed' \subseteq Wan
         /\ \A w \in Wan : Refreshes(w) => /\ dns' \subseteq Wan /\ resolv' \in BOOLEAN
                                           /\ balancer' \subseteq Wan
  BY ConfigAssumption
  DEF TypeOK, RuleTypeOK, RefreshDns, RefreshLoadbalancer, RefreshRoutes, Refreshes,
      InService, Balanced

\* A task of the job file, executed by main.
LEMMA ExecuteType ==
  ASSUME TypeOK, NEW task \in Task, Execute(task)
  PROVE  TypeOK'
  <1> DEFINE Maps == MapTypeOK' /\ RuleTypeOK' /\ resolv' \in BOOLEAN
                     /\ mon' \in [Wan -> {"off", "boot", "look", "ping", "write"}]
                     /\ \A w \in Wan : mon'[w] = "write" => mon[w] = "write"
  <1>1. /\ work' \in Seq(Task)
        /\ UNCHANGED <<link, good, table, main, exists, jobs, cur, todo, fd>>
    BY DEF Execute, TypeOK, JobTypeOK
  <1>2. ASSUME task[2] = "fail" PROVE Maps
    <2>1. task[1] \in Wan /\ ExecFail(task[1])
      BY <1>2 DEF Execute, Task
    <2> QED
      BY <2>1, AddType, RefreshType
      DEF ExecFail, TypeOK, MapTypeOK, RuleTypeOK, MonTypeOK, NetTypeOK, ForgetPasses, NextMiss
  <1>3. ASSUME task[2] = "pass" PROVE Maps
    <2>1. task[1] \in Wan /\ ExecPass(task[1])
      BY <1>3 DEF Execute, Task
    <2> QED
      BY <2>1, DelType, RefreshType
      DEF ExecPass, TypeOK, MapTypeOK, RuleTypeOK, MonTypeOK, NetTypeOK
  <1>4. ASSUME task[2] = "acquire" PROVE Maps
    <2>1. task[1] \in Wan /\ ExecAcquire(task[1])
      BY <1>4 DEF Execute, Task
    <2> QED
      BY <2>1, AddType, DelType, RefreshType
      DEF ExecAcquire, StartMonitor, TypeOK, MapTypeOK, RuleTypeOK, MonTypeOK, NetTypeOK
  <1>5. ASSUME task[2] = "refresh" PROVE Maps
    <2>1. ExecRefresh
      BY <1>5 DEF Execute
    <2> QED
      BY <2>1, RefreshType
      DEF ExecRefresh, mapVars, TypeOK, MapTypeOK, RuleTypeOK, MonTypeOK, NetTypeOK
  <1>6. Maps
    BY <1>2, <1>3, <1>4, <1>5 DEF Task
  <1> QED
    BY <1>1, <1>6 DEF TypeOK, NetTypeOK, JobTypeOK, MonTypeOK

-----------------------------------------------------------------------------
(* The steps of the loop of main, of init and of the monitors.              *)

\* Main: the tasks, the loop and its inspections, the restart.
LEMMA MainType ==
  ASSUME TypeOK, Main
  PROVE  TypeOK'
  <1> USE DEF TypeOK
  <1>1. ASSUME NEW w \in Wan, NEW t \in {"fail", "pass", "acquire"}, Execute(<<w, t>>)
        PROVE  TypeOK'
    BY <1>1, ExecuteType DEF Task
  <1>2. CASE Execute(Refresh)
    BY <1>2, ExecuteType DEF Task, Refresh
  <1>0. <<>> \in Seq(Task)
    OBVIOUS
  <1>3. CASE Take
    BY <1>0, <1>3 DEF Take, Moved, netVars, mapVars, ruleVars, NetTypeOK, MapTypeOK, RuleTypeOK,
                JobTypeOK, MonTypeOK
  <1>4. CASE Eof
    BY <1>4 DEF Eof, netVars, mapVars, ruleVars, jobVars, monVars, NetTypeOK, MapTypeOK,
                RuleTypeOK, JobTypeOK, MonTypeOK
  <1>5. CASE RemoveWork
    BY <1>5 DEF RemoveWork, Moved, netVars, mapVars, ruleVars, NetTypeOK, MapTypeOK,
                RuleTypeOK, JobTypeOK, MonTypeOK
  <1>6. CASE Inspect
    BY <1>6, RefreshType
    DEF Inspect, mapVars, jobVars, monVars, NetTypeOK, MapTypeOK, RuleTypeOK, JobTypeOK,
        MonTypeOK
  <1>7. CASE Leave
    BY <1>0, <1>7 DEF Leave, ClearTable, FlushJobs, mapVars, NetTypeOK, MapTypeOK, RuleTypeOK,
                JobTypeOK, MonTypeOK, Target
  <1>8. CASE Start
    BY <1>8, RefreshType, ConfigAssumption
    DEF Start, HookTable, ForgetCounts, StartRules, Balanced, jobVars, NetTypeOK, MapTypeOK,
        RuleTypeOK, JobTypeOK, MonTypeOK
  <1> QED
    BY <1>1, <1>2, <1>3, <1>4, <1>5, <1>6, <1>7, <1>8 DEF Main

\* A monitor continues, or exits.
LEMMA AfterType ==
  ASSUME NEW task \in Task
  PROVE  After(task) \in {"off", "ping", "look"}
  BY DEF After

\* add_task remembers a task.
LEMMA AddTaskType ==
  ASSUME TypeOK, NEW w \in Wan, NEW task \in Task, AddTask(w, task), UNCHANGED cur
  PROVE  MonTypeOK' /\ exists' \in BOOLEAN
  BY AfterType DEF AddTask, TypeOK, MonTypeOK, JobTypeOK

\* monitor_wan.
LEMMA MonitorType ==
  ASSUME TypeOK, NEW w \in Wan, Monitor(w)
  PROVE  TypeOK'
  <1> USE DEF TypeOK, netVars, mapVars, ruleVars, jobVars, NetTypeOK, MapTypeOK, RuleTypeOK,
              JobTypeOK
  <1>1. CASE Boot(w)
    <2>1. CASE BootReads(w)
      BY <2>1 DEF BootReads, MonTypeOK
    <2>2. CASE BootDies(w)
      BY <2>2 DEF BootDies, MonTypeOK
    <2> QED
      BY <1>1, <2>1, <2>2 DEF Boot
  <1>2. CASE Look(w)
    <2>1. <<w, "acquire">> \in Task /\ Refresh \in Task
      BY DEF Task, Refresh
    <2>2. MonTypeOK' /\ exists' \in BOOLEAN
      BY <1>2, <2>1, AddTaskType DEF Look, MonTypeOK
    <2> QED
      BY <1>2, <2>2 DEF Look
  <1>3. CASE Ping(w)
    <2>1. <<w, "pass">> \in Task /\ <<w, "fail">> \in Task
      BY DEF Task
    <2>2. MonTypeOK' /\ exists' \in BOOLEAN
      BY <1>3, <2>1, AddTaskType DEF Ping, MonTypeOK
    <2> QED
      BY <1>3, <2>2 DEF Ping
  <1>4. CASE Write(w)
    <2>1. todo[w] \in Task
      BY <1>4 DEF Write, MonTypeOK
    <2>2. jobs' \in Seq(Task) /\ work' \in Seq(Task)
      BY <1>4, <2>1 DEF Write
    <2> QED
      BY <1>4, <2>1, <2>2, AfterType DEF Write, MonTypeOK
  <1> QED
    BY <1>1, <1>2, <1>3, <1>4 DEF Monitor

\* What others do.
LEMMA WorldType ==
  ASSUME TypeOK, World
  PROVE  TypeOK'
  <1> USE DEF TypeOK, netVars, mapVars, ruleVars, jobVars, monVars, NetTypeOK, MapTypeOK,
              RuleTypeOK, JobTypeOK, MonTypeOK
  <1>1. ASSUME NEW w \in Wan, NEW a \in Reported, LinkChange(w, a) PROVE TypeOK'
    BY <1>1 DEF LinkChange
  <1>2. ASSUME NEW w \in Wan, PingChange(w) PROVE TypeOK'
    BY <1>2 DEF PingChange
  <1>3. ASSUME NEW w \in Wan, RouteLost(w) PROVE TypeOK'
    BY <1>3 DEF RouteLost
  <1>4. CASE ResolvRewritten
    BY <1>4 DEF ResolvRewritten
  <1>5. CASE Firewall
    BY <1>5 DEF Firewall, Target
  <1> QED
    BY <1>1, <1>2, <1>3, <1>4, <1>5 DEF World

\* A step of the system keeps the types.
LEMMA NextTypeOK == TypeOK /\ [Next]_vars => TypeOK'
  <1> SUFFICES ASSUME TypeOK, [Next]_vars PROVE TypeOK'
    OBVIOUS
  <1>1. CASE UNCHANGED vars
    BY <1>1 DEF vars, TypeOK, netVars, mapVars, ruleVars, jobVars, monVars, NetTypeOK,
                MapTypeOK, RuleTypeOK, JobTypeOK, MonTypeOK
  <1> QED
    BY <1>1, MainType, MonitorType, WorldType DEF Next

\* Every variable of the agent keeps its type.
THEOREM TypeCorrect == Spec => []TypeOK
  BY InitTypeOK, NextTypeOK, PTL DEF Spec

-----------------------------------------------------------------------------
(* What main has configured follows the state of the WANs.  Besides the     *)
(* types the invariant is inductive by itself: every change of wan_addr or  *)
(* failed is followed by the refresh it needs in the same task, and nobody  *)
(* but main changes either side.                                            *)

ConfInv == RuleJustified /\ BalancerSound /\ DnsSound
IInv == TypeOK /\ ConfInv

\* Nothing is configured before main starts.
LEMMA InitConf == Init => ConfInv
  BY DEF Init, ConfInv, RuleJustified, BalancerSound, DnsSound, Running

\* A step that leaves the state of the WANs and what is configured alone.
LEMMA SameConf ==
  ASSUME ConfInv, UNCHANGED <<wan_addr, failed, rule, balancer, dns>>, Running' => Running,
         resolv' => resolv
  PROVE  ConfInv'
  BY DEF ConfInv, RuleJustified, BalancerSound, DnsSound, InService

\* failover add and del keep a jump only while its WAN is failed.
LEMMA AddJustified ==
  ASSUME TypeOK, RuleJustified, NEW w \in Wan, Add(w)
  PROVE  RuleJustified'
  BY DEF TypeOK, RuleTypeOK, RuleJustified, Add, RuleAdded

\* del keeps it too.
LEMMA DelJustified ==
  ASSUME TypeOK, RuleJustified, NEW w \in Wan, Del(w)
  PROVE  RuleJustified'
  BY DEF TypeOK, RuleTypeOK, RuleJustified, Del

\* A WAN whose gateway main knows has an address, or is known to have none.
LEMMA BalancedSound ==
  ASSUME wan_addr' \in [Wan -> Reported], RefreshLoadbalancer
  PROVE  BalancerSound'
  BY ConfigAssumption, ValueAssumption
  DEF RefreshLoadbalancer, Balanced, BalancerSound, InService, Reported

\* refresh_dns and, for a WAN with a weight, refresh_loadbalancer are enough when only
\* the state of that WAN changed.
LEMMA RefreshesSound ==
  ASSUME TypeOK, ConfInv, Running, NEW w \in Wan, Refreshes(w), wan_addr' = wan_addr,
         failed' = failed \cup {w} \/ failed' = failed \ {w}
  PROVE  BalancerSound' /\ DnsSound'
  <1>1. DnsSound'
    BY DEF Refreshes, RefreshDns, DnsSound
  <1>2. CASE w \in Weighted
    BY <1>1, <1>2, BalancedSound DEF Refreshes, TypeOK, MapTypeOK
  <1>3. CASE w \notin Weighted
    <2>1. \A v \in Weighted : v \in InService' <=> v \in InService
      BY <1>3 DEF InService
    <2> QED
      BY <1>1, <1>3, <2>1 DEF ConfInv, Refreshes, BalancerSound
  <1> QED
    BY <1>2, <1>3

\* The tasks of main.
LEMMA ExecuteConf ==
  ASSUME TypeOK, ConfInv, NEW task \in Task, Execute(task)
  PROVE  ConfInv'
  <1>1. Running /\ Running' /\ main' = main
    BY DEF Execute, Running
  <1>2. ASSUME task[2] = "fail" PROVE ConfInv'
    <2>1. task[1] \in Wan /\ ExecFail(task[1])
      BY <1>2 DEF Execute, Task
    <2>2. CASE UNCHANGED <<failed, rule, balancer, dns, resolv>>
      BY <1>1, <2>1, <2>2, SameConf DEF ExecFail
    <2>3. CASE Add(task[1]) /\ Refreshes(task[1])
      BY <1>1, <2>1, <2>3, AddJustified, RefreshesSound DEF ExecFail, ConfInv, Add
    <2> QED
      BY <2>1, <2>2, <2>3 DEF ExecFail
  <1>3. ASSUME task[2] = "pass" PROVE ConfInv'
    <2>1. task[1] \in Wan /\ ExecPass(task[1])
      BY <1>3 DEF Execute, Task
    <2>2. CASE UNCHANGED <<failed, rule, balancer, dns, resolv>>
      BY <1>1, <2>1, <2>2, SameConf DEF ExecPass
    <2>3. CASE Del(task[1]) /\ Refreshes(task[1])
      BY <1>1, <2>1, <2>3, DelJustified, RefreshesSound DEF ExecPass, ConfInv, Del
    <2> QED
      BY <2>1, <2>2, <2>3 DEF ExecPass
  <1>4. ASSUME task[2] = "acquire" PROVE ConfInv'
    <2>1. task[1] \in Wan /\ ExecAcquire(task[1])
      BY <1>4 DEF Execute, Task
    <2>2. BalancerSound'
      BY <2>1, ExecuteType, BalancedSound DEF ExecAcquire, TypeOK, MapTypeOK
    <2> QED
      BY <1>1, <2>1, <2>2, AddJustified, DelJustified
      DEF ExecAcquire, RefreshDns, ConfInv, DnsSound
  <1>5. ASSUME task[2] = "refresh" PROVE ConfInv'
    BY <1>1, <1>5, SameConf DEF Execute, ExecRefresh, mapVars
  <1> QED
    BY <1>2, <1>3, <1>4, <1>5 DEF Task

\* The loop of main, the restart and the start.
LEMMA MainConf ==
  ASSUME TypeOK, ConfInv, Main
  PROVE  ConfInv'
  <1>1. ASSUME NEW w \in Wan, NEW t \in {"fail", "pass", "acquire"}, Execute(<<w, t>>)
        PROVE  ConfInv'
    BY <1>1, ExecuteConf DEF Task
  <1>2. CASE Execute(Refresh)
    BY <1>2, ExecuteConf DEF Task, Refresh
  <1>3. CASE Take \/ Eof \/ RemoveWork
    BY <1>3, SameConf DEF Take, Eof, RemoveWork, Running, netVars, mapVars, ruleVars
  <1>4. CASE Inspect
    <2>1. RuleJustified'
      BY <1>4 DEF Inspect, mapVars, ConfInv, RuleJustified
    <2>2. BalancerSound'
      BY <1>4 DEF Inspect, mapVars, ConfInv, BalancerSound, Running, InService
    <2>3. DnsSound'
      BY <1>4 DEF Inspect, mapVars, ConfInv, DnsSound, RefreshDns, Running, InService
    <2> QED
      BY <2>1, <2>2, <2>3 DEF ConfInv
  <1>5. CASE Leave
    BY <1>5 DEF Leave, ClearTable, ConfInv, RuleJustified, BalancerSound, DnsSound, Running
  <1>6. CASE Start
    <2>1. RuleJustified'
      BY <1>6 DEF Start, StartRules, RuleJustified
    <2>2. BalancerSound'
      BY <1>6, ConfigAssumption, ValueAssumption
      DEF Start, Balanced, BalancerSound, InService, Reported, TypeOK, NetTypeOK
    <2> QED
      BY <1>6, <2>1, <2>2 DEF Start, RefreshDns, ConfInv, DnsSound
  <1> QED
    BY <1>1, <1>2, <1>3, <1>4, <1>5, <1>6 DEF Main

\* Monitors configure nothing.
LEMMA MonitorConf ==
  ASSUME ConfInv, NEW w \in Wan, Monitor(w)
  PROVE  ConfInv'
  BY SameConf DEF Monitor, Boot, BootReads, BootDies, Look, Ping, Write,
                  netVars, mapVars, ruleVars, Running

\* Others change links, routes, resolv.conf.auto and the table.
LEMMA WorldConf ==
  ASSUME ConfInv, World
  PROVE  ConfInv'
  <1>1. ASSUME NEW w \in Wan, NEW a \in Reported, LinkChange(w, a) PROVE ConfInv'
    BY <1>1, SameConf DEF LinkChange, mapVars, Running
  <1>2. ASSUME NEW w \in Wan, PingChange(w) \/ RouteLost(w) PROVE ConfInv'
    BY <1>2, SameConf DEF PingChange, RouteLost, netVars, mapVars, ruleVars, Running
  <1>3. CASE ResolvRewritten
    BY <1>3, SameConf DEF ResolvRewritten, mapVars, ruleVars, Running
  <1>4. CASE Firewall
    BY <1>4 DEF Firewall, mapVars, ConfInv, RuleJustified, BalancerSound, DnsSound, Running,
                InService
  <1> QED
    BY <1>1, <1>2, <1>3, <1>4 DEF World

\* IInv is inductive.
LEMMA NextIInv == IInv /\ [Next]_vars => IInv'
  <1> SUFFICES ASSUME IInv, [Next]_vars PROVE IInv'
    OBVIOUS
  <1>1. TypeOK'
    BY NextTypeOK DEF IInv
  <1>2. CASE UNCHANGED vars
    BY <1>1, <1>2, SameConf DEF IInv, vars, netVars, mapVars, ruleVars, Running
  <1>3. CASE Next
    BY <1>1, <1>3, MainConf, MonitorConf, WorldConf DEF IInv, Next
  <1> QED
    BY <1>2, <1>3

\* So it always holds.
LEMMA SpecIInv == Spec => []IInv
  <1>1. Init => IInv
    BY InitTypeOK, InitConf DEF IInv
  <1> QED
    BY <1>1, NextIInv, PTL DEF Spec

\* The load balancer uses every WAN with a weight that has an address and did not fail,
\* and no other one, except WANs of which main knows a gateway and no address: those stay
\* in from the refresh_loadbalancer of main_init, before fail_start_check fails them.
THEOREM BalancerCorrect == Spec => []BalancerSound
  <1>1. IInv => BalancerSound
    BY DEF IInv, ConfInv
  <1> QED
    BY <1>1, SpecIInv, PTL

\* As long as nobody rewrites it, resolv.conf.auto names the servers of exactly the WANs
\* in service: refresh_dns is called whenever that changes.
THEOREM DnsCorrect == Spec => []DnsSound
  <1>1. IInv => DnsSound
    BY DEF IInv, ConfInv
  <1> QED
    BY <1>1, SpecIInv, PTL

\* The chain of a WAN that did not fail is never redirected, and that of a failed one
\* only to its failover_to, whatever targets are configured: failover del removes the
\* rule that add inserted.
THEOREM RuleCorrect == Spec => []RuleJustified
  <1>1. IInv => RuleJustified
    BY DEF IInv, ConfInv
  <1> QED
    BY <1>1, SpecIInv, PTL

-----------------------------------------------------------------------------
(* The chain of every failed WAN is redirected, unless there is nowhere to  *)
(* redirect it to or the table is gone.  netfilter must not refuse a jump:  *)
(* the configuration sends no WAN, by way of others, to itself.             *)

NoLoops == \A w \in Wan :
  FailoverTo[w] \in Wan \ {w} => ~LeadsTo(FailoverTo, FailoverTo[w], w)

FailedRedirected ==
  Running /\ table # "gone" =>
    \A w \in failed : FailoverTo[w] \notin {Disable, w} => rule[w] # NULL

\* Jumps that follow the configuration close no loop, so that the next one is accepted.
LEMMA JumpAccepted ==
  ASSUME NoLoops, NEW r, \A v \in Wan : r[v] \in {NULL, FailoverTo[v]},
         NEW w \in Wan, FailoverTo[w] \notin {Disable, w}
  PROVE  Redirects(r, w)
  <1>1. ASSUME FailoverTo[w] \in Wan PROVE ~LeadsTo(r, FailoverTo[w], w)
    <2>1. PICK S \in SUBSET Wan :
            /\ FailoverTo[w] \in S /\ w \notin S
            /\ \A v \in S : FailoverTo[v] \in Wan => FailoverTo[v] \in S
      BY <1>1 DEF NoLoops, LeadsTo
    <2>2. \A v \in S : r[v] \in Wan => r[v] \in S
      BY <2>1, ValueAssumption
    <2> QED BY <2>1, <2>2 DEF LeadsTo
  <1> QED BY <1>1 DEF Redirects

LEMMA TargetNotNull == \A w \in Wan : FailoverTo[w] # NULL
  BY ConfigAssumption, ValueAssumption

\* failover add redirects the chain of its WAN as soon as it can, and failover del ends
\* the redirection of a WAN that is online again.
LEMMA AddRedirected ==
  ASSUME NoLoops, IInv, Running, FailedRedirected, NEW w \in Wan, Add(w) \/ Del(w),
         table' = table
  PROVE  FailedRedirected'
  <1>0. /\ rule \in [Wan -> Target] /\ failed \subseteq Wan
        /\ \A v \in Wan : rule[v] \in {NULL, FailoverTo[v]}
    BY DEF IInv, TypeOK, RuleTypeOK, MapTypeOK, ConfInv, RuleJustified
  <1> SUFFICES ASSUME table # "gone",
                      NEW v \in failed', FailoverTo[v] \notin {Disable, v}
               PROVE  rule'[v] # NULL
    BY DEF FailedRedirected
  <1>1. v \in Wan
    BY <1>0 DEF Add, Del
  <1>2. CASE v = w
    <2>1. Add(w) /\ rule' = RuleAdded(rule, w)
      BY <1>2 DEF Add, Del
    <2>2. Redirects(rule, w)
      BY <1>0, <1>1, <1>2, JumpAccepted
    <2> QED BY <1>0, <1>2, <2>1, <2>2, TargetNotNull DEF RuleAdded
  <1>3. CASE v # w
    <2>1. v \in failed
      BY <1>3 DEF Add, Del
    <2>2. rule'[v] = rule[v]
      BY <1>0, <1>1, <1>3 DEF Add, Del, RuleAdded
    <2> QED BY <2>1, <2>2 DEF FailedRedirected
  <1> QED BY <1>2, <1>3

\* fail_start_check redirects the chain of every WAN without address.
LEMMA StartRedirected ==
  ASSUME NoLoops, Start
  PROVE  FailedRedirected'
  <1>1. /\ rule' \in StartRules /\ failed' = {w \in Wan : link[w] \notin Addr}
    BY DEF Start
  <1>2. \A w \in Wan : rule'[w] = IF link[w] \notin Addr /\ Redirects(Before(rule', w), w)
                          THEN FailoverTo[w] ELSE NULL
    BY <1>1 DEF StartRules
  <1>3. ASSUME NEW w \in failed', FailoverTo[w] \notin {Disable, w}
        PROVE  rule'[w] # NULL
    <2>1. w \in Wan /\ link[w] \notin Addr
      BY <1>1, <1>3
    <2>2. PICK r : r = Before(rule', w)
      OBVIOUS
    <2>3. \A v \in Wan : r[v] \in {NULL, FailoverTo[v]}
      BY <1>2, <2>2 DEF Before
    <2>4. Redirects(r, w)
      BY <1>3, <2>1, <2>3, JumpAccepted
    <2> QED BY <1>2, <2>1, <2>2, <2>4, TargetNotNull
  <1> QED BY <1>3 DEF FailedRedirected

LEMMA SameRedirected ==
  ASSUME FailedRedirected, UNCHANGED <<rule, failed>>, Running' => Running,
         table' # "gone" => table # "gone"
  PROVE  FailedRedirected'
  BY DEF FailedRedirected

LEMMA ExecuteRedirected ==
  ASSUME NoLoops, IInv, FailedRedirected, NEW task \in Task, Execute(task)
  PROVE  FailedRedirected'
  <1>1. Running /\ Running' /\ table' = table
    BY DEF Execute, Running
  <1>2. CASE UNCHANGED <<failed, rule>>
    BY <1>1, <1>2, SameRedirected
  <1>3. ASSUME NEW w \in Wan, Add(w) \/ Del(w) PROVE FailedRedirected'
    BY <1>1, <1>3, AddRedirected
  <1>4. CASE task[2] = "fail"
    <2>1. task[1] \in Wan /\ ExecFail(task[1])
      BY <1>4 DEF Execute, Task
    <2> QED BY <1>2, <1>3, <2>1 DEF ExecFail
  <1>5. CASE task[2] = "pass"
    <2>1. task[1] \in Wan /\ ExecPass(task[1])
      BY <1>5 DEF Execute, Task
    <2> QED BY <1>2, <1>3, <2>1 DEF ExecPass
  <1>6. CASE task[2] = "acquire"
    <2>1. task[1] \in Wan /\ ExecAcquire(task[1])
      BY <1>6 DEF Execute, Task
    <2> QED BY <1>3, <2>1 DEF ExecAcquire
  <1>7. CASE task[2] = "refresh"
    BY <1>2, <1>7 DEF Execute, ExecRefresh, mapVars
  <1> QED BY <1>4, <1>5, <1>6, <1>7 DEF Task

LEMMA NextRedirected ==
  ASSUME NoLoops
  PROVE  IInv /\ FailedRedirected /\ [Next]_vars => FailedRedirected'
  <1> SUFFICES ASSUME IInv, FailedRedirected, [Next]_vars PROVE FailedRedirected'
    OBVIOUS
  <1>1. CASE UNCHANGED vars
    BY <1>1, SameRedirected DEF vars, netVars, mapVars, ruleVars, Running
  <1>2. ASSUME NEW w \in Wan, Monitor(w) PROVE FailedRedirected'
    BY <1>2, SameRedirected
    DEF Monitor, Boot, BootReads, BootDies, Look, Ping, Write, netVars,
        mapVars, ruleVars, Running
  <1>3. CASE World
    <2>1. ASSUME NEW w \in Wan, NEW a \in Reported, LinkChange(w, a) PROVE FailedRedirected'
      BY <2>1, SameRedirected DEF LinkChange, mapVars, Running
    <2>2. ASSUME NEW w \in Wan, PingChange(w) \/ RouteLost(w) PROVE FailedRedirected'
      BY <2>2, SameRedirected DEF PingChange, RouteLost, netVars, mapVars, ruleVars, Running
    <2>3. CASE ResolvRewritten
      BY <2>3, SameRedirected DEF ResolvRewritten, mapVars, ruleVars, Running
    <2>4. CASE Firewall
      BY <2>4 DEF Firewall, mapVars, Running, FailedRedirected
    <2> QED BY <1>3, <2>1, <2>2, <2>3, <2>4 DEF World
  <1>4. CASE Main
    <2>1. ASSUME NEW w \in Wan, NEW t \in {"fail", "pass", "acquire"}, Execute(<<w, t>>)
          PROVE  FailedRedirected'
      BY <2>1, ExecuteRedirected DEF Task
    <2>2. CASE Execute(Refresh)
      BY <2>2, ExecuteRedirected DEF Task, Refresh
    <2>3. CASE Take \/ Eof \/ RemoveWork \/ Inspect
      BY <2>3, SameRedirected
      DEF Take, Eof, RemoveWork, Inspect, Running, netVars, mapVars, ruleVars
    <2>4. CASE Leave
      BY <2>4 DEF Leave, FailedRedirected, Running
    <2>5. CASE Start
      BY <2>5, StartRedirected
    <2> QED BY <1>4, <2>1, <2>2, <2>3, <2>4, <2>5 DEF Main
  <1> QED BY <1>1, <1>2, <1>3, <1>4 DEF Next

\* With a configuration that closes no loop the traffic of every failed WAN that has
\* somewhere to go is redirected there, in whatever order WANs fail and recover and as
\* long as nobody removes the table; the traffic of the others never is.
THEOREM RedirectCorrect ==
  ASSUME NoLoops
  PROVE  Spec => []Redirected
  <1>1. Init => FailedRedirected
    BY DEF Init, FailedRedirected, Running
  <1>2. IInv /\ FailedRedirected => Redirected
    BY DEF IInv, ConfInv, FailedRedirected, Redirected
  <1> QED BY <1>1, <1>2, NextRedirected, SpecIInv, PTL DEF Spec
=============================================================================
