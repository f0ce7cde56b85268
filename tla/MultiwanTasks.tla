----------------------------- MODULE MultiwanTasks -----------------------------
(***************************************************************************)
(* Theorems about the tasks of Multiwan: what the job file and its copy     *)
(* hold, what the monitors know meanwhile, and that the agent keeps what    *)
(* WanHealth promises.                                                      *)
(***************************************************************************)
EXTENDS MultiwanProofs

-----------------------------------------------------------------------------
(* Sequences of tasks.                                                      *)

Has(w, s) == \E i \in DOMAIN s : s[i][1] = w

\* No task of a WAN follows the one that restarts its monitor.
LastOfWan(s) ==
  \A i, j \in DOMAIN s : i < j /\ s[i][2] = "acquire" => s[j][1] # s[i][1]

LEMMA EmptyTasks ==
  /\ <<>> \in Seq(Task) /\ ToSet(<<>>) = {} /\ LastOfWan(<<>>)
  /\ \A w : ~Has(w, <<>>)
  BY DEF ToSet, LastOfWan, Has

LEMMA TaskHas ==
  ASSUME NEW s, NEW w, NEW t, <<w, t>> \in ToSet(s)
  PROVE  Has(w, s)
  BY DEF ToSet, Has

LEMMA TaskPair ==
  ASSUME NEW task \in Task
  PROVE  /\ task = <<task[1], task[2]>>
         /\ task[2] \in {"fail", "pass", "acquire", "refresh"}
         /\ task[2] # "refresh" => task[1] \in Wan
         /\ task[2] = "refresh" => task = Refresh
         /\ task[1] \in Wan => task[2] # "refresh"
  BY ValueAssumption DEF Task, Refresh

LEMMA AppendTask ==
  ASSUME NEW s \in Seq(Task), NEW t \in Task
  PROVE  /\ Append(s, t) \in Seq(Task)
         /\ ToSet(Append(s, t)) = ToSet(s) \cup {t}
         /\ \A w : Has(w, Append(s, t)) <=> Has(w, s) \/ t[1] = w
         /\ LastOfWan(s) /\ (\A w \in Wan : <<w, "acquire">> \in ToSet(s) => t[1] # w)
              => LastOfWan(Append(s, t))
  <1> DEFINE r == Append(s, t)
  <1>1. /\ r \in Seq(Task) /\ Len(r) = Len(s) + 1 /\ r[Len(r)] = t /\ Len(s) \in Nat
        /\ DOMAIN s = 1 .. Len(s) /\ DOMAIN r = 1 .. Len(r)
        /\ \A i \in 1 .. Len(s) : r[i] = s[i]
    OBVIOUS
  <1> HIDE DEF r
  <1>2. ToSet(r) = ToSet(s) \cup {t}
    BY <1>1 DEF ToSet
  <1>3. \A w : Has(w, r) <=> Has(w, s) \/ t[1] = w
    BY <1>1 DEF Has
  <1>4. ASSUME LastOfWan(s), \A w \in Wan : <<w, "acquire">> \in ToSet(s) => t[1] # w
        PROVE  LastOfWan(r)
    <2> SUFFICES ASSUME NEW i \in DOMAIN r, NEW j \in DOMAIN r, i < j, r[i][2] = "acquire"
                 PROVE  r[j][1] # r[i][1]
      BY DEF LastOfWan
    <2>1. i \in DOMAIN s /\ r[i] = s[i] /\ s[i] \in Task
      BY <1>1
    <2>2. CASE j \in DOMAIN s
      BY <1>1, <1>4, <2>1, <2>2 DEF LastOfWan
    <2>3. CASE j \notin DOMAIN s
      <3>1. r[j] = t
        BY <1>1, <2>3
      <3>2. s[i][1] \in Wan /\ s[i] = <<s[i][1], "acquire">>
        BY <2>1, TaskPair
      <3>3. s[i] \in ToSet(s)
        BY <2>1 DEF ToSet
      <3> QED BY <1>4, <2>1, <3>1, <3>2, <3>3
    <2> QED BY <2>2, <2>3
  <1> QED BY <1>1, <1>2, <1>3, <1>4 DEF r

LEMMA AppendAt ==
  ASSUME NEW s \in Seq(Task), NEW t \in Task
  PROVE  \A k \in DOMAIN Append(s, t) :
           \/ k \in DOMAIN s /\ Append(s, t)[k] = s[k]
           \/ k = Len(s) + 1 /\ Append(s, t)[k] = t
  OBVIOUS

LEMMA TailTask ==
  ASSUME NEW s \in Seq(Task), s # <<>>
  PROVE  /\ Tail(s) \in Seq(Task) /\ Head(s) \in Task
         /\ ToSet(s) = ToSet(Tail(s)) \cup {Head(s)}
         /\ \A w : Has(w, Tail(s)) => Has(w, s)
         /\ LastOfWan(s) => /\ LastOfWan(Tail(s))
                            /\ Head(s)[2] = "acquire" => ~Has(Head(s)[1], Tail(s))
  <1> DEFINE r == Tail(s)
  <1>1. /\ r \in Seq(Task) /\ Len(s) = Len(r) + 1 /\ Head(s) = s[1] /\ Len(r) \in Nat
        /\ s[1] \in Task /\ DOMAIN s = 1 .. Len(s) /\ DOMAIN r = 1 .. Len(r)
        /\ \A i \in 1 .. Len(r) : r[i] = s[i+1]
    OBVIOUS
  <1> HIDE DEF r
  <1>2. \A i \in DOMAIN r : i + 1 \in DOMAIN s /\ r[i] = s[i+1] /\ 1 < i + 1
    BY <1>1
  <1>3. \A i \in DOMAIN s : i = 1 \/ (i - 1 \in DOMAIN r /\ r[i-1] = s[i])
    BY <1>1
  <1>4. 1 \in DOMAIN s
    BY <1>1
  <1>5. ToSet(s) = ToSet(r) \cup {s[1]}
    BY <1>2, <1>3, <1>4 DEF ToSet
  <1>6. \A w : Has(w, r) => Has(w, s)
    BY <1>2 DEF Has
  <1>7. ASSUME LastOfWan(s) PROVE LastOfWan(r)
    <2> SUFFICES ASSUME NEW i \in DOMAIN r, NEW j \in DOMAIN r, i < j, r[i][2] = "acquire"
                 PROVE  r[j][1] # r[i][1]
      BY DEF LastOfWan
    <2>1. i + 1 < j + 1
      BY <1>1
    <2> QED BY <1>2, <1>7, <2>1 DEF LastOfWan
  <1>8. ASSUME LastOfWan(s), s[1][2] = "acquire" PROVE ~Has(s[1][1], r)
    BY <1>2, <1>4, <1>8 DEF LastOfWan, Has
  <1> QED BY <1>1, <1>5, <1>6, <1>7, <1>8 DEF r

-----------------------------------------------------------------------------
(* The invariants, for whatever the rest of the system does.                *)

\* A monitor that has opened a job file to append its task.
Open(w) == mon[w] = "write"

\* A monitor appends tasks of its own WAN only, after it found them in no file; and
\* nobody else does.
QueueInv ==
  /\ \A w \in Wan : Open(w) => todo[w] = Refresh \/ todo[w][1] = w
  /\ \A w \in Wan : Open(w) /\ fd[w] = "queue" /\ todo[w] # Refresh => ~Queued(todo[w])
  /\ OwnOnce

\* The tasks of a WAN wait in the order of their writing, over both files: when main
\* comes to "acquire" there is none left.
OrderInv ==
  /\ main = "down" => jobs = <<>> /\ \A w \in Wan : mon[w] = "off"
  /\ main \in {"down", "loop"} => work = <<>> /\ \A w \in Wan : fd[w] # "work"
  /\ LastOfWan(work) /\ LastOfWan(jobs)
  /\ \A w \in Wan :
       <<w, "acquire">> \in ToSet(work) \/ (Open(w) /\ fd[w] = "work") => ~Has(w, jobs)

TaskInv == TypeOK /\ QueueInv /\ OrderInv /\ KnowsAddress

LEMMA InitTask == Init => TaskInv
  <1> SUFFICES ASSUME Init PROVE TaskInv
    OBVIOUS
  <1>1. jobs = <<>> /\ work = <<>> /\ \A w \in Wan : mon[w] = "off" /\ fd[w] = "none"
    BY DEF Init
  <1>2. QueueInv
    BY <1>1 DEF QueueInv, OwnOnce, Open
  <1>3. OrderInv
    BY <1>1, EmptyTasks DEF OrderInv, Open, Init
  <1>4. KnowsAddress
    BY <1>1, EmptyTasks DEF KnowsAddress, Pending
  <1> QED BY <1>2, <1>3, <1>4, InitTypeOK DEF TaskInv

\* What a task that main executes does to the monitors.
LEMMA ExecuteEffect ==
  ASSUME TypeOK, NEW task \in Task, Execute(task)
  PROVE  /\ main = "work" /\ work # <<>> /\ Head(work) = task /\ work' = Tail(work)
         /\ UNCHANGED <<link, good, table, main, exists, jobs, cur, todo, fd>>
         /\ \/ task[2] # "acquire" /\ UNCHANGED <<wan_addr, mon>>
            \/ /\ task[2] = "acquire" /\ task[1] \in Wan
               /\ wan_addr' = [wan_addr EXCEPT ![task[1]] = link[task[1]]]
               /\ mon' = [mon EXCEPT ![task[1]] = "boot"]
  <1>1. CASE task[2] = "fail" \/ task[2] = "pass" \/ task[2] = "refresh"
    BY <1>1 DEF Execute, ExecFail, ExecPass, ExecRefresh, mapVars
  <1>2. CASE task[2] = "acquire"
    BY <1>2, TaskPair DEF Execute, ExecAcquire, StartMonitor
  <1> QED BY <1>1, <1>2, TaskPair

LEMMA ExecuteTask ==
  ASSUME TaskInv, NEW task \in Task, Execute(task)
  PROVE  TaskInv'
  <1>0. /\ TypeOK /\ QueueInv /\ OrderInv /\ KnowsAddress /\ work \in Seq(Task)
        /\ mon \in [Wan -> {"off", "boot", "look", "ping", "write"}]
        /\ wan_addr \in [Wan -> Reported]
    BY DEF TaskInv, TypeOK, JobTypeOK, MonTypeOK, MapTypeOK
  <1>1. /\ main = "work" /\ work # <<>> /\ Head(work) = task /\ work' = Tail(work)
        /\ UNCHANGED <<main, exists, jobs, cur, todo, fd>>
        /\ \/ task[2] # "acquire" /\ UNCHANGED <<wan_addr, mon>>
           \/ /\ task[2] = "acquire" /\ task[1] \in Wan
              /\ wan_addr' = [wan_addr EXCEPT ![task[1]] = link[task[1]]]
              /\ mon' = [mon EXCEPT ![task[1]] = "boot"]
    BY <1>0, ExecuteEffect
  <1>2. /\ ToSet(work) = ToSet(work') \cup {task} /\ LastOfWan(work')
        /\ task[2] = "acquire" => ~Has(task[1], work')
    BY <1>0, <1>1, TailTask DEF OrderInv
  <1>3. \A w \in Wan : Open(w)' => Open(w)
    BY <1>0, <1>1 DEF Open
  <1>4. QueueInv'
    BY <1>0, <1>1, <1>3 DEF QueueInv, OwnOnce, Queued
  <1>5. OrderInv'
    BY <1>0, <1>1, <1>2, <1>3 DEF OrderInv
  <1>6. KnowsAddress'
    <2>1. CASE task[2] # "acquire"
      BY <1>0, <1>1, <1>2, <2>1 DEF KnowsAddress, Pending
    <2>2. CASE task[2] = "acquire"
      <3> DEFINE v == task[1]
      <3>1. task = <<v, "acquire">> /\ v \in Wan
        BY <2>2, TaskPair
      <3>2. ~Has(v, jobs)
        BY <1>0, <1>2, <3>1 DEF OrderInv
      <3>3. <<v, "acquire">> \notin Pending'
        BY <1>1, <1>2, <2>2, <3>2, TaskHas DEF Pending
      <3> HIDE DEF v
      <3>4. mon' = [mon EXCEPT ![v] = "boot"] /\ wan_addr' = [wan_addr EXCEPT ![v] = link[v]]
        BY <1>1, <2>2 DEF v
      <3>5. Pending' \subseteq Pending
        BY <1>1, <1>2 DEF Pending
      <3> QED BY <1>0, <1>1, <3>1, <3>3, <3>4, <3>5 DEF KnowsAddress
    <2> QED BY <2>1, <2>2
  <1>7. TypeOK'
    BY <1>0, ExecuteType
  <1> QED BY <1>4, <1>5, <1>6, <1>7 DEF TaskInv

-----------------------------------------------------------------------------
(* The loop of main.                                                        *)

\* A step that does not touch the job files and the monitors.
LEMMA SameTask ==
  ASSUME TaskInv, TypeOK', UNCHANGED <<wan_addr, jobs, work, mon, cur, todo, fd>>,
         main' # main => main' \notin {"down", "loop"}
  PROVE  TaskInv'
  <1>1. QueueInv'
    BY DEF TaskInv, QueueInv, OwnOnce, Queued, Open
  <1>2. OrderInv'
    BY DEF TaskInv, OrderInv, Open
  <1>3. KnowsAddress'
    BY DEF TaskInv, KnowsAddress, Pending
  <1> QED BY <1>1, <1>2, <1>3 DEF TaskInv

LEMMA MainTask ==
  ASSUME TaskInv, Main
  PROVE  TaskInv'
  <1>0. /\ TypeOK /\ QueueInv /\ OrderInv /\ KnowsAddress /\ TypeOK'
        /\ jobs \in Seq(Task) /\ work \in Seq(Task)
        /\ fd \in [Wan -> {"none", "queue", "work", "gone"}]
        /\ mon \in [Wan -> {"off", "boot", "look", "ping", "write"}]
    BY MainType DEF TaskInv, TypeOK, JobTypeOK, MonTypeOK
  <1>1. ASSUME NEW w \in Wan, NEW t \in {"fail", "pass", "acquire"}, Execute(<<w, t>>)
        PROVE  TaskInv'
    BY <1>1, ExecuteTask DEF Task
  <1>2. CASE Execute(Refresh)
    BY <1>2, ExecuteTask DEF Task, Refresh
  <1>3. CASE Take
    <2>1. /\ main = "loop" /\ main' = "work" /\ jobs' = <<>> /\ work' = jobs /\ work = <<>>
          /\ fd' = [w \in Wan |-> IF fd[w] = "queue" THEN "work" ELSE fd[w]]
          /\ UNCHANGED <<wan_addr, mon, cur, todo>>
      BY <1>0, <1>3 DEF Take, Moved, mapVars, OrderInv
    <2>2. QueueInv'
      BY <1>0, <2>1, EmptyTasks DEF QueueInv, OwnOnce, Queued, Open
    <2>3. OrderInv'
      BY <1>0, <2>1, EmptyTasks DEF OrderInv
    <2>4. KnowsAddress'
      BY <1>0, <2>1, EmptyTasks DEF KnowsAddress, Pending
    <2> QED BY <1>0, <2>2, <2>3, <2>4 DEF TaskInv
  <1>4. CASE Eof
    BY <1>0, <1>4, SameTask DEF Eof, mapVars, jobVars, monVars
  <1>5. CASE RemoveWork
    <2>1. /\ main' = "loop" /\ work' = <<>> /\ jobs' = jobs
          /\ fd' = [w \in Wan |-> IF fd[w] = "work" THEN "gone" ELSE fd[w]]
          /\ UNCHANGED <<wan_addr, mon, cur, todo>>
      BY <1>5 DEF RemoveWork, Moved, mapVars
    <2>2. QueueInv'
      BY <1>0, <2>1 DEF QueueInv, OwnOnce, Queued, Open
    <2>3. OrderInv'
      BY <1>0, <2>1, EmptyTasks DEF OrderInv, Open
    <2>4. KnowsAddress'
      BY <1>0, <2>1, EmptyTasks DEF KnowsAddress, Pending
    <2> QED BY <1>0, <2>2, <2>3, <2>4 DEF TaskInv
  <1>6. CASE Inspect
    BY <1>0, <1>6, SameTask DEF Inspect, mapVars, jobVars, monVars
  <1>7. CASE Leave
    <2>1. /\ main' = "down" /\ jobs' = <<>> /\ work' = <<>>
          /\ mon' = [w \in Wan |-> "off"] /\ fd' = [w \in Wan |-> "none"]
      BY <1>7 DEF Leave, FlushJobs
    <2>2. QueueInv'
      BY <2>1 DEF QueueInv, OwnOnce, Open
    <2>3. OrderInv'
      BY <2>1, EmptyTasks DEF OrderInv, Open
    <2>4. KnowsAddress'
      BY <2>1, EmptyTasks DEF KnowsAddress, Pending
    <2> QED BY <1>0, <2>2, <2>3, <2>4 DEF TaskInv
  <1>8. CASE Start
    <2>1. /\ main = "down" /\ main' = "loop" /\ jobs = <<>> /\ work = <<>>
          /\ mon' = [w \in Wan |-> IF w \in Monitored THEN "boot" ELSE "off"]
          /\ UNCHANGED <<jobs, work, cur, todo, fd>>
      BY <1>0, <1>8 DEF Start, jobVars, OrderInv
    <2>2. QueueInv'
      BY <1>0, <2>1 DEF QueueInv, OwnOnce, Open
    <2>4. KnowsAddress'
      BY <1>0, <2>1, EmptyTasks DEF KnowsAddress, Pending
    <2>5. \A w \in Wan : fd[w] # "work"
      BY <1>0, <2>1 DEF OrderInv
    <2>3. OrderInv'
      BY <1>0, <2>1, <2>5, EmptyTasks DEF OrderInv, Open
    <2> QED BY <1>0, <2>2, <2>3, <2>4 DEF TaskInv
  <1> QED
    BY <1>1, <1>2, <1>3, <1>4, <1>5, <1>6, <1>7, <1>8 DEF Main

-----------------------------------------------------------------------------
(* The monitors.                                                            *)

\* add_task opens the job file unless the task is in it.
LEMMA AddTaskEffect ==
  ASSUME TypeOK, NEW w \in Wan, NEW task \in Task, AddTask(w, task)
  PROVE  \/ /\ Queued(task) /\ mon' = [mon EXCEPT ![w] = After(task)]
            /\ UNCHANGED <<todo, fd>>
         \/ /\ ~Queued(task) /\ mon' = [mon EXCEPT ![w] = "write"]
            /\ todo' = [todo EXCEPT ![w] = task]
            /\ fd' = [fd EXCEPT ![w] = "queue"]
  BY DEF AddTask

\* A monitor that goes on without writing.
LEMMA MonTask ==
  ASSUME TaskInv, TypeOK', NEW w \in Wan, mon[w] # "off", NEW p, p # "write",
         mon' = [mon EXCEPT ![w] = p],
         UNCHANGED <<wan_addr, main, jobs, work, todo, fd>>,
         \A v \in Wan \ {w} : cur'[v] = cur[v],
         p \in {"look", "ping"} => cur'[w] = wan_addr[w]
  PROVE  TaskInv'
  <1>0. /\ TypeOK /\ QueueInv /\ OrderInv /\ KnowsAddress
        /\ mon \in [Wan -> {"off", "boot", "look", "ping", "write"}]
    BY DEF TaskInv, TypeOK, MonTypeOK
  <1>1. \A v \in Wan : Open(v)' => Open(v)
    BY <1>0 DEF Open
  <1>2. QueueInv'
    BY <1>0, <1>1 DEF QueueInv, OwnOnce, Queued
  <1>3. OrderInv'
    BY <1>0, <1>1 DEF OrderInv
  <1>4. KnowsAddress'
    BY <1>0 DEF KnowsAddress, Pending
  <1> QED BY <1>2, <1>3, <1>4 DEF TaskInv

\* A monitor that adds a task of its WAN, or "route.refresh".
LEMMA AddTaskTask ==
  ASSUME TaskInv, TypeOK', NEW w \in Wan, NEW task \in Task, AddTask(w, task),
         task = Refresh \/ task[1] = w, mon[w] \in {"look", "ping"},
         UNCHANGED <<wan_addr, main, jobs, work, cur>>
  PROVE  TaskInv'
  <1>0. /\ TypeOK /\ QueueInv /\ OrderInv /\ KnowsAddress
        /\ mon \in [Wan -> {"off", "boot", "look", "ping", "write"}]
        /\ todo \in [Wan -> Task \cup {NULL}]
        /\ fd \in [Wan -> {"none", "queue", "work", "gone"}]
    BY DEF TaskInv, TypeOK, MonTypeOK
  <1>1. cur[w] = wan_addr[w]
    BY <1>0 DEF KnowsAddress
  <1>2. CASE /\ mon' = [mon EXCEPT ![w] = After(task)] /\ UNCHANGED <<todo, fd>>
    BY <1>1, <1>2, AfterType, MonTask
  <1>3. CASE /\ ~Queued(task) /\ mon' = [mon EXCEPT ![w] = "write"]
             /\ todo' = [todo EXCEPT ![w] = task] /\ fd' = [fd EXCEPT ![w] = "queue"]
    <2>1. /\ todo'[w] = task /\ fd'[w] = "queue"
          /\ \A v \in Wan \ {w} : mon'[v] = mon[v] /\ todo'[v] = todo[v] /\ fd'[v] = fd[v]
      BY <1>0, <1>3
    <2>2. QueueInv'
      BY <1>0, <1>3, <2>1 DEF QueueInv, OwnOnce, Queued, Open
    <2>3. OrderInv'
      BY <1>0, <1>3, <2>1 DEF OrderInv, Open
    <2>4. KnowsAddress'
      BY <1>0, <1>1, <1>3, <2>1 DEF KnowsAddress, Pending
    <2> QED BY <2>2, <2>3, <2>4 DEF TaskInv
  <1> QED BY <1>0, <1>2, <1>3, AddTaskEffect

\* echo appends the task to the file that was opened.
LEMMA WriteTask ==
  ASSUME TaskInv, TypeOK', NEW w \in Wan, Write(w)
  PROVE  TaskInv'
  <1> DEFINE task == todo[w]
  <1>0. /\ TypeOK /\ QueueInv /\ OrderInv /\ KnowsAddress
        /\ mon \in [Wan -> {"off", "boot", "look", "ping", "write"}]
        /\ todo \in [Wan -> Task \cup {NULL}]
        /\ fd \in [Wan -> {"none", "queue", "work", "gone"}]
        /\ jobs \in Seq(Task) /\ work \in Seq(Task)
    BY DEF TaskInv, TypeOK, MonTypeOK, JobTypeOK
  <1>1. /\ mon[w] = "write" /\ Open(w) /\ task \in Task
        /\ mon' = [mon EXCEPT ![w] = After(task)]
        /\ todo' = [todo EXCEPT ![w] = NULL] /\ fd' = [fd EXCEPT ![w] = "none"]
        /\ UNCHANGED <<wan_addr, main, cur>>
        /\ jobs' = (IF fd[w] = "queue" THEN Append(jobs, task) ELSE jobs)
        /\ work' = (IF fd[w] = "work" THEN Append(work, task) ELSE work)
    BY <1>0 DEF Write, Open, TypeOK, MonTypeOK, mapVars
  <1>2. task = Refresh \/ task[1] = w
    BY <1>0, <1>1 DEF QueueInv
  <1>3. \A v \in Wan \ {w} : task[1] # v
    BY <1>2, ValueAssumption DEF Refresh
  <1>a. fd[w] = "queue" /\ task # Refresh => task \notin ToSet(jobs)
    BY <1>0, <1>1 DEF QueueInv, Queued
  <1>b. fd[w] = "work" => ~Has(w, jobs)
    BY <1>0, <1>1 DEF OrderInv
  <1>c. <<w, "acquire">> \notin Pending
    BY <1>0, <1>1 DEF KnowsAddress
  <1>d. After(task) # "write" /\ (task # <<w, "acquire">> => After(task) \in {"look", "ping"})
    <2>1. task[2] = "acquire" => task = <<w, "acquire">>
      BY <1>1, <1>2, TaskPair DEF Refresh
    <2> QED BY <2>1 DEF After
  <1>m. task = <<w, "acquire">> => After(task) = "off"
    BY DEF After
  <1> HIDE DEF task
  <1>4. /\ mon'[w] = After(task) /\ ~Open(w)'
        /\ \A v \in Wan \ {w} : mon'[v] = mon[v] /\ todo'[v] = todo[v] /\ fd'[v] = fd[v]
        /\ \A v \in Wan : Open(v)' => Open(v) /\ v # w
    BY <1>0, <1>1, <1>d DEF Open
  <1>5. /\ ToSet(jobs') \subseteq ToSet(jobs) \cup {task}
        /\ ToSet(work') \subseteq ToSet(work) \cup {task}
        /\ \A v : Has(v, jobs') => Has(v, jobs) \/ task[1] = v
    BY <1>0, <1>1, AppendTask
  <1>6. LastOfWan(jobs') /\ LastOfWan(work')
    <2>1. \A v \in Wan : <<v, "acquire">> \in ToSet(jobs) \cup ToSet(work) => task[1] # v
      BY <1>3, <1>c DEF Pending
    <2> QED BY <1>0, <1>1, <2>1, AppendTask DEF OrderInv
  <1>7. QueueInv'
    <2>1. \A v \in Wan : Open(v)' => todo'[v] = Refresh \/ todo'[v][1] = v
      BY <1>0, <1>4 DEF QueueInv
    <2>2. \A v \in Wan : Open(v)' /\ fd'[v] = "queue" /\ todo'[v] # Refresh
                          => todo'[v] \notin ToSet(jobs')
      BY <1>0, <1>3, <1>4, <1>5 DEF QueueInv, Queued
    <2>3. OwnOnce'
      <3>1. CASE jobs' = jobs
        BY <1>0, <3>1 DEF QueueInv, OwnOnce
      <3>2. CASE fd[w] = "queue" /\ jobs' = Append(jobs, task)
        <4> SUFFICES ASSUME NEW i \in DOMAIN jobs', NEW j \in DOMAIN jobs',
                            jobs'[i] = jobs'[j], jobs'[i] # Refresh
                     PROVE  i = j
          BY DEF OwnOnce
        <4>1. \A k \in DOMAIN jobs' :
                \/ k \in DOMAIN jobs /\ jobs'[k] = jobs[k]
                \/ k = Len(jobs) + 1 /\ jobs'[k] = task
          BY <1>0, <1>1, <3>2, AppendAt
        <4>2. \A k \in DOMAIN jobs : jobs[k] = task => task = Refresh
          BY <1>a, <3>2 DEF ToSet
        <4> QED BY <1>0, <4>1, <4>2 DEF QueueInv, OwnOnce
      <3> QED BY <1>1, <3>1, <3>2
    <2> QED BY <2>1, <2>2, <2>3 DEF QueueInv, Queued
  <1>8. OrderInv'
    <2>1. main # "down" /\ (main = "loop" => work' = <<>> /\ \A v \in Wan : fd'[v] # "work")
      BY <1>0, <1>1, <1>4 DEF OrderInv
    <2>2. ASSUME NEW v \in Wan,
                 <<v, "acquire">> \in ToSet(work') \/ (Open(v)' /\ fd'[v] = "work")
          PROVE  ~Has(v, jobs')
      <3>1. CASE v # w
        <4>1. <<v, "acquire">> # task
          BY <1>3, <3>1
        <4> QED BY <1>0, <1>3, <1>4, <1>5, <2>2, <3>1, <4>1 DEF OrderInv
      <3>2. CASE v = w
        <4>1. <<w, "acquire">> \in ToSet(work')
          BY <1>4, <2>2, <3>2
        <4>2. task = <<w, "acquire">> /\ work' # work
          BY <1>5, <1>c, <4>1 DEF Pending
        <4> QED BY <1>1, <1>b, <3>2, <4>2
      <3> QED BY <3>1, <3>2
    <2> QED BY <1>1, <1>6, <2>1, <2>2 DEF OrderInv
  <1>9. KnowsAddress'
    <2> SUFFICES ASSUME NEW v \in Wan
                 PROVE  /\ <<v, "acquire">> \in Pending' => mon'[v] = "off"
                        /\ mon'[v] \in {"look", "ping", "write"} => cur'[v] = wan_addr'[v]
      BY DEF KnowsAddress
    <2>1. Pending' \subseteq Pending \cup {task}
      BY <1>5 DEF Pending
    <2>2. CASE v # w
      <3>1. <<v, "acquire">> # task
        BY <1>3, <2>2
      <3> QED BY <1>0, <1>1, <1>4, <2>1, <2>2, <3>1 DEF KnowsAddress
    <2>3. CASE v = w
      BY <1>0, <1>1, <1>4, <1>c, <1>m, <2>1, <2>3 DEF KnowsAddress
    <2> QED BY <2>2, <2>3
  <1> QED BY <1>7, <1>8, <1>9 DEF TaskInv

LEMMA MonitorTask ==
  ASSUME TaskInv, NEW w \in Wan, Monitor(w)
  PROVE  TaskInv'
  <1>0. /\ TypeOK /\ TypeOK' /\ KnowsAddress
        /\ cur \in [Wan -> Reported]
    BY MonitorType DEF TaskInv, TypeOK, MonTypeOK
  <1>1. CASE Boot(w)
    <2>1. CASE BootReads(w)
      BY <1>0, <2>1, MonTask DEF BootReads, mapVars, jobVars
    <2>2. CASE BootDies(w)
      BY <1>0, <2>2, MonTask DEF BootDies, mapVars, jobVars
    <2> QED BY <1>1, <2>1, <2>2 DEF Boot
  <1>2. CASE Look(w)
    <2>1. <<w, "acquire">> \in Task /\ Refresh \in Task
      BY DEF Task, Refresh
    <2>2. /\ mon[w] = "look" /\ UNCHANGED <<wan_addr, main, jobs, work, cur>>
          /\ cur[w] = wan_addr[w]
      BY <1>0, <1>2 DEF Look, mapVars, KnowsAddress
    <2>3. CASE AddTask(w, <<w, "acquire">>) \/ AddTask(w, Refresh)
      BY <1>0, <2>1, <2>2, <2>3, AddTaskTask
    <2>4. CASE mon' = [mon EXCEPT ![w] = "ping"] /\ UNCHANGED <<todo, fd>>
      BY <1>0, <2>2, <2>4, MonTask
    <2> QED BY <1>2, <2>3, <2>4 DEF Look
  <1>3. CASE Ping(w)
    <2>1. <<w, "pass">> \in Task /\ <<w, "fail">> \in Task
      BY DEF Task
    <2>2. /\ mon[w] = "ping" /\ UNCHANGED <<wan_addr, main, jobs, work, cur>>
          /\ cur[w] = wan_addr[w]
      BY <1>0, <1>3 DEF Ping, mapVars, KnowsAddress
    <2>3. CASE AddTask(w, <<w, "pass">>) \/ AddTask(w, <<w, "fail">>)
      BY <1>0, <2>1, <2>2, <2>3, AddTaskTask
    <2>4. CASE mon' = [mon EXCEPT ![w] = "look"] /\ UNCHANGED <<todo, fd>>
      BY <1>0, <2>2, <2>4, MonTask
    <2> QED BY <1>3, <2>3, <2>4 DEF Ping
  <1>4. CASE Write(w)
    BY <1>0, <1>4, WriteTask
  <1> QED BY <1>1, <1>2, <1>3, <1>4 DEF Monitor

\* What others do touches neither tasks nor monitors.
LEMMA WorldEffect ==
  ASSUME World
  PROVE  UNCHANGED <<mapVars, main, jobVars, monVars>>
  BY DEF World, LinkChange, PingChange, RouteLost, ResolvRewritten, Firewall

LEMMA NextTask == TaskInv /\ [Next]_vars => TaskInv'
  <1> SUFFICES ASSUME TaskInv, [Next]_vars PROVE TaskInv'
    OBVIOUS
  <1>0. TypeOK'
    BY NextTypeOK DEF TaskInv
  <1>1. CASE UNCHANGED vars
    BY <1>0, <1>1, SameTask DEF vars, mapVars, jobVars, monVars
  <1>2. CASE World
    BY <1>0, <1>2, WorldEffect, SameTask DEF mapVars, jobVars, monVars
  <1> QED BY <1>1, <1>2, MainTask, MonitorTask DEF Next

LEMMA SpecTask == Spec => []TaskInv
  BY InitTask, NextTask, PTL DEF Spec

\* However main and the monitors interleave, and even when a task is appended to a file
\* that was just taken: a task of a WAN is in the job file once at most.  ("route.refresh"
\* has several writers and is not meant: it can be there once for each.)
THEOREM QueueCorrect == Spec => []OwnOnce
  <1>1. TaskInv => OwnOnce
    BY DEF TaskInv, QueueInv
  <1> QED BY <1>1, SpecTask, PTL

\* A WAN is never watched by two monitors, and its monitor compares with the address that
\* main uses: acquire is the last of its tasks.
THEOREM AddressCorrect == Spec => []KnowsAddress
  <1>1. TaskInv => KnowsAddress
    BY DEF TaskInv
  <1> QED BY <1>1, SpecTask, PTL

-----------------------------------------------------------------------------
(* Every WAN has its monitor, unless tasks are lost.                        *)

\* Without tasks that are appended while main takes the file, a file that is opened is
\* the job file.
NoneLost ==
  /\ "vanish" \notin Env => MonitorForEach
  /\ \A w \in Wan : fd[w] \notin {"work", "gone"} /\ (Open(w) => fd[w] = "queue")
  /\ main = "eof" => work = <<>>

LEMMA InitNoneLost == Init => NoneLost
  BY DEF Init, NoneLost, MonitorForEach, Running, Open

LEMMA SameNoneLost ==
  ASSUME NoneLost, UNCHANGED <<jobs, work, mon, fd>>,
         main' = main \/ main' = "leaving" \/ (main = "work" /\ work = <<>> /\ main' = "eof")
  PROVE  NoneLost'
  BY DEF NoneLost, MonitorForEach, Running, Pending, Open

LEMMA ExecuteNoneLost ==
  ASSUME TaskInv, NoneLost, NEW task \in Task, Execute(task)
  PROVE  NoneLost'
  <1>0. /\ TypeOK /\ mon \in [Wan -> {"off", "boot", "look", "ping", "write"}]
        /\ work \in Seq(Task) /\ Monitored \subseteq Wan
    BY ConfigAssumption DEF TaskInv, TypeOK, MonTypeOK, JobTypeOK
  <1>1. /\ main = "work" /\ work # <<>> /\ Head(work) = task /\ work' = Tail(work)
        /\ UNCHANGED <<main, jobs, fd>>
        /\ \/ task[2] # "acquire" /\ mon' = mon
           \/ /\ task[2] = "acquire" /\ task[1] \in Wan
              /\ mon' = [mon EXCEPT ![task[1]] = "boot"]
    BY <1>0, ExecuteEffect
  <1>2. ToSet(work) = ToSet(work') \cup {task}
    BY <1>0, <1>1, TailTask
  <1>3. "vanish" \notin Env => MonitorForEach'
    <2> SUFFICES ASSUME "vanish" \notin Env, NEW w \in Monitored
                 PROVE  mon'[w] # "off" \/ <<w, "acquire">> \in Pending'
      BY DEF MonitorForEach
    <2>1. mon[w] # "off" \/ <<w, "acquire">> \in Pending
      BY <1>1 DEF NoneLost, MonitorForEach, Running
    <2>2. CASE mon[w] # "off"
      BY <1>0, <1>1, <2>2
    <2>3. CASE <<w, "acquire">> \in Pending /\ <<w, "acquire">> # task
      BY <1>1, <1>2, <2>3 DEF Pending
    <2>4. CASE <<w, "acquire">> = task
      BY <1>0, <1>1, <2>4
    <2> QED BY <2>1, <2>2, <2>3, <2>4
  <1>4. \A w \in Wan : Open(w)' => Open(w)
    BY <1>0, <1>1 DEF Open
  <1> QED BY <1>1, <1>3, <1>4 DEF NoneLost

LEMMA MainNoneLost ==
  ASSUME "append" \notin Env, TaskInv, NoneLost, Main
  PROVE  NoneLost'
  <1>0. /\ TypeOK /\ OrderInv /\ fd \in [Wan -> {"none", "queue", "work", "gone"}]
        /\ Monitored \subseteq Wan
    BY ConfigAssumption DEF TaskInv, TypeOK, MonTypeOK
  <1>1. ASSUME NEW w \in Wan, NEW t \in {"fail", "pass", "acquire"}, Execute(<<w, t>>)
        PROVE  NoneLost'
    BY <1>1, ExecuteNoneLost DEF Task
  <1>2. CASE Execute(Refresh)
    BY <1>2, ExecuteNoneLost DEF Task, Refresh
  <1>3. CASE Take
    <2>1. /\ main = "loop" /\ main' = "work" /\ work' = jobs /\ work = <<>> /\ mon' = mon
          /\ \A w \in Wan : fd[w] = "none" /\ fd'[w] = "none"
      BY <1>0, <1>3 DEF Take, Moved, OrderInv, Appending
    <2>2. Pending \subseteq Pending'
      BY <2>1, EmptyTasks DEF Pending
    <2> QED BY <1>0, <2>1, <2>2 DEF NoneLost, MonitorForEach, Running, Open
  <1>4. CASE Eof
    BY <1>4, SameNoneLost DEF Eof, jobVars, monVars
  <1>5. CASE RemoveWork
    <2>1. /\ main = "eof" /\ main' = "loop" /\ work' = <<>> /\ work = <<>>
          /\ jobs' = jobs /\ mon' = mon
          /\ \A w \in Wan : fd'[w] = fd[w]
      BY <1>0, <1>5 DEF RemoveWork, Moved, NoneLost
    <2> QED BY <1>0, <2>1 DEF NoneLost, MonitorForEach, Running, Pending, Open
  <1>6. CASE Inspect
    BY <1>6, SameNoneLost DEF Inspect, jobVars, monVars
  <1>7. CASE Leave
    BY <1>7 DEF Leave, NoneLost, MonitorForEach, Running, Open
  <1>8. CASE Start
    BY <1>0, <1>8 DEF Start, jobVars, NoneLost, MonitorForEach, Running, Open
  <1> QED
    BY <1>1, <1>2, <1>3, <1>4, <1>5, <1>6, <1>7, <1>8 DEF Main

\* A monitor that goes on, or exits when its task is queued.
LEMMA MonNoneLost ==
  ASSUME TypeOK, NoneLost, NEW w \in Wan, NEW p, p # "write",
         p = "off" => <<w, "acquire">> \in Pending \/ "vanish" \in Env,
         mon' = [mon EXCEPT ![w] = p], UNCHANGED <<main, jobs, work, fd>>
  PROVE  NoneLost'
  <1>0. mon \in [Wan -> {"off", "boot", "look", "ping", "write"}] /\ Monitored \subseteq Wan
    BY ConfigAssumption DEF TypeOK, MonTypeOK
  <1>1. \A v \in Wan : Open(v)' => Open(v)
    BY <1>0 DEF Open
  <1>2. "vanish" \notin Env => MonitorForEach'
    BY <1>0 DEF NoneLost, MonitorForEach, Running, Pending
  <1> QED BY <1>1, <1>2 DEF NoneLost

LEMMA AddTaskNoneLost ==
  ASSUME TypeOK, NoneLost, NEW w \in Wan, NEW task \in Task, AddTask(w, task),
         task = Refresh \/ task[1] = w, UNCHANGED <<main, jobs, work>>
  PROVE  NoneLost'
  <1>0. /\ mon \in [Wan -> {"off", "boot", "look", "ping", "write"}]
        /\ fd \in [Wan -> {"none", "queue", "work", "gone"}] /\ Monitored \subseteq Wan
    BY ConfigAssumption DEF TypeOK, MonTypeOK
  <1>1. CASE /\ Queued(task) /\ mon' = [mon EXCEPT ![w] = After(task)] /\ fd' = fd
    <2>1. After(task) = "off" => task = <<w, "acquire">>
      BY TaskPair DEF After, Refresh
    <2>2. task \in Pending
      BY <1>1 DEF Queued, Pending
    <2> QED BY <1>1, <2>1, <2>2, AfterType, MonNoneLost
  <1>2. CASE /\ mon' = [mon EXCEPT ![w] = "write"] /\ fd' = [fd EXCEPT ![w] = "queue"]
    BY <1>0, <1>2 DEF NoneLost, MonitorForEach, Running, Pending, Open
  <1> QED BY <1>1, <1>2, AddTaskEffect

LEMMA WriteNoneLost ==
  ASSUME TaskInv, NoneLost, NEW w \in Wan, Write(w)
  PROVE  NoneLost'
  <1> DEFINE task == todo[w]
  <1>0. /\ TypeOK /\ mon \in [Wan -> {"off", "boot", "look", "ping", "write"}]
        /\ fd \in [Wan -> {"none", "queue", "work", "gone"}]
        /\ jobs \in Seq(Task) /\ Monitored \subseteq Wan
    BY ConfigAssumption DEF TaskInv, TypeOK, MonTypeOK, JobTypeOK
  <1>1. /\ fd[w] = "queue" /\ Open(w) /\ task \in Task
        /\ jobs' = Append(jobs, task) /\ work' = work /\ main' = main
        /\ mon' = [mon EXCEPT ![w] = After(task)] /\ fd' = [fd EXCEPT ![w] = "none"]
    BY <1>0 DEF NoneLost, Write, Open, TypeOK, MonTypeOK
  <1>2. task = Refresh \/ task[1] = w
    BY <1>1 DEF TaskInv, QueueInv
  <1>3. After(task) = "off" => task = <<w, "acquire">>
    BY <1>1, <1>2, TaskPair DEF After, Refresh
  <1>4. Pending' = Pending \cup {task}
    BY <1>0, <1>1, AppendTask DEF Pending
  <1>5. After(task) # "write"
    BY <1>1, AfterType
  <1> HIDE DEF task
  <1>6. "vanish" \notin Env => MonitorForEach'
    BY <1>0, <1>1, <1>3, <1>4 DEF NoneLost, MonitorForEach, Running
  <1>7. \A v \in Wan : Open(v)' => Open(v) /\ v # w
    BY <1>0, <1>1, <1>5 DEF Open
  <1>8. \A v \in Wan : fd'[v] \notin {"work", "gone"} /\ (v # w => fd'[v] = fd[v])
    BY <1>0, <1>1 DEF NoneLost
  <1> QED BY <1>1, <1>6, <1>7, <1>8 DEF NoneLost

LEMMA MonitorNoneLost ==
  ASSUME TaskInv, NoneLost, NEW w \in Wan, Monitor(w)
  PROVE  NoneLost'
  <1>0. TypeOK
    BY DEF TaskInv
  <1>1. CASE Boot(w)
    BY <1>0, <1>1, MonNoneLost DEF Boot, BootReads, BootDies, jobVars
  <1>2. CASE Look(w)
    <2>1. <<w, "acquire">> \in Task /\ Refresh \in Task /\ UNCHANGED <<main, jobs, work>>
      BY <1>2 DEF Task, Refresh, Look
    <2>2. CASE AddTask(w, <<w, "acquire">>) \/ AddTask(w, Refresh)
      BY <1>0, <2>1, <2>2, AddTaskNoneLost
    <2>3. CASE mon' = [mon EXCEPT ![w] = "ping"] /\ UNCHANGED fd
      BY <1>0, <2>1, <2>3, MonNoneLost
    <2> QED BY <1>2, <2>2, <2>3 DEF Look
  <1>3. CASE Ping(w)
    <2>1. <<w, "pass">> \in Task /\ <<w, "fail">> \in Task /\ UNCHANGED <<main, jobs, work>>
      BY <1>3 DEF Task, Ping
    <2>2. CASE AddTask(w, <<w, "pass">>) \/ AddTask(w, <<w, "fail">>)
      BY <1>0, <2>1, <2>2, AddTaskNoneLost
    <2>3. CASE mon' = [mon EXCEPT ![w] = "look"] /\ UNCHANGED fd
      BY <1>0, <2>1, <2>3, MonNoneLost
    <2> QED BY <1>3, <2>2, <2>3 DEF Ping
  <1>4. CASE Write(w)
    BY <1>4, WriteNoneLost
  <1> QED BY <1>1, <1>2, <1>3, <1>4 DEF Monitor

LEMMA NextNoneLost ==
  ASSUME "append" \notin Env
  PROVE  TaskInv /\ NoneLost /\ [Next]_vars => NoneLost'
  <1> SUFFICES ASSUME TaskInv, NoneLost, [Next]_vars PROVE NoneLost'
    OBVIOUS
  <1>1. CASE UNCHANGED vars
    BY <1>1, SameNoneLost DEF vars, jobVars, monVars
  <1>2. CASE World
    BY <1>2, WorldEffect, SameNoneLost DEF jobVars, monVars
  <1> QED BY <1>1, <1>2, MainNoneLost, MonitorNoneLost DEF Next

\* As long as no task is appended to a file that main has just taken, and no monitor finds
\* the cache missing, every WAN with a health check is watched, or main has been asked to.
THEOREM WatchedCorrect ==
  ASSUME {"append", "vanish"} \cap Env = {}
  PROVE  Spec => []Watched
  <1>1. "append" \notin Env /\ "vanish" \notin Env
    OBVIOUS
  <1>2. TaskInv /\ NoneLost => Watched
    BY <1>1 DEF TaskInv, NoneLost, Watched
  <1>3. TaskInv /\ NoneLost /\ [Next]_vars => NoneLost'
    BY <1>1, NextNoneLost
  <1> QED BY <1>2, <1>3, InitNoneLost, SpecTask, PTL DEF Spec

-----------------------------------------------------------------------------
(* Multiwan implements WanHealth: main changes the state of a WAN only by   *)
(* tasks, and "acquire" of a WAN finds its monitor gone.                    *)

\* Misses are counted of a WAN online, passes of one that failed.
CountInv == \A w \in Wan : IF w \in failed THEN misses[w] = 0 ELSE passes[w] = 0

Missed == [w \in Wan |-> IF misses[w] = 0 THEN 0 ELSE misses[w] - 1]

LEMMA CountTypes ==
  ASSUME TypeOK
  PROVE  /\ misses \in [Wan -> Nat] /\ passes \in [Wan -> Nat] /\ failed \subseteq Wan
         /\ mon \in [Wan -> {"off", "boot", "look", "ping", "write"}]
  BY DEF TypeOK, MapTypeOK, MonTypeOK

\* One WAN gets a new state: the change in terms of the code, and of the promise.
SetWan(w, up, k, n) ==
  /\ failed' = IF up THEN failed \ {w} ELSE failed \cup {w}
  /\ misses' = [misses EXCEPT ![w] = k]
  /\ passes' = [passes EXCEPT ![w] = n]

LEMMA SetCount ==
  ASSUME TypeOK, CountInv, NEW w \in Wan, NEW up \in BOOLEAN, NEW k \in Nat, NEW n \in Nat,
         SetWan(w, up, k, n), IF up THEN n = 0 ELSE k = 0
  PROVE  CountInv'
  BY CountTypes DEF SetWan, CountInv

LEMMA SetHealth ==
  ASSUME TypeOK, NEW w \in Wan, NEW up \in BOOLEAN, NEW k \in Nat, NEW n \in Nat,
         NEW m, m = IF k = 0 THEN 0 ELSE k - 1,
         SetWan(w, up, k, n), main' = main
  PROVE  Health!Set(w, up, m, n)
  <1>1. Missed' = [Missed EXCEPT ![w] = m]
    <2>1. \A v \in Wan : misses'[v] = IF v = w THEN k ELSE misses[v]
      BY CountTypes DEF SetWan
    <2> QED BY <2>1 DEF Missed
  <1>2. Wan \ failed' = IF up THEN (Wan \ failed) \cup {w} ELSE (Wan \ failed) \ {w}
    BY DEF SetWan
  <1>3. Running' = Running
    BY DEF Running
  <1> QED BY <1>1, <1>2, <1>3 DEF SetWan, Missed, Health!Set

\* What a health check changes, by the counters before it.
LEMMA FailEffect ==
  ASSUME TypeOK, CountInv, NEW w \in Wan, ExecFail(w)
  PROVE  /\ mon' = mon
         /\ \/ w \in failed /\ SetWan(w, FALSE, 0, 0)
            \/ /\ w \notin failed /\ NextMiss(misses[w]) < FailRetries[w]
               /\ SetWan(w, TRUE, NextMiss(misses[w]), 0)
            \/ /\ w \notin failed /\ NextMiss(misses[w]) >= FailRetries[w]
               /\ SetWan(w, FALSE, 0, 0)
  <1>1. w \in failed => misses = [misses EXCEPT ![w] = 0]
    BY CountTypes DEF CountInv
  <1>2. w \in failed => failed = failed \cup {w}
    OBVIOUS
  <1>3. w \notin failed => failed = failed \ {w}
    OBVIOUS
  <1> QED BY <1>1, <1>2, <1>3 DEF ExecFail, ForgetPasses, Add, SetWan

LEMMA PassEffect ==
  ASSUME TypeOK, CountInv, NEW w \in Wan, ExecPass(w)
  PROVE  /\ mon' = mon
         /\ \/ w \notin failed /\ SetWan(w, TRUE, 0, 0)
            \/ w \in failed /\ ~Recovered(w) /\ SetWan(w, FALSE, 0, passes[w] + 1)
            \/ w \in failed /\ Recovered(w) /\ SetWan(w, TRUE, 0, 0)
  <1>1. w \in failed => misses = [misses EXCEPT ![w] = 0]
    BY CountTypes DEF CountInv
  <1>2. w \in failed => failed = failed \cup {w}
    OBVIOUS
  <1>3. w \notin failed => failed = failed \ {w}
    OBVIOUS
  <1>4. w \notin failed => passes = [passes EXCEPT ![w] = 0]
    BY CountTypes DEF CountInv
  <1> QED BY <1>1, <1>2, <1>3, <1>4 DEF ExecPass, Del, SetWan

LEMMA AcquireEffect ==
  ASSUME NEW w \in Wan, ExecAcquire(w)
  PROVE  SetWan(w, link[w] \in Addr, 0, 0)
  BY DEF ExecAcquire, Add, Del, SetWan

LEMMA FailHealth ==
  ASSUME TypeOK, CountInv, NEW w \in Wan, ExecFail(w), Running, main' = main
  PROVE  Health!Miss(w) /\ CountInv'
  <1> DEFINE n == NextMiss(misses[w])
             m == Missed[w] + 1
  <1>0. /\ misses[w] \in Nat /\ n \in Nat /\ n # 0 /\ m = n - 1 /\ m \in Nat
        /\ m # 0 /\ FailRetries[w] \in Nat
    BY CountTypes, ConfigAssumption DEF NextMiss, Missed
  <1>1. Missed[w] + 1 < (IF FailRetries[w] > 2 THEN FailRetries[w] - 1 ELSE 1)
          <=> n < FailRetries[w]
    BY <1>0
  <1>2. mon' = mon
    BY FailEffect
  <1>a. UNCHANGED {v \in Wan : mon[v] # "off"}
    BY <1>2
  <1>3. CASE w \in failed /\ SetWan(w, FALSE, 0, 0)
    <2>1. Health!Set(w, FALSE, 0, 0)
      BY <1>3, SetHealth
    <2> QED BY <1>a, <1>3, <2>1, SetCount DEF Health!Miss
  <1>4. CASE w \notin failed /\ n < FailRetries[w] /\ SetWan(w, TRUE, n, 0)
    <2>1. Health!Set(w, TRUE, m, 0)
      <3>1. m = IF n = 0 THEN 0 ELSE n - 1
        BY <1>0
      <3> HIDE DEF n, m
      <3> QED BY <1>0, <1>4, <3>1, SetHealth
    <2>2. CountInv'
      BY <1>0, <1>4, SetCount
    <2> QED BY <1>1, <1>a, <1>4, <2>1, <2>2 DEF Health!Miss, Missed
  <1>5. CASE w \notin failed /\ n >= FailRetries[w] /\ SetWan(w, FALSE, 0, 0)
    <2>1. Health!Set(w, FALSE, 0, 0)
      BY <1>5, SetHealth
    <2>2. ~(n < FailRetries[w])
      BY <1>0, <1>5
    <2> QED BY <1>1, <1>a, <1>5, <2>1, <2>2, SetCount DEF Health!Miss, Missed
  <1> QED BY <1>3, <1>4, <1>5, FailEffect

LEMMA PassedHealth ==
  ASSUME TypeOK, NEW w \in Wan, NEW n \in Nat, SetWan(w, FALSE, 0, n), main' = main
  PROVE  Health!Set(w, FALSE, 0, n)
  <1>1. 0 = IF 0 = 0 THEN 0 ELSE 0 - 1
    OBVIOUS
  <1>2. FALSE \in BOOLEAN /\ 0 \in Nat
    OBVIOUS
  <1> QED BY <1>1, <1>2, SetHealth

LEMMA PassHealth ==
  ASSUME TypeOK, CountInv, NEW w \in Wan, ExecPass(w), Running, main' = main
  PROVE  Health!Pass(w) /\ CountInv'
  <1>0. /\ passes[w] \in Nat /\ RecoveryRetries[w] \in Nat /\ passes[w] + 1 \in Nat
        /\ passes[w] + 1 < RecoveryRetries[w] <=> ~Recovered(w)
    BY CountTypes, ConfigAssumption DEF Recovered
  <1>2. mon' = mon
    BY PassEffect
  <1>a. UNCHANGED {v \in Wan : mon[v] # "off"}
    BY <1>2
  <1>3. CASE w \notin failed /\ SetWan(w, TRUE, 0, 0)
    <2>1. Health!Set(w, TRUE, 0, 0)
      BY <1>3, SetHealth
    <2> QED BY <1>a, <1>3, <2>1, SetCount DEF Health!Pass
  <1>4. CASE w \in failed /\ ~Recovered(w) /\ SetWan(w, FALSE, 0, passes[w] + 1)
    <2>1. Health!Set(w, FALSE, 0, passes[w] + 1)
      <3>1. PICK n \in Nat : n = passes[w] + 1
        BY <1>0
      <3>2. SetWan(w, FALSE, 0, n)
        BY <1>4, <3>1
      <3>3. Health!Set(w, FALSE, 0, n)
        BY <3>2, PassedHealth
      <3> QED BY <3>1, <3>3 DEF Health!Set
    <2>2. CountInv'
      BY <1>0, <1>4, SetCount
    <2> QED BY <1>0, <1>a, <1>4, <2>1, <2>2 DEF Health!Pass
  <1>5. CASE w \in failed /\ Recovered(w) /\ SetWan(w, TRUE, 0, 0)
    <2>1. Health!Set(w, TRUE, 0, 0)
      BY <1>5, SetHealth
    <2> QED BY <1>0, <1>a, <1>5, <2>1, SetCount DEF Health!Pass
  <1> QED BY <1>3, <1>4, <1>5, PassEffect
\* "acquire" is executed only after the monitor has exited.
LEMMA AcquireHealth ==
  ASSUME TaskInv, CountInv, NEW w \in Wan, Execute(<<w, "acquire">>)
  PROVE  (\E up \in BOOLEAN : Health!Address(w, up)) /\ CountInv'
  <1>0. /\ TypeOK /\ KnowsAddress /\ work \in Seq(Task) /\ <<w, "acquire">> \in Task
        /\ mon \in [Wan -> {"off", "boot", "look", "ping", "write"}]
    BY DEF TaskInv, TypeOK, JobTypeOK, MonTypeOK, Task
  <1>1. /\ Running /\ main' = main /\ SetWan(w, link[w] \in Addr, 0, 0)
        /\ mon' = [mon EXCEPT ![w] = "boot"]
    BY AcquireEffect DEF Execute, ExecAcquire, StartMonitor, Running
  <1>2. mon[w] = "off"
    <2>1. <<w, "acquire">> \in ToSet(work)
      BY <1>0, TailTask DEF Execute
    <2> QED BY <1>0, <2>1 DEF KnowsAddress, Pending
  <1>3. {v \in Wan : mon'[v] # "off"} = {v \in Wan : mon[v] # "off"} \cup {w}
    BY <1>0, <1>1
  <1>4. PICK up \in BOOLEAN : SetWan(w, up, 0, 0)
    <2>1. CASE link[w] \in Addr
      BY <1>1, <2>1 DEF SetWan
    <2>2. CASE link[w] \notin Addr
      BY <1>1, <2>2 DEF SetWan
    <2> QED BY <2>1, <2>2
  <1>6. Health!Set(w, up, 0, 0) /\ CountInv'
    BY <1>0, <1>1, <1>4, SetHealth, SetCount
  <1>7. Health!Address(w, up)
    BY <1>1, <1>2, <1>3, <1>6 DEF Health!Address
  <1> QED BY <1>6, <1>7

\* Every other step lets checks end at most.
LEMMA SameHealth ==
  ASSUME CountInv, Running' = Running, UNCHANGED <<failed, misses, passes>>,
         \A w \in Wan : mon'[w] # "off" => mon[w] # "off"
  PROVE  Health!Unchecked /\ CountInv'
  BY DEF Health!Unchecked, CountInv

LEMMA StopHealth ==
  ASSUME CountInv, Running, ~Running', UNCHANGED <<failed, misses, passes>>,
         \A w \in Wan : mon'[w] # "off" => mon[w] # "off"
  PROVE  Health!Stop /\ CountInv'
  BY DEF Health!Stop, CountInv

LEMMA StartHealth ==
  ASSUME CountInv, Start
  PROVE  Health!Start /\ CountInv'
  <1>1. ~Running /\ Running'
    BY DEF Start, Running
  <1>2. misses' = [w \in Wan |-> 0] /\ passes' = [w \in Wan |-> 0]
    BY DEF Start, ForgetCounts
  <1>3. Health!Fresh'
    BY <1>2 DEF Health!Fresh
  <1> QED BY <1>1, <1>2, <1>3 DEF Health!Start, CountInv

LEMMA ExecuteHealth ==
  ASSUME TaskInv, CountInv, NEW task \in Task, Execute(task)
  PROVE  Health!Next /\ CountInv'
  <1>0. TypeOK /\ Running /\ Running' /\ main' = main
    BY DEF TaskInv, Execute, Running
  <1>1. CASE task[2] = "fail"
    <2>1. task[1] \in Wan /\ ExecFail(task[1])
      BY <1>1, TaskPair DEF Execute
    <2> QED BY <1>0, <2>1, FailHealth DEF Health!Next
  <1>2. CASE task[2] = "pass"
    <2>1. task[1] \in Wan /\ ExecPass(task[1])
      BY <1>2, TaskPair DEF Execute
    <2> QED BY <1>0, <2>1, PassHealth DEF Health!Next
  <1>3. CASE task[2] = "acquire"
    <2>1. task[1] \in Wan /\ Execute(<<task[1], "acquire">>)
      BY <1>3, TaskPair
    <2> QED BY <2>1, AcquireHealth DEF Health!Next
  <1>4. CASE task[2] = "refresh"
    BY <1>0, <1>4, SameHealth DEF Execute, ExecRefresh, mapVars, Health!Next
  <1> QED BY <1>1, <1>2, <1>3, <1>4, TaskPair

LEMMA MainHealth ==
  ASSUME TaskInv, CountInv, Main
  PROVE  Health!Next /\ CountInv'
  <1>1. ASSUME NEW w \in Wan, NEW t \in {"fail", "pass", "acquire"}, Execute(<<w, t>>)
        PROVE  Health!Next /\ CountInv'
    BY <1>1, ExecuteHealth DEF Task
  <1>2. CASE Execute(Refresh)
    BY <1>2, ExecuteHealth DEF Task, Refresh
  <1>3. CASE Take \/ Eof \/ RemoveWork
    <2>1. Running' = Running /\ UNCHANGED <<failed, misses, passes, mon>>
      BY <1>3 DEF Take, Eof, RemoveWork, Running, mapVars, monVars
    <2> QED BY <2>1, SameHealth DEF Health!Next
  <1>4. CASE Inspect
    <2>1. UNCHANGED <<failed, misses, passes, mon>> /\ Running
      BY <1>4 DEF Inspect, Running, mapVars, monVars
    <2>2. CASE main' = main
      BY <2>1, <2>2, SameHealth DEF Running, Health!Next
    <2>3. CASE main' = "leaving"
      BY <2>1, <2>3, StopHealth DEF Running, Health!Next
    <2> QED BY <1>4, <2>2, <2>3 DEF Inspect
  <1>5. CASE Leave
    <2>1. UNCHANGED <<failed, misses, passes>> /\ ~Running'
      BY <1>5 DEF Leave, Running, mapVars
    <2>2. \A w \in Wan : mon'[w] = "off"
      BY <1>5 DEF Leave
    <2>3. CASE Running
      BY <2>1, <2>2, <2>3, StopHealth DEF Health!Next
    <2>4. CASE ~Running
      <3>1. Running' = Running
        BY <2>1, <2>4 DEF Running
      <3> QED BY <2>1, <2>2, <3>1, SameHealth DEF Health!Next
    <2> QED BY <2>3, <2>4
  <1>6. CASE Start
    BY <1>6, StartHealth DEF Health!Next
  <1> QED BY <1>1, <1>2, <1>3, <1>4, <1>5, <1>6 DEF Main

LEMMA MonitorHealth ==
  ASSUME TaskInv, CountInv, NEW w \in Wan, Monitor(w)
  PROVE  Health!Next /\ CountInv'
  <1>1. mon[w] # "off" /\ mon \in [Wan -> {"off", "boot", "look", "ping", "write"}]
    BY DEF Monitor, Boot, BootReads, BootDies, Look, Ping, Write,
           TaskInv, TypeOK, MonTypeOK
  <1>2. UNCHANGED <<failed, misses, passes, main>>
    BY DEF Monitor, Boot, BootReads, BootDies, Look, Ping, Write, mapVars
  <1>3. \E p : mon' = [mon EXCEPT ![w] = p]
    BY DEF Monitor, Boot, BootReads, BootDies, Look, Ping, Write, AddTask
  <1>4. \A v \in Wan : mon'[v] # "off" => mon[v] # "off"
    BY <1>1, <1>3
  <1>5. Running' = Running
    BY <1>2 DEF Running
  <1> QED BY <1>2, <1>4, <1>5, SameHealth DEF Health!Next

LEMMA NextHealth ==
  TaskInv /\ CountInv /\ [Next]_vars => [Health!Next]_(Health!vars) /\ CountInv'
  <1> SUFFICES ASSUME TaskInv, CountInv, [Next]_vars
               PROVE  [Health!Next]_(Health!vars) /\ CountInv'
    OBVIOUS
  <1>1. CASE UNCHANGED vars \/ World
    <2>1. UNCHANGED <<failed, misses, passes, mon, main>>
      BY <1>1, WorldEffect DEF vars, mapVars, monVars
    <2>2. Running' = Running
      BY <2>1 DEF Running
    <2> QED BY <2>1, <2>2, SameHealth DEF Health!Next
  <1> QED BY <1>1, MainHealth, MonitorHealth DEF Next

LEMMA InitHealth == Init => Health!Init /\ CountInv
  <1> SUFFICES ASSUME Init PROVE Health!Init /\ CountInv
    OBVIOUS
  <1>1. /\ main = "down" /\ mon = [w \in Wan |-> "off"] /\ failed = {}
        /\ misses = [w \in Wan |-> 0] /\ passes = [w \in Wan |-> 0]
    BY DEF Init
  <1>2. {w \in Wan : mon[w] # "off"} = {} /\ ~Running
    BY <1>1 DEF Running
  <1> QED BY <1>1, <1>2 DEF Health!Init, Health!Fresh, CountInv

\* The agent takes a WAN offline after one failed check in a row less than
\* health_fail_retries says (after the first one when that says 2 or less), since fail_wan
\* counts the first one twice, and brings it back after health_recovery_retries passed
\* ones; and between the monitor that noticed a new address and the one that main starts
\* for it no check counts: whatever tasks get lost, and whenever it is restarted.
THEOREM HealthRefinement == Spec => KeepsHealth
  <1>1. Spec => []CountInv
    BY InitHealth, NextHealth, SpecTask, PTL DEF Spec
  <1> QED BY <1>1, InitHealth, NextHealth, SpecTask, PTL DEF Spec, KeepsHealth, Health!Spec
-----------------------------------------------------------------------------
(* A WAN online has an address.  A monitor reports "pass" only of a WAN     *)
(* with an address, and main takes the address away only by "acquire",      *)
(* which finds no "pass" left.                                              *)

\* Who is not monitored has no monitor and no tasks.
OnlyMonitored == \A w \in Wan :
  mon[w] # "off" \/ Has(w, jobs) \/ Has(w, work) => w \in Monitored

PassHasAddress == \A w \in Wan :
  <<w, "pass">> \in Pending \/ (Open(w) /\ todo[w] = <<w, "pass">>) => wan_addr[w] \in Addr

AddrInv == OnlineHasAddress /\ OnlyMonitored /\ PassHasAddress

LEMMA InitAddr == Init => AddrInv
  <1> SUFFICES ASSUME Init PROVE AddrInv
    OBVIOUS
  <1>1. jobs = <<>> /\ work = <<>> /\ main = "down" /\ \A w \in Wan : mon[w] = "off"
    BY DEF Init
  <1>2. OnlineHasAddress
    BY <1>1 DEF OnlineHasAddress, Running
  <1>3. OnlyMonitored
    BY <1>1, EmptyTasks DEF OnlyMonitored
  <1>4. PassHasAddress
    BY <1>1, EmptyTasks DEF PassHasAddress, Pending, Open
  <1> QED BY <1>2, <1>3, <1>4 DEF AddrInv

\* A step of main that starts no monitor and adds no task.
LEMMA LessAddr ==
  ASSUME AddrInv, UNCHANGED <<wan_addr, mon, cur, todo>>, OnlineHasAddress',
         Pending' \subseteq Pending,
         \A w \in Wan : Has(w, jobs') \/ Has(w, work') => Has(w, jobs) \/ Has(w, work)
  PROVE  AddrInv'
  <1>1. OnlyMonitored'
    BY DEF AddrInv, OnlyMonitored
  <1>3. PassHasAddress'
    BY DEF AddrInv, PassHasAddress, Open
  <1> QED BY <1>1, <1>3 DEF AddrInv

LEMMA SameAddr ==
  ASSUME AddrInv, UNCHANGED <<wan_addr, failed, jobs, work, mon, cur, todo>>,
         Running' => Running
  PROVE  AddrInv'
  <1>1. OnlineHasAddress'
    BY DEF AddrInv, OnlineHasAddress
  <1>2. Pending' = Pending
    BY DEF Pending
  <1> QED BY <1>1, <1>2, LessAddr

\* The state of a WAN that a task of main changes.
LEMMA OnlineAfter ==
  ASSUME TaskInv, AddrInv, NEW w \in Wan,
         \/ ExecFail(w)
         \/ ExecPass(w) /\ wan_addr[w] \in Addr
         \/ ExecAcquire(w),
         Running
  PROVE  OnlineHasAddress'
  <1>0. /\ failed \subseteq Wan /\ wan_addr \in [Wan -> Reported]
        /\ \A v \in Wan : v \notin failed => wan_addr[v] \in Addr
    BY DEF TaskInv, TypeOK, MapTypeOK, AddrInv, OnlineHasAddress
  <1>1. CASE ExecFail(w)
    <2>1. wan_addr' = wan_addr /\ failed \subseteq failed'
      BY <1>1 DEF ExecFail, Add
    <2> QED BY <1>0, <2>1 DEF OnlineHasAddress
  <1>2. CASE ExecPass(w) /\ wan_addr[w] \in Addr
    <2>1. wan_addr' = wan_addr /\ failed \ {w} \subseteq failed'
      BY <1>2 DEF ExecPass, Del
    <2> QED BY <1>0, <1>2, <2>1 DEF OnlineHasAddress
  <1>3. CASE ExecAcquire(w)
    <2>1. /\ wan_addr' = [wan_addr EXCEPT ![w] = link[w]]
          /\ failed' = IF link[w] \in Addr THEN failed \ {w} ELSE failed \cup {w}
      BY <1>3 DEF ExecAcquire, Add, Del
    <2> QED BY <1>0, <2>1 DEF OnlineHasAddress
  <1> QED BY <1>1, <1>2, <1>3

LEMMA ExecuteAddr ==
  ASSUME TaskInv, AddrInv, NEW task \in Task, Execute(task)
  PROVE  AddrInv'
  <1>0. /\ TypeOK /\ OrderInv /\ work \in Seq(Task) /\ Running
        /\ mon \in [Wan -> {"off", "boot", "look", "ping", "write"}]
        /\ wan_addr \in [Wan -> Reported]
    BY DEF TaskInv, TypeOK, JobTypeOK, MonTypeOK, MapTypeOK, Execute, Running
  <1>1. /\ work # <<>> /\ Head(work) = task /\ work' = Tail(work)
        /\ UNCHANGED <<main, jobs, cur, todo>>
        /\ \/ task[2] # "acquire" /\ UNCHANGED <<wan_addr, mon>>
           \/ /\ task[2] = "acquire" /\ task[1] \in Wan
              /\ wan_addr' = [wan_addr EXCEPT ![task[1]] = link[task[1]]]
              /\ mon' = [mon EXCEPT ![task[1]] = "boot"]
    BY <1>0, ExecuteEffect
  <1>2. /\ ToSet(work) = ToSet(work') \cup {task}
        /\ \A v : Has(v, work') => Has(v, work)
        /\ task[2] = "acquire" => ~Has(task[1], work')
    BY <1>0, <1>1, TailTask DEF OrderInv
  <1>3. Pending' \subseteq Pending /\ task \in Pending
    BY <1>1, <1>2 DEF Pending
  <1>4. CASE task[2] = "refresh"
    <2>1. wan_addr' = wan_addr /\ failed' = failed
      BY <1>4 DEF Execute, ExecRefresh, mapVars
    <2>2. OnlineHasAddress'
      BY <1>1, <2>1 DEF AddrInv, OnlineHasAddress, Running
    <2> QED BY <1>1, <1>2, <1>3, <1>4, <2>2, LessAddr
  <1>5. CASE task[2] \in {"fail", "pass"}
    <2>1. task[1] \in Wan /\ task = <<task[1], task[2]>>
      BY <1>5, TaskPair
    <2>2. CASE ExecFail(task[1])
      BY <1>0, <1>1, <1>2, <1>3, <1>5, <2>1, <2>2, OnlineAfter, LessAddr
    <2>3. CASE task[2] = "pass" /\ ExecPass(task[1])
      <3>1. wan_addr[task[1]] \in Addr
        BY <1>3, <2>1, <2>3 DEF AddrInv, PassHasAddress
      <3> QED BY <1>0, <1>1, <1>2, <1>3, <1>5, <2>1, <2>3, <3>1, OnlineAfter, LessAddr
    <2> QED BY <1>5, <2>2, <2>3 DEF Execute
  <1>6. CASE task[2] = "acquire"
    <2> DEFINE w == task[1]
    <2>1. w \in Wan /\ ExecAcquire(w) /\ task = <<w, "acquire">>
      BY <1>6, TaskPair DEF Execute
    <2>2. OnlineHasAddress'
      BY <1>0, <2>1, OnlineAfter
    <2>3. /\ task \in ToSet(work) /\ Has(w, work) /\ ~Has(w, jobs) /\ ~Has(w, work')
      BY <1>0, <1>2, <2>1, TaskHas DEF OrderInv
    <2>4. <<w, "pass">> \notin Pending'
      BY <1>1, <2>3, TaskHas DEF Pending
    <2>5. w \in Monitored
      BY <2>1, <2>3 DEF AddrInv, OnlyMonitored
    <2>6. mon' = [mon EXCEPT ![w] = "boot"] /\ wan_addr' = [wan_addr EXCEPT ![w] = link[w]]
      BY <1>1, <1>6
    <2> HIDE DEF w
    <2>7. OnlyMonitored'
      BY <1>0, <1>1, <1>2, <2>1, <2>5, <2>6 DEF AddrInv, OnlyMonitored
    <2>9. PassHasAddress'
      BY <1>0, <1>1, <1>3, <2>1, <2>4, <2>6 DEF AddrInv, PassHasAddress, Open
    <2> QED BY <2>2, <2>7, <2>9 DEF AddrInv
  <1> QED BY <1>4, <1>5, <1>6, TaskPair

LEMMA MainAddr ==
  ASSUME TaskInv, AddrInv, Main
  PROVE  AddrInv'
  <1>1. ASSUME NEW w \in Wan, NEW t \in {"fail", "pass", "acquire"}, Execute(<<w, t>>)
        PROVE  AddrInv'
    BY <1>1, ExecuteAddr DEF Task
  <1>2. CASE Execute(Refresh)
    BY <1>2, ExecuteAddr DEF Task, Refresh
  <1>3. CASE Take \/ RemoveWork
    <2>1. /\ UNCHANGED <<wan_addr, failed, mon, cur, todo>> /\ Running
          /\ \/ jobs' = <<>> /\ work' = jobs
             \/ jobs' = jobs /\ work' = <<>>
      BY <1>3 DEF Take, RemoveWork, mapVars, Running
    <2>2. OnlineHasAddress'
      BY <2>1 DEF AddrInv, OnlineHasAddress
    <2>3. Pending' \subseteq Pending
      BY <2>1, EmptyTasks DEF Pending
    <2>4. \A w \in Wan : Has(w, jobs') \/ Has(w, work') => Has(w, jobs) \/ Has(w, work)
      BY <2>1, EmptyTasks
    <2> QED BY <2>1, <2>2, <2>3, <2>4, LessAddr
  <1>4. CASE Eof \/ Inspect
    BY <1>4, SameAddr DEF Eof, Inspect, mapVars, jobVars, monVars, Running
  <1>5. CASE Leave \/ Start
    <2>1. jobs' = <<>> /\ work' = <<>>
      BY <1>5 DEF Leave, FlushJobs, Start, jobVars, TaskInv, OrderInv
    <2>2. \A w \in Wan : mon'[w] = "off" \/ (mon'[w] = "boot" /\ w \in Monitored)
      BY <1>5 DEF Leave, Start
    <2>3. OnlineHasAddress'
      BY <1>5 DEF Leave, Start, OnlineHasAddress, Running
    <2>4. OnlyMonitored'
      BY <2>1, <2>2, EmptyTasks DEF OnlyMonitored
    <2>5. PassHasAddress'
      BY <2>1, <2>2, EmptyTasks DEF PassHasAddress, Pending, Open
    <2> QED BY <2>3, <2>4, <2>5 DEF AddrInv
  <1> QED BY <1>1, <1>2, <1>3, <1>4, <1>5 DEF Main

\* A step of a monitor that does not write.
LEMMA MonAddr ==
  ASSUME TaskInv, AddrInv, NEW w \in Wan, mon[w] # "off", NEW p,
         mon' = [mon EXCEPT ![w] = p],
         UNCHANGED <<wan_addr, failed, main, jobs, work>>,
         \A v \in Wan \ {w} : cur'[v] = cur[v] /\ todo'[v] = todo[v],
         p = "write" /\ todo'[w] = <<w, "pass">> => wan_addr[w] \in Addr
  PROVE  AddrInv'
  <1>0. mon \in [Wan -> {"off", "boot", "look", "ping", "write"}]
    BY DEF TaskInv, TypeOK, MonTypeOK
  <1>1. /\ mon'[w] = p /\ \A v \in Wan \ {w} : mon'[v] = mon[v]
        /\ Running' = Running /\ Pending' = Pending
    BY <1>0 DEF Running, Pending
  <1>2. OnlineHasAddress'
    BY <1>1 DEF AddrInv, OnlineHasAddress
  <1>3. OnlyMonitored'
    BY <1>1 DEF AddrInv, OnlyMonitored
  <1>5. PassHasAddress'
    BY <1>1 DEF AddrInv, PassHasAddress, Open
  <1> QED BY <1>2, <1>3, <1>5 DEF AddrInv

LEMMA AddTaskAddr ==
  ASSUME TaskInv, AddrInv, NEW w \in Wan, mon[w] # "off", NEW task \in Task, AddTask(w, task),
         UNCHANGED <<wan_addr, failed, main, jobs, work, cur>>,
         task = <<w, "pass">> => wan_addr[w] \in Addr
  PROVE  AddrInv'
  <1>0. TypeOK /\ todo \in [Wan -> Task \cup {NULL}]
    BY DEF TaskInv, TypeOK, MonTypeOK
  <1>1. CASE mon' = [mon EXCEPT ![w] = After(task)] /\ UNCHANGED todo
    <2>1. After(task) # "write"
      BY AfterType
    <2> QED BY <1>1, <2>1, MonAddr
  <1>2. CASE mon' = [mon EXCEPT ![w] = "write"] /\ todo' = [todo EXCEPT ![w] = task]
    <2>1. todo'[w] = task /\ \A v \in Wan \ {w} : todo'[v] = todo[v]
      BY <1>0, <1>2
    <2> QED BY <1>2, <2>1, MonAddr
  <1> QED BY <1>0, <1>1, <1>2, AddTaskEffect

LEMMA WriteAddr ==
  ASSUME TaskInv, AddrInv, NEW w \in Wan, Write(w)
  PROVE  AddrInv'
  <1> DEFINE task == todo[w]
  <1>0. /\ QueueInv /\ jobs \in Seq(Task) /\ work \in Seq(Task)
        /\ mon \in [Wan -> {"off", "boot", "look", "ping", "write"}]
        /\ todo \in [Wan -> Task \cup {NULL}]
    BY DEF TaskInv, TypeOK, MonTypeOK, JobTypeOK
  <1>1. /\ Open(w) /\ mon[w] = "write" /\ task \in Task
        /\ mon' = [mon EXCEPT ![w] = After(task)] /\ todo' = [todo EXCEPT ![w] = NULL]
        /\ jobs' = jobs \/ jobs' = Append(jobs, task)
        /\ work' = work \/ work' = Append(work, task)
        /\ UNCHANGED <<wan_addr, failed, main, cur>>
    BY <1>0 DEF Write, Open, TaskInv, TypeOK, MonTypeOK, mapVars
  <1>2. task = Refresh \/ task[1] = w
    BY <1>0, <1>1 DEF QueueInv
  <1>3. /\ After(task) # "write" /\ (After(task) = "ping" => task # <<w, "acquire">>)
    BY <1>1, AfterType DEF After
  <1>a. Refresh[1] \notin Wan /\ \A v \in Wan : <<v, "pass">> # Refresh
    BY ValueAssumption DEF Refresh
  <1> HIDE DEF task
  <1>4. /\ Pending' \subseteq Pending \cup {task}
        /\ \A v : Has(v, jobs') \/ Has(v, work') => Has(v, jobs) \/ Has(v, work) \/ task[1] = v
    <2>1. /\ ToSet(jobs') \subseteq ToSet(jobs) \cup {task}
          /\ \A v : Has(v, jobs') => Has(v, jobs) \/ task[1] = v
      BY <1>0, <1>1, AppendTask
    <2>2. /\ ToSet(work') \subseteq ToSet(work) \cup {task}
          /\ \A v : Has(v, work') => Has(v, work) \/ task[1] = v
      BY <1>0, <1>1, AppendTask
    <2> QED BY <2>1, <2>2 DEF Pending
  <1>5. /\ \A v \in Wan : Open(v)' => Open(v) /\ v # w /\ todo'[v] = todo[v]
        /\ \A v \in Wan : mon'[v] # "off" => mon[v] # "off"
        /\ \A v \in Wan : mon'[v] = "ping" => mon[v] = "ping" \/ (v = w /\ task # <<w, "acquire">>)
    BY <1>0, <1>1, <1>3 DEF Open
  <1>6. OnlineHasAddress'
    BY <1>1 DEF AddrInv, OnlineHasAddress, Running
  <1>7. OnlyMonitored'
    <2> SUFFICES ASSUME NEW v \in Wan, mon'[v] # "off" \/ Has(v, jobs') \/ Has(v, work')
                 PROVE  v \in Monitored
      BY DEF OnlyMonitored
    <2>1. CASE mon[v] # "off" \/ Has(v, jobs) \/ Has(v, work)
      BY <2>1 DEF AddrInv, OnlyMonitored
    <2>2. CASE task[1] = v
      BY <1>1, <1>2, <1>a, <2>2 DEF AddrInv, OnlyMonitored
    <2> QED BY <1>4, <1>5, <2>1, <2>2
  <1>9. PassHasAddress'
    <2>1. \A v \in Wan : task = <<v, "pass">> => v = w
      BY <1>2, <1>a
    <2>2. task = <<w, "pass">> => wan_addr[w] \in Addr
      BY <1>1 DEF AddrInv, PassHasAddress, task
    <2> QED BY <1>1, <1>4, <1>5, <2>1, <2>2 DEF AddrInv, PassHasAddress
  <1> QED BY <1>6, <1>7, <1>9 DEF AddrInv

LEMMA MonitorAddr ==
  ASSUME Monitored \subseteq Pinged, TaskInv, AddrInv, NEW w \in Wan, Monitor(w)
  PROVE  AddrInv'
  <1>0. /\ TypeOK /\ KnowsAddress
        /\ cur \in [Wan -> Reported] /\ link \in [Wan -> Reported]
    BY DEF TaskInv, TypeOK, MonTypeOK, NetTypeOK
  <1>1. CASE Boot(w)
    <2>1. CASE BootReads(w)
      <3>1. \A v \in Wan \ {w} : cur'[v] = cur[v] /\ todo'[v] = todo[v]
        BY <1>0, <2>1 DEF BootReads
      <3> QED BY <2>1, <3>1, MonAddr DEF BootReads, mapVars, jobVars
    <2>2. CASE BootDies(w)
      BY <2>2, MonAddr DEF BootDies, mapVars, jobVars
    <2> QED BY <1>1, <2>1, <2>2 DEF Boot
  <1>2. CASE Look(w)
    <2>1. <<w, "acquire">> \in Task /\ Refresh \in Task
          /\ <<w, "acquire">> # <<w, "pass">> /\ <<w, "pass">> # Refresh
      BY DEF Task, Refresh
    <2>2. mon[w] = "look" /\ UNCHANGED <<wan_addr, failed, main, jobs, work, cur>>
      BY <1>2 DEF Look, mapVars
    <2>4. CASE AddTask(w, <<w, "acquire">>)
      BY <2>1, <2>2, <2>4, AddTaskAddr
    <2>5. CASE link[w] = cur[w] /\ AddTask(w, Refresh)
      BY <2>1, <2>2, <2>5, AddTaskAddr
    <2>6. CASE link[w] = cur[w] /\ mon' = [mon EXCEPT ![w] = "ping"] /\ UNCHANGED todo
      BY <2>2, <2>6, MonAddr
    <2> QED BY <1>2, <2>4, <2>5, <2>6 DEF Look
  <1>3. CASE Ping(w)
    <2>1. <<w, "pass">> \in Task /\ <<w, "fail">> \in Task /\ <<w, "pass">> # <<w, "fail">>
      BY DEF Task
    <2>2. mon[w] = "ping" /\ UNCHANGED <<wan_addr, failed, main, jobs, work, cur>>
      BY <1>3 DEF Ping, mapVars
    <2>3. w \in Pinged /\ cur[w] = wan_addr[w]
      BY <1>0, <2>2 DEF AddrInv, OnlyMonitored, KnowsAddress
    <2>4. CASE Pings(w) /\ (AddTask(w, <<w, "pass">>) \/ AddTask(w, <<w, "fail">>))
      BY <2>1, <2>2, <2>3, <2>4, AddTaskAddr DEF Pings
    <2>5. CASE mon' = [mon EXCEPT ![w] = "look"] /\ UNCHANGED todo
      BY <2>2, <2>5, MonAddr
    <2> QED BY <1>3, <2>3, <2>4, <2>5 DEF Ping
  <1>4. CASE Write(w)
    BY <1>4, WriteAddr
  <1> QED BY <1>1, <1>2, <1>3, <1>4 DEF Monitor

\* When test hosts are configured for every WAN with a health check, then however late a
\* report of a monitor is executed, it brings no WAN online that has no address.
THEOREM OnlineCorrect ==
  ASSUME Monitored \subseteq Pinged
  PROVE  Spec => []OnlineHasAddress
  <1>1. TaskInv /\ AddrInv /\ [Next]_vars => AddrInv'
    <2> SUFFICES ASSUME TaskInv, AddrInv, [Next]_vars PROVE AddrInv'
      OBVIOUS
    <2>1. CASE UNCHANGED vars \/ World
      BY <2>1, WorldEffect, SameAddr DEF vars, mapVars, jobVars, monVars, Running
    <2> QED BY <2>1, MainAddr, MonitorAddr DEF Next
  <1>2. AddrInv => OnlineHasAddress
    BY DEF AddrInv
  <1> QED BY <1>1, <1>2, InitAddr, SpecTask, PTL DEF Spec
=============================================================================
