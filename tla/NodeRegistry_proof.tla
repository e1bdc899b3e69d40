------------------------- MODULE NodeRegistry_proof -------------------------
(* Proofs about NodeRegistry for every fleet: any namespaces, instances,     *)
(* names and workers, any number of deliveries of tasks, with and without    *)
(* failing calls; EC2 may give the name of a terminated instance out again.  *)
EXTENDS NodeRegistry, FiniteSetTheorems, TLAPS

\* A busy worker executes a started task, and no two execute the same one.
JobInv ==
    \A w \in Workers : pc[w] # "idle" =>
        /\ job[w] \in TaskIds
        /\ result[job[w]] = "started"
        /\ \A v \in Workers : pc[v] # "idle" /\ job[v] = job[w] => v = w

\* What is left to save was launched by the same task and still runs.
SaveInv ==
    \A w \in Workers : \A i \in toSave[w] :
        /\ pc[w] = "save"
        /\ vm[i] # "absent"
        /\ dns[i] \in DnsNames
        /\ launcher[i] = job[w]

\* An instance EC2 knows was launched by a task that was submitted.
LaunchInv ==
    \A i \in Instances :
        IF vm[i] = "absent"
        THEN launcher[i] = 0
        ELSE launcher[i] \in TaskIds /\ result[launcher[i]] # "absent"

\* The id list of a terminate task holds instances of its namespace only.
ScopeInv ==
    \A t \in TaskIds : tasks[t].kind = "terminate" =>
        \A i \in tasks[t].ids :
            /\ vm[i] # "absent"
            /\ tasks[launcher[i]].ns = tasks[t].ns

\* A task that was not submitted has no kind.
AbsentInv == \A t \in TaskIds : result[t] = "absent" => tasks[t] = NoTask

IInv == /\ TypeOK
        /\ JobInv
        /\ SaveInv
        /\ LaunchInv
        /\ ScopeInv
        /\ AbsentInv
        /\ EntryIsLaunchedNode
        /\ IsolatedTermination

\* The initial states satisfy the inductive invariant.
LEMMA InitIInv == Init => IInv
<1> SUFFICES ASSUME Init PROVE IInv
  OBVIOUS
<1> USE FleetAssumption DEF Init
<1>1. TypeOK
  BY DEF TypeOK, TaskIds, Task, NoTask, Node
<1>2. JobInv /\ SaveInv /\ LaunchInv /\ AbsentInv
  BY DEF JobInv, SaveInv, LaunchInv, AbsentInv
<1>3. ScopeInv /\ EntryIsLaunchedNode /\ IsolatedTermination
  BY DEF ScopeInv, EntryIsLaunchedNode, IsolatedTermination, Ended, NoTask
<1> QED
  BY <1>1, <1>2, <1>3 DEF IInv

\* Every step keeps the variables in their types.
LEMMA TypeStep == TypeOK /\ JobInv /\ SaveInv /\ [Next]_vars => TypeOK'
<1> SUFFICES ASSUME TypeOK, JobInv, SaveInv, [Next]_vars PROVE TypeOK'
  OBVIOUS
<1> USE FleetAssumption DEF TypeOK, TaskIds, ec2Vars, workerVars
<1>1. ASSUME NEW t \in TaskIds, NEW ns \in Namespaces,
             NEW batch \in Batches, create_instances(t, ns, batch[1], batch[2])
      PROVE  TypeOK'
  <2>1. batch[1] \in Nat /\ batch[2] \in Nat
    OBVIOUS
  <2> QED
    BY <1>1, <2>1 DEF create_instances, apply_async, Task
<1>2. ASSUME NEW t \in TaskIds, NEW ns \in Namespaces,
             terminate_namespace(t, ns)
      PROVE  TypeOK'
  <2>1. get_instance_ids_namespace(ns) \subseteq Instances
    BY DEF get_instance_ids_namespace, Node
  <2>2. [kind |-> "terminate", ns |-> ns, min |-> 0, max |-> 0,
         ids |-> get_instance_ids_namespace(ns)] \in Task
    BY <2>1 DEF Task
  <2> QED
    BY <1>2, <2>2 DEF terminate_namespace, apply_async
<1>3. ASSUME NEW w \in Workers, NEW t \in TaskIds, TakeTask(w, t)
      PROVE  TypeOK'
  BY <1>3 DEF TakeTask
<1>4. ASSUME NEW w \in Workers, create_ec2_instance(w)
      PROVE  TypeOK'
  <2>1. PICK new \in SUBSET {i \in Instances : vm[i] = "absent"} :
          /\ \E name \in [new -> FreeNames] :
                dns' = [i \in Instances |-> IF i \in new THEN name[i] ELSE dns[i]]
          /\ vm' = [i \in Instances |-> IF i \in new THEN "running" ELSE vm[i]]
          /\ launcher' = [i \in Instances |->
                            IF i \in new THEN job[w] ELSE launcher[i]]
          /\ \/ /\ pc' = [pc EXCEPT ![w] = "save"]
                /\ toSave' = [toSave EXCEPT ![w] = new]
                /\ UNCHANGED <<result, job, toDelete>>
             \/ Return(w, "empty")
    BY <1>4 DEF create_ec2_instance
  <2>2. dns' \in [Instances -> DnsNames \cup {None}]
    BY <2>1 DEF FreeNames
  <2>3. vm' \in [Instances -> {"absent", "running"} \cup Ended]
    BY <2>1
  <2>4. launcher' \in [Instances -> {0} \cup TaskIds]
    BY <2>1
  <2>5. /\ result' \in [TaskIds -> {"absent", "queued", "started", "response",
                                    "empty", "none", "lost"}]
        /\ pc' \in [Workers -> {"idle", "call", "save", "list", "hdel"}]
        /\ job' \in [Workers -> {0} \cup TaskIds]
        /\ toSave' \in [Workers -> SUBSET Instances]
        /\ toDelete' \in [Workers -> SUBSET DnsNames]
    BY <2>1 DEF Return
  <2> QED
    BY <1>4, <2>2, <2>3, <2>4, <2>5 DEF create_ec2_instance
<1>5. ASSUME NEW w \in Workers, NEW i \in Instances, save_node(w, i)
      PROVE  TypeOK'
  <2>1. job[w] \in TaskIds /\ dns[i] \in DnsNames
    BY <1>5 DEF save_node, JobInv, SaveInv
  <2>2. [id |-> i, ns |-> tasks[job[w]].ns] \in Node
    BY <2>1 DEF Node, Task
  <2>3. nodes' \in [DnsNames -> Node \cup {None}]
    BY <1>5, <2>1, <2>2 DEF save_node
  <2>4. toSave' \in [Workers -> SUBSET Instances]
    <3>1. toSave[w] \ {i} \in SUBSET Instances
      OBVIOUS
    <3>2. \/ toSave' = [toSave EXCEPT ![w] = {}]
          \/ toSave' = [toSave EXCEPT ![w] = toSave[w] \ {i}]
      BY <1>5 DEF save_node, Return
    <3> QED
      BY <3>1, <3>2
  <2> QED
    BY <1>5, <2>3, <2>4 DEF save_node, Return
<1>6. ASSUME NEW w \in Workers, terminate_ec2_instances(w)
      PROVE  TypeOK'
  BY <1>6 DEF terminate_ec2_instances, Ended
<1>7. ASSUME NEW w \in Workers, delete_instance_ids(w)
      PROVE  TypeOK'
  <2>1. corresponding_keys(w) \in SUBSET DnsNames
    BY DEF corresponding_keys
  <2>2. CASE Return(w, "response")
    BY <1>7, <2>2 DEF delete_instance_ids, Return
  <2>3. CASE /\ pc' = [pc EXCEPT ![w] = "hdel"]
             /\ toDelete' = [toDelete EXCEPT ![w] = corresponding_keys(w)]
             /\ UNCHANGED <<result, job, toSave>>
    BY <1>7, <2>1, <2>3 DEF delete_instance_ids
  <2> QED
    BY <1>7, <2>2, <2>3 DEF delete_instance_ids
<1>8. ASSUME NEW w \in Workers, NEW n \in DnsNames, hdel(w, n)
      PROVE  TypeOK'
  <2>1. toDelete' \in [Workers -> SUBSET DnsNames]
    <3>1. toDelete[w] \ {n} \in SUBSET DnsNames
      OBVIOUS
    <3>2. \/ toDelete' = [toDelete EXCEPT ![w] = {}]
          \/ toDelete' = [toDelete EXCEPT ![w] = toDelete[w] \ {n}]
      BY <1>8 DEF hdel, Return
    <3> QED
      BY <3>1, <3>2
  <2>2. nodes' \in [DnsNames -> Node \cup {None}]
    BY <1>8 DEF hdel
  <2>3. CASE Return(w, "response")
    BY <1>8, <2>1, <2>2, <2>3 DEF hdel, Return
  <2>4. CASE UNCHANGED <<result, pc, job, toSave>>
    BY <1>8, <2>1, <2>2, <2>4 DEF hdel
  <2> QED
    BY <1>8, <2>3, <2>4 DEF hdel
<1>9. ASSUME NEW w \in Workers, CallRaises(w) \/ WorkerDies(w)
      PROVE  TypeOK'
  BY <1>9 DEF CallRaises, WorkerDies, Return
<1>10. ASSUME NEW i \in Instances, Ec2Terminated(i) \/ Ec2Purged(i)
       PROVE  TypeOK'
  BY <1>10 DEF Ec2Terminated, Ec2Purged, Ended
<1>11. ASSUME NEW t \in TaskIds, NEW u \in TaskIds, Redeliver(t, u)
       PROVE  TypeOK'
  BY <1>11 DEF Redeliver, apply_async
<1>12. CASE UNCHANGED vars
  BY <1>12 DEF vars
<1> QED
  BY <1>1, <1>2, <1>3, <1>4, <1>5, <1>6, <1>7, <1>8, <1>9, <1>10, <1>11, <1>12
     DEF Next, ApiStep, WorkerStep

\* What Return changes, and a busy worker's task may only keep or return.
LEMMA WorkerStepShape ==
    ASSUME TypeOK, NEW w \in Workers, WorkerStep(w) \/ WorkerDies(w)
    PROVE  /\ pc[w] # "idle"
           /\ tasks' = tasks
           /\ \/ result' = result /\ job' = job
              \/ \E r \in {"response", "empty", "none", "lost"} : Return(w, r)
           /\ \A v \in Workers \ {w} : /\ pc'[v] = pc[v]
                                       /\ job'[v] = job[v]
                                       /\ toSave'[v] = toSave[v]
                                       /\ toDelete'[v] = toDelete[v]
<1> USE DEF TypeOK
<1>1. CASE create_ec2_instance(w)
  BY <1>1 DEF create_ec2_instance, Return
<1>2. CASE \E i \in Instances : save_node(w, i)
  BY <1>2 DEF save_node, Return
<1>3. CASE terminate_ec2_instances(w)
  BY <1>3 DEF terminate_ec2_instances
<1>4. CASE delete_instance_ids(w)
  BY <1>4 DEF delete_instance_ids, Return
<1>5. CASE \E n \in DnsNames : hdel(w, n)
  BY <1>5 DEF hdel, Return
<1>6. CASE CallRaises(w) \/ WorkerDies(w)
  BY <1>6 DEF CallRaises, WorkerDies, Return
<1> QED
  BY <1>1, <1>2, <1>3, <1>4, <1>5, <1>6 DEF WorkerStep

\* No step gives a started task to a second worker.
LEMMA JobStep == TypeOK /\ JobInv /\ AbsentInv /\ [Next]_vars => JobInv' /\ AbsentInv'
<1> SUFFICES ASSUME TypeOK, JobInv, AbsentInv, [Next]_vars
             PROVE  JobInv' /\ AbsentInv'
  OBVIOUS
<1> USE DEF TypeOK, JobInv, AbsentInv, ec2Vars, workerVars
<1>1. ASSUME NEW t \in TaskIds, NEW task, apply_async(t, task)
      PROVE  JobInv' /\ AbsentInv'
  BY <1>1 DEF apply_async
<1>2. ASSUME NEW w \in Workers, NEW t \in TaskIds, TakeTask(w, t)
      PROVE  JobInv' /\ AbsentInv'
  BY <1>2 DEF TakeTask
<1>3. ASSUME NEW w \in Workers, WorkerStep(w) \/ WorkerDies(w)
      PROVE  JobInv' /\ AbsentInv'
  <2>1. CASE result' = result /\ job' = job
    BY <1>3, <2>1, WorkerStepShape
  <2>2. CASE \E r \in {"response", "empty", "none", "lost"} : Return(w, r)
    <3>1. PICK r \in {"response", "empty", "none", "lost"} : Return(w, r)
      BY <2>2
    <3>2. pc'[w] = "idle" /\ result' = [result EXCEPT ![job[w]] = r]
      BY <3>1 DEF Return
    <3>3. /\ pc[w] # "idle" /\ tasks' = tasks
          /\ \A v \in Workers \ {w} : pc'[v] = pc[v] /\ job'[v] = job[v]
      BY <1>3, WorkerStepShape
    <3>4. JobInv'
      BY <3>2, <3>3
    <3>5. AbsentInv'
      BY <3>2, <3>3
    <3> QED
      BY <3>4, <3>5
  <2> QED
    BY <1>3, <2>1, <2>2, WorkerStepShape
<1>4. ASSUME NEW i \in Instances, Ec2Terminated(i) \/ Ec2Purged(i)
      PROVE  JobInv' /\ AbsentInv'
  BY <1>4 DEF Ec2Terminated, Ec2Purged
<1>5. CASE UNCHANGED vars
  BY <1>5 DEF vars
<1> QED
  BY <1>1, <1>2, <1>3, <1>4, <1>5
     DEF Next, ApiStep, create_instances, terminate_namespace, Redeliver

\* What never changes again: the launch of an instance, the fact that it ends,
\* the request a task stands for, and that a task was submitted or taken.
Stable ==
    /\ \A i \in Instances : vm[i] # "absent" =>
        /\ vm'[i] # "absent"
        /\ launcher'[i] = launcher[i]
        /\ dns'[i] = dns[i]
        /\ vm[i] \in Ended => vm'[i] \in Ended
    /\ \A t \in TaskIds : result[t] # "absent" =>
        /\ tasks'[t] = tasks[t]
        /\ result'[t] # "absent"
        /\ result[t] # "queued" => result'[t] # "queued"

\* No action undoes what Stable names.
LEMMA StableStep == TypeOK /\ JobInv /\ [Next]_vars => Stable
<1> SUFFICES ASSUME TypeOK, JobInv, [Next]_vars PROVE Stable
  OBVIOUS
<1> USE DEF TypeOK, Stable, ec2Vars, workerVars
<1>1. ASSUME NEW t \in TaskIds, NEW task, apply_async(t, task)
      PROVE  Stable
  BY <1>1 DEF apply_async
<1>2. ASSUME NEW w \in Workers, NEW t \in TaskIds, TakeTask(w, t)
      PROVE  Stable
  BY <1>2 DEF TakeTask
<1>3. ASSUME NEW w \in Workers, WorkerStep(w) \/ WorkerDies(w)
      PROVE  Stable
  <2>1. \A t \in TaskIds : result[t] # "absent" =>
            /\ tasks'[t] = tasks[t]
            /\ result'[t] # "absent"
            /\ result[t] # "queued" => result'[t] # "queued"
    <3>1. CASE result' = result
      BY <1>3, <3>1, WorkerStepShape
    <3>2. CASE \E r \in {"response", "empty", "none", "lost"} : Return(w, r)
      BY <1>3, <3>2, WorkerStepShape DEF Return, JobInv
    <3> QED
      BY <1>3, <3>1, <3>2, WorkerStepShape
  <2>2. \A i \in Instances : vm[i] # "absent" =>
            /\ vm'[i] # "absent"
            /\ launcher'[i] = launcher[i]
            /\ dns'[i] = dns[i]
            /\ vm[i] \in Ended => vm'[i] \in Ended
    <3>1. CASE create_ec2_instance(w)
      <4>1. PICK new \in SUBSET {i \in Instances : vm[i] = "absent"} :
              /\ \E name \in [new -> FreeNames] :
                    dns' = [i \in Instances |->
                                IF i \in new THEN name[i] ELSE dns[i]]
              /\ vm' = [i \in Instances |-> IF i \in new THEN "running" ELSE vm[i]]
              /\ launcher' = [i \in Instances |->
                                IF i \in new THEN job[w] ELSE launcher[i]]
        BY <3>1 DEF create_ec2_instance
      <4> QED
        BY <4>1
    <3>2. CASE terminate_ec2_instances(w)
      BY <3>2 DEF terminate_ec2_instances, Ended
    <3>3. CASE UNCHANGED ec2Vars
      BY <3>3
    <3> QED
      BY <1>3, <3>1, <3>2, <3>3
         DEF WorkerStep, WorkerDies, save_node, delete_instance_ids, hdel,
             CallRaises
  <2> QED
    BY <2>1, <2>2
<1>4. ASSUME NEW i \in Instances, Ec2Terminated(i) \/ Ec2Purged(i)
      PROVE  Stable
  BY <1>4 DEF Ec2Terminated, Ec2Purged, Ended
<1>5. CASE UNCHANGED vars
  BY <1>5 DEF vars
<1> QED
  BY <1>1, <1>2, <1>3, <1>4, <1>5
     DEF Next, ApiStep, create_instances, terminate_namespace, Redeliver

\* Which steps touch what EC2 knows and what "nodes" holds.
LEMMA LaunchStep ==
    TypeOK /\ JobInv /\ SaveInv /\ LaunchInv /\ [Next]_vars
        => LaunchInv' /\ SaveInv'
<1> SUFFICES ASSUME TypeOK, JobInv, SaveInv, LaunchInv, [Next]_vars
             PROVE  LaunchInv' /\ SaveInv'
  OBVIOUS
<1>0. Stable
  BY StableStep
<1> USE DEF TypeOK, ec2Vars, workerVars
<1>1. CASE \/ ApiStep \/ \E t, u \in TaskIds : Redeliver(t, u)
           \/ \E w \in Workers, t \in TaskIds : TakeTask(w, t)
  <2>1. /\ UNCHANGED <<ec2Vars, toSave>>
        /\ \A w \in Workers : pc[w] # "idle" => pc'[w] = pc[w] /\ job'[w] = job[w]
    BY <1>1 DEF ApiStep, create_instances, terminate_namespace, Redeliver, apply_async, TakeTask
  <2>2. LaunchInv'
    BY <1>0, <2>1 DEF LaunchInv, Stable
  <2>3. SaveInv'
    BY <2>1 DEF SaveInv
  <2> QED
    BY <2>2, <2>3
<1>2. ASSUME NEW w \in Workers, create_ec2_instance(w)
      PROVE  LaunchInv' /\ SaveInv'
  <2>1. PICK new \in SUBSET {i \in Instances : vm[i] = "absent"} :
          /\ \E name \in [new -> FreeNames] :
                dns' = [i \in Instances |-> IF i \in new THEN name[i] ELSE dns[i]]
          /\ vm' = [i \in Instances |-> IF i \in new THEN "running" ELSE vm[i]]
          /\ launcher' = [i \in Instances |->
                            IF i \in new THEN job[w] ELSE launcher[i]]
          /\ \/ /\ pc' = [pc EXCEPT ![w] = "save"]
                /\ toSave' = [toSave EXCEPT ![w] = new]
                /\ UNCHANGED <<result, job, toDelete>>
             \/ Return(w, "empty")
    BY <1>2 DEF create_ec2_instance
  <2>2. job[w] \in TaskIds /\ result'[job[w]] # "absent"
    BY <1>0, <1>2 DEF create_ec2_instance, JobInv, Stable
  <2>3. LaunchInv'
    BY <1>0, <2>1, <2>2 DEF LaunchInv, Stable
  <2>4. \A i \in new : dns'[i] \in DnsNames /\ vm'[i] # "absent" /\ launcher'[i] = job[w]
    BY <2>1 DEF FreeNames
  <2>5. \A v \in Workers \ {w} : \A i \in toSave'[v] :
          /\ pc'[v] = "save" /\ vm'[i] # "absent" /\ dns'[i] \in DnsNames
          /\ launcher'[i] = job'[v]
    BY <1>0, <1>2, WorkerStepShape DEF WorkerStep, SaveInv, Stable
  <2>6. \A i \in toSave'[w] :
          /\ pc'[w] = "save" /\ vm'[i] # "absent" /\ dns'[i] \in DnsNames
          /\ launcher'[i] = job'[w]
    BY <2>1, <2>4 DEF Return
  <2>7. SaveInv'
    BY <2>5, <2>6 DEF SaveInv
  <2> QED
    BY <2>3, <2>7
<1>3. ASSUME NEW w \in Workers, WorkerStep(w) \/ WorkerDies(w), ~create_ec2_instance(w)
      PROVE  LaunchInv' /\ SaveInv'
  <2>1. dns' = dns /\ launcher' = launcher
    BY <1>3 DEF WorkerStep, WorkerDies, save_node, terminate_ec2_instances,
                delete_instance_ids, hdel, CallRaises
  <2>2. \A i \in Instances : vm[i] = "absent" => vm'[i] = "absent"
    BY <1>3 DEF WorkerStep, WorkerDies, save_node, terminate_ec2_instances,
                delete_instance_ids, hdel, CallRaises
  <2>3. LaunchInv'
    BY <1>0, <2>1, <2>2 DEF LaunchInv, Stable
  <2>4. \/ toSave'[w] = {}
        \/ /\ toSave'[w] \subseteq toSave[w] /\ job'[w] = job[w]
           /\ pc[w] = "save" => pc'[w] = "save"
    <3>1. CASE \E i \in Instances : save_node(w, i)
      BY <3>1 DEF save_node, Return
    <3>2. CASE terminate_ec2_instances(w)
      BY <3>2 DEF terminate_ec2_instances
    <3>3. CASE delete_instance_ids(w)
      BY <3>3 DEF delete_instance_ids, Return
    <3>4. CASE \E n \in DnsNames : hdel(w, n)
      BY <3>4 DEF hdel, Return
    <3>5. CASE CallRaises(w) \/ WorkerDies(w)
      BY <3>5 DEF CallRaises, WorkerDies, Return
    <3> QED
      BY <1>3, <3>1, <3>2, <3>3, <3>4, <3>5 DEF WorkerStep
  <2>5. SaveInv'
    BY <1>0, <1>3, <2>1, <2>4, WorkerStepShape DEF SaveInv, Stable
  <2> QED
    BY <2>3, <2>5
<1>4. ASSUME NEW i \in Instances, Ec2Terminated(i) \/ Ec2Purged(i)
      PROVE  LaunchInv' /\ SaveInv'
  BY <1>4 DEF Ec2Terminated, Ec2Purged, LaunchInv, SaveInv
<1>5. CASE UNCHANGED vars
  BY <1>5 DEF vars, LaunchInv, SaveInv
<1> QED
  BY <1>1, <1>2, <1>3, <1>4, <1>5 DEF Next, WorkerStep

\* The id list of a terminate task was read from entries of its namespace.
LEMMA ScopeStep ==
    TypeOK /\ JobInv /\ LaunchInv /\ ScopeInv /\ AbsentInv
        /\ EntryIsLaunchedNode /\ [Next]_vars => ScopeInv'
<1> SUFFICES ASSUME TypeOK, JobInv, LaunchInv, ScopeInv, AbsentInv,
                    EntryIsLaunchedNode, [Next]_vars,
                    NEW t \in TaskIds, tasks'[t].kind = "terminate",
                    NEW i \in tasks'[t].ids
             PROVE  vm'[i] # "absent" /\ tasks'[launcher'[i]].ns = tasks'[t].ns
  BY DEF ScopeInv
<1>0. Stable
  BY StableStep
<1>1. CASE result[t] # "absent"
  <2>1. tasks'[t] = tasks[t] /\ i \in Instances
    BY <1>0, <1>1 DEF Stable, TypeOK, Task
  <2> QED
    BY <1>0, <2>1 DEF ScopeInv, Stable, LaunchInv
<1>2. CASE result[t] = "absent"
  <2>1. tasks[t] = NoTask
    BY <1>2 DEF AbsentInv
  <2>2. PICK u \in TaskIds :
           \/ \E ns \in Namespaces :
                \/ \E batch \in Batches : create_instances(u, ns, batch[1], batch[2])
                \/ terminate_namespace(u, ns)
           \/ \E s \in TaskIds : Redeliver(s, u)
    <3>1. tasks' # tasks
      BY <2>1 DEF NoTask
    <3>2. ~UNCHANGED vars /\ ~\E i_1 \in Instances : Ec2Terminated(i_1) \/ Ec2Purged(i_1)
      BY <3>1 DEF vars, Ec2Terminated, Ec2Purged
    <3>3. ~\E w \in Workers : (\E s \in TaskIds : TakeTask(w, s)) \/ WorkerStep(w) \/ WorkerDies(w)
      BY <3>1, WorkerStepShape DEF TakeTask
    <3> QED
      BY <3>2, <3>3 DEF Next, ApiStep
  <2>3. u = t
    BY <2>1, <2>2 DEF create_instances, terminate_namespace, Redeliver, apply_async, NoTask,
                      TypeOK
  <2>4. ASSUME NEW ns \in Namespaces, terminate_namespace(t, ns)
        PROVE  vm'[i] # "absent" /\ tasks'[launcher'[i]].ns = tasks'[t].ns
    <3>1. /\ tasks'[t].ids = get_instance_ids_namespace(ns)
          /\ tasks'[t].ns = ns
          /\ UNCHANGED ec2Vars
      BY <2>4 DEF terminate_namespace, apply_async, TypeOK
    <3>2. PICK n \in DnsNames : nodes[n] # None /\ nodes[n].ns = ns /\ nodes[n].id = i
      BY <3>1 DEF get_instance_ids_namespace
    <3>3. /\ i \in Instances /\ vm[i] # "absent"
          /\ launcher[i] \in TaskIds /\ result[launcher[i]] # "absent"
          /\ tasks[launcher[i]].ns = ns
      BY <3>2 DEF EntryIsLaunchedNode, LaunchInv, TypeOK, Node
    <3> QED
      BY <1>0, <3>1, <3>3 DEF Stable
  <2>5. ASSUME NEW s \in TaskIds, Redeliver(s, t)
        PROVE  vm'[i] # "absent" /\ tasks'[launcher'[i]].ns = tasks'[t].ns
    <3>1. /\ tasks'[t] = tasks[s] /\ i \in tasks[s].ids /\ tasks[s].kind = "terminate"
          /\ i \in Instances
      BY <2>5 DEF Redeliver, apply_async, TypeOK, Task
    <3>2. vm[i] # "absent" /\ tasks[launcher[i]].ns = tasks[s].ns
      BY <3>1 DEF ScopeInv
    <3> QED
      BY <1>0, <3>1, <3>2 DEF Stable, LaunchInv
  <2> QED
    BY <2>2, <2>3, <2>4, <2>5 DEF create_instances, apply_async, TypeOK
<1> QED
  BY <1>1, <1>2

\* An entry is written from the launch it records, and a launch never changes.
LEMMA EntryStep ==
    TypeOK /\ JobInv /\ SaveInv /\ LaunchInv /\ EntryIsLaunchedNode /\ [Next]_vars
        => EntryIsLaunchedNode'
<1> SUFFICES ASSUME TypeOK, JobInv, SaveInv, LaunchInv, EntryIsLaunchedNode,
                    [Next]_vars, NEW n \in DnsNames, nodes'[n] # None
             PROVE  LET i == nodes'[n].id IN
                    /\ vm'[i] # "absent"
                    /\ dns'[i] = n
                    /\ launcher'[i] # 0
                    /\ nodes'[n].ns = tasks'[launcher'[i]].ns
  BY DEF EntryIsLaunchedNode
<1>0. Stable
  BY StableStep
<1>1. CASE nodes'[n] = nodes[n]
  <2>1. nodes[n].id \in Instances
    BY <1>1 DEF TypeOK, Node
  <2> QED
    BY <1>0, <1>1, <2>1 DEF EntryIsLaunchedNode, LaunchInv, Stable, TaskIds
<1>2. CASE nodes'[n] # nodes[n]
  <2>1. PICK w \in Workers, i \in Instances : save_node(w, i)
    BY <1>2 DEF Next, vars, ApiStep, create_instances, terminate_namespace,
                Redeliver, apply_async, TakeTask, WorkerStep, WorkerDies,
                create_ec2_instance, terminate_ec2_instances, hdel,
                delete_instance_ids, CallRaises, Ec2Terminated, Ec2Purged, TypeOK
  <2>2. /\ i \in toSave[w] /\ pc[w] # "idle"
        /\ nodes' = [nodes EXCEPT ![dns[i]] = [id |-> i, ns |-> tasks[job[w]].ns]]
    BY <2>1 DEF save_node
  <2>3. /\ dns[i] = n
        /\ nodes'[n] = [id |-> i, ns |-> tasks[job[w]].ns]
    BY <1>2, <2>2 DEF SaveInv, TypeOK
  <2>4. /\ launcher[i] = job[w] /\ vm[i] # "absent"
        /\ job[w] \in TaskIds /\ result[job[w]] # "absent"
    BY <2>2 DEF SaveInv, JobInv
  <2> QED
    BY <1>0, <2>3, <2>4 DEF Stable, TaskIds
<1> QED
  BY <1>1, <1>2

\* Only terminate_instances ends an instance, and only for its own namespace.
LEMMA IsolationStep ==
    TypeOK /\ JobInv /\ LaunchInv /\ ScopeInv /\ AbsentInv
        /\ IsolatedTermination /\ [Next]_vars => IsolatedTermination'
<1> SUFFICES ASSUME TypeOK, JobInv, LaunchInv, ScopeInv, AbsentInv,
                    IsolatedTermination, [Next]_vars,
                    NEW i \in Instances, vm'[i] \in Ended
             PROVE  \E t \in TaskIds : /\ tasks'[t].kind = "terminate"
                                       /\ result'[t] # "queued"
                                       /\ i \in tasks'[t].ids
                                       /\ tasks'[t].ns = tasks'[launcher'[i]].ns
  BY DEF IsolatedTermination
<1>0. Stable
  BY StableStep
<1>1. CASE vm[i] \in Ended
  <2>1. PICK t \in TaskIds : /\ tasks[t].kind = "terminate"
                             /\ result[t] # "queued"
                             /\ i \in tasks[t].ids
                             /\ tasks[t].ns = tasks[launcher[i]].ns
    BY <1>1 DEF IsolatedTermination
  <2>2. result[t] # "absent"
    BY <2>1 DEF AbsentInv, NoTask
  <2> QED
    BY <1>0, <1>1, <2>1, <2>2 DEF Stable, LaunchInv, Ended
<1>2. CASE vm[i] \notin Ended
  <2>1. PICK w \in Workers : terminate_ec2_instances(w)
    <3>1. vm' # vm
      BY <1>2
    <3>2. ~\E w \in Workers : create_ec2_instance(w)
      BY <1>2 DEF create_ec2_instance, Ended
    <3>3. ~\E j \in Instances : Ec2Terminated(j) \/ Ec2Purged(j)
      BY <1>2 DEF Ec2Terminated, Ec2Purged, Ended, TypeOK
    <3> QED
      BY <3>1, <3>2, <3>3
         DEF Next, vars, ec2Vars, ApiStep, create_instances, terminate_namespace, Redeliver,
             apply_async, TakeTask, WorkerStep, WorkerDies, save_node, hdel,
             delete_instance_ids, CallRaises
  <2>2. /\ job[w] \in TaskIds /\ result[job[w]] = "started"
        /\ tasks[job[w]].kind = "terminate"
        /\ i \in tasks[job[w]].ids
    BY <1>2, <2>1 DEF terminate_ec2_instances, JobInv
  <2>3. vm[i] # "absent" /\ tasks[job[w]].ns = tasks[launcher[i]].ns
    BY <2>2 DEF ScopeInv
  <2> QED
    BY <1>0, <2>2, <2>3 DEF Stable, LaunchInv
<1> QED
  BY <1>1, <1>2

\* Every step keeps the inductive invariant.
LEMMA IInvStep == IInv /\ [Next]_vars => IInv'
  BY TypeStep, JobStep, LaunchStep, ScopeStep, EntryStep, IsolationStep DEF IInv

\* Every reachable state of the fleet is well typed.
THEOREM TypeCorrect == Spec => []TypeOK
<1>1. IInv => TypeOK
  BY DEF IInv
<1> QED
  BY InitIInv, IInvStep, <1>1, PTL DEF Spec

\* The hash "nodes" only ever describes instances EC2 launched, under their
\* own name and namespace, for every fleet and with names given out again.
THEOREM EntriesAreLaunched == Spec => []EntryIsLaunchedNode
<1>1. IInv => EntryIsLaunchedNode
  BY DEF IInv
<1> QED
  BY InitIInv, IInvStep, <1>1, PTL DEF Spec

\* No request for one namespace ever ends an instance of another.
THEOREM TerminationIsIsolated == Spec => []IsolatedTermination
<1>1. IInv => IsolatedTermination
  BY DEF IInv
<1> QED
  BY InitIInv, IInvStep, <1>1, PTL DEF Spec

-----------------------------------------------------------------------------
(* What EveryTaskSettles rests on beside fairness.                           *)

Settled == {"response", "empty", "none", "lost"}

\* A started delivery is in the hands of one worker, which has a call to
\* make: an instance to save, a name to delete, a task for EC2.
StartedIsExecuted ==
    /\ \A t \in TaskIds : result[t] = "started" =>
         \E w \in Workers : /\ pc[w] # "idle" /\ job[w] = t
                            /\ \A v \in Workers : pc[v] # "idle" /\ job[v] = t => v = w
    /\ \A w \in Workers : /\ pc[w] = "call" => tasks[job[w]].kind # "none"
                          /\ pc[w] = "save" => toSave[w] # {}
                          /\ pc[w] = "hdel" => toDelete[w] # {}

\* Worker w ends its task, or comes nearer to the end.
Nearer(w) ==
    \/ pc'[w] = "idle" /\ result'[job[w]] \in Settled
    \/ pc[w] = "call" /\ pc'[w] \in {"save", "list"}
    \/ pc[w] = "list" /\ pc'[w] = "hdel"
    \/ /\ pc[w] = "save" /\ pc'[w] = "save"
       /\ toSave'[w] \subseteq toSave[w] /\ toSave'[w] # toSave[w]
    \/ /\ pc[w] = "hdel" /\ pc'[w] = "hdel"
       /\ toDelete'[w] \subseteq toDelete[w] /\ toDelete'[w] # toDelete[w]

\* The loops of save_node and hdel shrink with each call and are not fed by
\* those of other workers.
Shrinks ==
    \A w \in Workers :
        /\ WorkerStep(w) \/ WorkerDies(w) => Nearer(w)
        /\ pc[w] # "idle" =>
             Nearer(w) \/ UNCHANGED <<pc[w], job[w], toSave[w], toDelete[w]>>

LoopsShrink == [][Shrinks]_vars

\* What is submitted is a task, and a create task asks for an instance.
SubmittedInv ==
    \A t \in TaskIds : /\ result[t] # "absent" => tasks[t].kind # "none"
                       /\ tasks[t].kind = "create" => tasks[t].max # 0

ProgressInv == StartedIsExecuted /\ SubmittedInv

LEMMA ProgressInit == Init => ProgressInv
  BY DEF Init, ProgressInv, StartedIsExecuted, SubmittedInv, NoTask

\* The steps of workers bring their task nearer to its end.
LEMMA NearerStep ==
    ASSUME TypeOK, JobInv, NEW w \in Workers, WorkerStep(w) \/ WorkerDies(w)
    PROVE  Nearer(w)
<1> USE DEF TypeOK, Nearer, Settled
<1>0. job[w] \in TaskIds
  BY WorkerStepShape DEF JobInv
<1>1. ASSUME NEW r \in Settled, Return(w, r)
      PROVE  Nearer(w)
  BY <1>0, <1>1 DEF Return
<1>2. CASE create_ec2_instance(w)
  BY <1>0, <1>1, <1>2 DEF create_ec2_instance
<1>3. ASSUME NEW i \in Instances, save_node(w, i)
      PROVE  Nearer(w)
  <2>1. CASE Return(w, "response")
    BY <1>1, <2>1
  <2>2. CASE toSave' = [toSave EXCEPT ![w] = @ \ {i}] /\ UNCHANGED pc
    BY <1>3, <2>2 DEF save_node
  <2> QED
    BY <1>3, <2>1, <2>2 DEF save_node
<1>4. CASE terminate_ec2_instances(w)
  BY <1>4 DEF terminate_ec2_instances
<1>5. CASE delete_instance_ids(w)
  BY <1>1, <1>5 DEF delete_instance_ids
<1>6. ASSUME NEW n \in DnsNames, hdel(w, n)
      PROVE  Nearer(w)
  <2>1. CASE Return(w, "response")
    BY <1>1, <2>1
  <2>2. CASE toDelete' = [toDelete EXCEPT ![w] = @ \ {n}] /\ UNCHANGED pc
    BY <1>6, <2>2 DEF hdel
  <2> QED
    BY <1>6, <2>1, <2>2 DEF hdel
<1>7. CASE CallRaises(w) \/ WorkerDies(w)
  BY <1>1, <1>7 DEF CallRaises, WorkerDies
<1> QED
  BY <1>2, <1>3, <1>4, <1>5, <1>6, <1>7 DEF WorkerStep

\* A worker only turns to a loop that has something to do.
LEMMA SomethingToDo ==
    ASSUME TypeOK, JobInv, ProgressInv, NEW w \in Workers, WorkerStep(w) \/ WorkerDies(w)
    PROVE  /\ pc'[w] = "save" => toSave'[w] # {}
           /\ pc'[w] = "hdel" => toDelete'[w] # {}
           /\ pc'[w] # "call"
<1> USE DEF TypeOK
<1>0. job[w] \in TaskIds
  BY WorkerStepShape DEF JobInv
<1>1. ASSUME NEW r, Return(w, r)
      PROVE  pc'[w] = "idle"
  BY <1>1 DEF Return
<1>2. CASE create_ec2_instance(w)
  <2>1. tasks[job[w]].max # 0
    BY <1>0, <1>2 DEF create_ec2_instance, ProgressInv, SubmittedInv
  <2>2. \/ Return(w, "empty")
        \/ pc' = [pc EXCEPT ![w] = "save"] /\ toSave'[w] # {}
    <3>1. Cardinality({}) = 0
      BY FS_EmptySet
    <3> QED
      BY <1>2, <2>1, <3>1 DEF create_ec2_instance
  <2> QED
    BY <1>1, <2>2
<1>3. ASSUME NEW i \in Instances, save_node(w, i)
      PROVE  \/ pc'[w] = "idle"
             \/ pc'[w] = "save" /\ toSave'[w] # {}
  <2>1. CASE Return(w, "response")
    BY <1>1, <2>1
  <2>2. CASE toSave[w] # {i} /\ toSave' = [toSave EXCEPT ![w] = @ \ {i}] /\ UNCHANGED pc
    BY <1>3, <2>2 DEF save_node
  <2> QED
    BY <1>3, <2>1, <2>2 DEF save_node
<1>4. CASE terminate_ec2_instances(w)
  BY <1>4 DEF terminate_ec2_instances
<1>5. CASE delete_instance_ids(w)
  BY <1>1, <1>5 DEF delete_instance_ids
<1>6. ASSUME NEW n \in DnsNames, hdel(w, n)
      PROVE  \/ pc'[w] = "idle"
             \/ pc'[w] = "hdel" /\ toDelete'[w] # {}
  <2>1. CASE Return(w, "response")
    BY <1>1, <2>1
  <2>2. CASE toDelete[w] # {n} /\ toDelete' = [toDelete EXCEPT ![w] = @ \ {n}] /\ UNCHANGED pc
    BY <1>6, <2>2 DEF hdel
  <2> QED
    BY <1>6, <2>1, <2>2 DEF hdel
<1>7. CASE CallRaises(w) \/ WorkerDies(w)
  BY <1>1, <1>7 DEF CallRaises, WorkerDies
<1> QED
  BY <1>2, <1>3, <1>4, <1>5, <1>6, <1>7 DEF WorkerStep

\* No step leaves a started task without a worker.
LEMMA ProgressStep ==
    ASSUME IInv, ProgressInv, [Next]_vars
    PROVE  ProgressInv'
<1> USE DEF IInv, TypeOK, ProgressInv, StartedIsExecuted, SubmittedInv, ec2Vars, workerVars
<1>1. ASSUME NEW t \in TaskIds, NEW task, apply_async(t, task), task \in Task,
             task.kind # "none", task.kind = "create" => task.max # 0
      PROVE  ProgressInv'
  <2>1. SubmittedInv'
    BY <1>1 DEF apply_async
  <2>2. /\ \A u \in TaskIds : result'[u] = "started" <=> result[u] = "started"
        /\ UNCHANGED workerVars
    BY <1>1 DEF apply_async
  <2>3. \A w \in Workers : pc[w] # "idle" => tasks'[job[w]] = tasks[job[w]]
    BY <1>1 DEF apply_async, JobInv
  <2> QED
    BY <2>1, <2>2, <2>3
<1>2. ASSUME NEW t \in TaskIds, NEW ns \in Namespaces, NEW batch \in Batches,
             create_instances(t, ns, batch[1], batch[2])
      PROVE  ProgressInv'
  <2> DEFINE task == [kind |-> "create", ns |-> ns, min |-> batch[1], max |-> batch[2],
                      ids |-> {}]
  <2>1. batch[1] \in Nat /\ batch[2] \in Nat \ {0}
    BY FleetAssumption
  <2>2. /\ task \in Task /\ task.kind = "create" /\ task.max # 0
        /\ apply_async(t, task)
    BY <1>2, <2>1 DEF Task, create_instances
  <2> HIDE DEF task
  <2> QED
    BY <1>1, <2>2
<1>3. ASSUME NEW t \in TaskIds, NEW ns \in Namespaces, terminate_namespace(t, ns)
      PROVE  ProgressInv'
  <2> DEFINE task == [kind |-> "terminate", ns |-> ns, min |-> 0, max |-> 0,
                      ids |-> get_instance_ids_namespace(ns)]
  <2>1. get_instance_ids_namespace(ns) \subseteq Instances
    BY DEF get_instance_ids_namespace, Node
  <2>2. /\ task \in Task /\ task.kind = "terminate"
        /\ apply_async(t, task)
    BY <1>3, <2>1, FleetAssumption DEF Task, terminate_namespace
  <2> HIDE DEF task
  <2> QED
    BY <1>1, <2>2
<1>4. ASSUME NEW w \in Workers, NEW t \in TaskIds, TakeTask(w, t)
      PROVE  ProgressInv'
  <2>1. /\ tasks' = tasks /\ toSave' = toSave /\ toDelete' = toDelete
        /\ result' = [result EXCEPT ![t] = "started"] /\ result[t] = "queued"
        /\ pc[w] = "idle" /\ pc'[w] = "call" /\ job'[w] = t
        /\ \A v \in Workers \ {w} : pc'[v] = pc[v] /\ job'[v] = job[v]
    BY <1>4 DEF TakeTask
  <2>2. \A v \in Workers \ {w} : pc[v] # "idle" => job[v] # t
    BY <2>1 DEF JobInv
  <2>3. SubmittedInv'
    BY <2>1
  <2>4. ASSUME NEW u \in TaskIds, result'[u] = "started"
        PROVE  \E v \in Workers : /\ pc'[v] # "idle" /\ job'[v] = u
                                  /\ \A x \in Workers : pc'[x] # "idle" /\ job'[x] = u => x = v
    <3>1. CASE u = t
      BY <2>1, <2>2, <3>1
    <3>2. CASE u # t
      <4>1. result[u] = "started"
        BY <2>1, <2>4, <3>2
      <4>2. PICK v \in Workers : /\ pc[v] # "idle" /\ job[v] = u
                                 /\ \A x \in Workers : pc[x] # "idle" /\ job[x] = u => x = v
        BY <4>1
      <4>3. v # w /\ \A x \in Workers : pc'[x] # "idle" /\ job'[x] = u => x = v
        BY <2>1, <3>2, <4>2
      <4> QED
        BY <2>1, <4>2, <4>3
    <3> QED
      BY <3>1, <3>2
  <2> QED
    BY <2>1, <2>3, <2>4
<1>5. ASSUME NEW w \in Workers, WorkerStep(w) \/ WorkerDies(w)
      PROVE  ProgressInv'
  <2>1. /\ pc[w] # "idle" /\ job[w] \in TaskIds /\ result[job[w]] = "started"
        /\ tasks' = tasks
        /\ \A v \in Workers \ {w} : /\ pc'[v] = pc[v] /\ job'[v] = job[v]
                                    /\ toSave'[v] = toSave[v] /\ toDelete'[v] = toDelete[v]
    BY <1>5, WorkerStepShape DEF JobInv
  <2>2. /\ pc'[w] = "save" => toSave'[w] # {}
        /\ pc'[w] = "hdel" => toDelete'[w] # {}
        /\ pc'[w] # "call"
    BY <1>5, SomethingToDo
  <2>3. \A v \in Workers : /\ pc'[v] = "call" => tasks'[job'[v]].kind # "none"
                           /\ pc'[v] = "save" => toSave'[v] # {}
                           /\ pc'[v] = "hdel" => toDelete'[v] # {}
    BY <2>1, <2>2
  <2>4. CASE \E r \in Settled : Return(w, r)
    <3>1. /\ result'[job[w]] # "started" /\ result'[job[w]] # "absent"
          /\ \A u \in TaskIds \ {job[w]} : result'[u] = result[u]
          /\ pc'[w] = "idle"
      BY <2>1, <2>4 DEF Return, Settled
    <3>2. SubmittedInv'
      BY <2>1, <3>1
    <3>3. ASSUME NEW u \in TaskIds, result'[u] = "started"
          PROVE  \E v \in Workers : /\ pc'[v] # "idle" /\ job'[v] = u
                                    /\ \A x \in Workers : pc'[x] # "idle" /\ job'[x] = u => x = v
      <4>1. u # job[w] /\ result[u] = "started"
        BY <3>1, <3>3
      <4>2. PICK v \in Workers : /\ pc[v] # "idle" /\ job[v] = u
                                 /\ \A x \in Workers : pc[x] # "idle" /\ job[x] = u => x = v
        BY <4>1
      <4> QED
        BY <2>1, <3>1, <4>1, <4>2
    <3> QED
      BY <2>3, <3>2, <3>3
  <2>5. CASE result' = result /\ job' = job
    <3>1. pc'[w] # "idle"
      <4>1. result[job[w]] \notin Settled
        BY <2>1 DEF Settled
      <4> QED
        BY <1>5, <2>1, <2>5, <4>1, NearerStep DEF Nearer
    <3> QED
      BY <2>1, <2>3, <2>5, <3>1
  <2> QED
    BY <1>5, <2>4, <2>5, WorkerStepShape DEF Settled
<1>6. ASSUME NEW i \in Instances, Ec2Terminated(i) \/ Ec2Purged(i)
      PROVE  ProgressInv'
  BY <1>6 DEF Ec2Terminated, Ec2Purged
<1>7. ASSUME NEW t \in TaskIds, NEW u \in TaskIds, Redeliver(t, u)
      PROVE  ProgressInv'
  <2>1. /\ tasks[t] \in Task /\ tasks[t].kind # "none"
        /\ tasks[t].kind = "create" => tasks[t].max # 0
        /\ apply_async(u, tasks[t])
    BY <1>7 DEF Redeliver
  <2> QED
    BY <1>1, <2>1
<1>8. CASE UNCHANGED vars
  BY <1>8 DEF vars
<1> QED
  BY <1>2, <1>3, <1>4, <1>5, <1>6, <1>7, <1>8 DEF Next, ApiStep

\* No step feeds the loop of another worker.
LEMMA ShrinkStep ==
    ASSUME IInv, Next
    PROVE  Shrinks
<1> USE DEF IInv, TypeOK, ec2Vars, workerVars
<1>0. \A w \in Workers : WorkerStep(w) \/ WorkerDies(w) => Nearer(w)
  BY NearerStep
<1>1. CASE ApiStep \/ \E t, u \in TaskIds : Redeliver(t, u)
  <2>1. UNCHANGED workerVars
    BY <1>1 DEF ApiStep, create_instances, terminate_namespace, Redeliver, apply_async
  <2> QED
    BY <1>0, <2>1 DEF Shrinks
<1>2. ASSUME NEW w \in Workers, NEW t \in TaskIds, TakeTask(w, t)
      PROVE  Shrinks
  <2>1. /\ pc[w] = "idle"
        /\ \A v \in Workers \ {w} : pc'[v] = pc[v] /\ job'[v] = job[v]
        /\ UNCHANGED <<toSave, toDelete>>
    BY <1>2 DEF TakeTask
  <2> QED
    BY <1>0, <2>1 DEF Shrinks
<1>3. ASSUME NEW w \in Workers, WorkerStep(w) \/ WorkerDies(w)
      PROVE  Shrinks
  <2>1. \A v \in Workers \ {w} : UNCHANGED <<pc[v], job[v], toSave[v], toDelete[v]>>
    BY <1>3, WorkerStepShape
  <2> QED
    BY <1>0, <1>3, <2>1 DEF Shrinks
<1>4. ASSUME NEW i \in Instances, Ec2Terminated(i) \/ Ec2Purged(i)
      PROVE  Shrinks
  <2>1. UNCHANGED <<result, pc, job, toSave, toDelete>>
    BY <1>4 DEF Ec2Terminated, Ec2Purged
  <2> QED
    BY <1>0, <2>1 DEF Shrinks
<1> QED
  BY <1>1, <1>2, <1>3, <1>4 DEF Next

\* A delivery that was started is in the hands of exactly one worker, which
\* always has a call to make, until the task returned or the worker died
\* (aws_tasks.py), for any fleet and with failing calls.  It says nothing of a
\* second delivery of the same message, which is started on its own.
THEOREM StartedTasksAreExecuted == Spec => []StartedIsExecuted
<1>1. IInv /\ ProgressInv /\ [Next]_vars => IInv' /\ ProgressInv'
  BY IInvStep, ProgressStep
<1>2. ProgressInv => StartedIsExecuted
  BY DEF ProgressInv
<1> QED
  BY InitIInv, ProgressInit, <1>1, <1>2, PTL DEF Spec

\* Every call of a worker ends its task or leaves it less to do, and no other
\* worker, request or instance that goes down gives it more: with the fairness
\* of FairSpec no task on a finite fleet runs for ever.
THEOREM LoopsAlwaysShrink == Spec => LoopsShrink
<1>1. IInv /\ [Next]_vars => [Shrinks]_vars
  BY ShrinkStep
<1>2. Spec => [][Shrinks]_vars
  BY InitIInv, IInvStep, <1>1, PTL DEF Spec
<1> QED
  BY <1>2 DEF LoopsShrink
=============================================================================
