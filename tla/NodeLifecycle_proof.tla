------------------------- MODULE NodeLifecycle_proof ------------------------
(* What the answers of the fleet mean, and that it implements NodeLifecycle, *)
(* for every fleet.  EC2 may give the name of a terminated instance out again *)
(* and the broker may deliver a waiting task message a second time.          *)
EXTENDS NodeRegistry_proof

ids(w) == tasks[job[w]].ids

Deleting == {"list", "hdel"}

\* Which task is at which call.
KindInv ==
    \A w \in Workers :
        /\ pc[w] = "save" => tasks[job[w]].kind = "create"
        /\ pc[w] \in Deleting => tasks[job[w]].kind = "terminate"
        /\ toDelete[w] # {} => pc[w] = "hdel"

\* What is still to save is not listed, and no task terminates it.
UnsavedInv ==
    \A w \in Workers : \A i \in toSave[w] :
        /\ ~Listed(i)
        /\ \A t \in TaskIds : tasks[t].kind = "terminate" => i \notin tasks[t].ids

\* Entries are deleted of instances that end, ...
EndedInv == \A w \in Workers : pc[w] \in Deleting => \A i \in ids(w) : vm[i] \in Ended

\* ... and no entry of theirs is passed over.
KeysInv ==
    \A w \in Workers : pc[w] = "hdel" =>
        \A n \in DnsNames : nodes[n] # None /\ nodes[n].id \in ids(w) => n \in toDelete[w]

FInv == /\ IInv
        /\ KindInv
        /\ UnsavedInv
        /\ EndedInv
        /\ KeysInv
        /\ ResponseMeansForgotten

\* Nobody works at first.
LEMMA FInit == Init => FInv
<1> SUFFICES ASSUME Init PROVE FInv
  OBVIOUS
<1>1. IInv
  BY InitIInv
<1>2. KindInv /\ UnsavedInv /\ EndedInv /\ KeysInv
  BY DEF Init, KindInv, UnsavedInv, EndedInv, KeysInv, Deleting
<1>3. ResponseMeansForgotten
  BY DEF Init, ResponseMeansForgotten, NoTask
<1> QED
  BY <1>1, <1>2, <1>3 DEF FInv

\* The actions a step may be, by what they can do to "nodes".
LEMMA Writes ==
    ASSUME TypeOK, [Next]_vars
    PROVE  \/ nodes' = nodes
           \/ \E w \in Workers, i \in Instances : save_node(w, i)
           \/ \E w \in Workers, n \in DnsNames : hdel(w, n)
  BY DEF Next, vars, ApiStep, create_instances, terminate_namespace, Redeliver,
         apply_async, TakeTask, WorkerStep, WorkerDies, create_ec2_instance,
         terminate_ec2_instances, delete_instance_ids, CallRaises, Ec2Terminated,
         Ec2Purged

\* A busy worker keeps its task, and the task what was asked.
LEMMA Busy ==
    ASSUME IInv, [Next]_vars, NEW w \in Workers, pc'[w] # "idle", pc[w] # "idle"
    PROVE  /\ job'[w] = job[w] /\ job[w] \in TaskIds
           /\ tasks'[job[w]] = tasks[job[w]] /\ ids(w)' = ids(w)
<1> USE DEF IInv, TypeOK
<1>1. job'[w] = job[w]
  <2>1. ASSUME NEW v \in Workers, WorkerStep(v) \/ WorkerDies(v) PROVE job'[w] = job[w]
    BY <2>1, WorkerStepShape DEF Return
  <2> QED
    BY <2>1 DEF Next, ApiStep, create_instances, terminate_namespace, Redeliver, apply_async, TakeTask,
                Ec2Terminated, Ec2Purged, vars, workerVars
<1>2. job[w] \in TaskIds /\ result[job[w]] = "started"
  BY DEF JobInv
<1>3. tasks'[job[w]] = tasks[job[w]]
  BY <1>2, StableStep DEF Stable
<1> QED
  BY <1>1, <1>2, <1>3 DEF ids

\* The call before each call of a task, and where the loops get their rounds.
LEMMA Calls ==
    ASSUME IInv, [Next]_vars, NEW w \in Workers
    PROVE  /\ pc'[w] = "save" => pc[w] = "save" \/ create_ec2_instance(w)
           /\ pc'[w] = "list" => pc[w] = "list" \/ terminate_ec2_instances(w)
           /\ pc'[w] = "hdel" =>
                \/ pc[w] = "hdel"
                \/ delete_instance_ids(w) /\ toDelete'[w] = corresponding_keys(w)
           /\ toDelete'[w] \subseteq toDelete[w] \/ pc'[w] = "hdel"
           /\ pc[w] = "hdel" /\ pc'[w] # "hdel" => toDelete'[w] = {}
           /\ toSave'[w] \subseteq toSave[w] \/ create_ec2_instance(w)
           /\ pc[w] = "hdel" /\ pc'[w] = "hdel" =>
                toDelete'[w] = toDelete[w] \/ \E n \in DnsNames : hdel(w, n)
<1> USE DEF IInv, TypeOK
<1> DEFINE Goal ==
        /\ pc'[w] = "save" => pc[w] = "save" \/ create_ec2_instance(w)
        /\ pc'[w] = "list" => pc[w] = "list" \/ terminate_ec2_instances(w)
        /\ pc'[w] = "hdel" =>
             \/ pc[w] = "hdel"
             \/ delete_instance_ids(w) /\ toDelete'[w] = corresponding_keys(w)
        /\ toDelete'[w] \subseteq toDelete[w] \/ pc'[w] = "hdel"
        /\ pc[w] = "hdel" /\ pc'[w] # "hdel" => toDelete'[w] = {}
        /\ toSave'[w] \subseteq toSave[w] \/ create_ec2_instance(w)
        /\ pc[w] = "hdel" /\ pc'[w] = "hdel" =>
             toDelete'[w] = toDelete[w] \/ \E n \in DnsNames : hdel(w, n)
<1> SUFFICES Goal
  OBVIOUS
<1>1. ASSUME NEW v \in Workers, v # w, WorkerStep(v) \/ WorkerDies(v)
      PROVE  Goal
  <2>1. pc'[w] = pc[w] /\ toDelete'[w] = toDelete[w] /\ toSave'[w] = toSave[w]
    BY <1>1, WorkerStepShape
  <2> QED
    BY <2>1
<1>2. CASE create_ec2_instance(w)
  BY <1>2 DEF create_ec2_instance, Return
<1>3. ASSUME NEW i \in Instances, save_node(w, i) PROVE Goal
  BY <1>3 DEF save_node, Return
<1>4. CASE terminate_ec2_instances(w)
  BY <1>4 DEF terminate_ec2_instances
<1>5. CASE delete_instance_ids(w)
  BY <1>5 DEF delete_instance_ids, Return
<1>6. ASSUME NEW n \in DnsNames, hdel(w, n) PROVE Goal
  BY <1>6 DEF hdel, Return
<1>7. CASE CallRaises(w) \/ WorkerDies(w)
  BY <1>7 DEF CallRaises, WorkerDies, Return
<1>8. ASSUME NEW v \in Workers, NEW t \in TaskIds, TakeTask(v, t) PROVE Goal
  BY <1>8 DEF TakeTask
<1>9. CASE \/ ApiStep
           \/ \E t, u \in TaskIds : Redeliver(t, u)
           \/ \E i \in Instances : Ec2Terminated(i) \/ Ec2Purged(i)
           \/ UNCHANGED vars
  <2>1. pc' = pc /\ toDelete' = toDelete /\ toSave' = toSave
    BY <1>9 DEF ApiStep, create_instances, terminate_namespace, Redeliver, apply_async, Ec2Terminated,
                Ec2Purged, vars, workerVars
  <2> QED
    BY <2>1
<1> HIDE DEF Goal
<1>10. CASE WorkerStep(w)
  BY <1>2, <1>3, <1>4, <1>5, <1>6, <1>7, <1>10 DEF WorkerStep
<1> QED
  BY <1>1, <1>7, <1>8, <1>9, <1>10 DEF Next

\* A worker that changes to a call was at another.
LEMMA KindStep ==
    ASSUME FInv, [Next]_vars
    PROVE  KindInv'
<1> USE DEF FInv, KindInv, IInv
<1> SUFFICES ASSUME NEW w \in Workers
             PROVE  /\ pc'[w] = "save" => tasks'[job'[w]].kind = "create"
                    /\ pc'[w] \in Deleting => tasks'[job'[w]].kind = "terminate"
                    /\ toDelete'[w] # {} => pc'[w] = "hdel"
  BY DEF KindInv
<1>1. ASSUME pc'[w] = "save" PROVE tasks'[job'[w]].kind = "create"
  <2>1. pc[w] = "save" \/ create_ec2_instance(w)
    BY <1>1, Calls
  <2>2. pc[w] # "idle" /\ tasks[job[w]].kind = "create"
    BY <2>1 DEF create_ec2_instance
  <2> QED
    BY <1>1, <2>2, Busy
<1>2. ASSUME pc'[w] \in Deleting PROVE tasks'[job'[w]].kind = "terminate"
  <2>1. pc[w] \in Deleting \/ terminate_ec2_instances(w)
    BY <1>2, Calls DEF Deleting, delete_instance_ids
  <2>2. pc[w] # "idle" /\ tasks[job[w]].kind = "terminate"
    BY <2>1 DEF terminate_ec2_instances, Deleting
  <2> QED
    BY <1>2, <2>2, Busy DEF Deleting
<1>3. ASSUME toDelete'[w] # {} PROVE pc'[w] = "hdel"
  BY <1>3, Calls
<1> QED
  BY <1>1, <1>2, <1>3

\* What is listed was listed or is the node that is saved.
LEMMA NewlyListed ==
    ASSUME TypeOK, [Next]_vars, NEW i \in Instances, Listed(i)', ~Listed(i)
    PROVE  \E w \in Workers : save_node(w, i)
<1>1. nodes' # nodes
  BY DEF Listed
<1>2. ~\E w \in Workers, n \in DnsNames : hdel(w, n)
  BY DEF hdel, Listed, TypeOK
<1>3. PICK w \in Workers, j \in Instances : save_node(w, j)
  BY <1>1, <1>2, Writes
<1>4. nodes' = [nodes EXCEPT ![dns[j]] = [id |-> j, ns |-> tasks[job[w]].ns]]
  BY <1>3 DEF save_node
<1>5. PICK n \in DnsNames : nodes'[n] # None /\ nodes'[n].id = i
  BY DEF Listed
<1>6. nodes'[n] # nodes[n]
  BY <1>5 DEF Listed
<1>7. i = j
  BY <1>4, <1>5, <1>6 DEF TypeOK
<1> QED
  BY <1>3, <1>7

\* An instance is saved by one worker, which is then done with it.
LEMMA SavedOnce ==
    ASSUME IInv, NEW v \in Workers, NEW i \in Instances, save_node(v, i), NEW w \in Workers
    PROVE  i \notin toSave'[w]
<1> USE DEF IInv, TypeOK
<1>1. i \in toSave[v] /\ launcher[i] = job[v]
  BY DEF save_node, SaveInv
<1>2. CASE w = v
  BY <1>2 DEF save_node, Return
<1>3. CASE w # v
  <2>1. toSave'[w] = toSave[w]
    BY <1>3, WorkerStepShape DEF WorkerStep
  <2>2. i \in toSave[w] => job[w] = job[v] /\ pc[w] # "idle" /\ pc[v] # "idle"
    BY <1>1 DEF SaveInv, save_node
  <2>3. i \notin toSave[w]
    BY <1>3, <2>2 DEF JobInv
  <2> QED
    BY <2>1, <2>3
<1> QED
  BY <1>2, <1>3

\* A new terminate task asks for instances that are listed, or what another
\* one asks for already.
LEMMA NewIds ==
    ASSUME IInv, [Next]_vars, NEW t \in TaskIds, tasks'[t].kind = "terminate"
    PROVE  \/ \E u \in TaskIds : tasks[u].kind = "terminate" /\ tasks'[t].ids = tasks[u].ids
           \/ \A i \in tasks'[t].ids : Listed(i)
<1> USE DEF IInv, TypeOK
<1>1. CASE \E u \in TaskIds, ns \in Namespaces : terminate_namespace(u, ns)
  <2>1. PICK u \in TaskIds, ns \in Namespaces : terminate_namespace(u, ns)
    BY <1>1
  <2>2. \A i \in get_instance_ids_namespace(ns) : Listed(i)
    BY DEF get_instance_ids_namespace, Listed
  <2>3. CASE t = u
    BY <2>1, <2>2, <2>3 DEF terminate_namespace, apply_async
  <2>4. CASE t # u
    BY <2>1, <2>4 DEF terminate_namespace, apply_async
  <2> QED
    BY <2>3, <2>4
<1>2. ASSUME NEW u \in TaskIds, NEW ns \in Namespaces, NEW batch \in Batches,
             create_instances(u, ns, batch[1], batch[2])
      PROVE  tasks'[t] = tasks[t]
  BY <1>2 DEF create_instances, apply_async
<1>3. ASSUME NEW s \in TaskIds, NEW u \in TaskIds, Redeliver(s, u)
      PROVE  tasks'[t] = tasks[t] \/ tasks'[t] = tasks[s]
  BY <1>3 DEF Redeliver, apply_async
<1>4. tasks' = tasks \/ ApiStep \/ \E s, u \in TaskIds : Redeliver(s, u)
  BY WorkerStepShape DEF Next, TakeTask, Ec2Terminated, Ec2Purged, vars
<1> QED
  BY <1>1, <1>2, <1>3, <1>4 DEF ApiStep

\* What is still to save is neither saved nor asked for by anybody else.
LEMMA UnsavedStep ==
    ASSUME FInv, [Next]_vars
    PROVE  UnsavedInv'
<1> USE DEF FInv, IInv, TypeOK
<1> SUFFICES ASSUME NEW w \in Workers, NEW i \in toSave'[w]
             PROVE  /\ ~Listed(i)'
                    /\ \A t \in TaskIds : tasks'[t].kind = "terminate" => i \notin tasks'[t].ids
  BY DEF UnsavedInv, Listed
<1>1. i \in Instances
  BY TypeStep
<1>2. /\ ~Listed(i)
      /\ \A t \in TaskIds : tasks[t].kind = "terminate" => i \notin tasks[t].ids
  <2>1. CASE i \in toSave[w]
    BY <2>1 DEF UnsavedInv
  <2>2. CASE i \notin toSave[w]
    <3>1. create_ec2_instance(w)
      BY <2>2, Calls
    <3>2. vm[i] = "absent"
      BY <2>2, <3>1 DEF create_ec2_instance, Return
    <3> QED
      BY <3>2 DEF Listed, EntryIsLaunchedNode, ScopeInv
  <2> QED
    BY <2>1, <2>2
<1>3. ~Listed(i)'
  <2>1. ~\E v \in Workers : save_node(v, i)
    BY <1>1, SavedOnce
  <2> QED
    BY <1>1, <1>2, <2>1, NewlyListed
<1> QED
  BY <1>2, <1>3, NewIds

\* Whoever deletes entries has ended their instances.
LEMMA EndedStep ==
    ASSUME FInv, [Next]_vars
    PROVE  EndedInv'
<1> USE DEF FInv, IInv
<1> SUFFICES ASSUME NEW w \in Workers, pc'[w] \in Deleting, NEW i \in ids(w)'
             PROVE  vm'[i] \in Ended
  BY DEF EndedInv, ids
<1>1. pc[w] \in Deleting \/ terminate_ec2_instances(w)
  BY Calls DEF Deleting, delete_instance_ids
<1>2. ids(w)' = ids(w) /\ job[w] \in TaskIds
  BY <1>1, Busy DEF Deleting, terminate_ec2_instances
<1>3. i \in Instances
  BY <1>2 DEF ids, TypeOK, Task
<1>4. CASE pc[w] \in Deleting
  <2>1. vm[i] \in Ended
    BY <1>2, <1>4 DEF EndedInv
  <2> QED
    BY <1>3, <2>1, StableStep DEF Stable, Ended
<1>5. CASE terminate_ec2_instances(w)
  <2>1. vm[i] # "absent" /\ vm[i] # "purged"
    BY <1>2, <1>5 DEF terminate_ec2_instances, ids, ScopeInv
  <2> QED
    BY <1>2, <1>3, <1>5, <2>1 DEF terminate_ec2_instances, ids, TypeOK, Ended
<1> QED
  BY <1>1, <1>4, <1>5

\* No entry of an instance that ends escapes the worker that deletes them.
LEMMA KeysStep ==
    ASSUME FInv, [Next]_vars
    PROVE  KeysInv'
<1> USE DEF FInv, IInv, TypeOK
<1> SUFFICES ASSUME NEW w \in Workers, pc'[w] = "hdel", NEW n \in DnsNames,
                    nodes'[n] # None, nodes'[n].id \in ids(w)'
             PROVE  n \in toDelete'[w]
  BY DEF KeysInv
<1>1. pc[w] \in Deleting
  BY Calls DEF Deleting, delete_instance_ids
<1>2. ids(w)' = ids(w) /\ job[w] \in TaskIds /\ tasks[job[w]].kind = "terminate"
  BY <1>1, Busy DEF Deleting, KindInv
<1>3. nodes'[n] = nodes[n]
  <2>1. ASSUME NEW v \in Workers, NEW i \in Instances, save_node(v, i) PROVE nodes'[n] = nodes[n]
    <3>1. /\ i \in toSave[v]
          /\ nodes' = [nodes EXCEPT ![dns[i]] = [id |-> i, ns |-> tasks[job[v]].ns]]
      BY <2>1 DEF save_node
    <3>2. i \notin ids(w)
      BY <1>2, <3>1 DEF UnsavedInv, ids
    <3> QED
      BY <1>2, <3>1, <3>2
  <2>2. ASSUME NEW v \in Workers, NEW m \in DnsNames, hdel(v, m) PROVE nodes'[n] = nodes[n]
    BY <2>2 DEF hdel
  <2> QED
    BY <2>1, <2>2, Writes
<1>4. CASE pc[w] = "hdel"
  <2>1. n \in toDelete[w]
    BY <1>2, <1>3, <1>4 DEF KeysInv
  <2>2. toDelete'[w] = toDelete[w] \/ \E m \in DnsNames : hdel(w, m)
    BY <1>4, Calls
  <2>3. ASSUME NEW m \in DnsNames, hdel(w, m) PROVE n \in toDelete'[w]
    BY <2>1, <2>3 DEF hdel, Return
  <2> QED
    BY <2>1, <2>2, <2>3
<1>5. CASE pc[w] # "hdel"
  <2>1. toDelete'[w] = corresponding_keys(w)
    BY <1>5, Calls
  <2> QED
    BY <1>2, <1>3, <2>1 DEF corresponding_keys, ids
<1> QED
  BY <1>4, <1>5

\* A task that is new was not submitted, and one that ends was some worker's.
LEMMA Outcomes ==
    ASSUME IInv, KindInv, [Next]_vars, NEW t \in TaskIds,
           tasks'[t].kind = "terminate", result'[t] = "response", result[t] # "response"
    PROVE  \E w \in Workers :
              /\ job[w] = t
              /\ \/ delete_instance_ids(w) /\ corresponding_keys(w) = {}
                 \/ \E n \in DnsNames : hdel(w, n) /\ toDelete[w] = {n}
<1> USE DEF IInv, TypeOK
<1>1. PICK w \in Workers : WorkerStep(w)
  BY DEF Next, ApiStep, create_instances, terminate_namespace, Redeliver, apply_async, TakeTask, WorkerDies,
         Return, Ec2Terminated, Ec2Purged, vars
<1>2. job[w] = t /\ tasks[t].kind = "terminate" /\ pc[w] # "idle"
  BY <1>1, WorkerStepShape DEF Return
<1>3. ~create_ec2_instance(w) /\ ~terminate_ec2_instances(w)
  BY <1>2 DEF create_ec2_instance, terminate_ec2_instances
<1>4. ~\E i \in Instances : save_node(w, i)
  BY <1>2 DEF save_node, KindInv
<1>5. ~CallRaises(w)
  BY <1>2 DEF CallRaises, Return
<1>6. CASE delete_instance_ids(w)
  BY <1>2, <1>6 DEF delete_instance_ids
<1>7. ASSUME NEW n \in DnsNames, hdel(w, n) PROVE toDelete[w] = {n}
  BY <1>2, <1>7 DEF hdel
<1> QED
  BY <1>1, <1>2, <1>3, <1>4, <1>5, <1>6, <1>7 DEF WorkerStep

\* "response" of a terminate task: the last entry it found is gone.
LEMMA ForgottenStep ==
    ASSUME FInv, [Next]_vars, KindInv', UnsavedInv', EndedInv', KeysInv'
    PROVE  ResponseMeansForgotten'
<1> USE DEF FInv, IInv, TypeOK
<1> SUFFICES ASSUME NEW t \in TaskIds, tasks'[t].kind = "terminate", result'[t] = "response",
                    NEW i \in tasks'[t].ids
             PROVE  vm'[i] \in Ended /\ ~Listed(i)'
  BY DEF ResponseMeansForgotten, Listed
<1>1. tasks'[t] = tasks[t] /\ result[t] # "absent"
  <2>1. CASE \E w \in Workers : WorkerStep(w) \/ WorkerDies(w)
    BY <2>1, WorkerStepShape DEF Return, JobInv
  <2>2. CASE ~\E w \in Workers : WorkerStep(w) \/ WorkerDies(w)
    BY <2>2 DEF Next, ApiStep, create_instances, terminate_namespace, Redeliver, apply_async, TakeTask,
                Ec2Terminated, Ec2Purged, vars
  <2>3. result[t] # "absent"
    BY <2>1, <2>2
  <2> QED
    BY <2>3, StableStep DEF Stable
<1>2. i \in Instances /\ i \in tasks[t].ids
  BY <1>1 DEF Task
<1>3. CASE result[t] = "response"
  <2>1. vm[i] \in Ended /\ ~Listed(i)
    BY <1>1, <1>2, <1>3 DEF ResponseMeansForgotten
  <2>2. vm'[i] \in Ended
    BY <1>2, <2>1, StableStep DEF Stable, Ended
  <2>3. \A w \in Workers : ~save_node(w, i)
    BY <1>1, <1>2 DEF save_node, UnsavedInv
  <2> QED
    BY <1>2, <2>1, <2>2, <2>3, NewlyListed
<1>4. CASE result[t] # "response"
  <2>1. PICK w \in Workers : /\ job[w] = t
                             /\ \/ delete_instance_ids(w) /\ corresponding_keys(w) = {}
                                \/ \E n \in DnsNames : hdel(w, n) /\ toDelete[w] = {n}
    BY <1>4, Outcomes
  <2>2. vm[i] \in Ended /\ vm' = vm
    <3>1. pc[w] \in Deleting /\ vm' = vm
      BY <2>1 DEF Deleting, delete_instance_ids, hdel, ec2Vars
    <3> QED
      BY <1>2, <2>1, <3>1 DEF EndedInv, ids
  <2>3. CASE delete_instance_ids(w) /\ corresponding_keys(w) = {}
    <3>1. ~Listed(i)
      BY <1>2, <2>1, <2>3 DEF corresponding_keys, Listed
    <3> QED
      BY <2>2, <2>3, <3>1 DEF Listed, delete_instance_ids
  <2>4. ASSUME NEW n \in DnsNames, hdel(w, n), toDelete[w] = {n} PROVE ~Listed(i)'
    <3>1. \A m \in DnsNames : nodes[m] # None /\ nodes[m].id = i => m = n
      BY <1>2, <2>1, <2>4 DEF KeysInv, ids, hdel
    <3> QED
      BY <2>4, <3>1 DEF hdel, Listed
  <2> QED
    BY <2>1, <2>2, <2>3, <2>4
<1> QED
  BY <1>3, <1>4

\* Every step keeps all of it.
LEMMA FInvStep == FInv /\ [Next]_vars => FInv'
<1> SUFFICES ASSUME FInv, [Next]_vars PROVE FInv'
  OBVIOUS
<1>1. IInv'
  BY IInvStep DEF FInv
<1>2. KindInv' /\ UnsavedInv' /\ EndedInv' /\ KeysInv'
  BY KindStep, UnsavedStep, EndedStep, KeysStep
<1>3. ResponseMeansForgotten'
  BY <1>2, ForgottenStep
<1> QED
  BY <1>1, <1>2, <1>3 DEF FInv

\* When terminate_worker_node returned the EC2 response, its instances are
\* going down and none of them is listed, whatever others saved meanwhile.
THEOREM ResponsesForget == Spec => []ResponseMeansForgotten
<1>1. FInv => ResponseMeansForgotten
  BY DEF FInv
<1> QED
  BY FInit, FInvStep, <1>1, PTL DEF Spec

-----------------------------------------------------------------------------
(* What "nodes" tells about instances that run, names given out again.       *)

\* An instance has a name once it is launched, and of two with the same name
\* one had ended, for EC2 too, before the other came.
NameInv ==
    /\ \A i \in Instances : dns[i] # None => vm[i] # "absent"
    /\ \A i, j \in Instances :
          i # j /\ dns[i] # None /\ dns[i] = dns[j] =>
            vm[i] \in {"terminated", "purged"} \/ vm[j] \in {"terminated", "purged"}

\* A name that is to be deleted is that of an instance of the task.
OwnedInv == \A w \in Workers : \A n \in toDelete[w] : \E i \in ids(w) : dns[i] = n

\* A running instance is listed, about to be, or its task told nobody, or its
\* name had an owner before it.
AccountedInv ==
    \A i \in Instances : vm[i] = "running" =>
        \/ Listed(i) \/ Shared(i)
        \/ \E w \in Workers : i \in toSave[w]
        \/ result[launcher[i]] \in {"empty", "lost"}

\* Whoever asks for the end of a running instance found it listed.
FoundInv ==
    \A t \in TaskIds : tasks[t].kind = "terminate" =>
        \A i \in tasks[t].ids : vm[i] = "running" => Listed(i) \/ Shared(i)

NInv == FInv /\ NameInv /\ OwnedInv /\ AccountedInv /\ FoundInv

\* Nothing runs at first.
LEMMA NInit == Init => NInv
<1> SUFFICES ASSUME Init PROVE NInv
  OBVIOUS
<1>1. NameInv /\ OwnedInv /\ AccountedInv /\ FoundInv
  BY DEF Init, NameInv, OwnedInv, AccountedInv, FoundInv, NoTask
<1> QED
  BY <1>1, FInit DEF NInv

\* What run_instances gives to new instances: names no living instance has.
LEMMA Launches ==
    ASSUME TypeOK, NEW w \in Workers, create_ec2_instance(w)
    PROVE  \E new \in SUBSET {i \in Instances : vm[i] = "absent"} :
             /\ vm' = [i \in Instances |-> IF i \in new THEN "running" ELSE vm[i]]
             /\ \A i \in Instances \ new : dns'[i] = dns[i]
             /\ \A i \in new : dns'[i] \in FreeNames
             /\ \A i, j \in new : dns'[i] = dns'[j] => i = j
<1>1. PICK new \in SUBSET {i \in Instances : vm[i] = "absent"} :
        /\ vm' = [i \in Instances |-> IF i \in new THEN "running" ELSE vm[i]]
        /\ \E name \in [new -> FreeNames] :
             /\ \A i, j \in new : name[i] = name[j] => i = j
             /\ dns' = [i \in Instances |-> IF i \in new THEN name[i] ELSE dns[i]]
  BY DEF create_ec2_instance
<1>2. PICK name \in [new -> FreeNames] :
        /\ \A i, j \in new : name[i] = name[j] => i = j
        /\ dns' = [i \in Instances |-> IF i \in new THEN name[i] ELSE dns[i]]
  BY <1>1
<1>3. \A i \in new : dns'[i] = name[i]
  BY <1>2
<1>4. \A i \in Instances \ new : dns'[i] = dns[i]
  BY <1>2
<1> QED
  BY <1>1, <1>2, <1>3, <1>4

\* Nothing but run_instances names an instance.
LEMMA NamesStay ==
    ASSUME [Next]_vars, ~\E w \in Workers : create_ec2_instance(w)
    PROVE  dns' = dns
  BY DEF Next, ApiStep, create_instances, terminate_namespace, Redeliver, apply_async, TakeTask,
         WorkerStep, save_node, terminate_ec2_instances, delete_instance_ids, hdel,
         CallRaises, WorkerDies, Ec2Terminated, Ec2Purged, vars, ec2Vars

\* An instance that is gone for EC2 stays so.
LEMMA EndsForGood ==
    ASSUME TypeOK, [Next]_vars, NEW i \in Instances, vm[i] \in {"terminated", "purged"}
    PROVE  vm'[i] \in {"terminated", "purged"}
<1> USE DEF TypeOK
<1>1. ASSUME NEW w \in Workers, create_ec2_instance(w) PROVE vm'[i] = vm[i]
  BY <1>1, Launches
<1>2. ASSUME NEW w \in Workers, terminate_ec2_instances(w) PROVE vm'[i] = vm[i]
  BY <1>2 DEF terminate_ec2_instances
<1>3. ASSUME NEW j \in Instances, Ec2Terminated(j) \/ Ec2Purged(j)
      PROVE  vm'[i] \in {"terminated", "purged"}
  BY <1>3 DEF Ec2Terminated, Ec2Purged
<1> QED
  BY <1>1, <1>2, <1>3
     DEF Next, ApiStep, create_instances, terminate_namespace, Redeliver, apply_async, TakeTask,
         WorkerStep, save_node, delete_instance_ids, hdel, CallRaises, WorkerDies, vars, ec2Vars

\* New names are free, and names of instances do not change.
LEMMA NameStep ==
    ASSUME NInv, [Next]_vars
    PROVE  NameInv'
<1> USE DEF NInv, FInv, IInv
<1>1. ASSUME NEW i \in Instances, dns'[i] # None PROVE vm'[i] # "absent"
  <2>1. CASE dns'[i] = dns[i]
    BY <1>1, <2>1, StableStep DEF NameInv, Stable
  <2>2. ASSUME NEW w \in Workers, create_ec2_instance(w), dns'[i] # dns[i]
        PROVE  vm'[i] # "absent"
    BY <2>2, Launches
  <2> QED
    BY <2>1, <2>2, NamesStay
<1>2. ASSUME NEW i \in Instances, NEW j \in Instances, i # j, dns'[i] # None, dns'[i] = dns'[j]
      PROVE  vm'[i] \in {"terminated", "purged"} \/ vm'[j] \in {"terminated", "purged"}
  <2>1. CASE dns'[i] = dns[i] /\ dns'[j] = dns[j]
    BY <1>2, <2>1, EndsForGood DEF NameInv
  <2>2. ASSUME NEW w \in Workers, create_ec2_instance(w), dns'[i] # dns[i] \/ dns'[j] # dns[j]
        PROVE  vm[i] \in {"terminated", "purged"} \/ vm[j] \in {"terminated", "purged"}
    <3>1. PICK new \in SUBSET {k \in Instances : vm[k] = "absent"} :
             /\ \A k \in Instances \ new : dns'[k] = dns[k]
             /\ \A k \in new : dns'[k] \in FreeNames
             /\ \A k, l \in new : dns'[k] = dns'[l] => k = l
      BY <2>2, Launches
    <3>2. CASE i \in new /\ j \notin new
      BY <1>2, <3>1, <3>2 DEF FreeNames
    <3>3. CASE j \in new /\ i \notin new
      BY <1>2, <3>1, <3>3 DEF FreeNames
    <3> QED
      BY <1>2, <2>2, <3>1, <3>2, <3>3
  <2> QED
    BY <2>1, <2>2, EndsForGood, NamesStay
<1> QED
  BY <1>1, <1>2 DEF NameInv

\* Two instances that had the same name have it for good.
LEMMA SharedStays ==
    ASSUME NInv, [Next]_vars, NEW i \in Instances, Shared(i)
    PROVE  Shared(i)'
<1> USE DEF NInv, FInv, IInv
<1>1. PICK j \in Instances \ {i} : dns[i] # None /\ dns[j] = dns[i]
  BY DEF Shared
<1>2. dns'[i] = dns[i] /\ dns'[j] = dns[j]
  BY <1>1, StableStep DEF NameInv, Stable
<1> QED
  BY <1>1, <1>2 DEF Shared

\* The entry of a running instance stays, unless another had its name.
LEMMA StaysListed ==
    ASSUME NInv, [Next]_vars, NEW i \in Instances, Listed(i), vm[i] \notin Ended
    PROVE  Listed(i)' \/ Shared(i)
<1> SUFFICES ASSUME ~Shared(i) PROVE Listed(i)'
  OBVIOUS
<1> USE DEF NInv, FInv, IInv, TypeOK
<1>1. PICK n \in DnsNames : nodes[n] # None /\ nodes[n].id = i
  BY DEF Listed
<1>2. dns[i] = n /\ n # None
  BY <1>1, FleetAssumption DEF EntryIsLaunchedNode
<1>3. \A j \in Instances : dns[j] = n => j = i
  BY <1>2 DEF Shared
<1>4. ASSUME NEW w \in Workers, NEW j \in Instances, save_node(w, j)
      PROVE  nodes'[n] # None /\ nodes'[n].id = i
  <2>1. nodes' = [nodes EXCEPT ![dns[j]] = [id |-> j, ns |-> tasks[job[w]].ns]]
    BY <1>4 DEF save_node
  <2>2. CASE dns[j] = n
    <3>1. nodes'[n] = [id |-> i, ns |-> tasks[job[w]].ns]
      BY <1>3, <2>1, <2>2
    <3>2. job[w] \in TaskIds
      BY <1>4 DEF save_node, JobInv
    <3>3. nodes'[n] \in Node
      BY <3>1, <3>2 DEF Node, Task
    <3> QED
      BY <3>1, <3>3, NoneIsNoNode
  <2>3. CASE dns[j] # n
    BY <1>1, <2>1, <2>3
  <2> QED
    BY <2>2, <2>3
<1>5. ASSUME NEW w \in Workers, NEW m \in DnsNames, hdel(w, m) PROVE m # n
  <2>1. PICK j \in ids(w) : dns[j] = m
    BY <1>5 DEF hdel, OwnedInv
  <2>2. j \in Instances /\ vm[j] \in Ended
    BY <1>5, <2>1 DEF hdel, EndedInv, Deleting, JobInv, ids, Task
  <2> QED
    BY <1>3, <2>1, <2>2
<1>6. nodes'[n] # None /\ nodes'[n].id = i
  BY <1>1, <1>4, <1>5, Writes DEF hdel
<1> QED
  BY <1>6 DEF Listed

\* The names a worker collects are those of its instances.
LEMMA OwnedStep ==
    ASSUME NInv, [Next]_vars
    PROVE  OwnedInv'
<1> USE DEF NInv, FInv, IInv, TypeOK
<1> SUFFICES ASSUME NEW w \in Workers, NEW n \in toDelete'[w]
             PROVE  \E i \in ids(w)' : dns'[i] = n
  BY DEF OwnedInv, ids
<1>1. pc'[w] = "hdel" /\ pc[w] \in Deleting
  BY KindStep, Calls DEF KindInv, Deleting, delete_instance_ids
<1>2. ids(w)' = ids(w) /\ job[w] \in TaskIds
  BY <1>1, Busy DEF Deleting
<1>3. \E i \in ids(w) : dns[i] = n
  <2>1. CASE n \in toDelete[w]
    BY <2>1 DEF OwnedInv
  <2>2. CASE n \notin toDelete[w]
    <3>1. n \in corresponding_keys(w)
      <4>1. CASE pc[w] = "hdel"
        BY <1>1, <2>2, <4>1, Calls DEF hdel, Return
      <4>2. CASE pc[w] # "hdel"
        BY <1>1, <4>2, Calls
      <4> QED
        BY <4>1, <4>2
    <3> QED
      BY <3>1 DEF corresponding_keys, ids, EntryIsLaunchedNode
  <2> QED
    BY <2>1, <2>2
<1>4. PICK i \in ids(w) : dns[i] = n
  BY <1>3
<1>5. i \in Instances /\ vm[i] # "absent"
  BY <1>1, <1>2, <1>4 DEF ids, Task, EndedInv, Ended
<1>6. dns'[i] = dns[i]
  BY <1>5, StableStep DEF Stable
<1> QED
  BY <1>2, <1>4, <1>6

\* What a task said stays said.
LEMMA Final ==
    ASSUME IInv, [Next]_vars, NEW t \in TaskIds, result[t] \in {"empty", "lost"}
    PROVE  result'[t] = result[t]
<1> USE DEF IInv, TypeOK
<1>1. CASE \E w \in Workers : WorkerStep(w) \/ WorkerDies(w)
  BY <1>1, WorkerStepShape DEF Return, JobInv
<1>2. CASE ~\E w \in Workers : WorkerStep(w) \/ WorkerDies(w)
  BY <1>2 DEF Next, ApiStep, create_instances, terminate_namespace, Redeliver, apply_async, TakeTask,
              Ec2Terminated, Ec2Purged, vars
<1> QED
  BY <1>1, <1>2

\* An instance that is no longer to save was saved, or its task gave up.
LEMMA Dropped ==
    ASSUME NInv, [Next]_vars, NEW w \in Workers, NEW i \in toSave[w], i \notin toSave'[w]
    PROVE  save_node(w, i) \/ result'[job[w]] \in {"empty", "lost"}
<1> USE DEF NInv, FInv, IInv, TypeOK
<1>1. pc[w] = "save" /\ job[w] \in TaskIds /\ tasks[job[w]].kind = "create"
  BY DEF SaveInv, JobInv, KindInv
<1>2. WorkerStep(w) \/ WorkerDies(w)
  <2>1. ASSUME NEW v \in Workers, v # w, WorkerStep(v) \/ WorkerDies(v) PROVE FALSE
    BY <2>1, WorkerStepShape
  <2> QED
    BY <2>1 DEF Next, ApiStep, create_instances, terminate_namespace, Redeliver, apply_async, TakeTask,
                Ec2Terminated, Ec2Purged, vars, workerVars
<1>3. CASE CallRaises(w) \/ WorkerDies(w)
  BY <1>1, <1>3 DEF CallRaises, WorkerDies, Return
<1>4. ASSUME NEW j \in Instances, save_node(w, j) PROVE j = i
  BY <1>4 DEF save_node, Return
<1> QED
  BY <1>1, <1>2, <1>3, <1>4
     DEF WorkerStep, create_ec2_instance, terminate_ec2_instances, delete_instance_ids, hdel

\* No step loses sight of a running instance.
LEMMA AccountedStep ==
    ASSUME NInv, [Next]_vars
    PROVE  AccountedInv'
<1> USE DEF NInv, FInv, IInv, TypeOK
<1> SUFFICES ASSUME NEW i \in Instances, vm'[i] = "running"
             PROVE  \/ Listed(i)' \/ Shared(i)'
                    \/ \E w \in Workers : i \in toSave'[w]
                    \/ result'[launcher'[i]] \in {"empty", "lost"}
  BY DEF AccountedInv, Listed, Shared
<1>1. CASE vm[i] = "absent"
  <2>1. PICK w \in Workers : create_ec2_instance(w)
    BY <1>1 DEF Next, ApiStep, create_instances, terminate_namespace, Redeliver, apply_async, TakeTask,
                WorkerStep, save_node, terminate_ec2_instances, delete_instance_ids, hdel,
                CallRaises, WorkerDies, Ec2Terminated, Ec2Purged, vars, ec2Vars
  <2>2. pc[w] # "idle" /\ job[w] \in TaskIds
    BY <2>1 DEF create_ec2_instance, JobInv
  <2>3. launcher'[i] = job[w] /\ (i \in toSave'[w] \/ Return(w, "empty"))
    BY <1>1, <2>1 DEF create_ec2_instance
  <2> QED
    BY <2>2, <2>3 DEF Return
<1>2. CASE vm[i] # "absent"
  <2>1. vm[i] \notin Ended /\ vm[i] = "running" /\ launcher'[i] = launcher[i]
    BY <1>2, StableStep DEF Stable, Ended
  <2>2. launcher[i] \in TaskIds
    BY <1>2 DEF LaunchInv
  <2>3. CASE Listed(i)
    BY <2>1, <2>3, StaysListed, SharedStays
  <2>4. ASSUME NEW w \in Workers, i \in toSave[w], i \notin toSave'[w]
        PROVE  Listed(i)' \/ result'[launcher[i]] \in {"empty", "lost"}
    <3>1. launcher[i] = job[w] /\ dns[i] \in DnsNames /\ job[w] \in TaskIds
      BY <2>4 DEF SaveInv, JobInv
    <3>2. CASE save_node(w, i)
      <4>1. nodes'[dns[i]] = [id |-> i, ns |-> tasks[job[w]].ns]
        BY <3>1, <3>2 DEF save_node
      <4>2. nodes'[dns[i]] \in Node
        BY <3>1, <4>1 DEF Node, Task
      <4> QED
        BY <3>1, <4>1, <4>2, NoneIsNoNode DEF Listed
    <3> QED
      BY <2>4, <3>1, <3>2, Dropped
  <2>5. CASE result[launcher[i]] \in {"empty", "lost"}
    BY <2>1, <2>2, <2>5, Final
  <2> QED
    BY <2>1, <2>3, <2>4, <2>5, SharedStays DEF AccountedInv
<1> QED
  BY <1>1, <1>2

\* The ids of a request are those of listed nodes, which stay listed.
LEMMA FoundStep ==
    ASSUME NInv, [Next]_vars
    PROVE  FoundInv'
<1> USE DEF NInv, FInv, IInv, TypeOK
<1> SUFFICES ASSUME NEW t \in TaskIds, tasks'[t].kind = "terminate",
                    NEW i \in tasks'[t].ids, vm'[i] = "running"
             PROVE  Listed(i)' \/ Shared(i)'
  BY DEF FoundInv, Listed, Shared
<1>1. i \in Instances
  BY TypeStep DEF Task
<1>2. vm[i] # "absent" /\ (vm[i] = "running" => Listed(i) \/ Shared(i))
  <2>1. CASE \E u \in TaskIds : tasks[u].kind = "terminate" /\ tasks'[t].ids = tasks[u].ids
    BY <2>1 DEF ScopeInv, FoundInv
  <2>2. CASE Listed(i)
    BY <2>2 DEF Listed, EntryIsLaunchedNode
  <2> QED
    BY <2>1, <2>2, NewIds
<1>3. vm[i] \notin Ended /\ vm[i] = "running"
  BY <1>1, <1>2, StableStep DEF Stable, Ended
<1> QED
  BY <1>1, <1>2, <1>3, StaysListed, SharedStays

\* Every step keeps all of it.
LEMMA NInvStep == NInv /\ [Next]_vars => NInv'
<1> SUFFICES ASSUME NInv, [Next]_vars PROVE NInv'
  OBVIOUS
<1>1. FInv'
  BY FInvStep DEF NInv
<1> QED
  BY <1>1, NameStep, OwnedStep, AccountedStep, FoundStep DEF NInv

\* When a run of create_worker_nodes returned the EC2 response, every instance
\* it launched and that still runs is in "nodes", whatever other tasks did,
\* second deliveries of its own among them; an instance with a name that
\* another one had before is excepted.
THEOREM ResponsesList == Spec => []ResponseMeansListed
<1>1. NInv => ResponseMeansListed
  BY DEF NInv, FInv, IInv, AccountedInv, ResponseMeansListed, SaveInv, JobInv
<1> QED
  BY NInit, NInvStep, <1>1, PTL DEF Spec

\* An entry is deleted only under a name of an ended instance of the task that
\* deletes it, although the names come from an earlier copy of the hash, by
\* hdel and by nothing else.
THEOREM OnlyOwnNamesAreDeleted == Spec => DeletesOwnNames
<1> DEFINE OwnNames ==
        \A n \in DnsNames : nodes[n] # None /\ nodes'[n] = None =>
            \E w \in Workers :
                /\ pc[w] = "hdel"
                /\ \E i \in tasks[job[w]].ids : dns[i] = n /\ vm[i] \in Ended
<1>1. ASSUME NInv, [Next]_vars, NEW n \in DnsNames, nodes[n] # None, nodes'[n] = None
      PROVE  \E w \in Workers :
                /\ pc[w] = "hdel"
                /\ \E i \in tasks[job[w]].ids : dns[i] = n /\ vm[i] \in Ended
  <2> USE DEF NInv, FInv, IInv, TypeOK
  <2>1. ASSUME NEW w \in Workers, NEW i \in Instances, save_node(w, i) PROVE FALSE
    <3>1. /\ nodes' = [nodes EXCEPT ![dns[i]] = [id |-> i, ns |-> tasks[job[w]].ns]]
          /\ job[w] \in TaskIds
      BY <1>1, <2>1 DEF save_node, JobInv
    <3>2. nodes'[n] = [id |-> i, ns |-> tasks[job[w]].ns]
      BY <1>1, <3>1
    <3>3. nodes'[n] \in Node
      BY <1>1, <3>1, <3>2 DEF Node, Task
    <3> QED
      BY <1>1, <3>3, NoneIsNoNode
  <2>2. PICK w \in Workers, m \in DnsNames : hdel(w, m)
    BY <1>1, <2>1, Writes
  <2>3. m = n /\ pc[w] = "hdel" /\ n \in toDelete[w]
    BY <1>1, <2>2 DEF hdel
  <2>4. PICK i \in ids(w) : dns[i] = n
    BY <1>1, <2>3 DEF OwnedInv
  <2>5. vm[i] \in Ended
    BY <1>1, <2>3, <2>4 DEF EndedInv, Deleting
  <2> QED
    BY <2>3, <2>4, <2>5 DEF ids
<1>2. NInv /\ [Next]_vars => [OwnNames]_vars
  BY <1>1
<1> HIDE DEF OwnNames
<1>3. Spec => [][OwnNames]_vars
  BY NInit, <1>2, NInvStep, PTL DEF Spec
<1> QED
  BY <1>3 DEF DeletesOwnNames, OwnNames

-----------------------------------------------------------------------------
(* The fleet implements NodeLifecycle, step by step.                         *)

\* Names are given out by run_instances alone: nobody else makes them shared.
LEMMA SharedSame ==
    ASSUME dns' = dns
    PROVE  shared' = shared
  BY DEF shared, Shared

\* What a save lists is the one instance it saves, which runs unlisted; what
\* it overwrites is the entry of an instance that ended.
LEMMA SaveLists ==
    ASSUME NInv, [Next]_vars, NEW w \in Workers, NEW i \in Instances, save_node(w, i)
    PROVE  /\ vm' = vm /\ vm[i] = "running" /\ ~Listed(i) /\ Listed(i)'
           /\ \A j \in Instances \ {i} :
                \/ Listed(j)' <=> Listed(j)
                \/ Listed(j) /\ ~Listed(j)' /\ Shared(j) /\ vm[j] \in Ended
<1> USE DEF NInv, FInv, IInv, TypeOK
<1>1. /\ i \in toSave[w] /\ vm' = vm /\ vm[i] # "absent" /\ dns[i] \in DnsNames
      /\ job[w] \in TaskIds
      /\ nodes' = [nodes EXCEPT ![dns[i]] = [id |-> i, ns |-> tasks[job[w]].ns]]
  BY DEF save_node, ec2Vars, SaveInv, JobInv
<1>2. ~Listed(i) /\ vm[i] = "running"
  BY <1>1 DEF UnsavedInv, IsolatedTermination, Ended
<1>3. Listed(i)'
  <2>1. nodes'[dns[i]] = [id |-> i, ns |-> tasks[job[w]].ns]
    BY <1>1
  <2>2. nodes'[dns[i]] \in Node
    BY <1>1, <2>1 DEF Node, Task
  <2> QED
    BY <1>1, <2>1, <2>2, NoneIsNoNode DEF Listed
<1>4. ASSUME NEW j \in Instances, j # i
      PROVE  \/ Listed(j)' <=> Listed(j)
             \/ Listed(j) /\ ~Listed(j)' /\ Shared(j) /\ vm[j] \in Ended
  <2>1. ASSUME NEW n \in DnsNames, nodes'[n] # None, nodes'[n].id = j PROVE nodes'[n] = nodes[n]
    BY <1>1, <1>4, <2>1
  <2>2. Listed(j)' => Listed(j)
    BY <2>1 DEF Listed
  <2>3. ASSUME Listed(j), ~Listed(j)' PROVE Shared(j) /\ vm[j] \in Ended
    <3>1. PICK n \in DnsNames : nodes[n] # None /\ nodes[n].id = j
      BY <2>3 DEF Listed
    <3>2. nodes'[n] # nodes[n]
      BY <2>3, <3>1 DEF Listed
    <3>3. dns[j] = n /\ n = dns[i]
      BY <1>1, <3>1, <3>2 DEF EntryIsLaunchedNode
    <3>4. dns[j] # None
      BY <3>3, FleetAssumption
    <3>5. vm[j] \in {"terminated", "purged"}
      BY <1>2, <1>4, <3>3, <3>4 DEF NameInv
    <3> QED
      BY <1>4, <3>3, <3>4, <3>5 DEF Shared, Ended
  <2> QED
    BY <2>2, <2>3
<1> QED
  BY <1>1, <1>2, <1>3, <1>4

\* What an hdel drops is the one instance whose entry it was, which has ended
\* or shares its name with one that has.
LEMMA HdelForgets ==
    ASSUME NInv, [Next]_vars, NEW w \in Workers, NEW n \in DnsNames, hdel(w, n)
    PROVE  /\ vm' = vm
           /\ \/ \A j \in Instances : Listed(j)' <=> Listed(j)
              \/ \E i \in Instances :
                    /\ vm[i] \in Ended \/ Shared(i)
                    /\ vm[i] # "absent" /\ Listed(i) /\ ~Listed(i)'
                    /\ \A j \in Instances \ {i} : Listed(j)' <=> Listed(j)
<1> USE DEF NInv, FInv, IInv, TypeOK
<1>1. vm' = vm /\ nodes' = [nodes EXCEPT ![n] = None] /\ pc[w] = "hdel" /\ n \in toDelete[w]
  BY DEF hdel, ec2Vars
<1>2. CASE nodes[n] = None
  <2>1. nodes' = nodes
    BY <1>1, <1>2
  <2> QED
    BY <1>1, <2>1 DEF Listed
<1>3. CASE nodes[n] # None
  <2>1. PICK i \in Instances : nodes[n].id = i /\ dns[i] = n /\ vm[i] # "absent"
    BY <1>3 DEF EntryIsLaunchedNode, Node
  <2>2. PICK k \in ids(w) : dns[k] = n
    BY <1>1 DEF OwnedInv
  <2>3. k \in Instances /\ vm[k] \in Ended
    BY <1>1, <2>2 DEF EndedInv, Deleting, JobInv, ids, Task
  <2>4. vm[i] \in Ended \/ Shared(i)
    BY <2>1, <2>2, <2>3, FleetAssumption DEF Shared
  <2>5. Listed(i)
    BY <1>3, <2>1 DEF Listed
  <2>6. \A m \in DnsNames : nodes[m] # None /\ nodes[m].id = i => m = n
    BY <2>1 DEF EntryIsLaunchedNode
  <2>7. ~Listed(i)'
    BY <1>1, <2>6 DEF Listed
  <2>8. \A j \in Instances \ {i} : Listed(j)' <=> Listed(j)
    BY <1>1, <2>1 DEF Listed
  <2> QED
    BY <1>1, <2>1, <2>4, <2>5, <2>7, <2>8
<1> QED
  BY <1>2, <1>3

\* A batch is launched as a whole, and nobody lists it yet.
LEMMA LaunchPhase ==
    ASSUME NInv, [Next]_vars, NEW w \in Workers, create_ec2_instance(w)
    PROVE  \E S \in SUBSET Instances : Lifecycle!Launch(S)
<1> USE DEF NInv, FInv, IInv
<1>1. PICK S \in SUBSET {i \in Instances : vm[i] = "absent"} :
        /\ vm' = [i \in Instances |-> IF i \in S THEN "running" ELSE vm[i]]
        /\ \A i \in Instances \ S : dns'[i] = dns[i]
        /\ \A i \in S : dns'[i] \in FreeNames
  BY Launches
<1>2. nodes' = nodes
  BY DEF create_ec2_instance
<1>3. \A i \in Instances : (Listed(i)' <=> Listed(i)) /\ (vm[i] = "absent" => ~Listed(i))
  BY <1>2 DEF Listed, EntryIsLaunchedNode
<1>4. ASSUME NEW i \in S PROVE phase[i] = "absent"
  <2>1. i \in Instances /\ vm[i] = "absent"
    BY <1>1
  <2> QED
    BY <2>1 DEF phase
<1>5. phase' = [i \in Instances |-> IF i \in S THEN "unlisted" ELSE phase[i]]
  BY <1>1, <1>3 DEF phase
<1>6. shared \subseteq shared'
  BY SharedStays DEF shared
<1>7. ASSUME NEW i \in shared' \ shared, i \notin S PROVE phase[i] \in {"ending", "gone"}
  <2>1. i \in Instances /\ Shared(i)' /\ ~Shared(i)
    BY <1>7 DEF shared
  <2>2. PICK j \in Instances \ {i} : dns'[i] # None /\ dns'[j] = dns'[i]
    BY <2>1 DEF Shared
  <2>3. dns'[i] = dns[i]
    BY <1>1, <1>7, <2>1
  <2>4. j \in S
    BY <1>1, <2>1, <2>2, <2>3 DEF Shared
  <2>5. vm[i] \in {"terminated", "purged"}
    BY <1>1, <2>1, <2>2, <2>3, <2>4 DEF FreeNames
  <2> QED
    BY <2>1, <2>5 DEF phase
<1>8. S \in SUBSET Instances /\ Lifecycle!Launch(S)
  BY <1>4, <1>5, <1>6, <1>7 DEF Lifecycle!Launch, Lifecycle!Move
<1> QED
  BY <1>8

\* All running instances of the request end together, and all are listed but
\* those that lost their entry to a former owner of the name.
LEMMA EndPhase ==
    ASSUME NInv, [Next]_vars, NEW w \in Workers, terminate_ec2_instances(w)
    PROVE  \E S, dropped \in SUBSET Instances : Lifecycle!End(S, dropped)
<1> USE DEF NInv, FInv, IInv, TypeOK
<1> DEFINE Running == {i \in Instances : i \in ids(w) /\ vm[i] = "running"}
           S == {i \in Running : Listed(i)}
           dropped == {i \in Running : ~Listed(i)}
<1>1. /\ vm' = [i \in Instances |->
                  IF i \in ids(w) /\ vm[i] = "running" THEN "shutting-down" ELSE vm[i]]
      /\ nodes' = nodes /\ dns' = dns
      /\ tasks[job[w]].kind = "terminate" /\ job[w] \in TaskIds
  BY DEF terminate_ec2_instances, ids, JobInv
<1>2. \A i \in Instances : Listed(i)' <=> Listed(i)
  BY <1>1 DEF Listed
<1>3. ASSUME NEW i \in S PROVE phase[i] = "listed"
  BY DEF phase
<1>4. ASSUME NEW i \in dropped PROVE i \in shared /\ phase[i] = "unlisted"
  <2>1. Shared(i)
    BY <1>1 DEF FoundInv, ids
  <2> QED
    BY <2>1 DEF phase, shared
<1>5. ASSUME NEW i \in Instances
      PROVE  phase'[i] = IF i \in S THEN "ending" ELSE IF i \in dropped THEN "gone" ELSE phase[i]
  <2>1. CASE i \in Running
    <3>1. vm'[i] = "shutting-down"
      BY <1>1, <2>1
    <3> QED
      BY <1>2, <2>1, <3>1 DEF phase, Ended
  <2>2. CASE i \notin Running
    <3>1. vm'[i] = vm[i]
      BY <1>1, <2>2
    <3> QED
      BY <1>2, <2>2, <3>1 DEF phase
  <2> QED
    BY <2>1, <2>2
<1>6. phase' = [i \in Instances |-> IF i \in S THEN "ending"
                                    ELSE IF i \in dropped THEN "gone" ELSE phase[i]]
  BY <1>5 DEF phase
<1>7. shared' = shared
  BY <1>1, SharedSame
<1>8. S \in SUBSET Instances /\ dropped \in SUBSET Instances /\ Lifecycle!End(S, dropped)
  BY <1>3, <1>4, <1>6, <1>7 DEF Lifecycle!End
<1> QED
  BY <1>8

\* A saved instance becomes listed; the former owner of its name is forgotten.
LEMMA SavePhase ==
    ASSUME NInv, [Next]_vars, NEW w \in Workers, NEW i \in Instances, save_node(w, i)
    PROVE  \E former \in SUBSET Instances : Lifecycle!List(i, former)
<1> DEFINE former == {j \in Instances \ {i} : Listed(j) /\ ~Listed(j)'}
<1>1. /\ vm' = vm /\ vm[i] = "running" /\ ~Listed(i) /\ Listed(i)'
      /\ \A j \in Instances \ {i} :
           \/ Listed(j)' <=> Listed(j)
           \/ Listed(j) /\ ~Listed(j)' /\ Shared(j) /\ vm[j] \in Ended
  BY SaveLists
<1>2. phase[i] = "unlisted" /\ phase'[i] = "listed"
  BY <1>1 DEF phase
<1>3. ASSUME NEW j \in former PROVE j \in shared /\ phase[j] = "ending" /\ phase'[j] = "gone"
  <2>1. j \in Instances /\ Listed(j) /\ ~Listed(j)' /\ Shared(j) /\ vm[j] \in Ended /\ vm'[j] = vm[j]
    BY <1>1
  <2> QED
    BY <2>1 DEF phase, shared, Ended
<1>4. ASSUME NEW j \in Instances, j # i, j \notin former PROVE phase'[j] = phase[j]
  <2>1. (Listed(j)' <=> Listed(j)) /\ vm'[j] = vm[j]
    BY <1>1, <1>4
  <2> QED
    BY <2>1 DEF phase
<1>5. phase' = [j \in Instances |-> IF j = i THEN "listed"
                                    ELSE IF j \in former THEN "gone" ELSE phase[j]]
  BY <1>2, <1>3, <1>4 DEF phase
<1>6. shared' = shared
  BY SharedSame DEF save_node, ec2Vars
<1>7. former \in SUBSET Instances /\ Lifecycle!List(i, former)
  BY <1>2, <1>3, <1>5, <1>6 DEF Lifecycle!List
<1> QED
  BY <1>7

\* A deleted entry is that of an instance that ended, or shared its name.
LEMMA HdelPhase ==
    ASSUME NInv, [Next]_vars, NEW w \in Workers, NEW n \in DnsNames, hdel(w, n)
    PROVE  \/ UNCHANGED <<phase, shared>>
           \/ \E i \in Instances : Lifecycle!Forget(i) \/ Lifecycle!Drop(i)
<1>1. /\ vm' = vm
      /\ \/ \A j \in Instances : Listed(j)' <=> Listed(j)
         \/ \E i \in Instances :
               /\ vm[i] \in Ended \/ Shared(i)
               /\ vm[i] # "absent" /\ Listed(i) /\ ~Listed(i)'
               /\ \A j \in Instances \ {i} : Listed(j)' <=> Listed(j)
  BY HdelForgets
<1>2. shared' = shared
  BY SharedSame DEF hdel, ec2Vars
<1>3. CASE \A j \in Instances : Listed(j)' <=> Listed(j)
  <2>1. ASSUME NEW j \in Instances PROVE phase'[j] = phase[j]
    BY <1>1, <1>3 DEF phase
  <2> QED
    BY <1>2, <2>1 DEF phase
<1>4. ASSUME NEW i \in Instances, vm[i] \in Ended \/ Shared(i), vm[i] # "absent",
             Listed(i), ~Listed(i)', \A j \in Instances \ {i} : Listed(j)' <=> Listed(j)
      PROVE  Lifecycle!Forget(i) \/ Lifecycle!Drop(i)
  <2>1. ASSUME NEW j \in Instances \ {i} PROVE phase'[j] = phase[j]
    BY <1>1, <1>4 DEF phase
  <2>2. CASE vm[i] \in Ended
    <3>1. phase[i] = "ending" /\ phase'[i] = "gone"
      BY <1>1, <1>4, <2>2 DEF phase, Ended
    <3>2. phase' = [j \in Instances |-> IF j \in {i} THEN "gone" ELSE phase[j]]
      BY <2>1, <3>1 DEF phase
    <3> QED
      BY <1>2, <3>1, <3>2 DEF Lifecycle!Forget, Lifecycle!Move
  <2>3. CASE vm[i] \notin Ended
    <3>1. vm[i] = "running"
      BY <1>4, <2>3 DEF NInv, FInv, IInv, TypeOK
    <3>2. phase[i] = "listed" /\ phase'[i] = "unlisted" /\ i \in shared
      BY <1>1, <1>4, <2>3, <3>1 DEF phase, shared
    <3>3. phase' = [j \in Instances |-> IF j \in {i} THEN "unlisted" ELSE phase[j]]
      BY <2>1, <3>2 DEF phase
    <3> QED
      BY <1>2, <3>2, <3>3 DEF Lifecycle!Drop, Lifecycle!Move
  <2> QED
    BY <2>2, <2>3
<1> QED
  BY <1>1, <1>3, <1>4

\* Every step of the fleet is one of NodeLifecycle, or none.
LEMMA PhaseStep ==
    ASSUME NInv, [Next]_vars
    PROVE  Lifecycle!Next \/ UNCHANGED <<phase, shared>>
<1>1. ASSUME NEW w \in Workers, create_ec2_instance(w) PROVE Lifecycle!Next
  BY <1>1, LaunchPhase DEF Lifecycle!Next
<1>2. ASSUME NEW w \in Workers, terminate_ec2_instances(w) PROVE Lifecycle!Next
  BY <1>2, EndPhase DEF Lifecycle!Next
<1>3. ASSUME NEW w \in Workers, NEW i \in Instances, save_node(w, i) PROVE Lifecycle!Next
  BY <1>3, SavePhase DEF Lifecycle!Next
<1>4. ASSUME NEW w \in Workers, NEW n \in DnsNames, hdel(w, n)
      PROVE  Lifecycle!Next \/ UNCHANGED <<phase, shared>>
  BY <1>4, HdelPhase DEF Lifecycle!Next
<1>5. CASE /\ nodes' = nodes /\ dns' = dns
           /\ \A i \in Instances : \/ vm'[i] = vm[i]
                                   \/ vm[i] \in Ended /\ vm'[i] \in Ended
  <2>1. \A i \in Instances : Listed(i)' <=> Listed(i)
    BY <1>5 DEF Listed
  <2>2. ASSUME NEW i \in Instances PROVE phase'[i] = phase[i]
    BY <1>5, <2>1 DEF phase, Ended
  <2> QED
    BY <1>5, <2>2, SharedSame DEF phase
<1>6. CASE \E i \in Instances : Ec2Terminated(i) \/ Ec2Purged(i)
  BY <1>5, <1>6 DEF Ec2Terminated, Ec2Purged, Ended, NInv, FInv, IInv, TypeOK
<1>7. CASE UNCHANGED <<vm, dns, nodes>>
  BY <1>5, <1>7
<1> QED
  BY <1>1, <1>2, <1>3, <1>4, <1>6, <1>7
     DEF Next, ApiStep, create_instances, terminate_namespace, Redeliver, apply_async, TakeTask,
         WorkerStep, delete_instance_ids, CallRaises, WorkerDies, vars, ec2Vars

\* As its clients see it, an instance lives once and in one direction: it is
\* launched, listed, ended while it is listed, and forgotten after that; only
\* one that shares its name with another may lose its entry on the way.
THEOREM LifecycleImplemented == Spec => ImplementsLifecycle
<1>1. Init => Lifecycle!Init
  BY DEF Init, Lifecycle!Init, phase, shared, Shared
<1>2. NInv /\ [Next]_vars => [Lifecycle!Next]_<<phase, shared>>
  BY PhaseStep
<1> QED
  BY NInit, NInvStep, <1>1, <1>2, PTL DEF Spec, ImplementsLifecycle, Lifecycle!Spec
=============================================================================
