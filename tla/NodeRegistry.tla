---------------------------- MODULE NodeRegistry ----------------------------
(* The worker fleet.  The API server (server/main_api.py) turns requests     *)
(* into Celery tasks on the aws_interface queue; worker processes execute    *)
(* create_worker_nodes and terminate_worker_node (aws_tasks.py), which drive *)
(* EC2 (aws_interface.py) and the Redis hash "nodes" (redis_interface.py).   *)
(* Every call to EC2 or Redis is one step, so tasks of different workers     *)
(* interleave between calls, and a worker may die between two of them.       *)
EXTENDS Integers, FiniteSets

CONSTANTS
    Namespaces,   \* customer namespaces
    Instances,    \* EC2 instance ids, each given out once
    DnsNames,     \* private DNS names of the subnet
    Workers,      \* worker processes that consume the aws_interface queue
    MaxTasks,     \* bound: deliveries of task messages
    Batches,      \* inputs: pairs of MinCount and MaxCount
    Faults,       \* an EC2 or Redis call may raise, a worker may die
    None          \* no value: no name yet, no node under a name

ASSUME FleetAssumption ==
    /\ MaxTasks \in Nat
    /\ Batches \subseteq (Nat \ {0}) \X (Nat \ {0})
    /\ Faults \in BOOLEAN
    /\ None \notin DnsNames \cup Namespaces

VARIABLES
    tasks,     \* delivery of a task message -> what was submitted
    result,    \* delivery -> its progress, then what the task returned
    vm,        \* EC2: state of each instance
    dns,       \* EC2: PrivateDnsName of each instance
    launcher,  \* EC2: the delivery whose run launched the instance (0: none);
               \* the task's namespace is the instance's Namespace tag
    nodes,     \* Redis hash "nodes": name -> InstanceId and NameSpace
    pc,        \* worker -> the call its task makes next
    job,       \* worker -> the delivery it executes (0: none)
    toSave,    \* worker -> instances whose save_node is still to come
    toDelete   \* worker -> names whose hdel is still to come

ec2Vars == <<vm, dns, launcher>>
workerVars == <<pc, job, toSave, toDelete>>
vars == <<tasks, result, vm, dns, launcher, nodes, pc, job, toSave, toDelete>>

TaskIds == 1..MaxTasks

Task == [kind : {"none", "create", "terminate"}, ns : Namespaces \cup {None},
         min : Nat, max : Nat, ids : SUBSET Instances]

NoTask == [kind |-> "none", ns |-> None, min |-> 0, max |-> 0, ids |-> {}]

Node == [id : Instances, ns : Namespaces \cup {None}]

ASSUME NoneIsNoNode == None \notin Node

\* The states EC2 reports for an instance whose termination it accepted;
\* "purged": EC2 no longer knows the id.
Ended == {"shutting-down", "terminated", "purged"}

TypeOK ==
    /\ tasks \in [TaskIds -> Task]
    /\ result \in [TaskIds -> {"absent", "queued", "started", "response",
                               "empty", "none", "lost"}]
    /\ vm \in [Instances -> {"absent", "running"} \cup Ended]
    /\ dns \in [Instances -> DnsNames \cup {None}]
    /\ launcher \in [Instances -> {0} \cup TaskIds]
    /\ nodes \in [DnsNames -> Node \cup {None}]
    /\ pc \in [Workers -> {"idle", "call", "save", "list", "hdel"}]
    /\ job \in [Workers -> {0} \cup TaskIds]
    /\ toSave \in [Workers -> SUBSET Instances]
    /\ toDelete \in [Workers -> SUBSET DnsNames]

Init ==
    /\ tasks = [t \in TaskIds |-> NoTask]
    /\ result = [t \in TaskIds |-> "absent"]
    /\ vm = [i \in Instances |-> "absent"]
    /\ dns = [i \in Instances |-> None]
    /\ launcher = [i \in Instances |-> 0]
    /\ nodes = [n \in DnsNames |-> None]
    /\ pc = [w \in Workers |-> "idle"]
    /\ job = [w \in Workers |-> 0]
    /\ toSave = [w \in Workers |-> {}]
    /\ toDelete = [w \in Workers |-> {}]

-----------------------------------------------------------------------------
(* The API server.  Its handlers never await between their Redis read and    *)
(* the submission, and a submitted task is noticed by the worker that takes  *)
(* it and by nobody else: read and submission are one step.                  *)

apply_async(t, task) ==
    /\ result[t] = "absent"
    /\ \A u \in 1..(t - 1) : result[u] # "absent"
    /\ tasks' = [tasks EXCEPT ![t] = task]
    /\ result' = [result EXCEPT ![t] = "queued"]
    /\ UNCHANGED <<ec2Vars, nodes, workerVars>>

create_instances(t, ns, min, max) ==
    apply_async(t, [kind |-> "create", ns |-> ns, min |-> min, max |-> max,
                    ids |-> {}])

\* Bug: the NameSpace of the entries is not compared.
ids_of_every_namespace(ns) ==
    {nodes[n].id : n \in {m \in DnsNames : nodes[m] # None}}

get_instance_ids_namespace(ns) ==
    {nodes[n].id : n \in {m \in DnsNames : nodes[m] # None /\ nodes[m].ns = ns}}

\* With no node listed the handler answers "No instances found" and submits
\* nothing.
terminate_namespace(t, ns) ==
    /\ get_instance_ids_namespace(ns) # {}
    /\ apply_async(t, [kind |-> "terminate", ns |-> ns, min |-> 0, max |-> 0,
                       ids |-> get_instance_ids_namespace(ns)])

\* The visibility timeout of the broker is left at its default: a message that
\* waits longer in the buffer of a busy worker is queued again, and both
\* deliveries run.  The second one is u.
Redeliver(t, u) ==
    /\ result[t] = "queued"
    /\ \E w \in Workers : pc[w] # "idle"
    /\ apply_async(u, tasks[t])

-----------------------------------------------------------------------------
(* A worker process.  Celery acknowledges a message before it runs the task, *)
(* and each worker holds prefetched messages, so any queued task may be next. *)

TakeTask(w, t) ==
    /\ pc[w] = "idle"
    /\ result[t] = "queued"
    /\ result' = [result EXCEPT ![t] = "started"]
    /\ job' = [job EXCEPT ![w] = t]
    /\ pc' = [pc EXCEPT ![w] = "call"]
    /\ UNCHANGED <<tasks, ec2Vars, nodes, toSave, toDelete>>

\* Bug: the result of the task is not stored.
return_unreported(w, r) ==
    /\ UNCHANGED result
    /\ pc' = [pc EXCEPT ![w] = "idle"]
    /\ job' = [job EXCEPT ![w] = 0]
    /\ toSave' = [toSave EXCEPT ![w] = {}]
    /\ toDelete' = [toDelete EXCEPT ![w] = {}]

\* The task function of worker w returns r (or never returns: "lost").
Return(w, r) ==
    /\ result' = [result EXCEPT ![job[w]] = r]
    /\ pc' = [pc EXCEPT ![w] = "idle"]
    /\ job' = [job EXCEPT ![w] = 0]
    /\ toSave' = [toSave EXCEPT ![w] = {}]
    /\ toDelete' = [toDelete EXCEPT ![w] = {}]

\* Names EC2 can give to a new instance: they stand for the addresses of the
\* subnet, and that of a terminated instance is free again.
FreeNames ==
    {n \in DnsNames : \A i \in Instances :
        dns[i] = n => vm[i] \in {"terminated", "purged"}}

\* run_instances: EC2 launches between MinCount and MaxCount instances and
\* refuses MinCount > MaxCount.  The comprehension that follows indexes the
\* response up to MaxCount: with fewer instances it raises IndexError, the
\* task swallows it and returns "".
create_ec2_instance(w) ==
    LET task == tasks[job[w]] IN
    /\ pc[w] = "call"
    /\ task.kind = "create"
    /\ \E new \in SUBSET {i \in Instances : vm[i] = "absent"} :
        /\ Cardinality(new) \in task.min..task.max
        /\ \E name \in [new -> FreeNames] :
            /\ \A i, j \in new : name[i] = name[j] => i = j
            /\ dns' = [i \in Instances |-> IF i \in new THEN name[i] ELSE dns[i]]
        /\ vm' = [i \in Instances |-> IF i \in new THEN "running" ELSE vm[i]]
        /\ launcher' = [i \in Instances |->
                            IF i \in new THEN job[w] ELSE launcher[i]]
        /\ \/ /\ Cardinality(new) = task.max
              /\ pc' = [pc EXCEPT ![w] = "save"]
              /\ toSave' = [toSave EXCEPT ![w] = new]
              /\ UNCHANGED <<result, job, toDelete>>
           \/ /\ Cardinality(new) < task.max
              /\ Return(w, "empty")
    /\ UNCHANGED <<tasks, nodes>>

\* Bug: the loop returns after its first round.
save_first_node(w, i) ==
    /\ pc[w] = "save"
    /\ i \in toSave[w]
    /\ nodes' = [nodes EXCEPT ![dns[i]] = [id |-> i, ns |-> tasks[job[w]].ns]]
    /\ Return(w, "response")
    /\ UNCHANGED <<tasks, ec2Vars>>

\* Bug: names and instances of the batch are paired by chance.
save_mispaired(w, i) ==
    /\ pc[w] = "save"
    /\ i \in toSave[w]
    /\ \E j \in toSave[w] :
        nodes' = [nodes EXCEPT ![dns[j]] = [id |-> i, ns |-> tasks[job[w]].ns]]
    /\ \/ /\ toSave[w] = {i}
          /\ Return(w, "response")
       \/ /\ toSave[w] # {i}
          /\ toSave' = [toSave EXCEPT ![w] = @ \ {i}]
          /\ UNCHANGED <<result, pc, job, toDelete>>
    /\ UNCHANGED <<tasks, ec2Vars>>

\* One round of the save loop; after the last one the response is returned.
save_node(w, i) ==
    /\ pc[w] = "save"
    /\ i \in toSave[w]
    /\ nodes' = [nodes EXCEPT ![dns[i]] = [id |-> i, ns |-> tasks[job[w]].ns]]
    /\ \/ /\ toSave[w] = {i}
          /\ Return(w, "response")
       \/ /\ toSave[w] # {i}
          /\ toSave' = [toSave EXCEPT ![w] = @ \ {i}]
          /\ UNCHANGED <<result, pc, job, toDelete>>
    /\ UNCHANGED <<tasks, ec2Vars>>

\* terminate_instances is all or nothing: EC2 rejects the call when it does
\* not know one of the ids, and accepts ids that are already shutting down.
terminate_ec2_instances(w) ==
    LET task == tasks[job[w]] IN
    /\ pc[w] = "call"
    /\ task.kind = "terminate"
    /\ \A i \in task.ids : vm[i] # "purged"
    /\ vm' = [i \in Instances |->
                IF i \in task.ids /\ vm[i] = "running" THEN "shutting-down"
                                                       ELSE vm[i]]
    /\ pc' = [pc EXCEPT ![w] = "list"]
    /\ UNCHANGED <<tasks, result, dns, launcher, nodes, job, toSave, toDelete>>

\* Bug: the InstanceId of the entries is not compared.
all_keys(w) == {n \in DnsNames : nodes[n] # None}

\* Bug: the instance ids are taken for the keys of the hash.
ids_as_keys(w) == tasks[job[w]].ids

\* The names whose entry belongs to an instance of the task.
corresponding_keys(w) ==
    {n \in DnsNames : nodes[n] # None /\ nodes[n].id \in tasks[job[w]].ids}

\* delete_instance_ids reads the whole hash once ...
delete_instance_ids(w) ==
    /\ pc[w] = "list"
    /\ \/ /\ corresponding_keys(w) = {}
          /\ Return(w, "response")
       \/ /\ corresponding_keys(w) # {}
          /\ pc' = [pc EXCEPT ![w] = "hdel"]
          /\ toDelete' = [toDelete EXCEPT ![w] = corresponding_keys(w)]
          /\ UNCHANGED <<result, job, toSave>>
    /\ UNCHANGED <<tasks, ec2Vars, nodes>>

\* ... and then deletes by name, one hdel at a time.
hdel_first(w, n) ==   \* Bug: the loop returns after its first round.
    /\ pc[w] = "hdel"
    /\ n \in toDelete[w]
    /\ nodes' = [nodes EXCEPT ![n] = None]
    /\ Return(w, "response")
    /\ UNCHANGED <<tasks, ec2Vars>>

hdel(w, n) ==
    /\ pc[w] = "hdel"
    /\ n \in toDelete[w]
    /\ nodes' = [nodes EXCEPT ![n] = None]
    /\ \/ /\ toDelete[w] = {n}
          /\ Return(w, "response")
       \/ /\ toDelete[w] # {n}
          /\ toDelete' = [toDelete EXCEPT ![w] = @ \ {n}]
          /\ UNCHANGED <<result, pc, job, toSave>>
    /\ UNCHANGED <<tasks, ec2Vars>>

\* EC2 refuses an impossible count, runs out of capacity or of addresses, or
\* does not know an id.
Rejected(w) ==
    LET task == tasks[job[w]] IN
    /\ pc[w] = "call"
    /\ \/ /\ task.kind = "create"
          /\ \/ task.min > task.max
             \/ task.min > Cardinality({i \in Instances : vm[i] = "absent"})
             \/ task.min > Cardinality(FreeNames)
       \/ task.kind = "terminate" /\ \E i \in task.ids : vm[i] = "purged"

\* EC2 or Redis raises: create_worker_nodes returns "", while
\* terminate_ec2_instances swallows the exception and returns None ("none" is
\* also the "" of a client that could not be built: no reader tells them apart).
CallRaises(w) ==
    /\ pc[w] # "idle"
    /\ Faults \/ Rejected(w)
    /\ Return(w, IF tasks[job[w]].kind = "create" THEN "empty" ELSE "none")
    /\ UNCHANGED <<tasks, ec2Vars, nodes>>

\* The message was acknowledged when the task started: nothing redelivers it.
WorkerDies(w) ==
    /\ Faults
    /\ pc[w] # "idle"
    /\ Return(w, "lost")
    /\ UNCHANGED <<tasks, ec2Vars, nodes>>

-----------------------------------------------------------------------------
(* EC2 on its own: an instance goes down, and later its record disappears.   *)

Ec2Terminated(i) ==
    /\ vm[i] = "shutting-down"
    /\ vm' = [vm EXCEPT ![i] = "terminated"]
    /\ UNCHANGED <<tasks, result, dns, launcher, nodes, workerVars>>

Ec2Purged(i) ==
    /\ vm[i] = "terminated"
    /\ vm' = [vm EXCEPT ![i] = "purged"]
    /\ UNCHANGED <<tasks, result, dns, launcher, nodes, workerVars>>

-----------------------------------------------------------------------------
ApiStep ==
    \E t \in TaskIds, ns \in Namespaces :
        \/ \E batch \in Batches : create_instances(t, ns, batch[1], batch[2])
        \/ terminate_namespace(t, ns)

WorkerStep(w) ==
    \/ create_ec2_instance(w)
    \/ \E i \in Instances : save_node(w, i)
    \/ terminate_ec2_instances(w)
    \/ delete_instance_ids(w)
    \/ \E n \in DnsNames : hdel(w, n)
    \/ CallRaises(w)

Next ==
    \/ ApiStep
    \/ \E t, u \in TaskIds : Redeliver(t, u)
    \/ \E w \in Workers : (\E t \in TaskIds : TakeTask(w, t)) \/ WorkerStep(w)
    \/ \E w \in Workers : WorkerDies(w)
    \/ \E i \in Instances : Ec2Terminated(i) \/ Ec2Purged(i)

Spec == Init /\ [][Next]_vars

\* A live worker keeps executing its task, and Celery delivers every queued
\* message to some worker.  Nothing obliges a client to send requests.
Fairness ==
    /\ \A w \in Workers : WF_vars(WorkerStep(w))
    /\ \A t \in TaskIds : WF_vars(\E w \in Workers : TakeTask(w, t))

FairSpec == Spec /\ Fairness

-----------------------------------------------------------------------------
(* What the fleet promises.                                                  *)

Listed(i) == \E n \in DnsNames : nodes[n] # None /\ nodes[n].id = i

\* EC2 gave the name of the instance to another one, too, before or after.
Shared(i) == dns[i] # None /\ \E j \in Instances \ {i} : dns[j] = dns[i]

\* Every entry of "nodes" names an instance EC2 really launched, under the
\* name EC2 gave it and in the namespace it was launched for, although the
\* entry is written several calls after run_instances, by loops of several
\* workers, and names may be given out again.
EntryIsLaunchedNode ==
    \A n \in DnsNames : nodes[n] # None =>
        LET i == nodes[n].id IN
        /\ vm[i] # "absent"
        /\ dns[i] = n
        /\ launcher[i] # 0
        /\ nodes[n].ns = tasks[launcher[i]].ns

\* terminate_namespace never reaches into another namespace: an instance goes
\* down only because a task that was submitted for its own namespace, with
\* the id list read at that moment, has been taken by a worker.
IsolatedTermination ==
    \A i \in Instances : vm[i] \in Ended =>
        \E t \in TaskIds : /\ tasks[t].kind = "terminate"
                           /\ result[t] # "queued"
                           /\ i \in tasks[t].ids
                           /\ tasks[t].ns = tasks[launcher[i]].ns

\* When a run of create_worker_nodes returned the EC2 response, every instance
\* it launched that still runs is in "nodes", where terminate_namespace finds
\* it, unless its name had an owner before it: the hdel of that one may come
\* late.  A second delivery of the task launches instances of its own, which
\* are listed when that run has returned; the response of the first says
\* nothing of them.
ResponseMeansListed ==
    \A i \in Instances :
        vm[i] = "running" /\ result[launcher[i]] = "response"
            => Listed(i) \/ Shared(i)

\* When terminate_worker_node returned the EC2 response, its instances are
\* going down and none of them is ever listed again, whatever other workers
\* were saving or deleting meanwhile.
ResponseMeansForgotten ==
    \A t \in TaskIds :
        tasks[t].kind = "terminate" /\ result[t] = "response" =>
            \A i \in tasks[t].ids : vm[i] \in Ended /\ ~Listed(i)

\* "Delete the given instance IDs' corresponding keys from Redis": no entry of
\* another instance goes (redis_interface.py).
DeletesCorrespondingKeys ==
    [][\A w \in Workers, n \in DnsNames :
        /\ pc[w] = "hdel"
        /\ n \in toDelete[w] \ toDelete'[w]
        /\ nodes[n] # None
        /\ nodes'[n] = None
        => nodes[n].id \in tasks[job[w]].ids]_vars

\* An entry that disappears was under the name of an ended instance of the
\* task that deletes it, although the names come from an earlier copy of the
\* hash: a running instance loses its entry only to a former owner of its name.
DeletesOwnNames ==
    [][\A n \in DnsNames : nodes[n] # None /\ nodes'[n] = None =>
        \E w \in Workers :
            /\ pc[w] = "hdel"
            /\ \E i \in tasks[job[w]].ids : dns[i] = n /\ vm[i] \in Ended]_vars

\* A create_worker_nodes task that ended has saved every instance EC2 launched
\* for it that still runs (only claimed when no call raises).
LaunchedInstancesAreSaved ==
    \A i \in Instances :
        vm[i] = "running" /\ result[launcher[i]] \in {"response", "empty"}
            => Listed(i)

\* Every submitted task ends: no worker waits for another, and no loop is
\* fed by the steps of the others.
EveryTaskSettles ==
    \A t \in TaskIds :
        result[t] = "queued" ~>
            result[t] \in {"response", "empty", "none", "lost"}

\* An instance does not stay unlisted without a trace: it gets listed, or its
\* task reports "" or is lost, or its name had an owner before it.
UnlistedIsAccountedFor ==
    \A i \in Instances :
        vm[i] = "running" /\ ~Listed(i) ~>
            \/ Listed(i) \/ Shared(i)
            \/ \E t \in TaskIds : t = launcher[i] /\ result[t] \in {"empty", "lost"}

\* The life of one instance, as the fleet presents it to its clients.
phase ==
    [i \in Instances |->
        IF vm[i] = "absent" THEN "absent"
        ELSE IF vm[i] = "running"
             THEN IF Listed(i) THEN "listed" ELSE "unlisted"
             ELSE IF Listed(i) THEN "ending" ELSE "gone"]

shared == {i \in Instances : Shared(i)}

Lifecycle == INSTANCE NodeLifecycle

\* The tasks implement the one-way life of an instance: it is not dropped from
\* "nodes" while it runs, does not end before it was listed, and never comes
\* back.  Only for an instance that got a used name it says less.
ImplementsLifecycle == Lifecycle!Spec
=============================================================================
