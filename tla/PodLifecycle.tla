---------------------------- MODULE PodLifecycle ----------------------------
(* One pod on one worker node: create_pod_task (containerd_tasks.py) builds  *)
(* it with PodManager.create_pod and add_containers, and clients that hold   *)
(* its handle take it down with delete_pod (containerd_interface.py).  Every *)
(* gRPC call and every CNI execution is one step.  Names and keys of a pod   *)
(* carry uuids, so pods share nothing but images (module ImageUnpack).       *)
EXTENDS Integers, Sequences, ContainerResources

CONSTANTS
    AppNames,  \* names a request may give to containers
    Requests,  \* the containers a request may ask for, in order
    Networks,  \* hosts: cnitool is there or not, and the CNI directory
    Deleters,  \* concurrent callers of delete_pod
    MaxCalls,  \* bound: times each of them calls it
    Strays,    \* bound: the callers among them when calls fail
    SelfExits, \* the process of a container may exit unasked
    Pause,     \* the pause container
    None       \* no spec yet

Resources == [cpu_millicores : Nat, memory : Quantity]
ConfFiles == {"unreadable", "other", "no plugin", "no binary", "good"}

ASSUME PodAssumption ==
    /\ MaxCalls \in Nat
    /\ SelfExits \in BOOLEAN
    /\ Pause \notin AppNames
    /\ Strays \subseteq Deleters
    /\ Requests \subseteq Seq([name : AppNames, resources : Resources])
    /\ Networks \subseteq [cnitool : BOOLEAN, files : Seq(ConfFiles)]

VARIABLES
    request,     \* the containers of the request, in order
    wellFormed,  \* _rehydrate_containers accepts the request
    faulty,      \* any call may fail, any process of dibba may die
    network,     \* how the host attaches pods to the CNI network
    cpc, cpos,   \* create_pod_task: its next call, the container it is at
    snaps,       \* active snapshots, by position (0: the pause container)
    containers,  \* names of the container objects in containerd
    spec,        \* container name -> linux.resources of its last spec
    task,        \* container name -> state of its task
    ip,          \* the pod holds an address of the CNI network
    attached,    \* what became of CNI ADD
    dpc, dpos,   \* delete_pod, per caller: its next call, its container
    withApps,    \* delete_pod, per caller: the handles of the apps were passed
    calls        \* delete_pod, per caller: calls made

world == <<request, wellFormed, faulty, network>>
createVars == <<world, cpc, cpos, spec, attached>>
runtimeVars == <<snaps, containers, task, ip>>
deleteVars == <<dpc, dpos, withApps, calls>>
vars == <<world, cpc, cpos, snaps, containers, spec, task, ip, attached, dpc,
          dpos, withApps, calls>>

Names == AppNames \cup {Pause}

Name(k) == IF k = 0 THEN Pause ELSE request[k].name

\* The pause container has limits of its own.
Asked(k) ==
    IF k = 0
    THEN [cpu_millicores |-> 100,
          memory |-> [whole |-> 64, tenths |-> 0, point |-> FALSE, unit |-> "mi"]]
    ELSE request[k].resources

\* "stopping" and "killed": SIGTERM or SIGKILL was sent, the process is there.
Alive == {"running", "stopping", "killed"}
TaskState == Alive \cup {"none", "created", "exited"}

CreateSteps == {"unpack", "prepare", "container", "task", "start", "cni",
                "rehydrate", "return"}

DeleteSteps == {"kill", "delete", "kill9", "delete9", "rm_container", "rm_snapshot",
                "cni_del"}

TypeOK ==
    /\ request \in Requests
    /\ wellFormed \in BOOLEAN
    /\ faulty \in BOOLEAN
    /\ network \in Networks
    /\ cpc \in CreateSteps \cup {"up", "error", "lost"}
    /\ cpos \in 0..Len(request)
    /\ snaps \subseteq 0..Len(request)
    /\ containers \subseteq Names
    /\ spec = [n \in Names |-> spec[n]]
    /\ task \in [Names -> TaskState]
    /\ ip \in BOOLEAN
    /\ attached \in {"not yet", "ok", "failed"}
    /\ dpc \in [Deleters -> DeleteSteps \cup {"idle", "done", "cut"}]
    /\ dpos \in [Deleters -> 0..Len(request)]
    /\ withApps \in [Deleters -> BOOLEAN]
    /\ calls \in [Deleters -> 0..MaxCalls]

\* Nothing else of a request that is not well formed is ever looked at.
Init ==
    /\ request \in Requests
    /\ wellFormed \in BOOLEAN
    /\ ~wellFormed => request = <<>>
    /\ faulty \in BOOLEAN
    /\ network \in Networks
    /\ cpc = "unpack"
    /\ cpos = 0
    /\ snaps = {}
    /\ containers = {}
    /\ spec = [n \in Names |-> None]
    /\ task = [n \in Names |-> "none"]
    /\ ip = FALSE
    /\ attached = "not yet"
    /\ dpc = [d \in Deleters |-> "idle"]
    /\ dpos = [d \in Deleters |-> 0]
    /\ withApps = [d \in Deleters |-> FALSE]
    /\ calls = [d \in Deleters |-> 0]

-----------------------------------------------------------------------------
(* create_pod_task.  An exception ends it with {"error": ...}: it returns no *)
(* handle and undoes nothing.                                                *)

Raise == cpc' = "error" /\ UNCHANGED <<cpos, spec, attached, runtimeVars>>

EnsureUnpacked ==
    /\ cpc = "unpack"
    /\ cpc' = "prepare"
    /\ UNCHANGED <<cpos, spec, attached, runtimeVars>>

PrepareSnapshot ==
    /\ cpc = "prepare"
    /\ snaps' = snaps \cup {cpos}
    /\ cpc' = "container"
    /\ UNCHANGED <<cpos, containers, spec, task, ip, attached>>

\* OciSpecBuilder.build, which raises for a memory it cannot read, and
\* containers.Create; a second container of the same name: ALREADY_EXISTS.
create_container ==
    /\ cpc = "container"
    /\ IF ~WorkerReads(Asked(cpos).memory) \/ Name(cpos) \in containers
       THEN Raise
       ELSE /\ containers' = containers \cup {Name(cpos)}
            /\ spec' = [spec EXCEPT ![Name(cpos)] = build(Asked(cpos))]
            /\ cpc' = "task"
            /\ UNCHANGED <<cpos, snaps, task, ip, attached>>

\* tasks.Create; an app joins the namespaces below /proc/<pid of pause>/ns.
CreateTask ==
    /\ cpc = "task"
    /\ IF cpos > 0 /\ task[Pause] \notin Alive
       THEN Raise
       ELSE /\ task' = [task EXCEPT ![Name(cpos)] = "created"]
            /\ cpc' = "start"
            /\ UNCHANGED <<cpos, snaps, containers, spec, ip, attached>>

next_app_late ==   \* Bug: the position moves before the end is tested.
    /\ cpos' = cpos + 1
    /\ cpc' = IF cpos = Len(request) THEN "return" ELSE "unpack"

next_app_none ==   \* Bug: the loop returns after its first round.
    IF cpos > 0 \/ request = <<>>
    THEN cpc' = "return" /\ UNCHANGED cpos
    ELSE cpc' = "unpack" /\ cpos' = cpos + 1

NextApp ==
    IF cpos = Len(request)
    THEN cpc' = "return" /\ UNCHANGED cpos
    ELSE cpc' = "unpack" /\ cpos' = cpos + 1

start_task ==
    /\ cpc = "start"
    /\ IF task[Name(cpos)] # "created"
       THEN Raise
       ELSE /\ task' = [task EXCEPT ![Name(cpos)] = "running"]
            /\ IF cpos = 0 THEN cpc' = "cni" /\ UNCHANGED cpos ELSE NextApp
            /\ UNCHANGED <<snaps, containers, spec, ip, attached>>

\* Without cnitool the first plugin of the first file with the name of the
\* network is run; files that are not JSON are passed over.
first_plugin(net) ==
    LET conflists == SelectSeq(net.files, LAMBDA f : f \notin {"unreadable", "other"})
    IN  conflists # <<>> /\ Head(conflists) = "good"

UsesPlugin(net) == net.cnitool \/ first_plugin(net)
CanAttach == UsesPlugin(network)

\* create_pod catches a failed attachment and goes on: no usable plugin, a
\* process that timed out or ended with an error.  Its plugin may have taken
\* an address before it failed.
CniAdd(holds) ==
    /\ cpc = "cni"
    /\ CanAttach \/ ~holds
    /\ ip' = holds
    /\ \/ attached' = "failed"
       \/ holds /\ task[Pause] \in Alive /\ attached' = "ok"
    /\ cpc' = "rehydrate"
    /\ UNCHANGED <<cpos, snaps, containers, spec, task>>

\* The request is only validated when the pause container already runs.
_rehydrate_containers ==
    /\ cpc = "rehydrate"
    /\ IF wellFormed
       THEN NextApp /\ UNCHANGED <<spec, attached, runtimeVars>>
       ELSE Raise

ReturnHandle ==
    /\ cpc = "return"
    /\ cpc' = "up"
    /\ UNCHANGED <<cpos, spec, attached, runtimeVars>>

CreateFails ==
    /\ faulty
    /\ cpc \in CreateSteps \ {"cni", "rehydrate", "return"}
    /\ Raise

CreatorDies ==
    /\ faulty
    /\ cpc \in CreateSteps
    /\ cpc' = "lost"
    /\ UNCHANGED <<cpos, spec, attached, runtimeVars>>

Create ==
    /\ \/ EnsureUnpacked \/ PrepareSnapshot \/ create_container \/ CreateTask
       \/ start_task \/ (\E holds \in BOOLEAN : CniAdd(holds))
       \/ _rehydrate_containers \/ ReturnHandle \/ CreateFails
    /\ UNCHANGED <<world, deleteVars>>

-----------------------------------------------------------------------------
(* delete_pod: the apps in order, then CNI DEL, then the pause container.    *)
(* Every failure is swallowed, so a faulty call only skips its effect.       *)

DGoto(d, label) == dpc' = [dpc EXCEPT ![d] = label]

\* containerd finds a task through its container object.
Reachable(n) == n \in containers

\* Whoever holds the handle may call, and call again.
MayCall(d) ==
    /\ cpc = "up"
    /\ dpc[d] \in {"idle", "done", "cut"}
    /\ calls[d] < MaxCalls
    /\ faulty => d \in Strays /\ calls[d] = 0

delete_pod(d, apps) ==
    /\ MayCall(d)
    /\ calls' = [calls EXCEPT ![d] = @ + 1]
    /\ withApps' = [withApps EXCEPT ![d] = apps]
    /\ IF apps /\ request # <<>>
       THEN DGoto(d, "kill") /\ dpos' = [dpos EXCEPT ![d] = 1]
       ELSE DGoto(d, "cni_del") /\ UNCHANGED dpos
    /\ UNCHANGED runtimeVars

\* stop_and_delete_task: Kill with SIGTERM ...
Kill15(d) ==
    LET n == Name(dpos[d]) IN
    /\ dpc[d] = "kill"
    /\ \/ /\ Reachable(n) /\ task[n] = "running"
          /\ task' = [task EXCEPT ![n] = "stopping"]
       \/ /\ faulty \/ ~Reachable(n) \/ task[n] # "running"
          /\ UNCHANGED task
    /\ DGoto(d, "delete")
    /\ UNCHANGED <<dpos, withApps, calls, snaps, containers, ip>>

\* ... and at once tasks.Delete, which refuses a living process.
TaskDelete(d) ==
    LET n == Name(dpos[d]) IN
    /\ dpc[d] = "delete"
    /\ \/ /\ Reachable(n) /\ task[n] = "exited"
          /\ task' = [task EXCEPT ![n] = "none"]
          /\ DGoto(d, "rm_container")
       \/ /\ faulty \/ ~Reachable(n) \/ task[n] # "exited"
          /\ DGoto(d, "kill9")
          /\ UNCHANGED task
    /\ UNCHANGED <<dpos, withApps, calls, snaps, containers, ip>>

\* Bug: no harder signal follows SIGTERM.
no_kill9(d) ==
    /\ dpc[d] = "kill9"
    /\ DGoto(d, "rm_container")
    /\ UNCHANGED <<dpos, withApps, calls, runtimeVars>>

\* Kill with SIGKILL returns before the process is gone.  It fails on an
\* exited process, and then the second Delete is skipped.
Kill9(d) ==
    LET n == Name(dpos[d]) IN
    /\ dpc[d] = "kill9"
    /\ \/ /\ Reachable(n) /\ task[n] \in Alive
          /\ task' = [task EXCEPT ![n] = "killed"]
          /\ DGoto(d, "delete9")
       \/ /\ faulty \/ ~Reachable(n) \/ task[n] \notin Alive
          /\ DGoto(d, "rm_container")
          /\ UNCHANGED task
    /\ UNCHANGED <<dpos, withApps, calls, snaps, containers, ip>>

Delete9(d) ==
    LET n == Name(dpos[d]) IN
    /\ dpc[d] = "delete9"
    /\ \/ /\ Reachable(n) /\ task[n] = "exited"
          /\ task' = [task EXCEPT ![n] = "none"]
       \/ /\ faulty \/ ~Reachable(n) \/ task[n] # "exited"
          /\ UNCHANGED task
    /\ DGoto(d, "rm_container")
    /\ UNCHANGED <<dpos, withApps, calls, snaps, containers, ip>>

\* containers.Delete does not look for a task.
RemoveContainer(d) ==
    /\ dpc[d] = "rm_container"
    /\ \/ containers' = containers \ {Name(dpos[d])}
       \/ faulty /\ UNCHANGED containers
    /\ DGoto(d, "rm_snapshot")
    /\ UNCHANGED <<dpos, withApps, calls, snaps, task, ip>>

next_delete_last(d) ==   \* Bug: the loop over the apps ends after the first.
    IF dpos[d] = 0
    THEN DGoto(d, "done") /\ UNCHANGED dpos
    ELSE DGoto(d, "cni_del") /\ UNCHANGED dpos

next_delete_again(d) ==   \* Bug: a container is retried until it is gone.
    IF dpos[d] = 0
    THEN DGoto(d, "done") /\ UNCHANGED dpos
    ELSE IF task[Name(dpos[d])] # "none"
    THEN DGoto(d, "kill") /\ UNCHANGED dpos
    ELSE IF dpos[d] < Len(request)
    THEN DGoto(d, "kill") /\ dpos' = [dpos EXCEPT ![d] = @ + 1]
    ELSE DGoto(d, "cni_del") /\ UNCHANGED dpos

NextDelete(d) ==
    IF dpos[d] = 0
    THEN DGoto(d, "done") /\ UNCHANGED dpos
    ELSE IF dpos[d] < Len(request)
    THEN DGoto(d, "kill") /\ dpos' = [dpos EXCEPT ![d] = @ + 1]
    ELSE DGoto(d, "cni_del") /\ UNCHANGED dpos

_snap_remove_active(d) ==
    /\ dpc[d] = "rm_snapshot"
    /\ \/ snaps' = snaps \ {dpos[d]}
       \/ faulty /\ UNCHANGED snaps
    /\ NextDelete(d)
    /\ UNCHANGED <<withApps, calls, containers, task, ip>>

cni_del_if_attached(d) ==   \* Bug: DEL is left out when ADD failed.
    /\ dpc[d] = "cni_del"
    /\ IF attached = "ok"
       THEN \/ CanAttach /\ ip' = FALSE
            \/ (faulty \/ ~CanAttach \/ task[Pause] \notin Alive) /\ UNCHANGED ip
       ELSE UNCHANGED ip
    /\ DGoto(d, "kill")
    /\ dpos' = [dpos EXCEPT ![d] = 0]
    /\ UNCHANGED <<withApps, calls, snaps, containers, task>>

\* DEL is run however ADD ended.  Without the pause process there is no
\* namespace path: DEL runs with an empty one, which releases the address or
\* not, depending on the plugin.
CniDel(d) ==
    /\ dpc[d] = "cni_del"
    /\ \/ CanAttach /\ ip' = FALSE
       \/ (faulty \/ ~CanAttach \/ task[Pause] \notin Alive) /\ UNCHANGED ip
    /\ DGoto(d, "kill")
    /\ dpos' = [dpos EXCEPT ![d] = 0]
    /\ UNCHANGED <<withApps, calls, snaps, containers, task>>

DeleterDies(d) ==
    /\ faulty
    /\ dpc[d] \in DeleteSteps
    /\ DGoto(d, "cut")
    /\ UNCHANGED <<dpos, withApps, calls, runtimeVars>>

DeleteStep(d) ==
    /\ \/ Kill15(d) \/ TaskDelete(d) \/ Kill9(d) \/ Delete9(d) \/ RemoveContainer(d)
       \/ _snap_remove_active(d) \/ CniDel(d)
    /\ UNCHANGED createVars

-----------------------------------------------------------------------------
\* A process exits when it obeys a signal or, unasked, when it is done or
\* crashes.  The apps live in the PID namespace of the pause container: they
\* die with it.
Exits(n) ==
    /\ task[n] \in Alive
    /\ task[n] = "running" => SelfExits
    /\ task' = [m \in Names |->
                  IF (m = n \/ n = Pause) /\ task[m] \in Alive \cup {"created"}
                  THEN "exited" ELSE task[m]]
    /\ UNCHANGED <<createVars, deleteVars, snaps, containers, ip>>

Next ==
    \/ Create
    \/ CreatorDies /\ UNCHANGED <<world, deleteVars>>
    \/ \E d \in Deleters :
        \/ \E apps \in BOOLEAN : delete_pod(d, apps) /\ UNCHANGED createVars
        \/ DeleteStep(d)
        \/ DeleterDies(d) /\ UNCHANGED createVars
    \/ \E n \in Names : Exits(n)

Spec == Init /\ [][Next]_vars

\* Live processes make their next call, and a process ends after SIGKILL; it
\* may ignore SIGTERM.
FairSpec ==
    /\ Spec
    /\ WF_vars(Create)
    /\ \A d \in Deleters : WF_vars(DeleteStep(d))
    /\ \A n \in Names : WF_vars(task[n] = "killed" /\ Exits(n))

-----------------------------------------------------------------------------
\* A handle is only returned for a pod that is complete: every container of
\* the request has its object, its snapshot and a task that was started.
HandleMeansComplete ==
    cpc = "up" /\ (\A d \in Deleters : dpc[d] = "idle") =>
        /\ snaps = 0..Len(request)
        /\ containers = {Name(k) : k \in 0..Len(request)}
        /\ \A n \in containers : task[n] \in {"running", "exited"}

\* The spec of every container says what the request asked for, in the reading
\* of the API, although the worker reads it with a parser of its own.
SpecMeansWhatWasAsked ==
    \A n \in containers : \E k \in 0..Len(request) :
        /\ n = Name(k)
        /\ spec[n].resources.memory.limit = _parse_mem_bytes(Asked(k).memory)
        /\ spec[n].resources.cpu.quota = 100 * Asked(k).cpu_millicores

\* While a process runs and nobody has sent it SIGKILL, its container object
\* and its root filesystem exist, so it can still be managed (no call fails).
RunningIsManaged ==
    ~faulty => \A n \in Names : task[n] \in {"running", "stopping"} =>
        /\ n \in containers
        /\ \E k \in snaps : k <= Len(request) /\ Name(k) = n

\* delete_pod with the handles of the apps leaves no container object and no
\* snapshot, also next to another delete_pod of the same pod (no call fails).
DeleteLeavesNoRecord ==
    ~faulty => \A d \in Deleters : dpc[d] = "done" /\ withApps[d] =>
        containers = {} /\ snaps = {}

\* The address is released while the pause container still owns its network
\* namespace, also the one that a failed CNI ADD left behind: when the pause
\* container is signalled, the pod has no address left to lose (no call fails).
SignalledPauseHoldsNoAddress ==
    ~faulty => (task[Pause] \in {"stopping", "killed"} => ~ip)

\* After delete_pod no process of the pod keeps running, not even when the
\* handles of the apps were not passed (no call fails).
ProcessesEnd ==
    \A d \in Deleters :
        ~faulty /\ dpc[d] = "done" ~> \A n \in Names : task[n] \in {"none", "exited"}

\* create_pod_task ends, and so does every delete_pod.
CallsEnd ==
    /\ <>(cpc \in {"up", "error", "lost"})
    /\ \A d \in Deleters : dpc[d] \in DeleteSteps ~> dpc[d] \in {"done", "cut"}

\* delete_container stops and deletes the task (no call fails).
DeleteRemovesTasks ==
    ~faulty => \A d \in Deleters : dpc[d] = "done" /\ withApps[d] =>
        \A n \in Names : task[n] = "none"

\* The limits of the request are those runc finds in the spec.
LimitsApply ==
    \A n \in Names : task[n] = "running" =>
        "memory" \in DOMAIN spec[n] /\ "cpu" \in DOMAIN spec[n]
=============================================================================
