# Formal models of dibba

dibba runs containers on AWS workers: an API server (FastAPI) turns requests
into Celery tasks, worker processes execute them against EC2, Redis, containerd
and Calico. There is no test suite, and almost everything that matters happens
between two calls to an outside service. The models here take one such call as
one step.

## 1. The system

| Component | Source | State it keeps | Operations | Modelled in |
|---|---|---|---|---|
| API server, fleet | `server/main_api.py` 185-252 | none; reads Redis `nodes` | `create_instances`, `terminate_namespace` | `NodeRegistry` |
| AWS tasks, EC2 interface | `utils/celery/tasks/aws_tasks.py`, `utils/aws/aws_interface.py`, `utils/celery/aws_worker.py` | position of the running task | `create_worker_nodes`, `terminate_worker_node` | `NodeRegistry` |
| Redis interface | `utils/redis/redis_interface.py` | hashes `nodes` and `authentication`, five smaller ones | `save_node`, `get_instance_ids_namespace`, `delete_instance_ids`, `save_user_pass`, `get_user_pass` | `NodeRegistry`, `Sessions`; the accessors nothing calls are left out |
| Login and tokens | `main_api.py` | Redis `authentication`; tokens live at the clients | `login`, `authenticate_user`, `get_current_user` | `Sessions` |
| Task status, host queries | `main_api.py`, `tasks/worker_node_tasks.py`, `worker_node.py` | queues, Celery backend | submission to the queue of a host, `get_task_status` | `HostTasks` |
| Worker discovery | `utils/celery/worker_discovery.py` | what it has collected | `discover_workers` | `HostTasks` |
| Image resolution, unpacking | `utils/containerd/containerd_interface.py` 155-481, 911-981 | snapshots, content and image store of containerd | `_ensure_unpacked`, `grpc_unpack`, `chain_id_for_image`, `prepare_rw_snapshot` | `ImageUnpack`, `ChainStore` |
| Pod lifecycle | the same file 757-836, 983-1180; `tasks/containerd_tasks.py` | container objects, tasks, snapshots, address of a pod | `create_pod_task`, `delete_pod` | `PodLifecycle` |
| CNI manager | the same file | the address of a pod | `add`, `delete`, with `cnitool` or the plugin itself | `PodLifecycle` |
| OCI spec, resources | the same file; `schemas.py`, `models.py`, `adapters.py`, `api_models.py` | none | `build`, `to_linux_resources_dict`, five readings of a memory quantity | `ContainerResources` |
| Health checks | `utils/celery/beat.py`, `tasks/health_check_tasks.py`, `utils/redis/hc_track.py` | failure counters in an expiring hash | periodic check, `track_consecutive_failures` | `HealthCheck` |
| Placement | `server/nodes/*.py` | none | three distribution algorithms | `Placement`, `PodDistribution` |

How the parts meet. The API server and the workers share the Celery queues, the
result backend and the Redis hash `nodes`, which the workers write in loops
while the API server reads it. The API server never hears of a finished task
unless a client asks `get_task_status`. A worker acknowledges a message as it
starts the task, and holds others it has taken but not started. Several
`create_pod_task` processes of a host share one containerd: its image store,
its content store and the committed layer snapshots; pods share nothing else,
since their names and keys carry uuids. `create_pod_task` builds the specs of
its containers from the memory and cpu of the request, which the API server
passed on unread. `delete_pod` is called by clients that hold the handle a
`create_pod_task` returned. Every endpoint but `login` looks its token's user up
in Redis and nothing else. Health checks stand apart: beat sends them, workers
of their own queue run them, and all write one hash of counters per cluster.
The placement classes are pure and called by nobody yet.

What is hard: the interleaving of loops over Redis, a worker that dies between
EC2 and Redis, EC2's all-or-nothing calls and re-used private names; concurrent
unpackers of images with layers in common, tags that move between two
resolutions, garbage collection without a lease; best-effort deletion that never
waits for a process; overlapping health checks whose results arrive out of
order; users who go, or get a new password, in the middle of a login; messages
in the buffer of a worker that dies, or delivered twice; answers put together
from several reads. `PROJECT.json` lists every such hazard at its line.

## 2. Modules

* `NodeLifecycle` - abstract: one instance is launched, listed, told to end
  while listed, and forgotten only then. `shared` are the instances whose name
  is, or was, another one's, too: only these may lose their entry early.
* `NodeRegistry` - the fleet. `tasks`/`result` are the Celery messages and
  results, one per delivery: `Redeliver` delivers a message a second time while
  it waits for a busy worker, with the ids the first one carries. (To Celery both
  have one task id, and the later result replaces the earlier; the properties
  speak of the run that returned it.) `vm`, `dns`, `launcher` are EC2; `nodes` is
  the Redis hash; `pc`, `job`, `toSave`, `toDelete` are where each worker is inside
  `create_ec2_instance` and `delete_instance_ids`. A create task is
  `create_ec2_instance` (`run_instances` and the comprehension that indexes it)
  and one `save_node` per node; a terminate task is `terminate_ec2_instances`,
  `delete_instance_ids` (the `hgetall`) and one `hdel` per name. `CallRaises`
  and `WorkerDies` can strike before each of them. `Ec2Terminated`,
  `Ec2Purged`, `FreeNames` (the name of a terminated instance is free again) and
  `Rejected` are EC2 as the code uses it. `phase` and `shared` are the refinement
  mapping to `NodeLifecycle`.
* `ChainStore` - abstract: committed layer chains grow by one layer at a time
  and never change.
* `ImageUnpack` - from an image reference to a root filesystem. `pc` names the
  gRPC call a task makes next. A chain id is the sequence of diff ids it hashes
  (SHA-256 taken as injective); `draft` is the content of the prepared snapshot.
  `Commit` has the two outcomes of its except branch for a chain that exists
  already: the key is removed, or the removal fails, which nobody notices.
  `calm` is a run without faults; `PushTag` and `RemoveImage` are the registry,
  and an operator with containerd's collector. Chains that CRI commits while it
  pulls look like those of another unpacker.
* `ContainerResources` - a memory quantity is its digits and its unit. The
  reading of the worker (`_mem_to_bytes`) next to the four others in the code,
  and the part of the OCI spec they end up in (`build`).
* `PodLifecycle` - one pod; extends `ContainerResources`. `cpc`/`cpos` is where
  `create_pod_task` is, `dpc`/`dpos` where each caller of `delete_pod` is;
  `task` gives each container's task, with a living process in three shades:
  running, sent SIGTERM, sent SIGKILL. `network` is how the host attaches pods:
  `cnitool` or the directory of CNI lists, file by file. `faulty` says whether
  calls may fail and processes of dibba may die. `Exits` is the kernel: apps
  live in the PID namespace of the pause container and die with it.
* `HealthCheck` - the checks of one cluster; `deployed` says which urls and
  workers there are. `count` and `ttl` are the Redis hash and its expiry, `due`
  the queued message (an expired one is discarded, so at most one counts); `pc`,
  `pending`, `at`, `status`, `retried` are where each worker's event loop is.
  Redis calls block that loop, so a worker writes one result at a time; `track`
  and `expire` are the two calls of `track_consecutive_failures`. `streak` is
  what the counter ought to be, `trouble` a time in which Redis calls raise and
  workers die.
* `Sessions` - logins and tokens. `request` is where the request of each client
  is between two looks at `authentication`; `attempt` the login it makes;
  `token` the token it holds, together with the password it got it for, which
  the real token does not say. `since` counts the ticks since a password was a
  user's. `login` is `async` and holds the event loop; the token dependency runs
  in a thread.
* `HostTasks` - the queue of a host. A message is a task and the number of its
  delivery, and `place` is where it is: in the queue, in the buffer of the
  worker, running, finished, or gone with the worker. `meta` is the result
  backend, `poll` what `get_task_status` has read so far, `inspect`/`replies`
  the calls of `discover_workers`. `fate` is the refinement mapping to
  `TaskDelivery`: a task with a message in the queue or in the buffer waits,
  whatever became of its other deliveries.
* `TaskDelivery` - abstract: a task that was sent waits until it is run, and may
  have to wait again for a second delivery, but is never lost while it waits and
  stays ended once it is.
* `Placement` - both `ClusterWorkerDistribution` classes, one action per instance
  placed or left out; `strict` chooses the class of
  `distribute_nodes_services.py`. The lists of instances in `distribution`, and
  the sorted list the loop runs over, are kept as numbers per service (`todo` is
  what the loop has still to place): all the code reads from them.
* `PodDistribution` - `distribute_pods`, one action per pod; `pending` counts the
  pods of each application still to come. The fillers ("remainder_pod") are an
  entry of the dictionaries like any other.
* `MCNodeRegistry`, `MCImageUnpack`, `MCPodLifecycle`, `MCHealthCheck`,
  `MCPlacement`, `MCServer` - instances for TLC. The last two compose modules
  that share no state: one of them moves, the others keep still, so that one run
  answers for all without multiplying their states. `MCServer` looks at one of
  four: sessions, a client that asks for its task, discoveries, or the two
  distribution algorithms of `MCPlacement`.
* `NodeRegistry_proof`, `NodeLifecycle_proof`, `ImageUnpack_proof`,
  `PodLifecycle_proof` (with `ContainerResources`), `HealthCheck_proof`,
  `Server_proof` (`Sessions` and `HostTasks`), `Placement_proof` (with
  `PodDistribution`) and `SumTheorems`, the lemmas about sums it needs - TLAPS
  proofs (section 4).

Operators with a comment that starts with "Bug:" are not used by any
specification: each is a mapped definition with a plausible mistake, kept to
show that the property it is listed with in `PROJECT.json` would notice.

## 3. Runs

| Run | Question | Result |
|---|---|---|
| `fleet` | do EC2 and `nodes` agree as far as the answers promise, does every task end, is no running instance silently unlisted? | holds; implements `NodeLifecycle` |
| `fleet_partial` | is every launched instance saved? | violated: a partial launch saves none |
| `fleet_reuse` | are only the entries of the given instances deleted? | violated: a name may have got a new owner since the hash was read |
| `unpack` | is every snapshot its chain, every root filesystem a whole image, under faults? does every task end, and succeed in calm? | holds; implements `ChainStore` |
| `unpack_first` | does the first use of an image work? | violated: resolved before pulled |
| `pod` | does a handle mean a complete pod with the limits that were asked for? do parallel deletions keep processes manageable, release the address in time, clean up, and end? | holds |
| `pod_tasks` | does deletion remove the tasks? | violated: Delete loses the race against SIGKILL's effect |
| `limits` | does runc find the limits of a container? | violated: they are one level too deep in the spec |
| `health` | are consecutive failures counted, are lasting recoveries and failures seen, do counters expire and checks end? | holds; two workers err by one failure at most |
| `health_silent` | is a site counted that never answers? | violated: its status is '' |
| `place_partial` | is the answer None when an instance fits on no node? | violated: the others are placed and returned |
| `server` | are only those admitted who gave a valid password, are removed users out, are answers whole and discoveries true, does no task get lost in a queue? is capacity respected, is only that left out which fits nowhere, are no nodes asked for in vain, pods spread evenly? | holds; implements `TaskDelivery` |

Where a property only holds under a restriction, its formula or its comment says
so. A name that EC2 gives out again can cost its new owner its entry
(`fleet_reuse`). What `fleet` still claims then is that the entry of a running
instance goes only to a former owner of its name (`DeletesOwnNames`), and
`ResponseMeansListed`, `UnlistedIsAccountedFor` and `NodeLifecycle` make one
exception, for instances that share their name with another (`Shared`). The
promise of a create task is one of each of its runs: when the first of two
deliveries has returned, the instances of the second may still be unlisted. The
pod properties marked "(no call fails)" start with `~faulty`,
`EnsureUnpackedSucceeds` and part of `KeyLeaksOnlyOnFailure` with `calm`, the
properties of `HealthCheck` with `trouble`: these are part of the state, so one
run covers both cases. Without calm, `KeyLeaksOnlyOnFailure` lets a task that
goes on leave a key behind where it lost the race for a layer: the Remove may
have failed, and that is swallowed. `CountIsConsecutive` allows an
excess of one failure per other worker because a check may write its result
after a newer one, and asks for a time without trouble because an `expire` that
raises after `hincrby` makes the except branch count the failure again.
`LeftOutFitsNowhere` says which partial distributions there are; that there are
any is against the docstring (`place_partial`). `DistributedEvenly`
speaks of no application that is itself called "remainder_pod": its pods are
deleted with the fillers. `AdmissionIsEarned` says "no longer ago than a token
lives", not "now": a token outlives the password it was given for, and a user
who is registered again is admitted with a token from before.
`RemovedUserIsOut` allows the request that was under way. `DiscoveryIsTrue`
claims counts only while nothing was delivered twice, and `TaskEnds` a worker
that stays up in the end: a task that was running when its worker died is lost,
since it was acknowledged.

### Bounds

* `NodeRegistry`: two workers and three deliveries are a create, a terminate and
  one more of either kind, or one of them again, in flight together; batches of
  two instances make the loops interleave in the middle. The second instance may
  get the name of the first. `MaxTasks` bounds the deliveries, `Batches` gives
  the pairs of MinCount and MaxCount: one instance, and one to two, in `fleet`;
  one to two in `fleet_partial`; one, and a single name, in `fleet_reuse`.
* `ImageUnpack`: two images that share the lowest layer and differ in the second
  give every case of the loop (found, raced, own); two tasks race; `MaxPushes`
  and `MaxRemovals` of one put a tag move and an image removal at any point.
  Tasks, references and images are alike, so `Asks` and `Tags` hold one of each
  kind of assignment.
* `PodLifecycle`: two apps, whose names may be equal, are the first, a middle and
  the last round of both loops; two deleters with `MaxCalls` of two give
  parallel and repeated deletion. When calls fail only the deleters in `Strays`
  (one of them) come: with failing calls a second one adds states and no case,
  since the properties about parallel deletion ask for none. `SomeRequests`
  holds quantities the worker reads and one it does not (`64ki`);
  `SomeNetworks` a host where the CNI plugin is found behind an unreadable file
  and one where the list of the right name has no plugin. The two runs that are
  violated use `cnitool`.
* `HealthCheck`: one worker with two urls shares the hash and ends a check when
  both are done; two workers with one url overlap on its counter, and a cluster
  without urls ends its checks at once. A probe cannot
  outlast the period (timeout and period are both five seconds), so more never
  overlap: `Beat` waits until no check is older than one period, and until an
  idle worker has taken the last message. Sixty seconds are twelve beats; the
  runs take three, where the hash expires sooner, so what they show of expiry is
  the harder case. Counters saturate at `MaxCount`.
* `Sessions`: one user with two passwords, two clients (one in a login while the
  other uses its token), tokens that live two ticks; a request does not outlast
  two ticks (`waiting`), as token lives are minutes. Ages are not counted beyond
  `TTL + 1`.
* `HostTasks`: two tasks and one host with room for one, so one message waits in
  the buffer while the other runs; a message is delivered at most twice; one
  client polls, one discovery is under way. The discovery and the client do not
  touch each other's state, so `MCServer` looks at them in turn.
* `Placement`: two nodes and two services with amounts up to the size of a node
  fill, overflow and tie; `Amounts` and `Quantities` hold invalid values, and a
  node may have a negative capacity. `CapacityRespected` speaks of the nodes that
  were given an instance: one that was given nothing may offer less than nothing.
  `Quantities` are no instance and three, as a number that fills one node and
  overflows it; `place_partial` has one instance that is bigger than any node.
  `PodDistribution`: up to nine pods of two applications on up to four nodes have
  every remainder, more nodes than pods included.

Deadlock is checked for `HealthCheck` and `MCServer`, which never stop; every
other system here stops when its bounded requests are done.

### Fairness

A live process makes its next call: weak fairness of a worker's step
(`WorkerStep`), of an unpacker's (`Step`), of `Create` and of `DeleteStep`, of
the server's next step in a request (`Serve`). Celery delivers every queued
message: weak fairness of taking each task. A process that was sent SIGKILL
ends. Beat sends checks for ever (`WF` of `Beat`), some idle health worker takes
the message (`WF` of `TakeCheck` over all workers), and a probe or a Redis call
ends: the probe has a timeout (`WF` of `Step`). The worker of a host, while it
runs, takes messages, starts them when there is room, and what it runs ends
(`Work`). Time passes for tokens (`Tick`). Nothing is assumed of clients, of
EC2, of calls succeeding, of administrators, of discoveries, of workers being
started, of processes exiting on SIGTERM; a dying worker is never required and
never excluded.

## 4. Proofs

Every safety property that a passing run checks is proved for every value of the
constants. The assumptions are the
`ASSUME`s of the modules (types of the constants, and that "no value" is none of
the values) and, where it says so below, one more. None of the invariants is
inductive; each proof finds what the other pieces of state must know of the step
under way.

* `NodeRegistry_proof` - `TypeCorrect`, `EntriesAreLaunched`,
  `TerminationIsIsolated`, with re-used names, second deliveries, failing calls
  and dying workers. `IInv`: no two workers execute the same delivery, and it is
  in state "started" (`JobInv`); what a worker still has to save was launched by
  its own task and has a name (`SaveInv`); an instance EC2 knows was launched by
  a submitted task (`LaunchInv`); the ids of a terminate task are of its own
  namespace (`ScopeInv`, which leans on `EntryIsLaunchedNode` at the moment the
  API server reads `nodes`, and on itself at a second delivery); an id not yet
  submitted has no task (`AbsentInv`). `EntryStep` is the crux: an entry written
  now is true because of `SaveInv`, and a true entry stays true because EC2 gives
  an instance id out once (`StableStep`). `StartedTasksAreExecuted` and
  `LoopsAlwaysShrink` are what `EveryTaskSettles` rests on beside fairness: a
  started delivery has exactly one worker, whose loop is not empty and gets
  shorter with each call.
* `NodeLifecycle_proof` - `ResponsesForget`: what is still to save is not listed
  and in no terminate task (`UnsavedInv`), so nobody lists an instance again that
  a task terminates, and the worker that deletes its entries has all of them on
  its list (`KeysInv`). `ResponsesList`, `OnlyOwnNamesAreDeleted` and
  `LifecycleImplemented`, the refinement of `NodeLifecycle`, rest on what names
  tell: of two instances with one name, one was gone for EC2 before the other
  came (`NameInv`), and the names a worker deletes are those of its own ended
  instances (`OwnedInv`). So the entry of a running instance stays unless another
  one had its name (`StaysListed`); every running instance is listed, about to
  be, or its task told nobody, or it shares its name (`AccountedInv`), and what is
  terminated was listed or shares its name (`FoundInv`). Each action is then one
  step of `NodeLifecycle` or none (`PhaseStep`): an `hdel` forgets an ended
  instance or drops one that shares its name, a save may overwrite the entry of
  an ended one.
* `ImageUnpack_proof` - `UnpackTypesHold`, `SnapshotsAreTheirChains`,
  `RootfsAreWholeImages`, `KeysLeakOnlyOnFailure`, the refinement of `ChainStore`
  (`UnpackersImplementChainStore`), and `UnpackingSucceeds` where the node knows
  every reference (`KnownRefs = Refs`: without it the run `unpack_first` is the
  counterexample) and no image is empty. `IInv` says, per call, how far the
  chain of a task has grown, that the part below is committed, and what its draft
  holds (`Placed`); `Quiet` what a task may rely on while nothing fails.
  `KeysLeakOnlyOnFailure` says of a key that stays: its task is at that layer, or
  failed, or got past it in a race it lost while calls failed.
  `TasksAreNeverStuck` and `TasksAlwaysRunDown`: the layers left and the call of
  the round fall with every call of a task, found, built or raced, and no other
  task's calls raise them.
* `PodLifecycle_proof` - `PodTypesHold`, `HandlesMeanComplete`,
  `SpecsMeanWhatWasAsked`, `RunningPodsAreManaged`, `DeletesLeaveNoRecord`,
  `SignalledPausesHoldNoAddress`, for any request, any number of callers of
  `delete_pod` and any CNI directory. `PInv` joins what is built when nobody
  deletes (`BuiltInv`), the order in which processes are signalled and objects
  removed, by any number of callers (`ManagedInv`), the address (`AddressInv`),
  and what is gone behind the position of each caller (`GoneInv`).
  `SpecsMeanWhatWasAsked` rests on the first part of the module, about
  `ContainerResources`: `ReadingsAgree` says that for every quantity the worker
  reads, the API reads the same, and so do the other parsers where they read it,
  but for single-letter units, which one of them takes for binary ones.
  `CallsAlwaysRunDown`: each call of `create_pod_task` or `delete_pod` lowers the
  number of calls it still has to make, which is a natural number, and no failure
  and no other caller raises it.
* `HealthCheck_proof` - `HealthTypesHold` and `CountsAreConsecutive`, for any
  finite number of workers. `CInv`: a counter and the failures about to be added
  to it exceed the streak by fewer than there are workers, unless a success is
  about to be written over it; the workers that are adding are counted, hence
  the finiteness. `ChecksAreNeverStuck` and `ChecksAlwaysRunDown`: no url is
  probed twice in a check and none is tracked twice from the except branch. The
  first of them rests on the end, at once, of a check that finds no urls.
* `Server_proof`, sessions - `SessionsTypesHold`, `AdmissionsAreEarned`,
  `RemovedUsersAreOut`. `SInv`: the age of the password a token was given for
  plus what the token has left to live is at most its whole life, and a request
  has seen at most one tick since its last look at Redis.
* `Server_proof`, tasks of a host - `HostTasksTypesHold`,
  `FinalAnswersAreWhole`, `DiscoveriesAreTrue`, the last for finitely many tasks.
  `RInv`: the replies collected so far count messages that are now behind the
  place they were counted at, so that no task was counted as reserved and as
  active: the call for the active ones comes first. `HostTasksAreDelivered`, the
  refinement of `TaskDelivery`: a death takes only tasks that were running.
* `SumTheorems` - what `SumFunctionOnSet` of the community modules, a fold, does
  on finite sets of integers: it exists, is the only function of its kind
  (`SumUnique`), adds one term per element (`SumStep`), splits (`SumSplit`), moves
  with one term (`SumChange`), is monotone and bounded. The induction theorems of
  the library take a predicate as a parameter, which the provers cannot
  instantiate; `SubsetInduction` takes it as a set of subsets instead and rests
  on the least element of a set of naturals.
* `Placement_proof` - `CapacityIsRespected`, `LeftOutNeverFits`,
  `NeverMoreThanNeeded`, `AlwaysEven`, for any finite number of services, nodes
  and applications and any integers as capacities and needs. `PInv`: services
  earlier in the sorted list are done (`NothingBefore`); every instance is placed,
  left out or still to come (`Accounted`); what was left out needs more than any
  node has left, and stays so since nodes only fill up (`LeftOutInv`, which needs
  that invalid amounts raise before anything is placed); what the nodes use is,
  summed over nodes, what the placed instances ask for, summed over services
  (`Balanced`). The number of default nodes asked for then follows by `RoundedUp`,
  about the ceiling division of the code. `DInv`: at any moment of the round
  robin the loads of any two nodes differ by at most one, and those with one pod
  more come first in the list of nodes (`LoadsFall`); fillers are one application's
  and come last (`FillersStay`), so that taking them away evens the rest.

`TypeOK` of `HealthCheck`, `TasksTypeOK` of `HostTasks`, `SessionsTypeOK` of
`Sessions` and the types of the placement modules are proved and not run; the
other type invariants are both.

Only model-checked: liveness, under fairness (`EveryTaskSettles`,
`UnlistedIsAccountedFor`, `EveryTaskEnds`, `ProcessesEnd`, `CallsEnd`,
`CountersExpire`, `RecoveryIsSeen`, `FailureIsSeen`, `CheckEnds`,
`PasswordChangeTakesEffect`, `TaskEnds`). The prover has no rules for fairness
and `ENABLED`. What four of them need beside fairness is proved, for every value
of the constants: that a task, a call of `delete_pod` or a check under way has a
next step to make, where more than its program counter says so, and that each
step brings its end nearer while no other actor puts it off
(`EveryTaskSettles`, `EveryTaskEnds`, `CallsEnd`, `CheckEnds`). A step that is
not taken is then the only way for them to fail.

## 5. Not modelled

The generated protobuf code, 32 000 of the 41 700 lines of Python, and of the
9 600 that remain the four superseded containerd interfaces and three superseded
API servers (4 300 lines), which nothing imports or starts. Configuration and
logging (I/O), the wrappers of Docker and host commands (one command each), the
Kafka demonstrations, the script that prints `inspect` replies: no state and no
decisions. `get_free_ips` reads and prints and is called by nothing; it reserves
nothing, so two callers would get the same addresses. Queue names are a keyed
hash of the host's name, taken as injective; `encode_hostname_with_key` keeps
the name in a shared singleton while it hashes, which is safe as long as it runs
on the event loop. Of the Redis interface the accessors of `containers`,
`namespace_mapping`, `node_config` and the cluster keys, which nothing modelled
calls; of the health checks `lb_update` and `hc_failure_tracker.py`, which
nothing uses; of the quantities `cpuset_cpus`, signs and inner blanks. Most of
the lines of the modelled files that no definition stands for are construction
of protocol messages, logging and imports.

## 6. Left to do

1. The repeated refusal of a namespace that holds an id EC2 has forgotten: a
   liveness property that fails, and that no document denies.
