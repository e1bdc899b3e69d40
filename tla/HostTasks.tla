----------------------------- MODULE HostTasks ------------------------------
(* Tasks for the queue of one host (create-pods and the host queries of      *)
(* main_api.py), the worker on that host (worker_node.py), a client that     *)
(* asks for the status of its task (get_task_status), and the discovery of   *)
(* workers (worker_discovery.py).  Celery and its broker are modelled from   *)
(* what this code relies on: a worker takes messages off the queue before it *)
(* can run them and acknowledges each as it starts it; the broker delivers   *)
(* an unacknowledged one again after its visibility timeout.                 *)
EXTENDS Integers, Sequences, FiniteSets

CONSTANTS
    Tasks,
    Hosts,
    Pollers,
    Pool,   \* tasks a worker runs at once
    Null

ASSUME HostTasksAssumption ==
    /\ Pool \in Nat \ {0}
    /\ Null \notin Tasks \cup Hosts
    /\ IsFiniteSet(Tasks)

\* A message is a task and the number of its delivery.
Messages == Tasks \X {1, 2}

VARIABLES
    up,       \* hosts whose worker runs
    host,     \* task -> host whose queue it was sent to, or Null
    place,    \* message -> where it is
    meta,     \* task -> its result in the backend, or Null
    poll,     \* client -> get_task_status under way: what it read so far
    answer,   \* client -> what it was told last
    inspect,  \* discover_workers: the call it makes next, 0: not under way
    replies,  \* call -> what the workers replied
    workers,  \* what it returned: host -> WorkerInfo, or Null
    seen      \* hosts whose worker ran at some moment since it began

queues == <<up, host, place>>
polling == <<poll, answer>>
discovery == <<inspect, replies, workers>>
tvars == <<queues, meta, polling, discovery, seen>>

Places == {"none", "queue", "reserved", "active", "finished", "lost"}
Results == {1, 2}   \* the delivery that stored it
At(h, p) == {m \in Messages : host[m[1]] = h /\ place[m] = p}

order_swapped == <<"stats", "reserved", "active", "queues", "ping">>
    \* Bug: the reserved tasks are asked for before the active ones.

\* The calls of discover_workers; "registered" is a fixed list.
order == <<"stats", "active", "reserved", "queues", "ping">>
Counts == {"active", "reserved"}
NoReplies == [call \in {order[k] : k \in DOMAIN order} |->
                  IF call \in Counts THEN [h \in Hosts |-> 0] ELSE {}]
Nothing == [task |-> Null, status |-> "", result |-> Null]

TasksInit ==
    /\ up = {}
    /\ host = [t \in Tasks |-> Null]
    /\ place = [m \in Messages |-> "none"]
    /\ meta = [t \in Tasks |-> Null]
    /\ poll = [c \in Pollers |-> Nothing]
    /\ answer = [c \in Pollers |-> Nothing]
    /\ inspect = 0
    /\ replies = NoReplies
    /\ workers = [h \in Hosts |-> Null]
    /\ seen = {}

-----------------------------------------------------------------------------
\* The queue is named after the host of the request, whether or not there is a
\* worker for it.
apply_async(t, h) ==
    /\ host[t] = Null
    /\ host' = [host EXCEPT ![t] = h]
    /\ place' = [place EXCEPT ![<<t, 1>>] = "queue"]
    /\ UNCHANGED <<up, meta, polling, discovery, seen>>

WorkerStarts(h) ==
    /\ h \notin up
    /\ up' = up \cup {h}
    /\ seen' = seen \cup {h}
    /\ UNCHANGED <<host, place, meta, polling, discovery>>

dies_with_reserved(h) ==   \* Bug: messages are acknowledged as they arrive.
    /\ h \in up
    /\ up' = up \ {h}
    /\ place' = [m \in Messages |-> CASE m \in At(h, "active")   -> "lost"
                                      [] m \in At(h, "reserved") -> "none"
                                      [] OTHER                   -> place[m]]
    /\ UNCHANGED <<host, meta, polling, discovery, seen>>

\* What it runs is lost, what it only holds is delivered again.
WorkerDies(h) ==
    /\ h \in up
    /\ up' = up \ {h}
    /\ place' = [m \in Messages |-> CASE m \in At(h, "active")   -> "lost"
                                      [] m \in At(h, "reserved") -> "queue"
                                      [] OTHER                   -> place[m]]
    /\ UNCHANGED <<host, meta, polling, discovery, seen>>

Move(m, from, to) ==
    /\ place[m] = from
    /\ place' = [place EXCEPT ![m] = to]

Reserve(m) ==
    /\ host[m[1]] \in up
    /\ Move(m, "queue", "reserved")
    /\ UNCHANGED <<up, host, meta, polling, discovery, seen>>

redelivers_started(t) ==   \* Bug: messages are acknowledged as tasks end.
    /\ place[<<t, 1>>] \in {"reserved", "active", "lost"}
    /\ Move(<<t, 2>>, "none", "queue")
    /\ UNCHANGED <<up, host, meta, polling, discovery, seen>>

\* The visibility timeout of a message that waits for the pool (once).
Redeliver(t) ==
    /\ place[<<t, 1>>] = "reserved"
    /\ Move(<<t, 2>>, "none", "queue")
    /\ UNCHANGED <<up, host, meta, polling, discovery, seen>>

Start(m) ==
    /\ Cardinality(At(host[m[1]], "active")) < Pool
    /\ Move(m, "reserved", "active")
    /\ UNCHANGED <<up, host, meta, polling, discovery, seen>>

\* get_worker_node_info, get_host_ip and get_usage return "" when they fail,
\* so that they end like those that succeed.
Finish(m) ==
    /\ Move(m, "active", "finished")
    /\ meta' = [meta EXCEPT ![m[1]] = m[2]]
    /\ UNCHANGED <<up, host, polling, discovery, seen>>

\* The backend forgets a result after a day; some client knows it by then.
Expire(t) ==
    /\ meta[t] # Null
    /\ \E c \in Pollers : answer[c].task = t /\ answer[c].result # Null
    /\ meta' = [meta EXCEPT ![t] = Null]
    /\ UNCHANGED <<queues, polling, discovery, seen>>

-----------------------------------------------------------------------------
\* get_task_status, "status": a final state is kept with its result.
get_status(c, t) ==
    /\ host[t] # Null
    /\ poll[c] = Nothing
    /\ poll' = [poll EXCEPT ![c] =
                   [task |-> t, result |-> meta[t],
                    status |-> IF meta[t] = Null THEN "PENDING" ELSE "SUCCESS"]]
    /\ UNCHANGED <<queues, meta, answer, discovery, seen>>

reads_again(c) ==   \* Bug: a new AsyncResult for the second field.
    /\ poll[c] # Nothing
    /\ poll' = [poll EXCEPT ![c] = Nothing]
    /\ answer' = [answer EXCEPT ![c] = [poll[c] EXCEPT !.result = meta[poll[c].task]]]
    /\ UNCHANGED <<queues, meta, discovery, seen>>

\* "result": ready() reads the backend again, unless the state was final: a
\* result may come with the status "PENDING".
ready(c) ==
    /\ poll[c] # Nothing
    /\ poll' = [poll EXCEPT ![c] = Nothing]
    /\ answer' = [answer EXCEPT ![c] =
                     IF poll[c].status = "SUCCESS" THEN poll[c]
                     ELSE [poll[c] EXCEPT !.result = meta[poll[c].task]]]
    /\ UNCHANGED <<queues, meta, discovery, seen>>

-----------------------------------------------------------------------------
discover_workers ==
    /\ inspect = 0
    /\ inspect' = 1
    /\ replies' = NoReplies
    /\ workers' = [h \in Hosts |-> Null]
    /\ seen' = up
    /\ UNCHANGED <<queues, meta, polling>>

Counted(p, by) == [h \in Hosts |-> IF h \in by THEN Cardinality(At(h, p)) ELSE 0]

\* One call to all workers; those that reply in time do.
inspect_call ==
    /\ inspect \in DOMAIN order
    /\ LET call == order[inspect] IN
       \E by \in SUBSET up : replies' = [replies EXCEPT ![call] =
                                 IF call \in Counts THEN Counted(call, by) ELSE by]
    /\ inspect' = inspect + 1
    /\ UNCHANGED <<queues, meta, polling, workers, seen>>

WorkerInfo(h) == [online   |-> h \in replies.ping,
                  active   |-> replies.active[h],
                  reserved |-> replies.reserved[h]]

\* Workers are listed by any of three replies; the counts of others are dropped.
Listed == replies.stats \cup replies.ping \cup replies.queues

join ==
    /\ inspect = Len(order) + 1
    /\ inspect' = 0
    /\ workers' = [h \in Hosts |-> IF h \in Listed THEN WorkerInfo(h) ELSE Null]
    /\ replies' = NoReplies
    /\ UNCHANGED <<queues, meta, polling, seen>>

Work(m) == Reserve(m) \/ Start(m) \/ Finish(m)

HostNext ==
    \/ \E h \in Hosts : WorkerStarts(h) \/ WorkerDies(h)
    \/ \E t \in Tasks : Redeliver(t) \/ \E h \in Hosts : apply_async(t, h)
    \/ \E m \in Messages : Work(m)

StatusNext ==
    \/ \E c \in Pollers : ready(c) \/ \E t \in Tasks : get_status(c, t)
    \/ \E t \in Tasks : Expire(t)

DiscoveryNext == discover_workers \/ inspect_call \/ join

TasksNext == HostNext \/ StatusNext \/ DiscoveryNext

TasksSpec == TasksInit /\ [][TasksNext]_tvars

\* A worker that runs takes messages, starts them when there is room, and what
\* it runs ends.
TasksFairness == \A m \in Messages : WF_tvars(Work(m))

-----------------------------------------------------------------------------
\* Types; a message that was delivered has a host.
TasksTypeOK ==
    /\ up \subseteq Hosts
    /\ seen \subseteq Hosts
    /\ host \in [Tasks -> Hosts \cup {Null}]
    /\ place \in [Messages -> Places]
    /\ \A m \in Messages : place[m] # "none" => host[m[1]] # Null
    /\ meta \in [Tasks -> Results \cup {Null}]
    /\ inspect \in 0..(Len(order) + 1)

\* A client that is told its task has ended is told the result with it, even
\* if the backend forgets it, or a second delivery replaces it, between the
\* reads the two fields come from.
FinalAnswerIsWhole ==
    \A c \in Pollers : answer[c].status = "SUCCESS" => answer[c].result # Null

\* discover_workers lists a worker only if it ran at some moment of that
\* discovery, and never reports more work of a host than it was given, while
\* its tasks move on between the replies that are added up (counts are claimed
\* only while the broker has delivered nothing twice).
DiscoveryIsTrue ==
    \A h \in Hosts : workers[h] # Null =>
        /\ h \in seen
        /\ (\A t \in Tasks : place[<<t, 2>>] = "none") =>
             workers[h].active + workers[h].reserved
                 <= Cardinality({t \in Tasks : host[t] = h})

\* A task for a host whose worker stays up in the end runs to its end, or was
\* running when the worker died: it is not lost in a queue or a buffer, however
\* often the worker died before.
TaskEnds ==
    \A t \in Tasks, h \in Hosts :
        host[t] = h /\ <>[](h \in up)
            ~> \E k \in {1, 2} : place[<<t, k>>] \in {"finished", "lost"}

\* Where a task is, whatever became of its single deliveries.
Deliveries(t) == {place[<<t, k>>] : k \in {1, 2}}
fate ==
    [t \in Tasks |->
        IF host[t] = Null THEN "unsent"
        ELSE IF "active" \in Deliveries(t) THEN "running"
        ELSE IF Deliveries(t) \cap {"queue", "reserved"} # {} THEN "waiting"
        ELSE "ended"]

Delivery == INSTANCE TaskDelivery

\* The queue and its worker run each task at least once, or lose it only while
\* it runs, and an ended task never runs again, although messages are delivered
\* twice and the worker dies with a full buffer.
ImplementsDelivery == Delivery!Spec
=============================================================================
