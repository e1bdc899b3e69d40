----------------------------- MODULE HealthCheck -----------------------------
(* Health checks of one cluster.  Celery beat (beat.py) sends a check every  *)
(* five seconds with an expiry of five seconds; worker processes execute     *)
(* health_check_task (health_check_tasks.py), which probes all urls of the   *)
(* cluster at once and keeps a failure counter per url in one Redis hash     *)
(* with an expiry (hc_track.py).  Checks of several workers overlap.         *)
EXTENDS Integers, FiniteSets

CONSTANTS
    Urls,      \* urls that may be registered for the cluster
    Workers,   \* worker processes that may consume the health_check queue
    Deployments,  \* the clusters looked at: records of urls and workers
    TTL,       \* beats the hash lives after its last expire
    MaxCount,  \* bound: counters saturate here
    None

ASSUME HealthAssumption ==
    /\ TTL \in Nat \ {0}
    /\ MaxCount \in Nat \ {0}
    /\ IsFiniteSet(Workers)
    /\ Deployments \subseteq [urls : SUBSET Urls, workers : SUBSET Workers]
    /\ None \notin Nat \cup Urls

VARIABLES
    deployed,  \* the urls of the cluster and the workers there are
    trouble,   \* Redis calls may raise and workers may die
    site,      \* url -> what a probe meets: 200, another status, or nothing
    due,       \* an unexpired check is in the queue
    count,     \* Redis hash of the cluster: url -> failures, or None
    ttl,       \* beats until the hash expires (None: no expiry set)
    pc,        \* worker -> what its event loop does next
    pending,   \* worker -> urls whose probe has not ended
    at,        \* worker -> url it is tracking
    status,    \* worker -> status of that url
    retried,   \* worker -> it tracks that url from the except branch
    late,      \* worker -> its check was under way at the last beat
    streak     \* url -> probes that failed since the last that succeeded

world == <<deployed, trouble, site>>
hash == <<count, ttl>>
check == <<pc, pending, at, status, retried>>
vars == <<world, due, count, ttl, pc, pending, at, status, retried, late, streak>>

Counts == 0..MaxCount
Sites == {"up", "failing", "silent"}
Inc(n) == IF n < MaxCount THEN n + 1 ELSE n

TypeOK ==
    /\ deployed \in Deployments
    /\ trouble \in BOOLEAN
    /\ site \in [deployed.urls -> Sites]
    /\ due \in BOOLEAN
    /\ count \in [Urls -> Counts \cup {None}]
    /\ ttl \in 1..TTL \cup {None}
    /\ pc \in [Workers -> {"idle", "probe", "track", "expire"}]
    /\ pending \in [Workers -> SUBSET Urls]
    /\ at \in [Workers -> Urls \cup {None}]
    /\ status \in [Workers -> {"", "healthy", "unhealthy"}]
    /\ retried \in [Workers -> BOOLEAN]
    /\ late \in [Workers -> BOOLEAN]
    /\ streak \in [Urls -> Counts]

Init ==
    /\ deployed \in Deployments
    /\ trouble \in BOOLEAN
    /\ site \in [deployed.urls -> Sites]
    /\ due = FALSE
    /\ count = [u \in Urls |-> None]
    /\ ttl = None
    /\ pc = [w \in Workers |-> "idle"]
    /\ pending = [w \in Workers |-> {}]
    /\ at = [w \in Workers |-> None]
    /\ status = [w \in Workers |-> ""]
    /\ retried = [w \in Workers |-> FALSE]
    /\ late = [w \in Workers |-> FALSE]
    /\ streak = [u \in Urls |-> 0]

-----------------------------------------------------------------------------
\* Five seconds pass: the last check expires as the next one is sent.  An idle
\* worker has taken the last one by now, and a probe ends within five seconds:
\* no check is under way at two beats.
Beat ==
    /\ due => \A w \in deployed.workers : pc[w] # "idle"
    /\ \A w \in Workers : ~late[w]
    /\ due' = TRUE
    /\ late' = [w \in Workers |-> pc[w] # "idle"]
    /\ IF ttl = 1
       THEN count' = [u \in Urls |-> None] /\ ttl' = None
       ELSE ttl' = (IF ttl = None THEN None ELSE ttl - 1) /\ UNCHANGED count
    /\ UNCHANGED <<world, check, streak>>

\* The probes of all urls start together.  When the cluster has none, or Redis
\* does not give them, get_url_cluster returns none and the check is over.
TakeCheck(w) ==
    /\ due
    /\ pc[w] = "idle"
    /\ due' = FALSE
    /\ \/ /\ deployed.urls # {}
          /\ pc' = [pc EXCEPT ![w] = "probe"]
          /\ pending' = [pending EXCEPT ![w] = deployed.urls]
       \/ /\ trouble \/ deployed.urls = {}
          /\ UNCHANGED <<pc, pending>>
    /\ UNCHANGED <<world, hash, at, status, retried, late, streak>>

\* The worker leaves its check with nothing more to do.
Leave(w) ==
    /\ pc' = [pc EXCEPT ![w] = "idle"]
    /\ pending' = [pending EXCEPT ![w] = {}]
    /\ at' = [at EXCEPT ![w] = None]
    /\ status' = [status EXCEPT ![w] = ""]
    /\ retried' = [retried EXCEPT ![w] = FALSE]
    /\ late' = [late EXCEPT ![w] = FALSE]

\* A probe ends, and the event loop turns to its result.  Without an answer
\* the except branch tracks the status that is still "".
health_check(w, u) ==
    /\ pc[w] = "probe"
    /\ u \in pending[w]
    /\ pc' = [pc EXCEPT ![w] = "track"]
    /\ pending' = [pending EXCEPT ![w] = @ \ {u}]
    /\ at' = [at EXCEPT ![w] = u]
    /\ status' = [status EXCEPT ![w] = CASE site[u] = "up" -> "healthy"
                                         [] site[u] = "failing" -> "unhealthy"
                                         [] site[u] = "silent" -> ""]
    /\ retried' = [retried EXCEPT ![w] = site[u] = "silent"]
    /\ streak' = [streak EXCEPT ![u] = IF site[u] = "up" THEN 0 ELSE Inc(@)]
    /\ UNCHANGED <<world, due, hash, late>>

track_without_reset(w) ==   \* Bug: a success does not reset the counter.
    /\ pc[w] = "track"
    /\ count' = IF status[w] = "unhealthy"
                THEN [count EXCEPT ![at[w]] = IF @ = None THEN 1 ELSE Inc(@)]
                ELSE count
    /\ pc' = [pc EXCEPT ![w] = "expire"]
    /\ UNCHANGED <<world, due, ttl, pending, at, status, retried, late, streak>>

track_sets_one(w) ==   \* Bug: a failure is set, not added.
    /\ pc[w] = "track"
    /\ count' = CASE status[w] = "healthy"   -> [count EXCEPT ![at[w]] = 0]
                  [] status[w] = "unhealthy" -> [count EXCEPT ![at[w]] = 1]
                  [] OTHER -> count
    /\ pc' = [pc EXCEPT ![w] = "expire"]
    /\ UNCHANGED <<world, due, ttl, pending, at, status, retried, late, streak>>

\* track_consecutive_failures: hset or hincrby ...
track(w) ==
    LET u == at[w] IN
    /\ pc[w] = "track"
    /\ count' = CASE status[w] = "healthy"   -> [count EXCEPT ![u] = 0]
                  [] status[w] = "unhealthy" ->
                       [count EXCEPT ![u] = IF @ = None THEN 1 ELSE Inc(@)]
                  [] OTHER -> count
    /\ pc' = [pc EXCEPT ![w] = "expire"]
    /\ UNCHANGED <<world, due, ttl, pending, at, status, retried, late, streak>>

expire_on_success(w) ==   \* Bug: expire belongs to the healthy branch.
    /\ pc[w] = "expire"
    /\ ttl' = IF status[w] = "healthy" THEN TTL ELSE ttl
    /\ \/ pending[w] = {} /\ Leave(w)
       \/ /\ pending[w] # {}
          /\ pc' = [pc EXCEPT ![w] = "probe"]
          /\ at' = [at EXCEPT ![w] = None]
          /\ UNCHANGED <<pending, status, retried, late>>
    /\ UNCHANGED <<world, due, count, streak>>

\* ... then expire, which does nothing to a hash that does not exist.  The
\* check ends with its last url.
expire(w) ==
    /\ pc[w] = "expire"
    /\ ttl' = IF \A u \in Urls : count[u] = None THEN None ELSE TTL
    /\ \/ pending[w] = {} /\ Leave(w)
       \/ /\ pending[w] # {}
          /\ pc' = [pc EXCEPT ![w] = "probe"]
          /\ at' = [at EXCEPT ![w] = None]
          /\ status' = [status EXCEPT ![w] = ""]
          /\ retried' = [retried EXCEPT ![w] = FALSE]
          /\ UNCHANGED <<pending, late>>
    /\ UNCHANGED <<world, due, count, streak>>

raises_again(w) ==   \* Bug: the except branch tries until a call succeeds.
    /\ trouble
    /\ pc[w] \in {"track", "expire"}
    /\ pc' = [pc EXCEPT ![w] = "track"]
    /\ retried' = [retried EXCEPT ![w] = ~@]
    /\ UNCHANGED <<world, due, hash, pending, at, status, late, streak>>

\* The except branch calls track_consecutive_failures a second time; when that
\* raises too, the exception ends the whole check.
RedisRaises(w) ==
    /\ trouble
    /\ pc[w] \in {"track", "expire"}
    /\ \/ /\ ~retried[w]
          /\ pc' = [pc EXCEPT ![w] = "track"]
          /\ retried' = [retried EXCEPT ![w] = TRUE]
          /\ UNCHANGED <<pending, at, status, late>>
       \/ retried[w] /\ Leave(w)
    /\ UNCHANGED <<world, due, hash, streak>>

WorkerDies(w) ==
    /\ trouble
    /\ pc[w] # "idle"
    /\ Leave(w)
    /\ UNCHANGED <<world, due, hash, streak>>

SiteChanges(u) ==
    /\ \E s \in Sites \ {site[u]} : site' = [site EXCEPT ![u] = s]
    /\ UNCHANGED <<deployed, trouble, due, hash, check, late, streak>>

TroubleChanges ==
    /\ trouble' = ~trouble
    /\ UNCHANGED <<deployed, site, due, hash, check, late, streak>>

Step(w) ==
    \/ \E u \in Urls : health_check(w, u)
    \/ track(w) \/ expire(w) \/ RedisRaises(w)

Next ==
    \/ Beat
    \/ \E w \in deployed.workers : TakeCheck(w) \/ Step(w) \/ WorkerDies(w)
    \/ \E u \in deployed.urls : SiteChanges(u)
    \/ TroubleChanges

Spec == Init /\ [][Next]_vars

\* Beat never stops, a queued check is taken by an idle worker, and probes and
\* Redis calls end.
FairSpec ==
    /\ Spec
    /\ WF_vars(Beat)
    /\ WF_vars(\E w \in deployed.workers : TakeCheck(w))
    /\ \A w \in Workers : WF_vars(Step(w))

-----------------------------------------------------------------------------
\* Without trouble the counter of a url tells its consecutive failures, but
\* for those of checks that overlap: it never exceeds the failures its probes
\* have met since the last success by more than one per other worker (not
\* while a result is being written).
CountIsConsecutive ==
    []~trouble =>
        [](\A u \in Urls :
            count[u] # None /\ (\A w \in Workers : at[w] # u)
                => count[u] <= streak[u] + Cardinality(deployed.workers) - 1)

\* The counters do not outlive the checks: when the trouble is over, the hash
\* has an expiry outside of an update, whatever state a raising call or a dead
\* worker left it in, and however often it expires between two calls.
CountersExpire ==
    <>[]~trouble =>
        <>[]((\E u \in Urls : count[u] # None) /\ ttl = None =>
                \E w \in Workers : pc[w] = "expire")

IsSite(u, s) == u \in deployed.urls /\ site[u] = s

\* A url that recovered for good ends up without failures, although results
\* of older checks may be written after those of newer ones.
RecoveryIsSeen ==
    \A u \in Urls :
        <>[](~trouble /\ IsSite(u, "up")) => <>[](count[u] \in {0, None})

\* A url that fails for good is counted up to any threshold and stays there:
\* the hash does not expire between two checks, expired messages do not starve
\* them, and no older result resets it.
FailureIsSeen ==
    \A u \in Urls :
        <>[](~trouble /\ IsSite(u, "failing")) => <>[](count[u] = MaxCount)

\* The same of every url that does not answer with 200 for good.
EveryFailureIsSeen ==
    \A u \in Urls :
        <>[](~trouble /\ u \in deployed.urls /\ ~IsSite(u, "up")) => <>[](count[u] = MaxCount)

\* A check ends, whatever the sites answer and whichever calls raise.
CheckEnds == \A w \in Workers : pc[w] # "idle" ~> pc[w] = "idle"
=============================================================================
