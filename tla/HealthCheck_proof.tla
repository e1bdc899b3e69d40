------------------------- MODULE HealthCheck_proof --------------------------
(* Proofs about HealthCheck for any urls, any finite number of workers and   *)
(* any cluster.                                                              *)
EXTENDS HealthCheck, FiniteSetTheorems, TLAPS

\* Where an event loop is, and what it has with it.
Shape ==
    /\ \A w \in Workers : pending[w] \subseteq deployed.urls
    /\ \A w \in Workers : pc[w] \in {"track", "expire"} => at[w] \in deployed.urls
    /\ \A w \in Workers : pc[w] \in {"idle", "probe"} => at[w] = None
    /\ \A w \in Workers : pc[w] # "idle" => w \in deployed.workers

TInv == TypeOK /\ Shape

LEMMA Deployed ==
    ASSUME TypeOK
    PROVE  /\ deployed.urls \subseteq Urls
           /\ deployed.workers \subseteq Workers
  BY HealthAssumption DEF TypeOK

LEMMA IncCounts == \A n \in Counts : Inc(n) \in Counts /\ Inc(n) # 0
  BY HealthAssumption DEF Counts, Inc

LEMMA Bounds == 0 \in Counts /\ 1 \in Counts /\ TTL \in 1..TTL /\ None \notin Counts
                /\ \A n \in 1..TTL : n # 1 => n - 1 \in 1..TTL
  BY HealthAssumption DEF Counts

\* A check begins with the types.
LEMMA TInit == Init => TInv
  <1> USE Bounds
  <1>1. ASSUME Init PROVE TypeOK
    <2>2. deployed \in Deployments /\ trouble \in BOOLEAN /\ site \in [deployed.urls -> Sites]
      BY <1>1 DEF Init
    <2>3. count \in [Urls -> Counts \cup {None}] /\ ttl \in 1..TTL \cup {None}
      BY <1>1 DEF Init
    <2>4. streak \in [Urls -> Counts]  BY <1>1, Bounds DEF Init
    <2>5. pc \in [Workers -> {"idle", "probe", "track", "expire"}] /\ due \in BOOLEAN
      BY <1>1 DEF Init
    <2>6. pending \in [Workers -> SUBSET Urls] /\ at \in [Workers -> Urls \cup {None}]
      BY <1>1 DEF Init
    <2>7. status \in [Workers -> {"", "healthy", "unhealthy"}]
      BY <1>1 DEF Init
    <2>8. retried \in [Workers -> BOOLEAN] /\ late \in [Workers -> BOOLEAN]
      BY <1>1 DEF Init
    <2> QED  BY <2>2, <2>3, <2>4, <2>5, <2>6, <2>7, <2>8 DEF TypeOK
  <1>2. Init => Shape  BY DEF Init, Shape
  <1> QED  BY <1>1, <1>2 DEF TInv

\* A worker that leaves its check is idle and has nothing.
LEMMA Leaving ==
    ASSUME TInv, NEW w \in Workers, Leave(w)
    PROVE  /\ pc' \in [Workers -> {"idle", "probe", "track", "expire"}]
           /\ pending' \in [Workers -> SUBSET Urls]
           /\ at' \in [Workers -> Urls \cup {None}]
           /\ status' \in [Workers -> {"", "healthy", "unhealthy"}]
           /\ retried' \in [Workers -> BOOLEAN]
           /\ late' \in [Workers -> BOOLEAN]
           /\ deployed' = deployed => Shape'
  BY DEF TInv, TypeOK, Shape, Leave

\* Every step keeps the types.
LEMMA TStep ==
    ASSUME TInv, [Next]_vars
    PROVE  TInv'
  <1> USE Deployed, Bounds, IncCounts DEF TInv, world, hash, check
  <1>1. CASE Beat
    BY <1>1 DEF Beat, TypeOK, Shape
  <1>2. ASSUME NEW w \in deployed.workers, TakeCheck(w) PROVE TInv'
    BY <1>2 DEF TakeCheck, TypeOK, Shape
  <1>3. ASSUME NEW w \in deployed.workers, NEW u \in Urls, health_check(w, u) PROVE TInv'
    <2>1. site[u] \in Sites  BY <1>3 DEF health_check, Shape, TypeOK
    <2>2. status' \in [Workers -> {"", "healthy", "unhealthy"}]
      BY <1>3, <2>1 DEF health_check, TypeOK, Sites
    <2> QED  BY <1>3, <2>2 DEF health_check, TypeOK, Shape
  <1>4. ASSUME NEW w \in deployed.workers, track(w) PROVE TInv'
    <2>1. at[w] \in Urls  BY <1>4 DEF track, Shape
    <2>2. count' \in [Urls -> Counts \cup {None}]
      BY <1>4, <2>1 DEF track, TypeOK
    <2> QED  BY <1>4, <2>2 DEF track, TypeOK, Shape
  <1>5. ASSUME NEW w \in deployed.workers, expire(w) PROVE TInv'
    <2>1. CASE Leave(w)  BY <1>5, <2>1, Leaving DEF expire, TypeOK
    <2>2. CASE ~Leave(w)
      <3>1. /\ pc' = [pc EXCEPT ![w] = "probe"] /\ at' = [at EXCEPT ![w] = None]
            /\ status' = [status EXCEPT ![w] = ""] /\ retried' = [retried EXCEPT ![w] = FALSE]
            /\ UNCHANGED <<world, due, count, streak, pending, late>>
        BY <1>5, <2>2 DEF expire
      <3>2. ttl' \in 1..TTL \cup {None}  BY <1>5 DEF expire
      <3>3. pc[w] = "expire"  BY <1>5 DEF expire
      <3>4. TypeOK'  BY <3>1, <3>2 DEF TypeOK
      <3>5. Shape'  BY <3>1, <3>3 DEF TypeOK, Shape
      <3> QED  BY <3>4, <3>5
    <2> QED  BY <2>1, <2>2
  <1>6. ASSUME NEW w \in deployed.workers, RedisRaises(w) PROVE TInv'
    <2>1. CASE Leave(w)  BY <1>6, <2>1, Leaving DEF RedisRaises, TypeOK
    <2>2. CASE ~Leave(w)  BY <1>6, <2>2 DEF RedisRaises, TypeOK, Shape
    <2> QED  BY <2>1, <2>2
  <1>7. ASSUME NEW w \in deployed.workers, WorkerDies(w) PROVE TInv'
    BY <1>7, Leaving DEF WorkerDies, TypeOK
  <1>8. ASSUME NEW u \in deployed.urls, SiteChanges(u) PROVE TInv'
    BY <1>8 DEF SiteChanges, TypeOK, Shape
  <1>9. CASE TroubleChanges
    BY <1>9 DEF TroubleChanges, TypeOK, Shape
  <1>10. CASE UNCHANGED vars
    BY <1>10 DEF vars, TypeOK, Shape
  <1> QED
    BY <1>1, <1>2, <1>3, <1>4, <1>5, <1>6, <1>7, <1>8, <1>9, <1>10 DEF Next, Step

\* Every state of the checks has the types, with raising calls, dying workers
\* and expired messages (TypeOK).
THEOREM HealthTypesHold == Spec => []TypeOK
  <1>1. TInv => TypeOK  BY DEF TInv
  <1> QED  BY TInit, TStep, <1>1, PTL DEF Spec

-----------------------------------------------------------------------------
\* The workers that are about to count a failure of a url, ...
Adding(u) == {w \in deployed.workers :
                pc[w] = "track" /\ at[w] = u /\ status[w] = "unhealthy"}

\* ... and that one of them is about to reset its counter.
Resetting(u) == \E w \in deployed.workers :
                    pc[w] = "track" /\ at[w] = u /\ status[w] = "healthy"

Failures(u) == IF count[u] = None THEN 0 ELSE count[u]

\* What is counted and what is about to be counted exceeds the streak by less
\* than the number of workers, unless a success is about to be written.
Excess(u) ==
    \/ Resetting(u)
    \/ streak[u] = MaxCount
    \/ Failures(u) + Cardinality(Adding(u)) <= streak[u] + Cardinality(deployed.workers) - 1

\* Without workers nothing is counted.
Uncounted == deployed.workers = {} => \A u \in Urls : count[u] = None

CInv ==
    /\ TInv
    /\ Uncounted
    /\ deployed.workers # {} => \A u \in Urls : Excess(u)

\* The sets of workers are finite.
LEMMA Finite ==
    ASSUME TypeOK
    PROVE  /\ IsFiniteSet(deployed.workers)
           /\ Cardinality(deployed.workers) \in Nat
           /\ deployed.workers # {} => Cardinality(deployed.workers) >= 1
           /\ \A u : IsFiniteSet(Adding(u)) /\ Cardinality(Adding(u)) \in Nat
  <1>1. IsFiniteSet(Workers)  BY HealthAssumption
  <1>2. IsFiniteSet(deployed.workers)  BY <1>1, Deployed, FS_Subset
  <1>3. ASSUME NEW u PROVE IsFiniteSet(Adding(u))
    BY <1>2, FS_Subset DEF Adding
  <1>4. Cardinality(deployed.workers) = 0 <=> deployed.workers = {}
    BY <1>2, FS_EmptySet
  <1>5. Cardinality(deployed.workers) \in Nat  BY <1>2, FS_CardinalityType
  <1>6. \A u : Cardinality(Adding(u)) \in Nat  BY <1>3, FS_CardinalityType
  <1> QED  BY <1>2, <1>3, <1>4, <1>5, <1>6

\* Counters that are not there count as zero.
LEMMA Values ==
    ASSUME TypeOK, NEW u \in Urls
    PROVE  /\ Failures(u) \in 0..MaxCount
           /\ streak[u] \in 0..MaxCount
           /\ Inc(streak[u]) \in 0..MaxCount
           /\ Inc(streak[u]) = MaxCount \/ Inc(streak[u]) = streak[u] + 1
  <1>1. MaxCount \in Nat /\ MaxCount # 0  BY HealthAssumption
  <1>2. count[u] \in (0..MaxCount) \cup {None} /\ streak[u] \in 0..MaxCount
    BY DEF TypeOK, Counts
  <1>3. Failures(u) \in 0..MaxCount  BY <1>1, <1>2 DEF Failures
  <1>4. ASSUME NEW n \in 0..MaxCount
        PROVE  Inc(n) \in 0..MaxCount /\ (Inc(n) = MaxCount \/ Inc(n) = n + 1)
    BY <1>1 DEF Inc
  <1> QED  BY <1>2, <1>3, <1>4

\* The same of the next state.
LEMMA NextValues ==
    ASSUME TypeOK', NEW u \in Urls
    PROVE  Failures(u)' \in 0..MaxCount /\ streak'[u] \in 0..MaxCount
  <1>1. MaxCount \in Nat  BY HealthAssumption
  <1>2. count'[u] \in (0..MaxCount) \cup {None} /\ streak'[u] \in 0..MaxCount
    BY DEF TypeOK, Counts
  <1> QED  BY <1>1, <1>2 DEF Failures

\* Nothing is counted at first.
LEMMA CInit == Init => CInv
  <1> SUFFICES ASSUME Init PROVE CInv
    OBVIOUS
  <1>1. TypeOK /\ TInv  BY TInit DEF TInv
  <1>2. ASSUME NEW u \in Urls, deployed.workers # {} PROVE Excess(u)
    <2>1. Adding(u) = {}
      <3>1. \A w \in deployed.workers : pc[w] = "idle"  BY <1>1, Deployed DEF Init
      <3> QED  BY <3>1 DEF Adding
    <2>2. Cardinality(Adding(u)) = 0  BY <2>1, FS_EmptySet
    <2>3. Failures(u) = 0 /\ streak[u] = 0  BY DEF Init, Failures
    <2>4. Cardinality(deployed.workers) \in Nat /\ Cardinality(deployed.workers) >= 1
      BY <1>1, <1>2, Finite
    <2> QED  BY <2>2, <2>3, <2>4 DEF Excess
  <1>3. Uncounted  BY DEF Init, Uncounted
  <1> QED  BY <1>1, <1>2, <1>3 DEF CInv

\* A step that changes neither who is about to write nor a streak, and counts
\* nothing, keeps the excess.
LEMMA NothingCounted ==
    ASSUME TypeOK, TypeOK', NEW u \in Urls, Excess(u), deployed' = deployed,
           Adding(u)' = Adding(u), Resetting(u)' <=> Resetting(u),
           streak'[u] = streak[u], Failures(u)' <= Failures(u)
    PROVE  Excess(u)'
  <1> DEFINE f == Failures(u)  f1 == Failures(u)'  n == Cardinality(Adding(u))
             s == streak[u]  k == Cardinality(deployed.workers)
  <1>1. f \in 0..MaxCount /\ f1 \in 0..MaxCount /\ s \in 0..MaxCount
    BY Values, NextValues
  <1>2. n \in Nat /\ k \in Nat  BY Finite
  <1>3. MaxCount \in Nat /\ f1 <= f  BY HealthAssumption
  <1>4. f + n <= s + k - 1 => f1 + n <= s + k - 1
    <2> HIDE DEF f, f1, n, s, k
    <2> QED  BY <1>1, <1>2, <1>3
  <1> QED  BY <1>4 DEF Excess

\* A worker enters or leaves the set of those about to count one failure.
LEMMA OneWorker ==
    ASSUME TypeOK, NEW u, NEW w
    PROVE  /\ w \notin Adding(u) =>
                Cardinality(Adding(u) \cup {w}) = Cardinality(Adding(u)) + 1
           /\ w \in Adding(u) =>
                Cardinality(Adding(u) \ {w}) = Cardinality(Adding(u)) - 1
  BY Finite, FS_AddElement, FS_RemoveElement

\* A probe that fails and a result that is about to be counted come together.
LEMMA ProbeStep ==
    ASSUME CInv, TInv', NEW w \in deployed.workers, NEW v \in Urls,
           health_check(w, v), NEW u \in Urls
    PROVE  Excess(u)'
  <1> USE DEF CInv, TInv
  <1>1. /\ w \in Workers /\ pc[w] = "probe" /\ deployed' = deployed /\ count' = count
        /\ pc' = [pc EXCEPT ![w] = "track"] /\ at' = [at EXCEPT ![w] = v]
        /\ \A x \in Workers \ {w} : status'[x] = status[x]
        /\ \A x \in Urls \ {v} : streak'[x] = streak[x]
        /\ \A x \in deployed.workers : x \in Workers
    BY Deployed DEF health_check, world, hash, TypeOK
  <1>2. Excess(u)  OBVIOUS
  <1>3. Failures(u)' = Failures(u)  BY <1>1 DEF Failures
  <1>4. Resetting(u) => Resetting(u)'
    BY <1>1 DEF Resetting, TypeOK
  <1>5. CASE u # v
    <2>1. Adding(u)' = Adding(u)  BY <1>1, <1>5 DEF Adding, TypeOK
    <2>2. Resetting(u)' => Resetting(u)  BY <1>1, <1>5 DEF Resetting, TypeOK
    <2>3. Failures(u)' <= Failures(u)  BY <1>3, Values
    <2> QED  BY <1>1, <1>2, <1>4, <1>5, <2>1, <2>2, <2>3, NothingCounted
  <1>6. CASE u = v /\ status'[w] = "healthy"
    BY <1>1, <1>6 DEF Excess, Resetting, TypeOK
  <1>7. CASE u = v /\ status'[w] # "healthy"
    <2>1. site[v] # "up" /\ streak'[u] = Inc(streak[u])
      <3>1. /\ status' = [status EXCEPT ![w] = CASE site[u] = "up" -> "healthy"
                                                  [] site[u] = "failing" -> "unhealthy"
                                                  [] site[u] = "silent" -> ""]
            /\ streak' = [streak EXCEPT ![u] = IF site[u] = "up" THEN 0 ELSE Inc(@)]
        BY <1>7 DEF health_check
      <3>2. site[u] # "up"  BY <3>1, <1>1, <1>7 DEF TypeOK
      <3> QED  BY <3>1, <3>2, <1>7 DEF TypeOK
    <2>2. \/ Adding(u)' = Adding(u)
          \/ Adding(u)' = Adding(u) \cup {w} /\ w \notin Adding(u)
      <3>1. Adding(u) \subseteq Adding(u)'  BY <1>1 DEF Adding, TypeOK
      <3>2. Adding(u)' \subseteq Adding(u) \cup {w}  BY <1>1 DEF Adding, TypeOK
      <3>3. w \notin Adding(u)  BY <1>1 DEF Adding
      <3> QED  BY <3>1, <3>2, <3>3
    <2> DEFINE n == Cardinality(Adding(u))  n1 == Cardinality(Adding(u))'
               k == Cardinality(deployed.workers)  f == Failures(u)  s == streak[u]
    <2>3. n1 = n \/ n1 = n + 1  BY <2>2, OneWorker
    <2>4. f \in 0..MaxCount /\ s \in 0..MaxCount /\ (Inc(s) = MaxCount \/ Inc(s) = s + 1)
      BY Values
    <2>5. n \in Nat /\ k \in Nat /\ MaxCount \in Nat  BY Finite, HealthAssumption
    <2>6. CASE Resetting(u)  BY <1>4, <2>6 DEF Excess
    <2>7. CASE s = MaxCount
      <3>1. Inc(s) = MaxCount  BY <2>7, <2>5 DEF Inc
      <3> QED  BY <3>1, <2>1 DEF Excess
    <2>8. CASE f + n <= s + k - 1
      <3>1. Inc(s) = MaxCount \/ f + n1 <= Inc(s) + k - 1
        <4> HIDE DEF n, n1, k, f, s
        <4> QED  BY <2>3, <2>4, <2>5, <2>8
      <3>2. Cardinality(deployed'.workers) = k  BY <1>1
      <3> QED  BY <3>1, <3>2, <2>1, <1>3 DEF Excess
    <2> QED  BY <1>2, <2>6, <2>7, <2>8 DEF Excess
  <1> QED  BY <1>5, <1>6, <1>7

\* A result is written: the counter of its url is reset, when at most the
\* other workers still hold a failure, or the failure moves from the worker to
\* the counter.
LEMMA TrackStep ==
    ASSUME CInv, TInv', NEW w \in deployed.workers, track(w), NEW u \in Urls
    PROVE  Excess(u)'
  <1> USE DEF CInv, TInv
  <1>1. /\ w \in Workers /\ pc[w] = "track" /\ deployed' = deployed
        /\ at' = at /\ status' = status /\ streak' = streak
        /\ pc' = [pc EXCEPT ![w] = "expire"]
        /\ \A x \in deployed.workers : x \in Workers
        /\ at[w] \in Urls
    BY Deployed DEF track, world, TypeOK, Shape
  <1>2. Excess(u)  OBVIOUS
  <1>3. Adding(u)' = Adding(u) \ {w}
    BY <1>1 DEF Adding, TypeOK
  <1>4. status[w] # "healthy" => (Resetting(u)' <=> Resetting(u))
    BY <1>1 DEF Resetting, TypeOK
  <1> DEFINE n == Cardinality(Adding(u))  n1 == Cardinality(Adding(u))'
             k == Cardinality(deployed.workers)  s == streak[u]
             f == Failures(u)  f1 == Failures(u)'
  <1>5. n \in Nat /\ k \in Nat /\ k >= 1 /\ MaxCount \in Nat
    BY Finite, HealthAssumption
  <1>6. f \in 0..MaxCount /\ s \in 0..MaxCount /\ f1 \in 0..MaxCount
    BY Values, NextValues
  <1>7. w \in Adding(u) => n1 = n - 1  BY <1>3, OneWorker
  <1>8. Cardinality(deployed'.workers) = k /\ streak'[u] = s  BY <1>1
  <1>9. CASE at[w] = u /\ status[w] = "healthy"
    <2>1. f1 = 0
      <3>1. count'[u] = 0  BY <1>1, <1>9 DEF track, TypeOK
      <3> QED  BY <3>1 DEF Failures
    <2>2. n1 <= k - 1
      <3>1. Adding(u)' \subseteq deployed.workers \ {w}  BY <1>3 DEF Adding
      <3>2. IsFiniteSet(deployed.workers \ {w}) /\ Cardinality(deployed.workers \ {w}) = k - 1
        BY Finite, FS_RemoveElement
      <3> QED  BY <3>1, <3>2, FS_Subset
    <2>3. n1 \in Nat
      <3>1. IsFiniteSet(Adding(u))  BY Finite
      <3> QED  BY <1>3, <3>1, FS_RemoveElement, FS_CardinalityType
    <2>4. f1 + n1 <= s + k - 1
      <3> HIDE DEF n1, f1, k, s
      <3> QED  BY <1>5, <1>6, <2>1, <2>2, <2>3
    <2> QED  BY <2>4, <1>8 DEF Excess
  <1>10. CASE at[w] = u /\ status[w] = "unhealthy"
    <2>1. w \in Adding(u)  BY <1>1, <1>10 DEF Adding
    <2>2. f1 = f + 1 \/ f1 = f
      <3>1. count'[u] = IF count[u] = None THEN 1 ELSE Inc(count[u])
        BY <1>1, <1>10 DEF track, TypeOK
      <3>2. count'[u] # None
        <4>1. count[u] \in Counts \cup {None}  BY DEF TypeOK
        <4>2. count[u] # None => Inc(count[u]) \in Counts  BY <4>1, IncCounts
        <4> QED  BY <3>1, <4>2, Bounds
      <3>3. count[u] # None => Inc(count[u]) = count[u] \/ Inc(count[u]) = count[u] + 1
        BY DEF Inc, TypeOK, Counts
      <3> QED  BY <3>1, <3>2, <3>3 DEF Failures
    <2>3. f + n <= s + k - 1 => f1 + n1 <= s + k - 1
      <3> HIDE DEF n, n1, f, f1, k, s
      <3> QED  BY <1>5, <1>6, <1>7, <2>1, <2>2
    <2> QED  BY <2>3, <1>2, <1>4, <1>8, <1>10 DEF Excess
  <1>11. CASE at[w] # u \/ status[w] = ""
    <2>1. Adding(u)' = Adding(u)  BY <1>3, <1>11 DEF Adding
    <2>2. count'[u] = count[u]  BY <1>1, <1>11 DEF track, TypeOK
    <2>3. Failures(u)' <= Failures(u)  BY <2>2, <1>6 DEF Failures
    <2>4. Resetting(u)' <=> Resetting(u)  BY <1>1, <1>11 DEF Resetting, TypeOK
    <2> QED  BY <1>1, <1>2, <2>1, <2>3, <2>4, NothingCounted
  <1>12. status[w] \in {"", "healthy", "unhealthy"}  BY <1>1 DEF TypeOK
  <1> QED  BY <1>9, <1>10, <1>11, <1>12

\* A worker that starts or ends with a url writes no result.
LEMMA OtherStep ==
    ASSUME CInv, TInv', NEW w \in Workers, NEW u \in Urls, Excess(u),
           deployed' = deployed, count' = count, streak' = streak,
           pc[w] # "track", pc'[w] # "track",
           \A x \in Workers \ {w} : pc'[x] = pc[x] /\ at'[x] = at[x] /\ status'[x] = status[x]
    PROVE  Excess(u)'
  <1> USE DEF CInv, TInv
  <1>1. deployed.workers \subseteq Workers  BY Deployed
  <1>2. Adding(u)' = Adding(u)  BY <1>1 DEF Adding
  <1>3. Resetting(u)' <=> Resetting(u)  BY <1>1 DEF Resetting
  <1>4. Failures(u)' <= Failures(u)  BY Values DEF Failures
  <1> QED  BY <1>2, <1>3, <1>4, NothingCounted

\* Every step without trouble keeps the counts.
LEMMA CStep ==
    ASSUME CInv, [Next]_vars, ~trouble
    PROVE  CInv'
  <1>1. TInv'  BY TStep DEF CInv
  <1>2. deployed' = deployed
    BY DEF Next, Step, vars, world, Beat, TakeCheck, health_check, track, expire,
           RedisRaises, WorkerDies, SiteChanges, TroubleChanges
  <1>3. Uncounted'
    <2>1. CASE deployed.workers # {}  BY <1>2, <2>1 DEF Uncounted
    <2>2. CASE deployed.workers = {}
      BY <1>2, <2>2 DEF CInv, Uncounted, Next, vars, hash, Beat, SiteChanges, TroubleChanges
    <2> QED  BY <2>1, <2>2
  <1>4. ASSUME NEW u \in Urls, deployed.workers # {} PROVE Excess(u)'
    <2> USE DEF CInv, TInv
    <2>0. Excess(u) /\ deployed.workers \subseteq Workers  BY <1>4, Deployed
    <2>1. CASE Beat
      <3>1. /\ UNCHANGED <<deployed, pc, at, status, streak>>
            /\ count'[u] = count[u] \/ count'[u] = None
        BY <2>1 DEF Beat, world, check
      <3>2. Failures(u)' <= Failures(u)  BY <3>1, Values DEF Failures
      <3>3. Adding(u)' = Adding(u)  BY <3>1 DEF Adding
      <3>4. Resetting(u)' <=> Resetting(u)  BY <3>1 DEF Resetting
      <3> QED  BY <1>1, <2>0, <3>1, <3>2, <3>3, <3>4, NothingCounted
    <2>2. ASSUME NEW w \in deployed.workers, TakeCheck(w) PROVE Excess(u)'
      <3>1. /\ pc[w] # "track" /\ pc'[w] # "track" /\ count' = count /\ streak' = streak
            /\ \A x \in Workers \ {w} :
                 pc'[x] = pc[x] /\ at'[x] = at[x] /\ status'[x] = status[x]
        BY <2>2, <2>0 DEF TakeCheck, hash, TypeOK
      <3> QED  BY <1>1, <1>2, <2>0, <3>1, OtherStep
    <2>3. ASSUME NEW w \in deployed.workers, NEW v \in Urls, health_check(w, v)
          PROVE  Excess(u)'
      BY <1>1, <2>3, ProbeStep
    <2>4. ASSUME NEW w \in deployed.workers, track(w) PROVE Excess(u)'
      BY <1>1, <2>4, TrackStep
    <2>5. ASSUME NEW w \in deployed.workers, expire(w) PROVE Excess(u)'
      <3>1. pc[w] # "track" /\ count' = count /\ streak' = streak
        BY <2>5 DEF expire
      <3>2. /\ pc'[w] # "track"
            /\ \A x \in Workers \ {w} :
                 pc'[x] = pc[x] /\ at'[x] = at[x] /\ status'[x] = status[x]
        BY <2>5, <2>0 DEF expire, Leave, TypeOK
      <3> QED  BY <1>1, <1>2, <2>0, <3>1, <3>2, OtherStep
    <2>6. CASE UNCHANGED <<deployed, count, pc, at, status, streak>>
      <3>1. Failures(u)' <= Failures(u)  BY <2>6, Values DEF Failures
      <3>2. Adding(u)' = Adding(u)  BY <2>6 DEF Adding
      <3>3. Resetting(u)' <=> Resetting(u)  BY <2>6 DEF Resetting
      <3> QED  BY <1>1, <2>0, <2>6, <3>1, <3>2, <3>3, NothingCounted
    <2>7. \/ Beat
          \/ \E w \in deployed.workers : TakeCheck(w) \/ track(w) \/ expire(w)
                                         \/ \E v \in Urls : health_check(w, v)
          \/ UNCHANGED <<deployed, count, pc, at, status, streak>>
      BY DEF Next, Step, RedisRaises, WorkerDies, SiteChanges, TroubleChanges, vars,
             hash, check, world
    <2> QED  BY <2>1, <2>2, <2>3, <2>4, <2>5, <2>6, <2>7
  <1> QED  BY <1>1, <1>2, <1>3, <1>4 DEF CInv

\* The counter of a url is off by less than one failure per worker.
LEMMA Counted ==
    ASSUME CInv
    PROVE  \A u \in Urls :
             count[u] # None /\ (\A w \in Workers : at[w] # u)
                 => count[u] <= streak[u] + Cardinality(deployed.workers) - 1
  <1> SUFFICES ASSUME NEW u \in Urls, count[u] # None, \A w \in Workers : at[w] # u
               PROVE  count[u] <= streak[u] + Cardinality(deployed.workers) - 1
    OBVIOUS
  <1>1. TypeOK /\ deployed.workers # {} /\ Excess(u)  BY DEF CInv, TInv, Uncounted
  <1>2. deployed.workers \subseteq Workers  BY <1>1, Deployed
  <1>3. ~Resetting(u) /\ Adding(u) = {}  BY <1>2 DEF Resetting, Adding
  <1>4. Cardinality(Adding(u)) = 0  BY <1>3, FS_EmptySet
  <1> DEFINE k == Cardinality(deployed.workers)  s == streak[u]  c == count[u]
  <1>5. k \in Nat /\ k >= 1  BY <1>1, Finite
  <1>6. s \in 0..MaxCount /\ Failures(u) \in 0..MaxCount /\ Failures(u) = c
    BY <1>1, Values DEF Failures
  <1>7. MaxCount \in Nat  BY HealthAssumption
  <1>8. s = MaxCount \/ c + 0 <= s + k - 1
    BY <1>1, <1>3, <1>4, <1>6 DEF Excess
  <1> HIDE DEF k, s, c
  <1> QED  BY <1>5, <1>6, <1>7, <1>8 DEF k, s, c

\* Without trouble a counter never exceeds the failures since the last success
\* by more than one per other worker, however the checks of any number of
\* workers overlap and whenever the hash expires (CountIsConsecutive).
THEOREM CountsAreConsecutive == Spec => CountIsConsecutive
  <1>1. CInv /\ [Next]_vars /\ ~trouble => CInv'  BY CStep
  <1> DEFINE Good == \A u \in Urls :
                       count[u] # None /\ (\A w \in Workers : at[w] # u)
                         => count[u] <= streak[u] + Cardinality(deployed.workers) - 1
  <1>2. CInv => Good  BY Counted
  <1>3. Spec => ([]~trouble => []Good)
    <2> HIDE DEF Good
    <2> QED  BY CInit, <1>1, <1>2, PTL DEF Spec
  <1> QED  BY <1>3 DEF CountIsConsecutive

-----------------------------------------------------------------------------
\* A check always has a next call to make: while it waits for probes, one of
\* them has still to end, and what it tracks is a url of the cluster.
ChecksNeverStuck ==
    \A w \in Workers :
        /\ pc[w] = "probe" => \E u \in pending[w] : site[u] \in Sites
        /\ pc[w] \in {"track", "expire"} => at[w] \in deployed.urls
        /\ pc[w] # "idle" => w \in deployed.workers

\* What is left of the url that worker w is tracking: the two calls of
\* track_consecutive_failures, and the same again from the except branch.
CallsIn(p, again) ==
    CASE p = "track"  -> IF again THEN 2 ELSE 4
      [] p = "expire" -> IF again THEN 1 ELSE 3
      [] OTHER -> 0

\* Worker w leaves its check, or turns to one more of its urls, or comes nearer
\* to the end of that url.
Nearer(w) ==
    \/ pc[w] # "idle" /\ pc'[w] = "idle"
    \/ pending'[w] \subseteq pending[w] /\ pending'[w] # pending[w]
    \/ pending'[w] = pending[w] /\ CallsIn(pc'[w], retried'[w]) < CallsIn(pc[w], retried[w])

\* Each step of a check brings it nearer to its end, whatever the sites answer
\* and whichever calls raise, and no other step moves it back: no url is probed
\* twice, and none is tracked from the except branch more than once.
Runs ==
    \A w \in Workers :
        /\ Step(w) \/ WorkerDies(w) => Nearer(w)
        /\ \/ Nearer(w)
           \/ pc[w] = "idle" /\ TakeCheck(w)
           \/ UNCHANGED <<pc[w], pending[w], at[w], retried[w]>>

ChecksRunDown == [][Runs]_vars

\* A worker at its probes has one that has not ended.
Probing == \A w \in Workers : pc[w] = "probe" => pending[w] # {}

LEMMA ProbingStep ==
    ASSUME TInv, Probing, [Next]_vars
    PROVE  Probing'
  <1> USE Deployed DEF TInv, TypeOK, Probing, world, hash, check
  <1>1. CASE Beat  BY <1>1 DEF Beat
  <1>2. ASSUME NEW w \in deployed.workers, TakeCheck(w) PROVE Probing'
    BY <1>2 DEF TakeCheck
  <1>3. ASSUME NEW w \in deployed.workers, NEW u \in Urls, health_check(w, u) PROVE Probing'
    BY <1>3 DEF health_check
  <1>4. ASSUME NEW w \in deployed.workers, track(w) PROVE Probing'
    BY <1>4 DEF track
  <1>5. ASSUME NEW w \in deployed.workers, expire(w) PROVE Probing'
    BY <1>5 DEF expire, Leave
  <1>6. ASSUME NEW w \in deployed.workers, RedisRaises(w) PROVE Probing'
    BY <1>6 DEF RedisRaises, Leave
  <1>7. ASSUME NEW w \in deployed.workers, WorkerDies(w) PROVE Probing'
    BY <1>7 DEF WorkerDies, Leave
  <1>8. ASSUME NEW u \in deployed.urls, SiteChanges(u) PROVE Probing'
    BY <1>8 DEF SiteChanges
  <1>9. CASE TroubleChanges \/ UNCHANGED vars
    BY <1>9 DEF TroubleChanges, vars
  <1> QED
    BY <1>1, <1>2, <1>3, <1>4, <1>5, <1>6, <1>7, <1>8, <1>9 DEF Next, Step

LEMMA AlwaysProbing == Spec => [](TInv /\ Probing)
  <1>1. Init => Probing  BY DEF Init, Probing
  <1> QED  BY TInit, TStep, <1>1, ProbingStep, PTL DEF Spec

\* No check waits for a probe or a call that nobody makes (CheckEnds, but for
\* the fairness of the event loop): a cluster without urls is done at once.
THEOREM ChecksAreNeverStuck == Spec => []ChecksNeverStuck
  <1>1. TInv /\ Probing => ChecksNeverStuck
    BY DEF TInv, TypeOK, Shape, Probing, ChecksNeverStuck
  <1> QED  BY <1>1, AlwaysProbing, PTL

LEMMA CallCounts ==
    /\ CallsIn("track", FALSE) = 4 /\ CallsIn("expire", FALSE) = 3
    /\ CallsIn("track", TRUE) = 2 /\ CallsIn("expire", TRUE) = 1
    /\ CallsIn("probe", TRUE) = 0 /\ CallsIn("probe", FALSE) = 0
  BY DEF CallsIn

\* A worker that moves comes nearer to the end of its check, and leaves the
\* checks of the others alone.
LEMMA NearerStep ==
    ASSUME TInv, NEW w \in Workers, Step(w) \/ WorkerDies(w)
    PROVE  /\ Nearer(w)
           /\ \A x \in Workers \ {w} : UNCHANGED <<pc[x], pending[x], at[x], retried[x]>>
  <1>0. retried[w] \in BOOLEAN  BY DEF TInv, TypeOK
  <1> DEFINE before == CallsIn(pc[w], retried[w])
             after == CallsIn(pc'[w], retried'[w])
  <1> HIDE DEF before, after
  <1>1. ASSUME NEW u \in Urls, health_check(w, u)
        PROVE  /\ pending'[w] \subseteq pending[w] /\ pending'[w] # pending[w]
               /\ \A x \in Workers \ {w} : UNCHANGED <<pc[x], pending[x], at[x], retried[x]>>
    BY <1>1 DEF health_check, TInv, TypeOK
  <1>2. ASSUME track(w)
        PROVE  /\ Nearer(w)
               /\ \A x \in Workers \ {w} : UNCHANGED <<pc[x], pending[x], at[x], retried[x]>>
    <2>1. /\ pc[w] = "track" /\ pc'[w] = "expire" /\ retried' = retried /\ pending' = pending
          /\ \A x \in Workers \ {w} : UNCHANGED <<pc[x], pending[x], at[x], retried[x]>>
      BY <1>2 DEF track, TInv, TypeOK
    <2>2. after < before
      <3>1. CASE retried[w] = TRUE
        <4>1. before = 2 /\ after = 1
          BY <2>1, <3>1, CallCounts DEF before, after
        <4> QED  BY <4>1
      <3>2. CASE retried[w] = FALSE
        <4>1. before = 4 /\ after = 3
          BY <2>1, <3>2, CallCounts DEF before, after
        <4> QED  BY <4>1
      <3> QED  BY <1>0, <3>1, <3>2
    <2> QED  BY <2>1, <2>2 DEF Nearer, before, after
  <1>3. ASSUME expire(w)
        PROVE  /\ Nearer(w)
               /\ \A x \in Workers \ {w} : UNCHANGED <<pc[x], pending[x], at[x], retried[x]>>
    <2>1. CASE Leave(w)  BY <1>3, <2>1 DEF expire, Leave, Nearer, TInv, TypeOK
    <2>2. CASE ~Leave(w)
      <3>1. /\ pc[w] = "expire" /\ pc'[w] = "probe" /\ retried'[w] = FALSE /\ pending' = pending
            /\ \A x \in Workers \ {w} : UNCHANGED <<pc[x], pending[x], at[x], retried[x]>>
        BY <1>3, <2>2 DEF expire, TInv, TypeOK
      <3>2. after < before
        <4>1. CASE retried[w] = TRUE
          <5>1. before = 1 /\ after = 0
            BY <3>1, <4>1, CallCounts DEF before, after
          <5> QED  BY <5>1
        <4>2. CASE retried[w] = FALSE
          <5>1. before = 3 /\ after = 0
            BY <3>1, <4>2, CallCounts DEF before, after
          <5> QED  BY <5>1
        <4> QED  BY <1>0, <4>1, <4>2
      <3> QED  BY <3>1, <3>2 DEF Nearer, before, after
    <2> QED  BY <2>1, <2>2
  <1>4. ASSUME RedisRaises(w)
        PROVE  /\ Nearer(w)
               /\ \A x \in Workers \ {w} : UNCHANGED <<pc[x], pending[x], at[x], retried[x]>>
    <2>1. CASE Leave(w)  BY <1>4, <2>1 DEF RedisRaises, Leave, Nearer, TInv, TypeOK
    <2>2. CASE ~Leave(w)
      <3>1. /\ pc'[w] = "track" /\ retried[w] = FALSE /\ retried'[w] = TRUE
            /\ pending' = pending
            /\ \A x \in Workers \ {w} : UNCHANGED <<pc[x], pending[x], at[x], retried[x]>>
        BY <1>4, <2>2 DEF RedisRaises, TInv, TypeOK
      <3>2. after < before
        <4>1. CASE pc[w] = "track"
          <5>1. before = 4 /\ after = 2
            BY <3>1, <4>1, CallCounts DEF before, after
          <5> QED  BY <5>1
        <4>2. CASE pc[w] = "expire"
          <5>1. before = 3 /\ after = 2
            BY <3>1, <4>2, CallCounts DEF before, after
          <5> QED  BY <5>1
        <4> QED  BY <1>4, <4>1, <4>2 DEF RedisRaises
      <3> QED  BY <3>1, <3>2 DEF Nearer, before, after
    <2> QED  BY <2>1, <2>2
  <1>5. ASSUME WorkerDies(w)
        PROVE  /\ Nearer(w)
               /\ \A x \in Workers \ {w} : UNCHANGED <<pc[x], pending[x], at[x], retried[x]>>
    BY <1>5 DEF WorkerDies, Leave, Nearer, TInv, TypeOK
  <1>6. \/ \E u \in Urls : health_check(w, u)
        \/ track(w) \/ expire(w) \/ RedisRaises(w) \/ WorkerDies(w)
    BY DEF Step
  <1> QED  BY <1>1, <1>2, <1>3, <1>4, <1>5, <1>6 DEF Nearer

\* Every step of a check brings it nearer to its end, for any number of urls
\* and of workers whose checks overlap: with finitely many urls and the
\* fairness of FairSpec, no check can run for ever.
THEOREM ChecksAlwaysRunDown == Spec => ChecksRunDown
  <1>1. TInv /\ [Next]_vars => [Runs]_vars
    <2> SUFFICES ASSUME TInv, Next, NEW w \in Workers
                 PROVE  /\ Step(w) \/ WorkerDies(w) => Nearer(w)
                        /\ \/ Nearer(w)
                           \/ pc[w] = "idle" /\ TakeCheck(w)
                           \/ UNCHANGED <<pc[w], pending[w], at[w], retried[w]>>
      BY DEF Runs, vars
    <2>1. Step(w) \/ WorkerDies(w) => Nearer(w)  BY NearerStep
    <2>2. ASSUME NEW v \in deployed.workers, Step(v) \/ WorkerDies(v)
          PROVE  \/ Nearer(w)
                 \/ UNCHANGED <<pc[w], pending[w], at[w], retried[w]>>
      <3>1. v \in Workers  BY Deployed DEF TInv
      <3> QED  BY <2>2, <3>1, NearerStep
    <2>3. ASSUME NEW v \in deployed.workers, TakeCheck(v)
          PROVE  \/ pc[w] = "idle" /\ TakeCheck(w)
                 \/ UNCHANGED <<pc[w], pending[w], at[w], retried[w]>>
      BY <2>3, Deployed DEF TakeCheck, TInv, TypeOK, world, hash
    <2>4. ASSUME Beat \/ (\E u \in deployed.urls : SiteChanges(u)) \/ TroubleChanges
          PROVE  UNCHANGED <<pc[w], pending[w], at[w], retried[w]>>
      <3>1. UNCHANGED check
        <4>1. CASE Beat  BY <4>1 DEF Beat
        <4>2. CASE \E u \in deployed.urls : SiteChanges(u)  BY <4>2 DEF SiteChanges
        <4>3. CASE TroubleChanges  BY <4>3 DEF TroubleChanges
        <4> QED  BY <2>4, <4>1, <4>2, <4>3
      <3> QED  BY <3>1 DEF check
    <2> QED  BY <2>1, <2>2, <2>3, <2>4 DEF Next
  <1> QED  BY <1>1, TInit, TStep, PTL DEF Spec, ChecksRunDown
=============================================================================
