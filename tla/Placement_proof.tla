-------------------------- MODULE Placement_proof ---------------------------
(* What the placement promises, for any nodes and services, and that         *)
(* distribute_pods is even, for any number of nodes and any applications.    *)
EXTENDS Placement, PodDistribution, SumTheorems

Placed(i) == \E s \in Services : distribution[i][s] # 0

TypeOK ==
    /\ strict \in BOOLEAN
    /\ worker_nodes \in Seq(Capacities)
    /\ cluster_infos \in Seq(Service)
    /\ todo \in [Services -> Nat]
    /\ left \in [Services -> Nat]
    /\ distribution \in [Nodes -> [Services -> Nat]]
    /\ result \in {"new", "placing", "done", "none", "raises"}

Started == result \in {"placing", "done"}

\* Nothing is placed or left out before the input is found valid.
NothingBefore ==
    /\ Started => valid
    /\ \/ valid /\ result # "new"
       \/ /\ \A s \in Services : left[s] = 0
          /\ \A i \in Nodes, s \in Services : distribution[i][s] = 0

\* All instances are placed, left out, or still to come.
placed(s) == SumFunction([i \in Nodes |-> distribution[i][s]])
Accounted ==
    /\ Started => \A s \in Services :
                     placed(s) + left[s] + todo[s] = cluster_infos[s].instances
    /\ result = "done" => \A s \in Services : todo[s] = 0

\* What is left out fits on no node as they are now: they only fill up.
LeftOutInv ==
    Started => \A s \in Services :
                  left[s] > 0 => ~strict /\ \A i \in Nodes : ~fits(i, s)

\* The usage of the nodes is what the placed instances ask for.
used(r) == SumFunction([i \in Nodes |-> usage(i, r)])
asked(r) == SumFunction([s \in Services |->
                (cluster_infos[s].instances - left[s] - todo[s]) * cluster_infos[s][r]])
Balanced == Started => \A r \in Resources : used(r) = asked(r)

PInv == /\ TypeOK
        /\ NothingBefore
        /\ CapacityRespected
        /\ Accounted
        /\ LeftOutInv
        /\ Balanced

-----------------------------------------------------------------------------
LEMMA PlacementFacts ==
    ASSUME TypeOK
    PROVE  /\ IsFiniteSet(Nodes) /\ Cardinality(Nodes) = Len(worker_nodes)
           /\ IsFiniteSet(Services)
           /\ Nodes = 1..Len(worker_nodes) /\ Len(worker_nodes) \in Nat
           /\ \A i \in Nodes, r \in Resources : worker_nodes[i][r] \in Int
           /\ \A s \in Services : /\ \A r \in Resources : cluster_infos[s][r] \in Int
                                  /\ cluster_infos[s].instances \in Int
           /\ \A i \in Nodes, s \in Services : distribution[i][s] \in Nat
           /\ \A s \in Services : todo[s] \in Nat /\ left[s] \in Nat
<1>1. Nodes = 1..Len(worker_nodes) /\ Len(worker_nodes) \in Nat
  BY DEF TypeOK, Nodes
<1>2. Services = 1..Len(cluster_infos) /\ Len(cluster_infos) \in Nat
  BY DEF TypeOK, Services
<1>3. IsFiniteSet(Nodes) /\ Cardinality(Nodes) = Len(worker_nodes)
  BY <1>1, FS_Interval
<1>4. IsFiniteSet(Services)
  BY <1>2, FS_Interval
<1>5. \A i \in Nodes : worker_nodes[i] \in [cpu : Int, memory : Int]
  BY PlacementAssumption DEF TypeOK, Nodes
<1>6. \A s \in Services : cluster_infos[s] \in [cpu : Int, memory : Int, instances : Int]
  <2>1. Service \subseteq [cpu : Int, memory : Int, instances : Int]
    BY PlacementAssumption DEF Service
  <2> QED
    BY <2>1 DEF TypeOK, Services
<1>7. \A i \in Nodes, s \in Services : distribution[i][s] \in Nat
  BY DEF TypeOK
<1>8. \A s \in Services : todo[s] \in Nat /\ left[s] \in Nat
  BY DEF TypeOK
<1> QED
  BY <1>1, <1>3, <1>4, <1>5, <1>6, <1>7, <1>8 DEF Resources

LEMMA UsageIsSum ==
    /\ \A i, r : usage(i, r) = SumFunctionOnSet(
                    [s \in Services |-> distribution[i][s] * cluster_infos[s][r]], Services)
    /\ \A i, r : usage(i, r)' = SumFunctionOnSet(
                    [s \in Services |-> distribution[i][s] * cluster_infos[s][r]], Services)'
  BY DEF usage, SumFunction

LEMMA UsageType ==
    ASSUME TypeOK, NEW i \in Nodes, NEW r \in Resources
    PROVE  usage(i, r) \in Int
<1> DEFINE g == [s \in Services |-> distribution[i][s] * cluster_infos[s][r]]
<1>1. \A s \in Services : g[s] \in Int
  BY PlacementFacts
<1>2. usage(i, r) = SumFunctionOnSet(g, Services)
  BY UsageIsSum
<1> HIDE DEF g
<1> QED
  BY <1>1, <1>2, PlacementFacts, SumType

\* An instance of s more on node i adds what it asks for to the usage of i.
LEMMA UsageChange ==
    ASSUME TypeOK, NEW i \in Nodes, NEW s \in Services, UNCHANGED input,
           distribution' = [distribution EXCEPT ![i][s] = @ + 1],
           NEW r \in Resources
    PROVE  /\ usage(i, r)' = usage(i, r) + cluster_infos[s][r]
           /\ \A j \in Nodes \ {i} : usage(j, r)' = usage(j, r)
<1> DEFINE g(j) == [q \in Services |-> distribution[j][q] * cluster_infos[q][r]]
           h(j) == [q \in Services |-> distribution'[j][q] * cluster_infos[q][r]]
<1>1. /\ worker_nodes' = worker_nodes /\ cluster_infos' = cluster_infos
      /\ Nodes' = Nodes /\ Services' = Services
  BY DEF input, Nodes, Services
<1>2. /\ distribution'[i][s] = distribution[i][s] + 1
      /\ \A q \in Services \ {s} : distribution'[i][q] = distribution[i][q]
      /\ \A j \in Nodes \ {i} : distribution'[j] = distribution[j]
  BY DEF TypeOK
<1>3. ASSUME NEW j \in Nodes
      PROVE  /\ usage(j, r) = SumFunctionOnSet(g(j), Services)
             /\ usage(j, r)' = SumFunctionOnSet(h(j), Services)
  BY <1>1, UsageIsSum
<1>4. ASSUME NEW j \in Nodes \ {i} PROVE usage(j, r)' = usage(j, r)
  <2>1. g(j) = h(j)
    BY <1>2
  <2> HIDE DEF g, h
  <2> QED
    BY <1>3, <2>1
<1>5. usage(i, r)' = usage(i, r) + cluster_infos[s][r]
  <2>1. \A q \in Services : g(i)[q] \in Int
    BY PlacementFacts
  <2>2. h(i)[s] = g(i)[s] + cluster_infos[s][r]
    <3>1. cluster_infos[s][r] \in Int /\ distribution[i][s] \in Int
      BY PlacementFacts
    <3>2. (distribution[i][s] + 1) * cluster_infos[s][r]
            = distribution[i][s] * cluster_infos[s][r] + cluster_infos[s][r]
      BY <3>1
    <3> QED
      BY <1>2, <3>2
  <2>3. \A q \in Services \ {s} : h(i)[q] = g(i)[q]
    BY <1>2
  <2>4. cluster_infos[s][r] \in Int /\ IsFiniteSet(Services)
    BY PlacementFacts
  <2> HIDE DEF g, h
  <2> QED
    BY <1>3, <2>1, <2>2, <2>3, <2>4, SumChange
<1> QED
  BY <1>4, <1>5

\* A step that places nothing changes no sum.
LEMMA SameSums ==
    ASSUME UNCHANGED <<input, distribution>>
    PROVE  /\ \A i, r : usage(i, r)' = usage(i, r)
           /\ \A r : used(r)' = used(r)
           /\ \A s : placed(s)' = placed(s)
           /\ \A i, s : fits(i, s)' <=> fits(i, s)
           /\ valid' <=> valid
<1>1. UNCHANGED <<worker_nodes, cluster_infos, strict, Nodes, Services, distribution>>
  BY DEF input, Nodes, Services
<1>2. /\ \A i, r : usage(i, r)' = usage(i, r)
      /\ \A s : placed(s)' = placed(s)
      /\ valid' <=> valid
  BY <1>1 DEF usage, placed, valid
<1>3. \A r : used(r)' = used(r)
  BY <1>1 DEF used, usage
<1>4. \A i, s : fits(i, s)' <=> fits(i, s)
  BY <1>1 DEF fits, usage
<1> QED
  BY <1>2, <1>3, <1>4

\* The same for the sums over the nodes.
LEMMA SumsChange ==
    ASSUME TypeOK, NEW i \in Nodes, NEW s \in Services, UNCHANGED input,
           distribution' = [distribution EXCEPT ![i][s] = @ + 1]
    PROVE  /\ \A r \in Resources : used(r)' = used(r) + cluster_infos[s][r]
           /\ placed(s)' = placed(s) + 1
           /\ \A q \in Services \ {s} : placed(q)' = placed(q)
<1>1. /\ worker_nodes' = worker_nodes /\ cluster_infos' = cluster_infos
      /\ Nodes' = Nodes /\ Services' = Services
  BY DEF input, Nodes, Services
<1>2. /\ distribution'[i][s] = distribution[i][s] + 1
      /\ \A q \in Services \ {s} : distribution'[i][q] = distribution[i][q]
      /\ \A j \in Nodes \ {i} : distribution'[j] = distribution[j]
  BY DEF TypeOK
<1>3. IsFiniteSet(Nodes)
  BY PlacementFacts
<1>4. ASSUME NEW r \in Resources PROVE used(r)' = used(r) + cluster_infos[s][r]
  <2> DEFINE g == [j \in Nodes |-> usage(j, r)]
             h == [j \in Nodes |-> usage(j, r)']
  <2>1. used(r) = SumFunctionOnSet(g, Nodes)
    BY DEF used, SumFunction
  <2>2. used(r)' = SumFunctionOnSet(h, Nodes)
    BY <1>1 DEF used, SumFunction
  <2>3. cluster_infos[s][r] \in Int /\ \A j \in Nodes : usage(j, r) \in Int
    BY PlacementFacts, UsageType
  <2>4. /\ usage(i, r)' = usage(i, r) + cluster_infos[s][r]
        /\ \A j \in Nodes \ {i} : usage(j, r)' = usage(j, r)
    BY UsageChange
  <2>5. /\ \A j \in Nodes : g[j] \in Int
        /\ h[i] = g[i] + cluster_infos[s][r]
        /\ \A j \in Nodes \ {i} : h[j] = g[j]
    BY <2>3, <2>4
  <2> HIDE DEF g, h
  <2> QED
    BY <1>3, <2>1, <2>2, <2>3, <2>5, SumChange
<1>5. ASSUME NEW q \in Services
      PROVE  /\ placed(q) = SumFunctionOnSet([j \in Nodes |-> distribution[j][q]], Nodes)
             /\ placed(q)' = SumFunctionOnSet([j \in Nodes |-> distribution'[j][q]], Nodes)
  BY <1>1 DEF placed, SumFunction
<1>6. placed(s)' = placed(s) + 1
  <2> DEFINE g == [j \in Nodes |-> distribution[j][s]]
             h == [j \in Nodes |-> distribution'[j][s]]
  <2>1. /\ \A j \in Nodes : g[j] \in Int
        /\ h[i] = g[i] + 1
        /\ \A j \in Nodes \ {i} : h[j] = g[j]
    BY <1>2, PlacementFacts
  <2>2. placed(s) = SumFunctionOnSet(g, Nodes) /\ placed(s)' = SumFunctionOnSet(h, Nodes)
    BY <1>5
  <2> HIDE DEF g, h
  <2> QED
    BY <1>3, <2>1, <2>2, SumChange
<1>7. ASSUME NEW q \in Services \ {s} PROVE placed(q)' = placed(q)
  <2>1. \A j \in Nodes : distribution'[j][q] = distribution[j][q]
    BY <1>2
  <2>2. [j \in Nodes |-> distribution[j][q]] = [j \in Nodes |-> distribution'[j][q]]
    BY <2>1
  <2> QED
    BY <1>5, <2>2
<1> QED
  BY <1>4, <1>6, <1>7

LEMMA EmptyNode ==
    ASSUME TypeOK, NEW i \in Nodes, \A s \in Services : distribution[i][s] = 0,
           NEW r \in Resources
    PROVE  usage(i, r) = 0
<1> DEFINE g == [s \in Services |-> distribution[i][s] * cluster_infos[s][r]]
<1>1. \A s \in Services : g[s] = 0
  BY PlacementFacts
<1>2. usage(i, r) = SumFunctionOnSet(g, Services)
  BY UsageIsSum
<1> HIDE DEF g
<1> QED
  BY <1>1, <1>2, PlacementFacts, SumZero

\* Nothing is used while nothing is placed.
LEMMA NothingUsed ==
    ASSUME TypeOK, \A i \in Nodes, s \in Services : distribution[i][s] = 0
    PROVE  /\ \A r \in Resources : used(r) = 0
           /\ \A s \in Services : placed(s) = 0
<1>1. IsFiniteSet(Nodes) /\ IsFiniteSet(Services)
  BY PlacementFacts
<1>2. ASSUME NEW i \in Nodes, NEW r \in Resources PROVE usage(i, r) = 0
  BY EmptyNode
<1>3. ASSUME NEW r \in Resources PROVE used(r) = 0
  <2> DEFINE g == [i \in Nodes |-> usage(i, r)]
  <2>1. \A i \in Nodes : g[i] = 0
    BY <1>2
  <2>2. used(r) = SumFunctionOnSet(g, Nodes)
    BY DEF used, SumFunction
  <2> HIDE DEF g
  <2> QED
    BY <1>1, <2>1, <2>2, SumZero
<1>4. ASSUME NEW s \in Services PROVE placed(s) = 0
  <2> DEFINE g == [i \in Nodes |-> distribution[i][s]]
  <2>1. \A i \in Nodes : g[i] = 0
    OBVIOUS
  <2>2. placed(s) = SumFunctionOnSet(g, Nodes)
    BY DEF placed, SumFunction
  <2> HIDE DEF g
  <2> QED
    BY <1>1, <2>1, <2>2, SumZero
<1> QED
  BY <1>3, <1>4

-----------------------------------------------------------------------------
LEMMA PInit == Init => PInv
<1> SUFFICES ASSUME Init PROVE PInv
  OBVIOUS
<1>1. TypeOK
  <2>1. ASSUME NEW S, NEW n, NEW q \in BoundedSeq(S, n), n \in Nat PROVE q \in Seq(S)
    BY <2>1 DEF BoundedSeq, SeqOf
  <2>2. MaxNodes \in Nat /\ MaxServices \in Nat
    BY PlacementAssumption
  <2>3. worker_nodes \in Seq(Capacities) /\ cluster_infos \in Seq(Service)
    BY <2>1, <2>2 DEF Init
  <2> QED
    BY <2>3 DEF Init, TypeOK
<1>2. /\ ~Started /\ result # "done"
      /\ \A i \in Nodes, s \in Services : distribution[i][s] = 0
      /\ \A s \in Services : left[s] = 0
  BY DEF Init, Started
<1> QED
  BY <1>1, <1>2 DEF PInv, NothingBefore, CapacityRespected, Accounted, LeftOutInv, Balanced

LEMMA PStart == PInv /\ Validate => PInv'
<1> SUFFICES ASSUME PInv, Validate PROVE PInv'
  OBVIOUS
<1>1. /\ worker_nodes' = worker_nodes /\ cluster_infos' = cluster_infos /\ strict' = strict
      /\ Nodes' = Nodes /\ Services' = Services
      /\ distribution' = distribution /\ left' = left
      /\ valid' = valid
  BY DEF Validate, input, Nodes, Services, valid
<1>2. /\ \A i \in Nodes, s \in Services : distribution[i][s] = 0
      /\ \A s \in Services : left[s] = 0
  BY DEF PInv, NothingBefore, Validate
<1>3. /\ result' \in {"placing", "none", "raises"}
      /\ result' = "placing" => valid
  BY DEF Validate
<1>4. result' = "placing" => \A s \in Services : todo'[s] = cluster_infos[s].instances
  BY DEF Validate
<1>5. TypeOK'
  <2>1. todo' \in [Services -> Nat]
    <3>1. CASE result' = "placing"
      <4>1. \A s \in Services : cluster_infos[s].instances \in Nat
        BY <1>3, <3>1, PlacementFacts DEF valid, PInv
      <4> QED
        BY <3>1, <4>1 DEF Validate
    <3>2. CASE result' # "placing"
      BY <3>2 DEF Validate, PInv, TypeOK
    <3> QED
      BY <3>1, <3>2
  <2> QED
    BY <1>1, <1>3, <2>1 DEF PInv, TypeOK
<1>6. NothingBefore'
  BY <1>1, <1>2, <1>3 DEF NothingBefore, Started
<1>7. CapacityRespected'
  BY <1>1, <1>2 DEF CapacityRespected
<1>8. LeftOutInv'
  BY <1>1, <1>2 DEF LeftOutInv
<1>9. /\ \A r \in Resources : used(r) = 0 /\ used(r)' = used(r)
      /\ \A s \in Services : placed(s) = 0 /\ placed(s)' = placed(s)
  BY <1>1, <1>2, SameSums, NothingUsed DEF PInv, input
<1>10. Accounted'
  <2>1. \A s \in Services : cluster_infos[s].instances \in Int
    BY PlacementFacts DEF PInv
  <2> QED
    BY <1>1, <1>2, <1>3, <1>4, <1>9, <2>1 DEF Accounted, Started
<1>11. Balanced'
  <2> SUFFICES ASSUME result' = "placing", NEW r \in Resources PROVE used(r)' = asked(r)'
    BY <1>3 DEF Balanced, Started
  <2> DEFINE g == [s \in Services |->
                (cluster_infos[s].instances - left[s] - todo'[s]) * cluster_infos[s][r]]
  <2>1. ASSUME NEW s \in Services PROVE g[s] = 0
    <3>1. cluster_infos[s].instances \in Int /\ cluster_infos[s][r] \in Int
      BY PlacementFacts DEF PInv
    <3>2. cluster_infos[s].instances - left[s] - todo'[s] = 0
      BY <1>2, <1>4, <3>1
    <3> QED
      BY <3>1, <3>2
  <2>2. asked(r)' = SumFunctionOnSet(g, Services)
    BY <1>1 DEF asked, SumFunction
  <2>3. IsFiniteSet(Services)
    BY PlacementFacts DEF PInv
  <2> HIDE DEF g
  <2>4. asked(r)' = 0
    BY <2>1, <2>2, <2>3, SumZero
  <2> QED
    BY <1>9, <2>4
<1> QED
  BY <1>5, <1>6, <1>7, <1>8, <1>10, <1>11 DEF PInv

LEMMA PReturn == PInv /\ Return => PInv'
<1> SUFFICES ASSUME PInv, Return PROVE PInv'
  OBVIOUS
<1>1. /\ worker_nodes' = worker_nodes /\ cluster_infos' = cluster_infos /\ strict' = strict
      /\ Nodes' = Nodes /\ Services' = Services
      /\ distribution' = distribution /\ left' = left /\ todo' = todo
      /\ result = "placing" /\ result' = "done"
      /\ \A s \in Services : todo[s] = 0
  BY DEF Return, input, Nodes, Services
<1>2. UNCHANGED <<input, distribution>> /\ \A r : asked(r)' = asked(r)
  BY <1>1 DEF input, asked
<1> QED
  BY <1>1, <1>2, SameSums DEF PInv, TypeOK, NothingBefore, Started,
     CapacityRespected, Accounted, LeftOutInv, Balanced

\* An instance of s goes to node i, which it fits.
LEMMA PPlace ==
    ASSUME PInv, result = "placing", UNCHANGED <<input, left, result>>,
           NEW s \in Services, NEW i \in Nodes, todo[s] > 0, fits(i, s),
           distribution' = [distribution EXCEPT ![i][s] = @ + 1],
           todo' = [todo EXCEPT ![s] = @ - 1]
    PROVE  PInv'
<1>1. /\ worker_nodes' = worker_nodes /\ cluster_infos' = cluster_infos /\ strict' = strict
      /\ Nodes' = Nodes /\ Services' = Services
      /\ left' = left /\ result' = "placing"
  BY DEF input, Nodes, Services
<1>2. TypeOK /\ valid /\ valid' = valid
  BY <1>1 DEF PInv, NothingBefore, Started, valid
<1>3. /\ \A q \in Services, r \in Resources :
            cluster_infos[q][r] \in Int /\ cluster_infos[q][r] >= 0
      /\ \A j \in Nodes, r \in Resources :
            worker_nodes[j][r] \in Int /\ worker_nodes[j][r] >= 0
  BY <1>2, PlacementFacts DEF valid
<1>4. \A j \in Nodes, r \in Resources : usage(j, r) \in Int
  BY <1>2, UsageType
<1>5. \A r \in Resources : /\ usage(i, r)' = usage(i, r) + cluster_infos[s][r]
                           /\ \A j \in Nodes \ {i} : usage(j, r)' = usage(j, r)
  BY <1>2, UsageChange
<1>6. /\ \A r \in Resources : used(r)' = used(r) + cluster_infos[s][r]
      /\ placed(s)' = placed(s) + 1
      /\ \A q \in Services \ {s} : placed(q)' = placed(q)
  BY <1>2, SumsChange
<1>7. /\ todo'[s] = todo[s] - 1
      /\ \A q \in Services \ {s} : todo'[q] = todo[q]
      /\ todo' \in [Services -> Nat]
  <2>1. todo[s] - 1 \in Nat
    BY <1>2 DEF TypeOK
  <2> QED
    BY <1>2, <2>1 DEF TypeOK
<1>8. TypeOK'
  <2>1. distribution' \in [Nodes -> [Services -> Nat]]
    BY <1>2 DEF TypeOK
  <2> QED
    BY <1>1, <1>2, <1>7, <2>1 DEF TypeOK
<1>9. NothingBefore'
  BY <1>1, <1>2 DEF NothingBefore, Started
<1>10. CapacityRespected'
  <2> SUFFICES ASSUME NEW j \in Nodes, NEW r \in Resources, NEW q \in Services,
                      distribution'[j][q] # 0
               PROVE  usage(j, r)' <= worker_nodes[j][r]
    BY <1>1 DEF CapacityRespected
  <2>1. CASE j = i
    BY <1>3, <1>4, <1>5, <2>1 DEF fits
  <2>2. CASE j # i
    <3>1. distribution[j][q] # 0
      BY <1>2, <2>2 DEF TypeOK
    <3>2. usage(j, r) <= worker_nodes[j][r]
      BY <3>1 DEF PInv, CapacityRespected
    <3> QED
      BY <1>5, <2>2, <3>2
  <2> QED
    BY <2>1, <2>2
<1>11. Accounted'
  <2> SUFFICES ASSUME NEW q \in Services
               PROVE  placed(q)' + left[q] + todo'[q] = cluster_infos[q].instances
    BY <1>1 DEF Accounted
  <2>1. placed(q) + left[q] + todo[q] = cluster_infos[q].instances
    BY DEF PInv, Accounted, Started
  <2>2. placed(q) \in Int /\ left[q] \in Int /\ todo[q] \in Int
    <3> DEFINE g == [j \in Nodes |-> distribution[j][q]]
    <3>1. \A j \in Nodes : g[j] \in Int
      BY <1>2, PlacementFacts
    <3>2. placed(q) = SumFunctionOnSet(g, Nodes)
      BY DEF placed, SumFunction
    <3> HIDE DEF g
    <3>3. placed(q) \in Int
      BY <1>2, <3>1, <3>2, PlacementFacts, SumType
    <3> QED
      BY <1>2, <3>3, PlacementFacts
  <2> QED
    BY <1>6, <1>7, <2>1, <2>2
<1>12. LeftOutInv'
  <2> SUFFICES ASSUME NEW q \in Services, left[q] > 0
               PROVE  ~strict /\ \A j \in Nodes : ~fits(j, q)'
    BY <1>1 DEF LeftOutInv
  <2>1. ~strict /\ \A j \in Nodes : ~fits(j, q)
    BY DEF PInv, LeftOutInv, Started
  <2> SUFFICES ASSUME NEW j \in Nodes PROVE ~fits(j, q)'
    BY <2>1
  <2>2. PICK r \in Resources : ~(worker_nodes[j][r] >= usage(j, r) + cluster_infos[q][r])
    BY <2>1 DEF fits
  <2>3. usage(j, r)' \in Int /\ usage(j, r)' >= usage(j, r)
    BY <1>3, <1>4, <1>5
  <2>4. ~(worker_nodes[j][r] >= usage(j, r)' + cluster_infos[q][r])
    BY <1>3, <1>4, <2>2, <2>3
  <2> QED
    BY <1>1, <2>4 DEF fits
<1>13. Balanced'
  <2> SUFFICES ASSUME NEW r \in Resources PROVE used(r)' = asked(r)'
    BY DEF Balanced
  <2> DEFINE g == [q \in Services |->
                (cluster_infos[q].instances - left[q] - todo[q]) * cluster_infos[q][r]]
             h == [q \in Services |->
                (cluster_infos[q].instances - left[q] - todo'[q]) * cluster_infos[q][r]]
  <2>1. /\ asked(r) = SumFunctionOnSet(g, Services)
        /\ asked(r)' = SumFunctionOnSet(h, Services)
    BY <1>1 DEF asked, SumFunction
  <2>2. \A q \in Services : g[q] \in Int
    BY <1>2, PlacementFacts
  <2>3. h[s] = g[s] + cluster_infos[s][r]
    <3> DEFINE n == cluster_infos[s].instances - left[s] - todo[s]
               c == cluster_infos[s][r]
    <3>1. n \in Int /\ c \in Int
      BY <1>2, PlacementFacts
    <3>2. cluster_infos[s].instances - left[s] - todo'[s] = n + 1
      BY <1>2, <1>7, PlacementFacts
    <3>3. g[s] = n * c /\ h[s] = (n + 1) * c
      BY <3>2
    <3> HIDE DEF n, c, g, h
    <3>4. (n + 1) * c = n * c + c
      BY <3>1
    <3> QED
      BY <3>3, <3>4 DEF c
  <2>4. \A q \in Services \ {s} : h[q] = g[q]
    BY <1>7
  <2>5. IsFiniteSet(Services) /\ cluster_infos[s][r] \in Int
    BY <1>2, PlacementFacts
  <2> HIDE DEF g, h
  <2>6. asked(r)' = asked(r) + cluster_infos[s][r]
    BY <2>1, <2>2, <2>3, <2>4, <2>5, SumChange
  <2>7. used(r) = asked(r)
    BY DEF PInv, Balanced, Started
  <2> QED
    BY <1>6, <2>6, <2>7
<1> QED
  BY <1>8, <1>9, <1>10, <1>11, <1>12, <1>13 DEF PInv

\* An instance of s fits nowhere.
LEMMA PLeaveOut ==
    ASSUME PInv, result = "placing", UNCHANGED input,
           NEW s \in Services, todo[s] > 0, LeaveOut(s),
           todo' = [todo EXCEPT ![s] = @ - 1]
    PROVE  PInv'
<1>1. /\ worker_nodes' = worker_nodes /\ cluster_infos' = cluster_infos /\ strict' = strict
      /\ Nodes' = Nodes /\ Services' = Services
      /\ distribution' = distribution
      /\ result' = IF strict THEN "none" ELSE "placing"
  BY DEF input, Nodes, Services, LeaveOut
<1>2. TypeOK /\ valid /\ valid' = valid
  BY <1>1 DEF PInv, NothingBefore, Started, valid
<1>3. /\ \A i, r : usage(i, r)' = usage(i, r)
      /\ \A q : placed(q)' = placed(q)
      /\ \A r : used(r)' = used(r)
      /\ \A i, q : fits(i, q)' <=> fits(i, q)
  BY <1>1, SameSums
<1>4. /\ todo'[s] = todo[s] - 1 /\ left'[s] = left[s] + 1
      /\ \A q \in Services \ {s} : todo'[q] = todo[q] /\ left'[q] = left[q]
      /\ todo' \in [Services -> Nat] /\ left' \in [Services -> Nat]
  <2>1. todo[s] - 1 \in Nat
    BY <1>2 DEF TypeOK
  <2> QED
    BY <1>2, <2>1 DEF TypeOK, LeaveOut
<1>5. TypeOK'
  BY <1>1, <1>2, <1>4 DEF TypeOK
<1>6. NothingBefore'
  BY <1>1, <1>2 DEF NothingBefore, Started
<1>7. CapacityRespected'
  BY <1>1, <1>3 DEF PInv, CapacityRespected
<1>8. ASSUME NEW q \in Services
      PROVE  left'[q] + todo'[q] = left[q] + todo[q]
  BY <1>2, <1>4, PlacementFacts
<1>9. Accounted'
  <2> SUFFICES ASSUME NEW q \in Services
               PROVE  placed(q) + left'[q] + todo'[q] = cluster_infos[q].instances
    BY <1>1, <1>3 DEF Accounted
  <2>1. placed(q) + left[q] + todo[q] = cluster_infos[q].instances
    BY DEF PInv, Accounted, Started
  <2>2. placed(q) \in Int
    <3> DEFINE g == [j \in Nodes |-> distribution[j][q]]
    <3>1. \A j \in Nodes : g[j] \in Int
      BY <1>2, PlacementFacts
    <3>2. placed(q) = SumFunctionOnSet(g, Nodes)
      BY DEF placed, SumFunction
    <3> HIDE DEF g
    <3> QED
      BY <1>2, <3>1, <3>2, PlacementFacts, SumType
  <2>3. left[q] \in Int /\ todo[q] \in Int /\ left'[q] \in Int /\ todo'[q] \in Int
    BY <1>2, <1>4, PlacementFacts
  <2> QED
    BY <1>8, <2>1, <2>2, <2>3
<1>10. LeftOutInv'
  <2> SUFFICES ASSUME ~strict, NEW q \in Services, left'[q] > 0
               PROVE  \A i \in Nodes : ~fits(i, q)'
    BY <1>1 DEF LeftOutInv, Started
  <2>1. \A i \in Nodes : ~fits(i, q)
    <3>1. CASE q = s
      BY <3>1 DEF LeaveOut
    <3>2. CASE q # s
      BY <1>4, <3>2 DEF PInv, LeftOutInv, Started
    <3> QED
      BY <3>1, <3>2
  <2> QED
    BY <1>1, <1>3, <2>1
<1>11. Balanced'
  <2> SUFFICES ASSUME NEW r \in Resources PROVE used(r) = asked(r)'
    BY <1>3 DEF Balanced
  <2>1. used(r) = asked(r)
    BY DEF PInv, Balanced, Started
  <2>2. \A q \in Services : cluster_infos[q].instances - left'[q] - todo'[q]
                              = cluster_infos[q].instances - left[q] - todo[q]
    <3> SUFFICES ASSUME NEW q \in Services
                 PROVE  cluster_infos[q].instances - left'[q] - todo'[q]
                              = cluster_infos[q].instances - left[q] - todo[q]
      OBVIOUS
    <3>1. /\ cluster_infos[q].instances \in Int /\ left[q] \in Int /\ todo[q] \in Int
          /\ left'[q] \in Int /\ todo'[q] \in Int
      BY <1>2, <1>4, PlacementFacts
    <3> QED
      BY <1>8, <3>1
  <2>3. [q \in Services |->
            (cluster_infos[q].instances - left'[q] - todo'[q]) * cluster_infos[q][r]]
          = [q \in Services |->
            (cluster_infos[q].instances - left[q] - todo[q]) * cluster_infos[q][r]]
    BY <2>2
  <2>4. asked(r)' = asked(r)
    BY <1>1, <2>3 DEF asked
  <2> QED
    BY <2>1, <2>4
<1> QED
  BY <1>5, <1>6, <1>7, <1>9, <1>10, <1>11 DEF PInv

LEMMA PNext == PInv /\ [Next]_vars => PInv'
<1> SUFFICES ASSUME PInv, [Next]_vars PROVE PInv'
  OBVIOUS
<1>1. CASE Validate
  BY <1>1, PStart
<1>2. CASE PlaceInstance
  <2>1. PICK s \in Services : /\ first_of_sorted(s)
                              /\ Place(s) \/ LeaveOut(s)
                              /\ todo' = [todo EXCEPT ![s] = @ - 1]
    BY <1>2 DEF PlaceInstance
  <2>2. /\ result = "placing" /\ todo[s] > 0 /\ UNCHANGED input
    BY <1>2, <2>1 DEF PlaceInstance, first_of_sorted
  <2>3. CASE Place(s)
    <3>1. PICK i \in Nodes :
             best_node(i, s) /\ distribution' = [distribution EXCEPT ![i][s] = @ + 1]
      BY <2>3 DEF Place
    <3>2. fits(i, s) /\ UNCHANGED <<input, left, result>>
      BY <2>2, <2>3, <3>1 DEF Place, best_node
    <3> QED
      BY <2>1, <2>2, <3>1, <3>2, PPlace DEF PInv
  <2>4. CASE LeaveOut(s)
    BY <2>1, <2>2, <2>4, PLeaveOut
  <2> QED
    BY <2>1, <2>3, <2>4
<1>3. CASE Return
  BY <1>3, PReturn
<1>4. CASE UNCHANGED vars
  <2>1. UNCHANGED <<input, todo, distribution, left, result>>
    BY <1>4 DEF vars
  <2>2. UNCHANGED <<worker_nodes, cluster_infos, strict, Nodes, Services>>
    BY <2>1 DEF input, Nodes, Services
  <2>3. \A r : asked(r)' = asked(r)
    BY <2>1, <2>2 DEF asked
  <2> QED
    BY <2>1, <2>2, <2>3, SameSums DEF PInv, TypeOK, NothingBefore, Started,
       CapacityRespected, Accounted, LeftOutInv, Balanced
<1> QED
  BY <1>1, <1>2, <1>3, <1>4 DEF Next

LEMMA PInvHolds == Spec => []PInv
  BY PInit, PNext, PTL DEF Spec

-----------------------------------------------------------------------------
\* No node is overcommitted, whatever the nodes, the services and their order:
\* distribute_cluster_nodes in both classes.
THEOREM CapacityIsRespected == Spec => []CapacityRespected
<1>1. PInv => CapacityRespected
  BY DEF PInv
<1> QED
  BY <1>1, PInvHolds, PTL

LEMMA LeftOutImplied == PInv => LeftOutFitsNowhere
<1> SUFFICES ASSUME PInv, result = "done", NEW s \in Services
             PROVE  /\ placed(s) + left[s] = cluster_infos[s].instances
                    /\ left[s] > 0 =>
                         /\ ~strict
                         /\ \A i \in Nodes : \E r \in Resources :
                               worker_nodes[i][r] - usage(i, r) < cluster_infos[s][r]
  BY DEF LeftOutFitsNowhere, placed
<1>1. placed(s) + left[s] + todo[s] = cluster_infos[s].instances /\ todo[s] = 0
  BY DEF PInv, Accounted, Started
<1>2. placed(s) \in Int /\ left[s] \in Int
  <2> DEFINE g == [i \in Nodes |-> distribution[i][s]]
  <2>1. \A i \in Nodes : g[i] \in Int
    BY PlacementFacts DEF PInv
  <2>2. placed(s) = SumFunctionOnSet(g, Nodes)
    BY DEF placed, SumFunction
  <2> HIDE DEF g
  <2>3. placed(s) \in Int
    BY <2>1, <2>2, PlacementFacts, SumType DEF PInv
  <2> QED
    BY <2>3, PlacementFacts DEF PInv
<1>3. placed(s) + left[s] = cluster_infos[s].instances
  BY <1>1, <1>2
<1>4. ASSUME left[s] > 0, NEW i \in Nodes
      PROVE  ~strict /\ \E r \in Resources :
                           worker_nodes[i][r] - usage(i, r) < cluster_infos[s][r]
  <2>1. ~strict /\ ~fits(i, s)
    BY <1>4 DEF PInv, LeftOutInv, Started
  <2>2. PICK r \in Resources : ~(worker_nodes[i][r] >= usage(i, r) + cluster_infos[s][r])
    BY <2>1 DEF fits
  <2>3. worker_nodes[i][r] \in Int /\ usage(i, r) \in Int /\ cluster_infos[s][r] \in Int
    BY PlacementFacts, UsageType DEF PInv
  <2> QED
    BY <2>1, <2>2, <2>3
<1>5. left[s] > 0 => ~strict
  BY DEF PInv, LeftOutInv, Started
<1> QED
  BY <1>3, <1>4, <1>5

\* Every instance is accounted for, and what is left out fits nowhere.
THEOREM LeftOutNeverFits == Spec => []LeftOutFitsNowhere
  BY PInvHolds, LeftOutImplied, PTL

\* A division rounded up is at most n when n of the divisor cover the dividend.
LEMMA RoundedUp ==
    ASSUME NEW t \in Int, NEW d \in Nat \ {0}, NEW n \in Nat, t <= n * d
    PROVE  (t + d - 1) \div d \in Int /\ (t + d - 1) \div d <= n
<1> DEFINE a == t + d - 1
           q == a \div d
<1>1. q \in Int /\ a = d * q + (a % d) /\ 0 <= a % d
  OBVIOUS
<1>2. n * d \in Int /\ d * q \in Int /\ a % d \in Int
  BY <1>1
<1>3. d * q < n * d + d
  BY <1>1, <1>2
<1>4. ASSUME q >= n + 1 PROVE FALSE
  <2>1. d * q >= d * (n + 1)
    BY <1>1, <1>4
  <2>2. d * (n + 1) = n * d + d
    OBVIOUS
  <2> QED
    BY <1>2, <1>3, <2>1, <2>2
<1> QED
  BY <1>1, <1>4

LEMMA NeededImplied == PInv => NoMoreThanNeeded
<1> SUFFICES ASSUME PInv, result = "done",
                    \A s \in Services : left[s] = 0,
                    \A i \in Nodes : worker_nodes[i] = DefaultNode
             PROVE  calculate_nodes_needed <= Len(worker_nodes)
  BY DEF NoMoreThanNeeded
<1> DEFINE n == Len(worker_nodes)
           needed(r) == (total_need(r) + DefaultNode[r] - 1) \div DefaultNode[r]
<1>1. n \in Nat /\ n = Cardinality(Nodes) /\ IsFiniteSet(Nodes) /\ TypeOK
  BY PlacementFacts DEF PInv
<1>2. ASSUME NEW r \in Resources PROVE needed(r) \in Int /\ needed(r) <= n
  <2> DEFINE d == DefaultNode[r]
             g == [i \in Nodes |-> usage(i, r)]
  <2>1. d \in Nat \ {0}
    BY PlacementAssumption DEF Resources
  <2>2. ASSUME NEW i \in Nodes PROVE usage(i, r) \in Int /\ usage(i, r) <= d
    <3>1. CASE \E s \in Services : distribution[i][s] # 0
      BY <3>1, <1>1, UsageType DEF PInv, CapacityRespected
    <3>2. CASE \A s \in Services : distribution[i][s] = 0
      <4>1. usage(i, r) = 0
        BY <1>1, <3>2, EmptyNode
      <4> QED
        BY <2>1, <4>1
    <3> QED
      BY <3>1, <3>2
  <2>3. used(r) = SumFunctionOnSet(g, Nodes)
    BY DEF used, SumFunction
  <2>4. used(r) \in Int /\ used(r) <= n * d
    <3>1. \A i \in Nodes : g[i] \in Int /\ g[i] <= d
      BY <2>2
    <3>2. d \in Int
      BY <2>1
    <3> HIDE DEF g, d
    <3> QED
      BY <1>1, <2>3, <3>1, <3>2, SumBound, SumType
  <2>5. used(r) = total_need(r)
    <3>1. used(r) = asked(r) /\ \A s \in Services : todo[s] = 0
      BY DEF PInv, Balanced, Accounted, Started
    <3>2. ASSUME NEW s \in Services
          PROVE  (cluster_infos[s].instances - left[s] - todo[s]) * cluster_infos[s][r]
                   = cluster_infos[s][r] * cluster_infos[s].instances
      <4>1. cluster_infos[s].instances \in Int /\ cluster_infos[s][r] \in Int
        BY <1>1, PlacementFacts
      <4>2. cluster_infos[s].instances - left[s] - todo[s] = cluster_infos[s].instances
        BY <3>1, <4>1
      <4> QED
        BY <4>1, <4>2
    <3>3. asked(r) = total_need(r)
      BY <3>2 DEF asked, total_need
    <3> QED
      BY <3>1, <3>3
  <2> HIDE DEF d
  <2>6. (total_need(r) + d - 1) \div d \in Int /\ (total_need(r) + d - 1) \div d <= n
    BY <1>1, <2>1, <2>4, <2>5, RoundedUp
  <2> QED
    BY <2>6 DEF d
<1>3. calculate_nodes_needed \in {needed("cpu"), needed("memory")}
  <2> HIDE DEF needed
  <2>1. calculate_nodes_needed = Max({needed("cpu"), needed("memory")})
    <3>1. {needed(r) : r \in Resources} = {needed("cpu"), needed("memory")}
      BY DEF Resources
    <3> QED
      BY <3>1 DEF calculate_nodes_needed, needed
  <2>2. needed("cpu") \in Int /\ needed("memory") \in Int
    BY <1>2 DEF Resources
  <2>3. \E x \in {needed("cpu"), needed("memory")} :
            \A y \in {needed("cpu"), needed("memory")} : x >= y
    BY <2>2
  <2> QED
    BY <2>1, <2>3 DEF Max
<1> HIDE DEF needed
<1> QED
  BY <1>2, <1>3 DEF Resources

\* calculate_nodes_needed asks for no more nodes than the greedy loop needs.
THEOREM NeverMoreThanNeeded == Spec => []NoMoreThanNeeded
  BY PInvHolds, NeededImplied, PTL

-----------------------------------------------------------------------------
Positions == DOMAIN applications
NodeIndices == 1..nodes
name(k) == applications[k].name

Working == outcome \in {"placing", "returned"}

DTypeOK ==
    /\ nodes \in NodeCounts
    /\ applications \in Applications
    /\ pending \in [Positions -> Nat]
    /\ outcome \in {"new", "placing", "returned", "none"}
    /\ Working => distributed_nodes \in [NodeIndices -> [Keys -> Nat]]

\* The pods of an application on all nodes.
spread(a) == SumFunction([i \in NodeIndices |-> distributed_nodes[i][a]])

\* The pods of an application are placed or pending.
AllCounted ==
    /\ Working => \A k \in Positions :
                     name(k) # Filler => spread(name(k)) + pending[k] = applications[k].quantity
    /\ outcome = "returned" => \A k \in Positions : pending[k] = 0

\* While pods are placed, the nodes with one pod more than the others come
\* first, and the fillers stay where they were put.
LoadsFall ==
    outcome = "placing" =>
        \A i, j \in NodeIndices : i < j => Load(i) >= Load(j) /\ Load(i) <= Load(j) + 1

FillersStay ==
    outcome = "placing" /\ Filler \notin AppsAsked =>
        \A i \in NodeIndices : distributed_nodes[i][Filler] = fillers(i)

Even ==
    outcome = "returned" /\ Filler \notin AppsAsked =>
        \A i, j \in NodeIndices : Load(i) <= Load(j) + 1

DInv == /\ DTypeOK
        /\ AllCounted
        /\ LoadsFall
        /\ FillersStay
        /\ Even

-----------------------------------------------------------------------------
LEMMA DistributionFacts ==
    ASSUME DTypeOK
    PROVE  /\ nodes \in Int
           /\ IsFiniteSet(Positions) /\ IsFiniteSet(NodeIndices) /\ IsFiniteSet(Keys)
           /\ \A k \in Positions : /\ applications[k].quantity \in Int
                                   /\ k \in Int /\ 1 <= k
                                   /\ name(k) \in Keys
           /\ \A j, k \in Positions : name(j) = name(k) => j = k
<1>1. /\ nodes \in Int
      /\ applications \in Seq([name : STRING, quantity : Int])
      /\ \A j, k \in Positions : name(j) = name(k) => j = k
  BY DistributionAssumption DEF DTypeOK, Positions, name
<1>2. Positions = 1..Len(applications) /\ Len(applications) \in Nat
  BY <1>1 DEF Positions
<1>3. IsFiniteSet(Positions)
  BY <1>2, FS_Interval
<1>4. IsFiniteSet(NodeIndices)
  BY <1>1, FS_Interval DEF NodeIndices
<1>5. ASSUME NEW k \in Positions
      PROVE  applications[k].quantity \in Int /\ k \in Int /\ 1 <= k /\ name(k) \in Keys
  <2>1. applications[k].quantity \in Int
    <3> DEFINE R == [name : STRING, quantity : Int]
    <3>1. k \in 1..Len(applications) /\ applications \in Seq(R)
      BY <1>1, <1>2
    <3>2. \A r \in R : r.quantity \in Int
      OBVIOUS
    <3> HIDE DEF R
    <3>3. applications[k] \in R
      BY <3>1
    <3> QED
      BY <3>2, <3>3
  <2>2. name(k) \in Keys
    BY DEF name, Keys, AppsAsked, Positions
  <2>3. k \in Int /\ 1 <= k
    BY <1>2
  <2> QED
    BY <2>1, <2>2, <2>3
<1>6. IsFiniteSet(Keys)
  <2>1. IsFiniteSet(AppsAsked)
    <3> DEFINE f == [k \in Positions |-> name(k)]
    <3>1. f \in Surjection(Positions, AppsAsked)
      BY DEF AppsAsked, name, Positions, Surjection
    <3> QED
      BY <1>3, <3>1, FS_Surjection
  <2> QED
    BY <2>1, FS_AddElement DEF Keys
<1> QED
  BY <1>1, <1>3, <1>4, <1>5, <1>6

LEMMA LoadType ==
    ASSUME DTypeOK, Working, NEW i \in NodeIndices
    PROVE  Load(i) \in Int
<1> DEFINE g == [a \in Keys |-> distributed_nodes[i][a]]
<1>1. \A a \in Keys : g[a] \in Int
  BY DEF DTypeOK
<1>2. Load(i) = SumFunctionOnSet(g, Keys)
  BY DEF Load, SumFunction
<1> HIDE DEF g
<1> QED
  BY <1>1, <1>2, DistributionFacts, SumType

LEMMA SpreadType ==
    ASSUME DTypeOK, Working, NEW a \in Keys
    PROVE  spread(a) \in Int
<1> DEFINE g == [i \in NodeIndices |-> distributed_nodes[i][a]]
<1>1. \A i \in NodeIndices : g[i] \in Int
  BY DEF DTypeOK
<1>2. spread(a) = SumFunctionOnSet(g, NodeIndices)
  BY DEF spread, SumFunction
<1> HIDE DEF g
<1> QED
  BY <1>1, <1>2, DistributionFacts, SumType

\* A pod more of an application on a node is one more in its load, and one
\* more of the application.
LEMMA PodCounts ==
    ASSUME DTypeOK, Working, UNCHANGED <<nodes, applications>>,
           NEW i \in NodeIndices, NEW a \in Keys,
           distributed_nodes' = [distributed_nodes EXCEPT ![i][a] = @ + 1]
    PROVE  /\ Load(i)' = Load(i) + 1
           /\ \A j \in NodeIndices \ {i} : Load(j)' = Load(j)
           /\ spread(a)' = spread(a) + 1
           /\ \A b \in Keys \ {a} : spread(b)' = spread(b)
<1>1. Keys' = Keys /\ NodeIndices' = NodeIndices
  BY DEF Keys, AppsAsked, NodeIndices
<1>2. /\ distributed_nodes'[i][a] = distributed_nodes[i][a] + 1
      /\ \A b \in Keys \ {a} : distributed_nodes'[i][b] = distributed_nodes[i][b]
      /\ \A j \in NodeIndices \ {i} : distributed_nodes'[j] = distributed_nodes[j]
  BY DEF DTypeOK
<1>3. /\ IsFiniteSet(Keys) /\ IsFiniteSet(NodeIndices)
      /\ \A j \in NodeIndices, b \in Keys : distributed_nodes[j][b] \in Int
  BY DistributionFacts DEF DTypeOK
<1>4. Load(i)' = Load(i) + 1
  <2> DEFINE g == [b \in Keys |-> distributed_nodes[i][b]]
             h == [b \in Keys |-> distributed_nodes'[i][b]]
  <2>1. Load(i) = SumFunctionOnSet(g, Keys) /\ Load(i)' = SumFunctionOnSet(h, Keys)
    BY <1>1 DEF Load, SumFunction
  <2>2. /\ \A b \in Keys : g[b] \in Int
        /\ h[a] = g[a] + 1
        /\ \A b \in Keys \ {a} : h[b] = g[b]
    BY <1>2, <1>3
  <2> HIDE DEF g, h
  <2>3. \A d \in Int : h[a] = g[a] + d =>
            SumFunctionOnSet(h, Keys) = SumFunctionOnSet(g, Keys) + d
    BY <1>3, <2>2, SumChange
  <2> QED
    BY <2>1, <2>2, <2>3
<1>5. ASSUME NEW j \in NodeIndices \ {i} PROVE Load(j)' = Load(j)
  BY <1>1, <1>2 DEF Load
<1>6. spread(a)' = spread(a) + 1
  <2> DEFINE g == [j \in NodeIndices |-> distributed_nodes[j][a]]
             h == [j \in NodeIndices |-> distributed_nodes'[j][a]]
  <2>1. /\ spread(a) = SumFunctionOnSet(g, NodeIndices)
        /\ spread(a)' = SumFunctionOnSet(h, NodeIndices)
    BY <1>1 DEF spread, SumFunction
  <2>2. /\ \A j \in NodeIndices : g[j] \in Int
        /\ h[i] = g[i] + 1
        /\ \A j \in NodeIndices \ {i} : h[j] = g[j]
    BY <1>2, <1>3
  <2> HIDE DEF g, h
  <2>3. \A d \in Int : h[i] = g[i] + d =>
            SumFunctionOnSet(h, NodeIndices) = SumFunctionOnSet(g, NodeIndices) + d
    BY <1>3, <2>2, SumChange
  <2> QED
    BY <2>1, <2>2, <2>3
<1>7. ASSUME NEW b \in Keys \ {a} PROVE spread(b)' = spread(b)
  <2>1. \A j \in NodeIndices : distributed_nodes'[j][b] = distributed_nodes[j][b]
    BY <1>2
  <2>2. [j \in NodeIndices |-> distributed_nodes'[j][b]]
          = [j \in NodeIndices |-> distributed_nodes[j][b]]
    BY <2>1
  <2> QED
    BY <1>1, <2>2 DEF spread
<1> QED
  BY <1>4, <1>5, <1>6, <1>7

-----------------------------------------------------------------------------
LEMMA DInit == DistributionInit => DInv
<1> SUFFICES ASSUME DistributionInit PROVE DInv
  OBVIOUS
<1>1. DTypeOK
  BY DEF DistributionInit, DTypeOK, Positions, Working
<1>2. outcome = "new"
  BY DEF DistributionInit
<1> QED
  BY <1>1, <1>2 DEF DInv, AllCounted, LoadsFall, FillersStay, Even, Working

\* The nodes with a filler come first.
LEMMA FillersFirst ==
    ASSUME DTypeOK
    PROVE  /\ \A i \in NodeIndices : fillers(i) \in {0, 1}
           /\ \A i, j \in NodeIndices : i < j => fillers(i) >= fillers(j)
<1> DEFINE r == total_pods % nodes
<1>1. total_pods \in Int /\ nodes \in Int
  <2> DEFINE g == [k \in Positions |-> applications[k].quantity]
  <2>1. \A k \in Positions : g[k] \in Int
    BY DistributionFacts
  <2>2. total_pods = SumFunctionOnSet(g, Positions)
    BY DEF total_pods, SumFunction, Positions
  <2> HIDE DEF g
  <2>3. total_pods \in Int
    BY <2>1, <2>2, DistributionFacts, SumType
  <2> QED
    BY <2>3, DistributionFacts
<1>2. ASSUME NEW i \in NodeIndices PROVE r \in Int /\ i \in Int
  <2>1. nodes > 0
    BY <1>1 DEF NodeIndices
  <2> QED
    BY <1>1, <2>1 DEF NodeIndices
<1>3. \A i \in NodeIndices : fillers(i) = IF i <= r THEN 1 ELSE 0
  BY DEF fillers
<1> HIDE DEF r
<1> QED
  BY <1>2, <1>3

LEMMA DStart ==
    ASSUME DInv, distribute_pods
    PROVE  DInv'
<1>1. /\ DTypeOK /\ UNCHANGED <<nodes, applications>>
      /\ UNCHANGED <<NodeIndices, Positions, Keys, AppsAsked>>
      /\ \A k : name(k)' = name(k)
      /\ \A i : fillers(i)' = fillers(i)
  BY DEF DInv, distribute_pods, NodeIndices, Positions, Keys, AppsAsked, name,
         fillers, total_pods
<1>2. CASE outcome' = "none"
  <2>1. pending' \in [Positions -> Nat]
    BY <1>1, <1>2 DEF distribute_pods, DTypeOK
  <2>2. DTypeOK'
    BY <1>1, <1>2, <2>1 DEF DTypeOK, Working
  <2> QED
    BY <1>2, <2>2 DEF DInv, AllCounted, LoadsFall, FillersStay, Even, Working
<1>3. CASE outcome' # "none"
  <2>1. /\ outcome' = "placing"
        /\ \A k \in Positions : ~(applications[k].quantity < 0)
        /\ pending' = [k \in Positions |-> applications[k].quantity]
        /\ distributed_nodes' = [i \in NodeIndices |-> [a \in Keys |->
               IF a = Filler THEN fillers(i) ELSE 0]]
    BY <1>3 DEF distribute_pods, Positions, NodeIndices
  <2>2. /\ \A i \in NodeIndices : /\ distributed_nodes'[i][Filler] = fillers(i)
                                  /\ fillers(i) \in {0, 1}
        /\ \A i \in NodeIndices, a \in Keys \ {Filler} : distributed_nodes'[i][a] = 0
        /\ Filler \in Keys
    BY <1>1, <2>1, FillersFirst DEF Keys
  <2>3. DTypeOK'
    <3>1. \A k \in Positions : applications[k].quantity \in Nat
      BY <1>1, <2>1, DistributionFacts
    <3>2. pending' \in [Positions -> Nat]
      BY <2>1, <3>1
    <3>3. distributed_nodes' \in [NodeIndices -> [Keys -> Nat]]
      BY <2>1, <2>2
    <3> QED
      BY <1>1, <2>1, <3>2, <3>3 DEF DTypeOK
  <2>4. ASSUME NEW i \in NodeIndices PROVE Load(i)' = fillers(i)
    <3> DEFINE g == [a \in Keys |-> 0]
               h == [a \in Keys |-> distributed_nodes'[i][a]]
    <3>1. Load(i)' = SumFunctionOnSet(h, Keys)
      BY <1>1 DEF Load, SumFunction
    <3>2. /\ \A a \in Keys : g[a] \in Int
          /\ h[Filler] = g[Filler] + fillers(i)
          /\ \A a \in Keys \ {Filler} : h[a] = g[a]
          /\ \A a \in Keys : g[a] = 0
      BY <2>2
    <3>3. IsFiniteSet(Keys) /\ fillers(i) \in Int
      BY <1>1, <2>2, DistributionFacts
    <3> HIDE DEF g, h
    <3>4. \A d \in Int : h[Filler] = g[Filler] + d =>
              SumFunctionOnSet(h, Keys) = SumFunctionOnSet(g, Keys) + d
      <4>1. Filler \in Keys /\ IsFiniteSet(Keys)
        BY <2>2, <3>3
      <4> QED
        BY <3>2, <4>1, SumChange
    <3>5. SumFunctionOnSet(g, Keys) = 0
      BY <3>2, <3>3, SumZero
    <3> QED
      BY <3>1, <3>2, <3>3, <3>4, <3>5
  <2>5. AllCounted'
    <3> SUFFICES ASSUME NEW k \in Positions, name(k) # Filler
                 PROVE  spread(name(k))' + pending'[k] = applications[k].quantity
      BY <1>1, <2>1 DEF AllCounted
    <3> DEFINE g == [i \in NodeIndices |-> distributed_nodes'[i][name(k)]]
    <3>1. \A i \in NodeIndices : g[i] = 0
      BY <1>1, <2>2, DistributionFacts
    <3>2. spread(name(k))' = SumFunctionOnSet(g, NodeIndices)
      BY <1>1 DEF spread, SumFunction
    <3> HIDE DEF g
    <3>3. spread(name(k))' = 0
      BY <1>1, <3>1, <3>2, DistributionFacts, SumZero
    <3>4. pending'[k] = applications[k].quantity /\ applications[k].quantity \in Int
      BY <1>1, <2>1, DistributionFacts
    <3> QED
      BY <3>3, <3>4
  <2>6. LoadsFall'
    <3> SUFFICES ASSUME NEW i \in NodeIndices, NEW j \in NodeIndices, i < j
                 PROVE  Load(i)' >= Load(j)' /\ Load(i)' <= Load(j)' + 1
      BY <1>1 DEF LoadsFall
    <3>1. Load(i)' = fillers(i) /\ Load(j)' = fillers(j)
      BY <2>4
    <3>2. fillers(i) \in {0, 1} /\ fillers(j) \in {0, 1} /\ fillers(i) >= fillers(j)
      BY <1>1, FillersFirst
    <3> QED
      BY <3>1, <3>2
  <2>7. FillersStay' /\ Even'
    BY <1>1, <2>1, <2>2 DEF FillersStay, Even
  <2> QED
    BY <2>3, <2>5, <2>6, <2>7 DEF DInv
<1> QED
  BY <1>2, <1>3

LEMMA DPlace ==
    ASSUME DInv, outcome = "placing", UNCHANGED <<nodes, applications, outcome>>,
           NEW k \in Positions, NEW i \in NodeIndices, pending[k] > 0, min_node_index(i),
           distributed_nodes' = [distributed_nodes EXCEPT ![i][name(k)] = @ + 1],
           pending' = [pending EXCEPT ![k] = @ - 1]
    PROVE  DInv'
<1>1. /\ DTypeOK /\ Working /\ outcome' = "placing"
      /\ UNCHANGED <<NodeIndices, Positions, Keys, AppsAsked>>
      /\ \A j : name(j)' = name(j)
      /\ \A j : fillers(j)' = fillers(j)
      /\ name(k) \in AppsAsked /\ AppsAsked \subseteq Keys
  BY DEF DInv, Working, NodeIndices, Positions, Keys, AppsAsked, name, fillers, total_pods
<1>2. /\ Load(i)' = Load(i) + 1
      /\ \A j \in NodeIndices \ {i} : Load(j)' = Load(j)
      /\ spread(name(k))' = spread(name(k)) + 1
      /\ \A b \in Keys \ {name(k)} : spread(b)' = spread(b)
  BY <1>1, PodCounts
<1>3. /\ pending'[k] = pending[k] - 1
      /\ \A j \in Positions \ {k} : pending'[j] = pending[j]
      /\ pending' \in [Positions -> Nat]
  <2>1. pending[k] - 1 \in Nat
    BY <1>1 DEF DTypeOK
  <2> QED
    BY <1>1, <2>1 DEF DTypeOK
<1>4. DTypeOK'
  <2>1. distributed_nodes' \in [NodeIndices -> [Keys -> Nat]]
    BY <1>1 DEF DTypeOK
  <2> QED
    BY <1>1, <1>3, <2>1 DEF DTypeOK
<1>5. AllCounted'
  <2> SUFFICES ASSUME NEW j \in Positions, name(j) # Filler
               PROVE  spread(name(j))' + pending'[j] = applications[j].quantity
    BY <1>1 DEF AllCounted
  <2>1. spread(name(j)) + pending[j] = applications[j].quantity
    BY <1>1 DEF DInv, AllCounted
  <2>2. name(j) \in Keys /\ (name(j) = name(k) => j = k)
    BY <1>1, DistributionFacts
  <2>3. spread(name(j)) \in Int /\ pending[j] \in Int
    BY <1>1, <2>2, SpreadType DEF DTypeOK
  <2>4. CASE j = k
    <3>1. spread(name(j))' = spread(name(j)) + 1 /\ pending'[j] = pending[j] - 1
      BY <1>2, <1>3, <2>4
    <3> QED
      BY <2>1, <2>3, <3>1
  <2>5. CASE j # k
    <3>1. name(j) \in Keys \ {name(k)} /\ name(j)' = name(j)
      BY <1>1, <2>2, <2>5
    <3>2. spread(name(j))' = spread(name(j)) /\ pending'[j] = pending[j]
      BY <1>2, <1>3, <2>5, <3>1
    <3> QED
      BY <2>1, <3>2
  <2> QED
    BY <2>4, <2>5
<1>6. LoadsFall'
  <2> SUFFICES ASSUME NEW x \in NodeIndices, NEW y \in NodeIndices, x < y
               PROVE  Load(x)' >= Load(y)' /\ Load(x)' <= Load(y)' + 1
    BY <1>1 DEF LoadsFall
  <2>1. Load(x) >= Load(y) /\ Load(x) <= Load(y) + 1
    BY DEF DInv, LoadsFall
  <2>2. Load(x) \in Int /\ Load(y) \in Int /\ Load(i) \in Int
    BY <1>1, LoadType
  <2>3. /\ \A j \in NodeIndices : Load(i) <= Load(j)
        /\ \A j \in 1..(i - 1) : Load(i) < Load(j)
    BY DEF min_node_index, NodeIndices
  <2>4. CASE x = i
    <3>1. y # i /\ Load(i) <= Load(y)
      BY <2>3, <2>4 DEF NodeIndices
    <3> QED
      BY <1>2, <2>1, <2>2, <2>4, <3>1
  <2>5. CASE y = i
    <3>1. x \in 1..(i - 1) /\ x # i
      BY <2>5 DEF NodeIndices
    <3>2. Load(i) < Load(x)
      BY <2>3, <3>1
    <3> QED
      BY <1>2, <2>1, <2>2, <2>5, <3>1, <3>2
  <2>6. CASE x # i /\ y # i
    BY <1>2, <2>1, <2>6
  <2> QED
    BY <2>4, <2>5, <2>6
<1>7. FillersStay'
  <2> SUFFICES ASSUME Filler \notin AppsAsked, NEW j \in NodeIndices
               PROVE  distributed_nodes'[j][Filler] = fillers(j)
    BY <1>1 DEF FillersStay
  <2>1. distributed_nodes[j][Filler] = fillers(j)
    BY DEF DInv, FillersStay
  <2>2. distributed_nodes'[j][Filler] = distributed_nodes[j][Filler]
    BY <1>1 DEF DTypeOK, Keys
  <2> QED
    BY <2>1, <2>2
<1>8. Even'
  BY <1>1 DEF Even
<1> QED
  BY <1>4, <1>5, <1>6, <1>7, <1>8 DEF DInv

LEMMA DDelete ==
    ASSUME DInv, delete_fillers
    PROVE  DInv'
<1>1. /\ DTypeOK /\ Working /\ outcome = "placing" /\ outcome' = "returned"
      /\ UNCHANGED <<nodes, applications, pending>>
      /\ UNCHANGED <<NodeIndices, Positions, Keys, AppsAsked>>
      /\ \A k : name(k)' = name(k)
      /\ \A k \in Positions : pending[k] = 0
      /\ Filler \in Keys
  BY DEF DInv, delete_fillers, Working, NodeIndices, Positions, Keys, AppsAsked, name
<1>2. /\ distributed_nodes' \in [NodeIndices -> [Keys -> Nat]]
      /\ \A i \in NodeIndices : /\ distributed_nodes'[i][Filler] = 0
                                /\ \A a \in Keys \ {Filler} :
                                      distributed_nodes'[i][a] = distributed_nodes[i][a]
  BY <1>1 DEF DTypeOK, delete_fillers, NodeIndices
<1>3. DTypeOK'
  BY <1>1, <1>2 DEF DTypeOK
<1>4. AllCounted'
  <2> SUFFICES ASSUME NEW k \in Positions, name(k) # Filler
               PROVE  spread(name(k))' + pending[k] = applications[k].quantity
    BY <1>1 DEF AllCounted
  <2>1. name(k) \in Keys
    BY <1>1, DistributionFacts
  <2>2. [i \in NodeIndices |-> distributed_nodes'[i][name(k)]]
          = [i \in NodeIndices |-> distributed_nodes[i][name(k)]]
    BY <1>2, <2>1
  <2>3. spread(name(k))' = spread(name(k))
    BY <1>1, <2>2 DEF spread
  <2> QED
    BY <1>1, <2>3 DEF DInv, AllCounted
<1>5. Even'
  <2> SUFFICES ASSUME Filler \notin AppsAsked, NEW i \in NodeIndices, NEW j \in NodeIndices
               PROVE  Load(i)' <= Load(j)' + 1
    BY <1>1 DEF Even
  <2>1. ASSUME NEW n \in NodeIndices
        PROVE  /\ Load(n)' = Load(n) - fillers(n)
               /\ Load(n) \in Int /\ fillers(n) \in {0, 1}
    <3> DEFINE g == [a \in Keys |-> distributed_nodes[n][a]]
               h == [a \in Keys |-> distributed_nodes'[n][a]]
               d == 0 - fillers(n)
    <3>1. fillers(n) \in {0, 1} /\ Load(n) \in Int /\ IsFiniteSet(Keys)
      BY <1>1, FillersFirst, LoadType, DistributionFacts
    <3>2. distributed_nodes[n][Filler] = fillers(n)
      BY <1>1 DEF DInv, FillersStay
    <3>3. Load(n) = SumFunctionOnSet(g, Keys) /\ Load(n)' = SumFunctionOnSet(h, Keys)
      BY <1>1 DEF Load, SumFunction
    <3>4. /\ \A a \in Keys : g[a] \in Int
          /\ h[Filler] = g[Filler] + d
          /\ \A a \in Keys \ {Filler} : h[a] = g[a]
          /\ d \in Int
      BY <1>1, <1>2, <3>1, <3>2 DEF DTypeOK
    <3> HIDE DEF g, h, d
    <3>5. SumFunctionOnSet(h, Keys) = SumFunctionOnSet(g, Keys) + d
      BY <1>1, <3>1, <3>4, SumChange
    <3>6. Load(n) + d = Load(n) - fillers(n)
      BY <3>1 DEF d
    <3> QED
      BY <3>1, <3>3, <3>5, <3>6
  <2>2. /\ i < j => Load(i) >= Load(j) /\ Load(i) <= Load(j) + 1
        /\ j < i => Load(j) >= Load(i) /\ Load(j) <= Load(i) + 1
    BY <1>1 DEF DInv, LoadsFall
  <2>3. /\ i < j => fillers(i) >= fillers(j)
        /\ j < i => fillers(j) >= fillers(i)
    BY <1>1, FillersFirst
  <2>4. i \in Int /\ j \in Int
    BY DEF NodeIndices
  <2>5. CASE i < j
    BY <2>1, <2>2, <2>3, <2>5
  <2>6. CASE j < i
    BY <2>1, <2>2, <2>3, <2>6
  <2>7. CASE i = j
    BY <2>1, <2>7
  <2> QED
    BY <2>4, <2>5, <2>6, <2>7
<1> QED
  BY <1>1, <1>3, <1>4, <1>5 DEF DInv, LoadsFall, FillersStay

LEMMA DNext == DInv /\ [DistributionNext]_dvars => DInv'
<1> SUFFICES ASSUME DInv, [DistributionNext]_dvars PROVE DInv'
  OBVIOUS
<1>1. CASE distribute_pods
  BY <1>1, DStart
<1>2. CASE PlacePod
  <2>1. PICK k \in Positions, i \in NodeIndices :
            /\ pending[k] > 0 /\ min_node_index(i)
            /\ distributed_nodes' = [distributed_nodes EXCEPT ![i][name(k)] = @ + 1]
            /\ pending' = [pending EXCEPT ![k] = @ - 1]
    BY <1>2 DEF PlacePod, Positions, NodeIndices, name
  <2>2. outcome = "placing" /\ UNCHANGED <<nodes, applications, outcome>>
    BY <1>2 DEF PlacePod
  <2> QED
    BY <2>1, <2>2, DPlace
<1>3. CASE delete_fillers
  BY <1>3, DDelete
<1>4. CASE UNCHANGED dvars
  <2>1. /\ UNCHANGED <<nodes, applications, pending, distributed_nodes, outcome>>
        /\ UNCHANGED <<Positions, NodeIndices, AppsAsked, Keys>>
        /\ \A k : name(k)' = name(k)
        /\ \A i : fillers(i)' = fillers(i)
    BY <1>4 DEF dvars, Positions, NodeIndices, AppsAsked, Keys, name, fillers, total_pods
  <2>2. (\A i : Load(i)' = Load(i)) /\ \A a : spread(a)' = spread(a)
    BY <2>1 DEF Load, spread
  <2> QED
    BY <2>1, <2>2 DEF DInv, DTypeOK, Working, AllCounted, LoadsFall, FillersStay, Even
<1> QED
  BY <1>1, <1>2, <1>3, <1>4 DEF DistributionNext

LEMMA EvenImplied == DInv => DistributedEvenly
<1> SUFFICES ASSUME DInv, outcome = "returned"
             PROVE  /\ \A k \in Positions : name(k) # Filler =>
                          spread(name(k)) = applications[k].quantity
                    /\ Filler \notin AppsAsked =>
                          \A i, j \in NodeIndices : Load(i) <= Load(j) + 1
  BY DEF DistributedEvenly, Positions, NodeIndices, name, spread
<1>1. ASSUME NEW k \in Positions, name(k) # Filler
      PROVE  spread(name(k)) = applications[k].quantity
  <2>1. spread(name(k)) + pending[k] = applications[k].quantity /\ pending[k] = 0
    BY <1>1 DEF DInv, AllCounted, Working
  <2>2. spread(name(k)) \in Int
    BY DistributionFacts, SpreadType DEF DInv, Working
  <2> QED
    BY <2>1, <2>2
<1> QED
  BY <1>1 DEF DInv, Even

\* distribute_pods places every pod, and evenly, however many nodes and
\* applications there are.
THEOREM AlwaysEven == DistributionSpec => []DistributedEvenly
<1>1. DistributionSpec => []DInv
  BY DInit, DNext, PTL DEF DistributionSpec
<1> QED
  BY <1>1, EvenImplied, PTL
=============================================================================
