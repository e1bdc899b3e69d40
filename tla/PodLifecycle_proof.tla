------------------------- MODULE PodLifecycle_proof -------------------------
(* Proofs about ContainerResources, whatever number a quantity has, and      *)
(* about PodLifecycle for every pod: any request, any number of callers of   *)
(* delete_pod, with and without failing calls.                               *)
EXTENDS PodLifecycle, TLAPS

\* Without tenths nothing is cut off: Scaled is the product.
LEMMA WholeScaled ==
    ASSUME NEW q \in Quantity, NEW m \in Nat, ~q.point
    PROVE  Scaled(q, m) = q.whole * m
<1>1. q.tenths = 0 /\ q.whole \in Nat
  BY DEF Quantity
<1>2. q.tenths * m = 0
  BY <1>1
<1>3. q.whole * m \in Nat
  BY <1>1
<1> QED
  BY <1>1, <1>2, <1>3 DEF Scaled

\* The multipliers are numbers, and a product of three associates.
LEMMA UnitProducts ==
    /\ Kilo * Kilo \in Nat /\ Kilo * Kilo * Kilo \in Nat
    /\ Kibi * Kibi \in Nat /\ Kibi * Kibi * Kibi \in Nat
    /\ \A n \in Nat : /\ n * Kilo * Kilo = n * (Kilo * Kilo)
                      /\ n * Kibi * Kibi = n * (Kibi * Kibi)
                      /\ n * Kilo * Kilo * Kilo = n * (Kilo * Kilo * Kilo)
                      /\ n * Kibi * Kibi * Kibi = n * (Kibi * Kibi * Kibi)
  BY UnitAssumption

\* The worker reads "64Mi", "512m", "1G" and plain bytes as the API documents
\* them, and the readings of adapters.py and models.py mean the same bytes.
THEOREM ReadingsAgree == \A q \in Quantity : AgreesOn(q)
<1> SUFFICES ASSUME NEW q \in Quantity, WorkerReads(q)
             PROVE  /\ _mem_to_bytes(q) = _parse_mem_bytes(q)
                    /\ AdapterReads(q) /\ parse_mem_bytes(q) = _mem_to_bytes(q)
                    /\ ModelReads(q) => parse_bytes(q) = _mem_to_bytes(q)
                    /\ q.unit \in {"", "mi", "gi"} =>
                            _parse_bytes(q) = _mem_to_bytes(q)
  BY DEF AgreesOn
<1>1. /\ ~q.point
      /\ q.unit \in {"", "m", "g", "mi", "gi"}
      /\ q.whole \in Nat
  BY DEF WorkerReads, Quantity
<1>2. \A m \in Nat : Scaled(q, m) = q.whole * m
  BY <1>1, WholeScaled
<1>3. CASE q.unit = ""
  <2>1. _mem_to_bytes(q) = q.whole
    BY <1>3 DEF _mem_to_bytes
  <2>2. units[q.unit] = 1
    BY <1>3 DEF units, Units
  <2>3. q.whole = q.whole * 1
    <3>1. \A n \in Nat : n = n * 1
      OBVIOUS
    <3> QED
      BY <1>1, <3>1
  <2>4. _parse_mem_bytes(q) = q.whole
    BY <1>2, <2>2, <2>3 DEF _parse_mem_bytes
  <2>5. AdapterReads(q) /\ parse_mem_bytes(q) = q.whole
    BY <1>1, <1>3, <2>3 DEF AdapterReads, parse_mem_bytes
  <2>6. parse_bytes(q) = Scaled(q, 1) /\ _parse_bytes(q) = Scaled(q, 1)
    BY <1>3 DEF parse_bytes, _parse_bytes
  <2> QED
    BY <1>2, <2>1, <2>3, <2>4, <2>5, <2>6
<1>4. CASE q.unit = "m"
  <2>1. _mem_to_bytes(q) = q.whole * Kilo * Kilo
    BY <1>4 DEF _mem_to_bytes
  <2>2. units[q.unit] = Kilo * Kilo
    BY <1>4 DEF units, Units
  <2>3. Kilo * Kilo \in Nat /\ q.whole * Kilo * Kilo = q.whole * (Kilo * Kilo)
    BY <1>1, UnitProducts
  <2>4. _parse_mem_bytes(q) = q.whole * Kilo * Kilo
    BY <1>2, <2>2, <2>3 DEF _parse_mem_bytes
  <2>5. AdapterReads(q) /\ parse_mem_bytes(q) = q.whole * Kilo * Kilo
    BY <1>1, <1>4, <2>3 DEF AdapterReads, parse_mem_bytes
  <2>6. ~ModelReads(q)
    BY <1>4 DEF ModelReads
  <2> QED
    BY <1>4, <2>1, <2>4, <2>5, <2>6
<1>5. CASE q.unit = "g"
  <2>1. _mem_to_bytes(q) = q.whole * Kilo * Kilo * Kilo
    BY <1>5 DEF _mem_to_bytes
  <2>2. units[q.unit] = Kilo * Kilo * Kilo
    BY <1>5 DEF units, Units
  <2>3. Kilo * Kilo * Kilo \in Nat /\ q.whole * Kilo * Kilo * Kilo = q.whole * (Kilo * Kilo * Kilo)
    BY <1>1, UnitProducts
  <2>4. _parse_mem_bytes(q) = q.whole * Kilo * Kilo * Kilo
    BY <1>2, <2>2, <2>3 DEF _parse_mem_bytes
  <2>5. AdapterReads(q) /\ parse_mem_bytes(q) = q.whole * Kilo * Kilo * Kilo
    BY <1>1, <1>5, <2>3 DEF AdapterReads, parse_mem_bytes
  <2>6. ~ModelReads(q)
    BY <1>5 DEF ModelReads
  <2> QED
    BY <1>5, <2>1, <2>4, <2>5, <2>6
<1>6. CASE q.unit = "mi"
  <2>1. _mem_to_bytes(q) = q.whole * Kibi * Kibi
    BY <1>6 DEF _mem_to_bytes
  <2>2. units[q.unit] = Kibi * Kibi
    BY <1>6 DEF units, Units
  <2>3. Kibi * Kibi \in Nat /\ q.whole * Kibi * Kibi = q.whole * (Kibi * Kibi)
    BY <1>1, UnitProducts
  <2>4. _parse_mem_bytes(q) = q.whole * Kibi * Kibi
    BY <1>2, <2>2, <2>3 DEF _parse_mem_bytes
  <2>5. AdapterReads(q) /\ parse_mem_bytes(q) = q.whole * Kibi * Kibi
    BY <1>1, <1>6, <2>3 DEF AdapterReads, parse_mem_bytes
  <2>6. parse_bytes(q) = Scaled(q, Kibi * Kibi) /\ _parse_bytes(q) = Scaled(q, Kibi * Kibi)
    BY <1>6 DEF parse_bytes, _parse_bytes
  <2> QED
    BY <1>2, <2>1, <2>3, <2>4, <2>5, <2>6
<1>7. CASE q.unit = "gi"
  <2>1. _mem_to_bytes(q) = q.whole * Kibi * Kibi * Kibi
    BY <1>7 DEF _mem_to_bytes
  <2>2. units[q.unit] = Kibi * Kibi * Kibi
    BY <1>7 DEF units, Units
  <2>3. Kibi * Kibi * Kibi \in Nat /\ q.whole * Kibi * Kibi * Kibi = q.whole * (Kibi * Kibi * Kibi)
    BY <1>1, UnitProducts
  <2>4. _parse_mem_bytes(q) = q.whole * Kibi * Kibi * Kibi
    BY <1>2, <2>2, <2>3 DEF _parse_mem_bytes
  <2>5. AdapterReads(q) /\ parse_mem_bytes(q) = q.whole * Kibi * Kibi * Kibi
    BY <1>1, <1>7, <2>3 DEF AdapterReads, parse_mem_bytes
  <2>6. parse_bytes(q) = Scaled(q, Kibi * Kibi * Kibi) /\ _parse_bytes(q) = Scaled(q, Kibi * Kibi * Kibi)
    BY <1>7 DEF parse_bytes, _parse_bytes
  <2> QED
    BY <1>2, <2>1, <2>3, <2>4, <2>5, <2>6
<1> QED
  BY <1>1, <1>3, <1>4, <1>5, <1>6, <1>7

-----------------------------------------------------------------------------
\* The position after one that is not the last is a position.
LEMMA OneMore == \A m \in Nat : \A n \in 0..m : n < m => n + 1 \in 0..m
OBVIOUS

\* What comes before a position, and what that leaves of the last one.
LEMMA Between ==
    \A m \in Nat : \A i \in 0..m :
        /\ i < m \/ i = m
        /\ i + 1 # 0
        /\ \A k \in 0..m : k < i + 1 <=> k < i \/ k = i
        /\ \A k \in 0..m : i = m => k < i \/ k = i
OBVIOUS

\* What the positions of a request stand for.
LEMMA RequestFacts ==
    ASSUME TypeOK
    PROVE  /\ Len(request) \in Nat
           /\ \A k \in 0..Len(request) : Name(k) \in Names /\ (Name(k) = Pause <=> k = 0)
           /\ \A k \in 0..Len(request) : /\ Asked(k).memory \in Quantity
                                         /\ Asked(k).cpu_millicores \in Nat
  <1> DEFINE S == [name : AppNames, resources : Resources]
  <1>1. request \in Seq(S) /\ Pause \notin AppNames
    BY PodAssumption DEF TypeOK
  <1> HIDE DEF S
  <1>2. Len(request) \in Nat /\ \A k \in 1..Len(request) : request[k] \in S
    BY <1>1
  <1>3. \A k \in 1..Len(request) :
            /\ request[k].name \in AppNames
            /\ request[k].resources.memory \in Quantity
            /\ request[k].resources.cpu_millicores \in Nat
    BY <1>2 DEF S, Resources
  <1>4. Asked(0).memory \in Quantity /\ Asked(0).cpu_millicores \in Nat
    BY DEF Asked, Quantity, Units
  <1>5. \A k \in 0..Len(request) : k # 0 => k \in 1..Len(request)
    BY <1>2
  <1>6. \A k \in 0..Len(request) : Name(k) \in Names /\ (Name(k) = Pause <=> k = 0)
    BY <1>1, <1>3, <1>5 DEF Name, Names
  <1>7. \A k \in 0..Len(request) : /\ Asked(k).memory \in Quantity
                                   /\ Asked(k).cpu_millicores \in Nat
    BY <1>3, <1>4, <1>5 DEF Asked
  <1> QED  BY <1>2, <1>6, <1>7

\* The positions the two loops go to next.
LEMMA Positions ==
    ASSUME TypeOK
    PROVE  /\ cpos # Len(request) => cpos + 1 \in 0..Len(request)
           /\ \A d \in Deleters : dpos[d] < Len(request) => dpos[d] + 1 \in 0..Len(request)
           /\ 0 \in 0..Len(request)
           /\ request # <<>> => 1 \in 0..Len(request)
  <1>1. Len(request) \in Nat  BY RequestFacts
  <1>2. cpos \in 0..Len(request)  BY DEF TypeOK
  <1>3. \A d \in Deleters : dpos[d] \in 0..Len(request)  BY DEF TypeOK
  <1>4. request # <<>> => Len(request) # 0
    <2> DEFINE S == [name : AppNames, resources : Resources]
    <2>1. request \in Seq(S)  BY PodAssumption DEF TypeOK
    <2> HIDE DEF S
    <2> QED  BY <2>1
  <1> QED  BY <1>1, <1>2, <1>3, <1>4

\* The calls of create_pod_task keep the types.
LEMMA CreateTypes ==
    ASSUME TypeOK, Create
    PROVE  TypeOK'
  <1> USE RequestFacts, Positions
  <1> USE DEF TypeOK, world, deleteVars, runtimeVars
  <1>0. UNCHANGED <<world, deleteVars>>  BY DEF Create
  <1>1. CASE EnsureUnpacked
    BY <1>0, <1>1 DEF EnsureUnpacked, CreateSteps
  <1>2. CASE PrepareSnapshot
    BY <1>0, <1>2 DEF PrepareSnapshot, CreateSteps
  <1>3. CASE create_container
    BY <1>0, <1>3 DEF create_container, Raise, CreateSteps
  <1>4. CASE CreateTask
    BY <1>0, <1>4 DEF CreateTask, Raise, CreateSteps, TaskState, Alive
  <1>5. CASE start_task
    <2>1. CASE Raise  BY <1>0, <2>1 DEF Raise
    <2>2. CASE ~Raise
      BY <1>0, <1>5, <2>2 DEF start_task, NextApp, CreateSteps, TaskState, Alive
    <2> QED  BY <2>1, <2>2
  <1>6. ASSUME NEW holds \in BOOLEAN, CniAdd(holds)
        PROVE  TypeOK'
    BY <1>0, <1>6 DEF CniAdd, CreateSteps
  <1>7. CASE _rehydrate_containers
    BY <1>0, <1>7 DEF _rehydrate_containers, NextApp, Raise, CreateSteps
  <1>8. CASE ReturnHandle
    BY <1>0, <1>8 DEF ReturnHandle
  <1>9. CASE CreateFails
    BY <1>0, <1>9 DEF CreateFails, Raise
  <1> QED
    BY <1>1, <1>2, <1>3, <1>4, <1>5, <1>6, <1>7, <1>8, <1>9 DEF Create

\* So do those of delete_pod, ...
LEMMA DeleteTypes ==
    ASSUME TypeOK, NEW d \in Deleters, DeleteStep(d)
    PROVE  TypeOK'
  <1> USE RequestFacts, Positions
  <1> USE DEF TypeOK, createVars, world, DGoto, DeleteSteps
  <1>0. UNCHANGED createVars  BY DEF DeleteStep
  <1>1. CASE Kill15(d)
    BY <1>0, <1>1 DEF Kill15, TaskState, Alive
  <1>2. CASE TaskDelete(d)
    BY <1>0, <1>2 DEF TaskDelete, TaskState
  <1>3. CASE Kill9(d)
    BY <1>0, <1>3 DEF Kill9, TaskState, Alive
  <1>4. CASE Delete9(d)
    BY <1>0, <1>4 DEF Delete9, TaskState
  <1>5. CASE RemoveContainer(d)
    BY <1>0, <1>5 DEF RemoveContainer
  <1>6. CASE _snap_remove_active(d)
    BY <1>0, <1>6 DEF _snap_remove_active, NextDelete
  <1>7. CASE CniDel(d)
    BY <1>0, <1>7 DEF CniDel
  <1> QED
    BY <1>1, <1>2, <1>3, <1>4, <1>5, <1>6, <1>7 DEF DeleteStep

\* ... and all other steps.
LEMMA TypeStep ==
    ASSUME TypeOK, [Next]_vars
    PROVE  TypeOK'
  <1> USE RequestFacts, Positions
  <1> USE DEF TypeOK
  <1>1. CASE Create  BY <1>1, CreateTypes
  <1>2. CASE CreatorDies /\ UNCHANGED <<world, deleteVars>>
    BY <1>2 DEF CreatorDies, world, deleteVars, runtimeVars
  <1>3. ASSUME NEW d \in Deleters, NEW apps \in BOOLEAN, delete_pod(d, apps),
               UNCHANGED createVars
        PROVE  TypeOK'
    <2>1. calls[d] < MaxCalls /\ calls[d] \in 0..MaxCalls /\ MaxCalls \in Nat
      BY <1>3, PodAssumption DEF delete_pod, MayCall
    <2>2. calls[d] + 1 \in 0..MaxCalls  BY <2>1, OneMore
    <2>3. calls' \in [Deleters -> 0..MaxCalls]  BY <1>3, <2>2 DEF delete_pod
    <2> QED
      BY <1>3, <2>3 DEF delete_pod, DGoto, DeleteSteps, createVars, world, runtimeVars
  <1>4. ASSUME NEW d \in Deleters, DeleteStep(d)
        PROVE  TypeOK'
    BY <1>4, DeleteTypes
  <1>5. ASSUME NEW d \in Deleters, DeleterDies(d), UNCHANGED createVars
        PROVE  TypeOK'
    BY <1>5 DEF DeleterDies, DGoto, createVars, world, runtimeVars
  <1>6. ASSUME NEW n \in Names, Exits(n)
        PROVE  TypeOK'
    BY <1>6 DEF Exits, createVars, deleteVars, world, TaskState
  <1>7. CASE UNCHANGED vars
    BY <1>7 DEF vars, world
  <1> QED
    BY <1>1, <1>2, <1>3, <1>4, <1>5, <1>6, <1>7 DEF Next

\* create_pod_task begins with the types.
LEMMA TypeInit == Init => TypeOK
  <1> DEFINE S == [name : AppNames, resources : Resources]
  <1> SUFFICES ASSUME Init PROVE TypeOK
    OBVIOUS
  <1>1. request \in Seq(S) /\ MaxCalls \in Nat
    BY PodAssumption DEF Init
  <1> HIDE DEF S
  <1>2. 0 \in 0..Len(request) /\ 0 \in 0..MaxCalls
    BY <1>1
  <1> QED
    BY <1>2 DEF Init, TypeOK, CreateSteps, TaskState

-----------------------------------------------------------------------------
\* What was asked for does not change.
LEMMA WorldStays ==
    ASSUME [Next]_vars
    PROVE  UNCHANGED world
BY DEF Next, Create, CreatorDies, delete_pod, DeleteStep, DeleterDies, Exits, vars,
       createVars

\* A caller of delete_pod moves alone and changes nothing of create_pod's.
LEMMA DeleterAlone ==
    ASSUME TypeOK, NEW d \in Deleters, DeleteStep(d)
    PROVE  /\ UNCHANGED createVars
           /\ dpc[d] \in DeleteSteps
           /\ \A e \in Deleters : e # d => dpc'[e] = dpc[e] /\ dpos'[e] = dpos[e]
  <1> USE DEF TypeOK, DGoto, DeleteSteps
  <1>0. UNCHANGED createVars  BY DEF DeleteStep
  <1>1. CASE Kill15(d)  BY <1>0, <1>1 DEF Kill15
  <1>2. CASE TaskDelete(d)  BY <1>0, <1>2 DEF TaskDelete
  <1>3. CASE Kill9(d)  BY <1>0, <1>3 DEF Kill9
  <1>4. CASE Delete9(d)  BY <1>0, <1>4 DEF Delete9
  <1>5. CASE RemoveContainer(d)  BY <1>0, <1>5 DEF RemoveContainer
  <1>6. CASE _snap_remove_active(d)
    BY <1>0, <1>6 DEF _snap_remove_active, NextDelete
  <1>7. CASE CniDel(d)  BY <1>0, <1>7 DEF CniDel
  <1> QED
    BY <1>1, <1>2, <1>3, <1>4, <1>5, <1>6, <1>7 DEF DeleteStep

\* delete_pod is called by holders of the handle.
DeletersHoldHandle == \A d \in Deleters : dpc[d] # "idle" => cpc = "up"

\* Nobody deletes a pod before there is one.
LEMMA HolderInit == Init => DeletersHoldHandle
BY DEF Init, DeletersHoldHandle

\* A caller of delete_pod has the handle create_pod_task returned.
LEMMA HolderStep ==
    ASSUME TypeOK, DeletersHoldHandle, [Next]_vars
    PROVE  DeletersHoldHandle'
  <1> USE DEF DeletersHoldHandle
  <1>1. CASE Create
    <2>1. cpc # "up"
      BY <1>1 DEF Create, EnsureUnpacked, PrepareSnapshot, create_container, CreateTask,
                  start_task, CniAdd, _rehydrate_containers, ReturnHandle, CreateFails,
                  CreateSteps
    <2> QED  BY <1>1, <2>1 DEF Create, deleteVars
  <1>2. CASE CreatorDies /\ UNCHANGED <<world, deleteVars>>
    BY <1>2 DEF CreatorDies, deleteVars, CreateSteps
  <1>3. ASSUME NEW d \in Deleters, NEW apps \in BOOLEAN, delete_pod(d, apps),
               UNCHANGED createVars
        PROVE  DeletersHoldHandle'
    BY <1>3 DEF delete_pod, MayCall, DGoto, createVars, TypeOK
  <1>4. ASSUME NEW d \in Deleters, DeleteStep(d)
        PROVE  DeletersHoldHandle'
    BY <1>4, DeleterAlone DEF createVars, DeleteSteps
  <1>5. ASSUME NEW d \in Deleters, DeleterDies(d), UNCHANGED createVars
        PROVE  DeletersHoldHandle'
    BY <1>5 DEF DeleterDies, DGoto, createVars, DeleteSteps, TypeOK
  <1>6. ASSUME NEW n \in Names, Exits(n)
        PROVE  DeletersHoldHandle'
    BY <1>6 DEF Exits, createVars, deleteVars
  <1>7. CASE UNCHANGED vars
    BY <1>7 DEF vars
  <1> QED
    BY <1>1, <1>2, <1>3, <1>4, <1>5, <1>6, <1>7 DEF Next

-----------------------------------------------------------------------------
\* A spec is written for a container that is new, and read from what was asked.
LEMMA SpecStep ==
    ASSUME TypeOK, SpecMeansWhatWasAsked, [Next]_vars
    PROVE  SpecMeansWhatWasAsked'
  <1> USE RequestFacts
  <1>1. request' = request  BY WorldStays DEF world
  <1>2. \A k \in 0..Len(request) :
            /\ Name(k)' = Name(k)
            /\ (_parse_mem_bytes(Asked(k).memory))' = _parse_mem_bytes(Asked(k).memory)
            /\ (Asked(k).cpu_millicores)' = Asked(k).cpu_millicores
    BY <1>1 DEF Name, Asked, _parse_mem_bytes, Scaled, units
  <1>3. CASE containers' \subseteq containers /\ spec' = spec
    BY <1>1, <1>2, <1>3 DEF SpecMeansWhatWasAsked
  <1>4. CASE create_container
    <2>1. CASE Raise
      BY <1>3, <2>1 DEF Raise, runtimeVars
    <2>2. CASE ~Raise
      <3>1. /\ WorkerReads(Asked(cpos).memory) /\ Name(cpos) \notin containers
            /\ containers' = containers \cup {Name(cpos)}
            /\ spec' = [spec EXCEPT ![Name(cpos)] = build(Asked(cpos))]
        BY <1>4, <2>2 DEF create_container
      <3>2. cpos \in 0..Len(request)  BY DEF TypeOK
      <3>3. _mem_to_bytes(Asked(cpos).memory) = _parse_mem_bytes(Asked(cpos).memory)
        BY <3>1, <3>2, ReadingsAgree DEF AgreesOn
      <3>4. /\ build(Asked(cpos)).resources.memory.limit
                    = _parse_mem_bytes(Asked(cpos).memory)
            /\ build(Asked(cpos)).resources.cpu.quota = 100 * Asked(cpos).cpu_millicores
        BY <3>2, <3>3 DEF build, to_linux_resources_dict
      <3>5. /\ spec'[Name(cpos)] = build(Asked(cpos))
            /\ \A n \in containers : spec'[n] = spec[n]
        BY <3>1, <3>2 DEF TypeOK
      <3> QED
        BY <1>1, <1>2, <3>1, <3>2, <3>4, <3>5 DEF SpecMeansWhatWasAsked
    <2> QED  BY <2>1, <2>2
  <1>5. ASSUME ~create_container, Create
        PROVE  containers' \subseteq containers /\ spec' = spec
    BY <1>5 DEF Create, EnsureUnpacked, PrepareSnapshot, CreateTask, start_task, CniAdd,
                _rehydrate_containers, ReturnHandle, CreateFails, Raise, runtimeVars
  <1>6. ASSUME NEW d \in Deleters, DeleteStep(d)
        PROVE  containers' \subseteq containers /\ spec' = spec
    BY <1>6 DEF DeleteStep, Kill15, TaskDelete, Kill9, Delete9, RemoveContainer,
                _snap_remove_active, CniDel, createVars
  <1>7. ASSUME ~Create, \A d \in Deleters : ~DeleteStep(d)
        PROVE  containers' = containers /\ spec' = spec
    BY <1>7 DEF Next, vars, CreatorDies, delete_pod, DeleterDies, Exits, createVars,
                runtimeVars
  <1> QED  BY <1>3, <1>4, <1>5, <1>6, <1>7

-----------------------------------------------------------------------------
\* Before the handle is returned nobody deletes, and no process is signalled.
LEMMA NobodyDeletes ==
    ASSUME DeletersHoldHandle, cpc # "up"
    PROVE  \A d \in Deleters : dpc[d] = "idle" /\ ~DeleteStep(d)
BY DEF DeletersHoldHandle, DeleteStep, Kill15, TaskDelete, Kill9, Delete9,
       RemoveContainer, _snap_remove_active, CniDel

\* When the handle is returned create_pod is over.
LEMMA CreateIsOver ==
    ASSUME cpc = "up"
    PROVE  ~Create /\ ~CreatorDies
BY DEF Create, EnsureUnpacked, PrepareSnapshot, create_container, CreateTask,
       start_task, CniAdd, _rehydrate_containers, ReturnHandle, CreateFails,
       CreatorDies, CreateSteps

\* From then on no process starts.
LEMMA NeverAgain ==
    ASSUME TypeOK, cpc = "up", [Next]_vars
    PROVE  \A n \in Names :
               /\ task'[n] \in Alive => task[n] \in Alive
               /\ task'[n] \in {"running", "stopping"} => task[n] \in {"running", "stopping"}
  <1> USE RequestFacts
  <1> USE DEF TypeOK, Alive
  <1>1. ASSUME NEW d \in Deleters, DeleteStep(d)
        PROVE  \A n \in Names :
               /\ task'[n] \in Alive => task[n] \in Alive
               /\ task'[n] \in {"running", "stopping"} => task[n] \in {"running", "stopping"}
    <2>1. CASE Kill15(d)  BY <2>1 DEF Kill15
    <2>2. CASE TaskDelete(d)  BY <2>2 DEF TaskDelete
    <2>3. CASE Kill9(d)  BY <2>3 DEF Kill9
    <2>4. CASE Delete9(d)  BY <2>4 DEF Delete9
    <2>5. CASE RemoveContainer(d) \/ _snap_remove_active(d) \/ CniDel(d)
      BY <2>5 DEF RemoveContainer, _snap_remove_active, CniDel
    <2> QED  BY <1>1, <2>1, <2>2, <2>3, <2>4, <2>5 DEF DeleteStep
  <1>2. ASSUME NEW m \in Names, Exits(m)
        PROVE  \A n \in Names :
               /\ task'[n] \in Alive => task[n] \in Alive
               /\ task'[n] \in {"running", "stopping"} => task[n] \in {"running", "stopping"}
    BY <1>2 DEF Exits
  <1>3. ASSUME \A d \in Deleters : ~DeleteStep(d), \A m \in Names : ~Exits(m)
        PROVE  task' = task
    BY <1>3, CreateIsOver DEF Next, vars, delete_pod, DeleterDies, runtimeVars
  <1> QED  BY <1>1, <1>2, <1>3

\* What is created has its snapshot, and its container object before its task.
CreatedInOrder ==
    /\ cpc \in {"container", "task", "start"} => cpos \in snaps
    /\ cpc \in {"task", "start"} => Name(cpos) \in containers

\* Nothing of a container is removed before its process was killed.
KilledBeforeRemoved ==
    ~faulty => \A d \in Deleters :
        dpc[d] \in {"delete9", "rm_container", "rm_snapshot"} =>
            task[Name(dpos[d])] \notin {"running", "stopping"}

ManagedInv == CreatedInOrder /\ KilledBeforeRemoved /\ RunningIsManaged

\* A pod of which nothing runs yet is managed.
LEMMA ManagedInit == Init => ManagedInv
BY DEF Init, ManagedInv, CreatedInOrder, KilledBeforeRemoved, RunningIsManaged, Names

\* create_pod_task adds, ...
LEMMA ManagedCreate ==
    ASSUME TypeOK, DeletersHoldHandle, ManagedInv, Create
    PROVE  ManagedInv'
  <1> USE RequestFacts, Positions
  <1>0. cpc # "up" /\ request' = request /\ faulty' = faulty /\ dpc' = dpc /\ dpos' = dpos
    BY CreateIsOver DEF Create, world, deleteVars
  <1>1. KilledBeforeRemoved'
    BY <1>0, NobodyDeletes DEF KilledBeforeRemoved
  <1>2. \A k \in 0..Len(request) : Name(k)' = Name(k)
    BY <1>0 DEF Name
  <1>3. cpos \in 0..Len(request)  BY DEF TypeOK
  <1>4. CreatedInOrder'
    <2> USE DEF ManagedInv, CreatedInOrder, Raise, runtimeVars
    <2>1. CASE EnsureUnpacked  BY <2>1 DEF EnsureUnpacked
    <2>2. CASE PrepareSnapshot  BY <2>2 DEF PrepareSnapshot
    <2>3. CASE create_container  BY <1>2, <1>3, <2>3 DEF create_container
    <2>4. CASE CreateTask  BY <1>2, <1>3, <2>4 DEF CreateTask
    <2>5. CASE start_task  BY <2>5 DEF start_task, NextApp
    <2>6. ASSUME NEW h \in BOOLEAN, CniAdd(h) PROVE CreatedInOrder'
      BY <2>6 DEF CniAdd
    <2>7. CASE _rehydrate_containers  BY <2>7 DEF _rehydrate_containers, NextApp
    <2>8. CASE ReturnHandle  BY <2>8 DEF ReturnHandle
    <2>9. CASE CreateFails  BY <2>9 DEF CreateFails
    <2> QED  BY <2>1, <2>2, <2>3, <2>4, <2>5, <2>6, <2>7, <2>8, <2>9 DEF Create
  <1>5. RunningIsManaged'
    <2>1. CASE start_task
      <3>1. CASE Raise
        BY <1>0, <1>2, <3>1 DEF ManagedInv, RunningIsManaged, Raise, runtimeVars, Name
      <3>2. CASE ~Raise
        <4>1. /\ task' = [task EXCEPT ![Name(cpos)] = "running"]
              /\ UNCHANGED <<snaps, containers>>
              /\ cpos \in snaps /\ Name(cpos) \in containers
          BY <2>1, <3>2 DEF start_task, ManagedInv, CreatedInOrder
        <4>2. \A n \in Names : n # Name(cpos) => task'[n] = task[n]
          BY <4>1 DEF TypeOK
        <4>3. ASSUME NEW n \in Names, ~faulty, task'[n] \in {"running", "stopping"}
              PROVE  n \in containers /\ \E k \in snaps : k <= Len(request) /\ Name(k) = n
          <5>1. CASE n = Name(cpos)  BY <1>3, <4>1, <5>1
          <5>2. CASE n # Name(cpos)
            BY <4>2, <4>3, <5>2 DEF ManagedInv, RunningIsManaged
          <5> QED  BY <5>1, <5>2
        <4> QED  BY <1>0, <4>1, <4>3 DEF RunningIsManaged, Name
      <3> QED  BY <3>1, <3>2
    <2>2. CASE ~start_task
      <3>1. /\ \A n \in Names : task'[n] \in {"running", "stopping"} => task'[n] = task[n]
            /\ containers \subseteq containers' /\ snaps \subseteq snaps'
        BY <2>2 DEF Create, EnsureUnpacked, PrepareSnapshot, create_container, CreateTask,
                    CniAdd, _rehydrate_containers, ReturnHandle, CreateFails, Raise,
                    runtimeVars, TypeOK
      <3> QED  BY <1>0, <3>1 DEF ManagedInv, RunningIsManaged, Name
    <2> QED  BY <2>1, <2>2
  <1> QED  BY <1>1, <1>4, <1>5 DEF ManagedInv

\* ... delete_pod kills and then removes, ...
LEMMA ManagedDelete ==
    ASSUME TypeOK, DeletersHoldHandle, ManagedInv, NEW d \in Deleters, DeleteStep(d)
    PROVE  ManagedInv'
  <1> USE RequestFacts, Positions
  <1>0. /\ request' = request /\ faulty' = faulty /\ cpc' = cpc /\ cpos' = cpos
        /\ cpc = "up" /\ dpos[d] \in 0..Len(request)
    BY DeleterAlone DEF createVars, world, DeletersHoldHandle, DeleteSteps, TypeOK
  <1>1. CreatedInOrder'
    BY <1>0 DEF CreatedInOrder
  <1>2. \A n \in Names : task'[n] \in {"running", "stopping"}
                             => task[n] \in {"running", "stopping"}
    <2>1. [Next]_vars  BY DEF Next
    <2> QED  BY <1>0, <2>1, NeverAgain
  <1>3. KilledBeforeRemoved'
    <2> SUFFICES ASSUME ~faulty, NEW e \in Deleters,
                        dpc'[e] \in {"delete9", "rm_container", "rm_snapshot"}
                 PROVE  task'[Name(dpos'[e])] \notin {"running", "stopping"}
      BY <1>0 DEF KilledBeforeRemoved, Name
    <2>1. dpos[e] \in 0..Len(request)  BY DEF TypeOK
    <2>2. CASE dpc[e] \in {"delete9", "rm_container", "rm_snapshot"} /\ dpos'[e] = dpos[e]
      BY <1>2, <2>1, <2>2 DEF ManagedInv, KilledBeforeRemoved
    <2>3. CASE e # d
      BY <2>2, <2>3, DeleterAlone
    <2>4. CASE e = d
      <3> USE DEF TypeOK, DGoto
      <3>1. CASE Kill15(d)  BY <2>4, <3>1 DEF Kill15
      <3>2. CASE TaskDelete(d)  BY <2>1, <2>4, <3>2 DEF TaskDelete
      <3>3. CASE Kill9(d)
        BY <2>1, <2>4, <3>3 DEF Kill9, Reachable, Alive, ManagedInv, RunningIsManaged
      <3>4. CASE Delete9(d)
        BY <2>2, <2>4, <3>4 DEF Delete9
      <3>5. CASE RemoveContainer(d)
        BY <2>2, <2>4, <3>5 DEF RemoveContainer
      <3>6. CASE _snap_remove_active(d)
        BY <2>4, <3>6 DEF _snap_remove_active, NextDelete
      <3>7. CASE CniDel(d)  BY <2>4, <3>7 DEF CniDel
      <3> QED
        BY <3>1, <3>2, <3>3, <3>4, <3>5, <3>6, <3>7 DEF DeleteStep
    <2> QED  BY <2>3, <2>4
  <1>4. RunningIsManaged'
    <2> SUFFICES ASSUME ~faulty, NEW n \in Names, task'[n] \in {"running", "stopping"}
                 PROVE  /\ n \in containers'
                        /\ \E k \in snaps' : k <= Len(request) /\ Name(k) = n
      BY <1>0 DEF RunningIsManaged, Name
    <2>1. /\ task[n] \in {"running", "stopping"}
          /\ n \in containers
          /\ \E k \in snaps : k <= Len(request) /\ Name(k) = n
      BY <1>2 DEF ManagedInv, RunningIsManaged
    <2>2. CASE RemoveContainer(d)
      BY <2>1, <2>2 DEF RemoveContainer, ManagedInv, KilledBeforeRemoved
    <2>3. CASE _snap_remove_active(d)
      BY <2>1, <2>3 DEF _snap_remove_active, ManagedInv, KilledBeforeRemoved
    <2>4. CASE ~RemoveContainer(d) /\ ~_snap_remove_active(d)
      BY <2>1, <2>4 DEF DeleteStep, Kill15, TaskDelete, Kill9, Delete9, CniDel
    <2> QED  BY <2>2, <2>3, <2>4
  <1> QED  BY <1>1, <1>3, <1>4 DEF ManagedInv

\* ... and no other step starts a process or removes anything.
LEMMA ManagedStep ==
    ASSUME TypeOK, DeletersHoldHandle, ManagedInv, [Next]_vars
    PROVE  ManagedInv'
  <1>1. CASE Create  BY <1>1, ManagedCreate
  <1>2. ASSUME NEW d \in Deleters, DeleteStep(d) PROVE ManagedInv'
    BY <1>2, ManagedDelete
  <1>3. CASE CreatorDies /\ UNCHANGED <<world, deleteVars>>
    BY <1>3 DEF CreatorDies, world, deleteVars, runtimeVars, ManagedInv, CreatedInOrder,
                KilledBeforeRemoved, RunningIsManaged, Name
  <1>4. ASSUME NEW d \in Deleters, UNCHANGED createVars,
               DeleterDies(d) \/ \E apps \in BOOLEAN : delete_pod(d, apps)
        PROVE  ManagedInv'
    <2>1. UNCHANGED <<request, faulty, cpc, cpos, snaps, containers, task>>
      BY <1>4 DEF createVars, world, DeleterDies, delete_pod, runtimeVars
    <2>2. dpc'[d] \notin {"delete9", "rm_container", "rm_snapshot"}
      BY <1>4 DEF DeleterDies, delete_pod, DGoto, TypeOK
    <2>3. \A e \in Deleters : e # d => dpc'[e] = dpc[e] /\ dpos'[e] = dpos[e]
      BY <1>4 DEF DeleterDies, delete_pod, DGoto, TypeOK
    <2>4. KilledBeforeRemoved'
      BY <2>1, <2>2, <2>3 DEF ManagedInv, KilledBeforeRemoved, Name
    <2> QED
      BY <2>1, <2>4 DEF ManagedInv, CreatedInOrder, RunningIsManaged, Name
  <1>5. ASSUME NEW n \in Names, Exits(n) PROVE ManagedInv'
    <2>1. /\ UNCHANGED <<request, faulty, cpc, cpos, snaps, containers, dpc, dpos>>
          /\ \A m \in Names : task'[m] = task[m] \/ task'[m] = "exited"
      BY <1>5 DEF Exits, createVars, deleteVars, world, TypeOK
    <2>2. \A d \in Deleters : Name(dpos[d]) \in Names
      BY RequestFacts DEF TypeOK
    <2> QED
      BY <2>1, <2>2 DEF ManagedInv, CreatedInOrder, KilledBeforeRemoved,
                        RunningIsManaged, Name
  <1>6. CASE UNCHANGED vars
    BY <1>6 DEF vars, world, ManagedInv, CreatedInOrder, KilledBeforeRemoved,
                RunningIsManaged, Name
  <1> QED  BY <1>1, <1>2, <1>3, <1>4, <1>5, <1>6 DEF Next

-----------------------------------------------------------------------------
\* Without a usable plugin the pod never has an address.
NoAddressWithoutPlugin == ip => CanAttach

\* Who is at the pause container has run CNI DEL, or there was no process.
ReleasedBeforeKilled ==
    ~faulty => \A d \in Deleters :
        dpc[d] \in DeleteSteps \ {"cni_del"} /\ dpos[d] = 0 /\ task[Pause] \in Alive
            => ~ip

\* Nobody signals the pause container while the pod is created.
SignalledByDeleters == task[Pause] \in {"stopping", "killed"} => cpc = "up"

AddressInv ==
    /\ NoAddressWithoutPlugin
    /\ ReleasedBeforeKilled
    /\ SignalledByDeleters
    /\ SignalledPauseHoldsNoAddress

\* A pod has no address before the CNI ADD.
LEMMA AddressInit == Init => AddressInv
  <1> SUFFICES ASSUME Init PROVE AddressInv
    OBVIOUS
  <1>1. ip = FALSE /\ task[Pause] = "none"  BY DEF Init, Names
  <1> QED
    BY <1>1 DEF AddressInv, NoAddressWithoutPlugin, ReleasedBeforeKilled, Alive,
                SignalledByDeleters, SignalledPauseHoldsNoAddress

\* create_pod takes the address before anybody deletes the pod.
LEMMA AddressCreate ==
    ASSUME TypeOK, DeletersHoldHandle, AddressInv, Create
    PROVE  AddressInv'
  <1> USE RequestFacts
  <1>0. /\ cpc # "up" /\ UNCHANGED <<faulty, network, dpc, dpos>>
        /\ \A d \in Deleters : dpc[d] = "idle"
        /\ task[Pause] \notin {"stopping", "killed"}
    BY CreateIsOver, NobodyDeletes
       DEF Create, world, deleteVars, AddressInv, SignalledByDeleters
  <1>1. ReleasedBeforeKilled'
    BY <1>0 DEF ReleasedBeforeKilled, DeleteSteps
  <1>2. task'[Pause] \notin {"stopping", "killed"}
    BY <1>0 DEF Create, EnsureUnpacked, PrepareSnapshot, create_container, CreateTask,
                start_task, CniAdd, _rehydrate_containers, ReturnHandle, CreateFails,
                Raise, runtimeVars, TypeOK, Names
  <1>3. CanAttach' = CanAttach  BY <1>0 DEF CanAttach
  <1>4. ip' = ip \/ ip' = FALSE \/ CanAttach
    BY DEF Create, EnsureUnpacked, PrepareSnapshot, create_container, CreateTask,
           start_task, CniAdd, _rehydrate_containers, ReturnHandle, CreateFails,
           Raise, runtimeVars
  <1> QED
    BY <1>1, <1>2, <1>3, <1>4
       DEF AddressInv, NoAddressWithoutPlugin, SignalledByDeleters,
           SignalledPauseHoldsNoAddress

\* delete_pod signals the pause container after CNI DEL; its handle is the last.
LEMMA AddressDelete ==
    ASSUME TypeOK, DeletersHoldHandle, AddressInv, NEW d \in Deleters, DeleteStep(d)
    PROVE  AddressInv'
  <1> USE RequestFacts, Positions
  <1>0. /\ UNCHANGED <<request, faulty, network, cpc>> /\ cpc = "up"
        /\ dpos[d] \in 0..Len(request)
    BY DeleterAlone DEF createVars, world, DeletersHoldHandle, DeleteSteps, TypeOK
  <1>1. task'[Pause] \in Alive => task[Pause] \in Alive
    <2>1. [Next]_vars  BY DEF Next
    <2> QED  BY <1>0, <2>1, NeverAgain DEF Names
  <1>2. CanAttach' = CanAttach  BY <1>0 DEF CanAttach
  <1>3. NoAddressWithoutPlugin' /\ (ip' => ip)
    BY <1>2 DEF AddressInv, NoAddressWithoutPlugin, DeleteStep, Kill15, TaskDelete, Kill9,
                Delete9, RemoveContainer, _snap_remove_active, CniDel
  <1>4. ReleasedBeforeKilled'
    <2> SUFFICES ASSUME ~faulty, NEW e \in Deleters,
                        dpc'[e] \in DeleteSteps \ {"cni_del"}, dpos'[e] = 0,
                        task'[Pause] \in Alive
                 PROVE  ~ip'
      BY <1>0 DEF ReleasedBeforeKilled
    <2>1. CASE dpc[e] \in DeleteSteps \ {"cni_del"} /\ dpos[e] = 0
      BY <1>1, <1>3, <2>1 DEF AddressInv, ReleasedBeforeKilled
    <2>2. CASE CniDel(d)
      <3>1. ~ip' \/ (~CanAttach /\ ip' = ip)
        BY <1>1, <2>2 DEF CniDel
      <3> QED  BY <3>1 DEF AddressInv, NoAddressWithoutPlugin
    <2>3. CASE e # d
      BY <2>1, <2>3, DeleterAlone
    <2>4. CASE e = d /\ ~CniDel(d)
      <3>1. dpos'[d] = 0 => dpos[d] = 0
        <4>1. CASE _snap_remove_active(d)
          <5>1. dpos'[d] = dpos[d] \/ dpos'[d] = dpos[d] + 1
            BY <4>1 DEF _snap_remove_active, NextDelete, TypeOK
          <5>2. Len(request) \in Nat  OBVIOUS
          <5> QED  BY <1>0, <5>1, <5>2
        <4>2. CASE ~_snap_remove_active(d)
          BY <2>4, <4>2 DEF DeleteStep, Kill15, TaskDelete, Kill9, Delete9, RemoveContainer
        <4> QED  BY <4>1, <4>2
      <3>2. dpc[d] \in DeleteSteps \ {"cni_del"}
        BY <2>4 DEF DeleteStep, Kill15, TaskDelete, Kill9, Delete9, RemoveContainer,
                    _snap_remove_active, DeleteSteps
      <3> QED  BY <2>1, <2>4, <3>1, <3>2
    <2> QED  BY <2>2, <2>3, <2>4
  <1>5. SignalledByDeleters'
    BY <1>0 DEF SignalledByDeleters
  <1>6. SignalledPauseHoldsNoAddress'
    <2> SUFFICES ASSUME ~faulty, task'[Pause] \in {"stopping", "killed"}
                 PROVE  ~ip'
      BY <1>0 DEF SignalledPauseHoldsNoAddress
    <2>1. CASE task'[Pause] = task[Pause]
      BY <1>3, <2>1 DEF AddressInv, SignalledPauseHoldsNoAddress
    <2>2. CASE task'[Pause] # task[Pause]
      <3>1. Name(dpos[d]) = Pause /\ task[Pause] \in Alive
        <4>1. CASE Kill15(d)
          BY <1>0, <2>2, <4>1 DEF Kill15, TypeOK, Names, Alive
        <4>2. CASE Kill9(d)
          BY <1>0, <2>2, <4>2 DEF Kill9, TypeOK, Names
        <4>3. CASE ~Kill15(d) /\ ~Kill9(d)
          BY <2>2, <4>3 DEF DeleteStep, TaskDelete, Delete9, RemoveContainer,
                      _snap_remove_active, CniDel, TypeOK, Names
        <4> QED  BY <4>1, <4>2, <4>3
      <3>2. dpos[d] = 0  BY <1>0, <3>1
      <3>3. dpc[d] \in DeleteSteps \ {"cni_del"}
        BY <2>2 DEF DeleteStep, Kill15, TaskDelete, Kill9, Delete9, RemoveContainer,
                    _snap_remove_active, CniDel, DeleteSteps
      <3> QED  BY <1>3, <3>1, <3>2, <3>3 DEF AddressInv, ReleasedBeforeKilled
    <2> QED  BY <2>1, <2>2
  <1> QED  BY <1>3, <1>4, <1>5, <1>6 DEF AddressInv

\* Every step keeps the address in the order ADD, DEL, signal.
LEMMA AddressStep ==
    ASSUME TypeOK, DeletersHoldHandle, AddressInv, [Next]_vars
    PROVE  AddressInv'
  <1>1. CASE Create  BY <1>1, AddressCreate
  <1>2. ASSUME NEW d \in Deleters, DeleteStep(d) PROVE AddressInv'
    BY <1>2, AddressDelete
  <1>3. /\ UNCHANGED <<faulty, network>>
        /\ CanAttach' = CanAttach
    BY WorldStays DEF world, CanAttach
  <1>4. CASE CreatorDies /\ UNCHANGED <<world, deleteVars>>
    <2>1. cpc # "up" /\ UNCHANGED <<dpc, dpos, task, ip>>
      BY <1>4, CreateIsOver DEF deleteVars, CreatorDies, runtimeVars
    <2> QED
      BY <1>3, <2>1 DEF AddressInv, NoAddressWithoutPlugin, ReleasedBeforeKilled,
                        SignalledByDeleters, SignalledPauseHoldsNoAddress
  <1>5. ASSUME NEW d \in Deleters, UNCHANGED createVars,
               DeleterDies(d) \/ \E apps \in BOOLEAN : delete_pod(d, apps)
        PROVE  AddressInv'
    <2>1. UNCHANGED <<cpc, task, ip>>
      BY <1>5 DEF createVars, DeleterDies, delete_pod, runtimeVars
    <2>2. dpc'[d] \in DeleteSteps \ {"cni_del"} => dpos'[d] # 0
      <3>1. CASE DeleterDies(d)
        BY <3>1 DEF DeleterDies, DGoto, TypeOK, DeleteSteps
      <3>2. ASSUME NEW apps \in BOOLEAN, delete_pod(d, apps)
            PROVE  dpc'[d] = "cni_del" \/ dpos'[d] = 1
        BY <3>2 DEF delete_pod, DGoto, TypeOK
      <3> QED  BY <1>5, <3>1, <3>2
    <2>3. \A e \in Deleters : e # d => dpc'[e] = dpc[e] /\ dpos'[e] = dpos[e]
      BY <1>5 DEF DeleterDies, delete_pod, DGoto, TypeOK
    <2> QED
      BY <1>3, <2>1, <2>2, <2>3
         DEF AddressInv, NoAddressWithoutPlugin, ReleasedBeforeKilled,
             SignalledByDeleters, SignalledPauseHoldsNoAddress
  <1>6. ASSUME NEW n \in Names, Exits(n) PROVE AddressInv'
    <2>1. /\ UNCHANGED <<cpc, dpc, dpos, ip>>
          /\ task'[Pause] = task[Pause] \/ task'[Pause] = "exited"
      BY <1>6 DEF Exits, createVars, deleteVars, TypeOK, Names
    <2> QED
      BY <1>3, <2>1
         DEF AddressInv, NoAddressWithoutPlugin, ReleasedBeforeKilled, Alive,
             SignalledByDeleters, SignalledPauseHoldsNoAddress
  <1>7. CASE UNCHANGED vars
    BY <1>3, <1>7
       DEF vars, AddressInv, NoAddressWithoutPlugin, ReleasedBeforeKilled,
           SignalledByDeleters, SignalledPauseHoldsNoAddress
  <1> QED  BY <1>1, <1>2, <1>4, <1>5, <1>6, <1>7 DEF Next

-----------------------------------------------------------------------------
\* create_pod_task has left the steps in places behind at position k.
Past(k, places) == k < cpos \/ (k = cpos /\ cpc \notin places)

Snapping == {"unpack", "prepare"}
Creating == Snapping \cup {"container"}
Starting == Creating \cup {"task", "start"}

Built ==
    /\ \A k \in 0..Len(request) : k \in snaps <=> Past(k, Snapping)
    /\ \A k \in 0..Len(request) : Past(k, Creating) => Name(k) \in containers
    /\ \A n \in containers : \E k \in 0..Len(request) : Past(k, Creating) /\ n = Name(k)
    /\ \A k \in 0..Len(request) : Past(k, Starting) => task[Name(k)] \in {"running", "exited"}
    /\ \A j, k \in 0..Len(request) :
          Past(j, Creating) /\ Past(k, Creating) /\ Name(j) = Name(k) => j = k
    /\ cpc \in {"return", "up"} => cpos = Len(request)

Untouched == \A d \in Deleters : dpc[d] = "idle"

\* Until somebody deletes the pod, it consists of what is past.
BuiltInv == Untouched /\ cpc \in CreateSteps \cup {"up"} => Built

\* Nothing is built at first, and nothing should be.
LEMMA BuiltInit == ASSUME TypeOK, Init PROVE BuiltInv
  <1> USE DEF Snapping, Creating, Starting
  <1>1. Len(request) \in Nat  BY RequestFacts
  <1>2. cpc = "unpack" /\ cpos = 0 /\ snaps = {} /\ containers = {}
    BY DEF Init
  <1>3. \A k \in 0..Len(request) :
            ~Past(k, Snapping) /\ ~Past(k, Creating) /\ ~Past(k, Starting)
    BY <1>1, <1>2 DEF Past
  <1> QED  BY <1>2, <1>3 DEF BuiltInv, Built

\* Each call of create_pod_task adds what it leaves behind.
LEMMA BuiltCreate ==
    ASSUME TypeOK, DeletersHoldHandle, BuiltInv, Create
    PROVE  BuiltInv'
  <1> USE RequestFacts
  <1>0. /\ cpc \in CreateSteps /\ Untouched /\ request' = request
        /\ cpos \in 0..Len(request) /\ Len(request) \in Nat
    <2>1. cpc # "up"  BY CreateIsOver
    <2>2. cpc \in CreateSteps
      BY DEF Create, EnsureUnpacked, PrepareSnapshot, create_container, CreateTask,
             start_task, CniAdd, _rehydrate_containers, ReturnHandle, CreateFails,
             CreateSteps
    <2> QED
      BY <2>1, <2>2, NobodyDeletes DEF Untouched, Create, world, TypeOK
  <1>1. Built  BY <1>0 DEF BuiltInv
  <1>2. \A k \in 0..Len(request) : Name(k)' = Name(k) /\ Name(k) \in Names
    BY <1>0 DEF Name
  <1> SUFFICES ASSUME cpc' \in CreateSteps \cup {"up"} PROVE Built'
    BY DEF BuiltInv
  <1>3. ~Raise  BY DEF Raise, CreateSteps
  <1> USE DEF Built, Past, Snapping, Creating, Starting
  <1>4. CASE EnsureUnpacked
    BY <1>0, <1>1, <1>2, <1>4 DEF EnsureUnpacked, runtimeVars
  <1>5. CASE PrepareSnapshot
    BY <1>0, <1>1, <1>2, <1>5 DEF PrepareSnapshot
  <1>6. CASE create_container
    <2>1. /\ Name(cpos) \notin containers
          /\ containers' = containers \cup {Name(cpos)}
          /\ cpc = "container" /\ cpc' = "task"
          /\ UNCHANGED <<cpos, snaps, task>>
      BY <1>3, <1>6 DEF create_container
    <2>2. \A k \in 0..Len(request) : k < cpos => Name(k) # Name(cpos)
      BY <1>1, <2>1
    <2> QED  BY <1>0, <1>1, <1>2, <2>1, <2>2
  <1>7. CASE CreateTask
    <2>1. /\ task' = [task EXCEPT ![Name(cpos)] = "created"]
          /\ cpc = "task" /\ cpc' = "start"
          /\ UNCHANGED <<cpos, snaps, containers>>
      BY <1>3, <1>7 DEF CreateTask
    <2>2. \A k \in 0..Len(request) : k < cpos => Name(k) # Name(cpos)
      BY <1>0, <1>1, <2>1
    <2>3. \A k \in 0..Len(request) : k < cpos => task'[Name(k)] = task[Name(k)]
      BY <1>0, <1>2, <2>1, <2>2 DEF TypeOK
    <2> QED  BY <1>0, <1>1, <1>2, <2>1, <2>3
  <1>8. ASSUME NextApp, UNCHANGED <<snaps, containers>>, cpc \notin Creating,
               \A k \in 0..Len(request) : k <= cpos => task'[Name(k)] \in {"running", "exited"}
        PROVE  Built'
    <2>1. CASE cpos = Len(request)
      BY <1>0, <1>1, <1>2, <1>8, <2>1 DEF NextApp
    <2>2. CASE cpos # Len(request)
      <3>1. cpos' = cpos + 1 /\ cpc' = "unpack"
        BY <1>8, <2>2 DEF NextApp
      <3>2. \A k \in 0..Len(request) : k < cpos + 1 <=> k < cpos \/ k = cpos
        BY <1>0
      <3> QED  BY <1>0, <1>1, <1>2, <1>8, <3>1, <3>2
    <2> QED  BY <2>1, <2>2
  <1>9. CASE start_task
    <2>1. /\ task' = [task EXCEPT ![Name(cpos)] = "running"]
          /\ cpc = "start"
          /\ UNCHANGED <<snaps, containers>>
          /\ IF cpos = 0 THEN cpc' = "cni" /\ UNCHANGED cpos ELSE NextApp
      BY <1>3, <1>9 DEF start_task
    <2>2. \A k \in 0..Len(request) : k <= cpos => task'[Name(k)] \in {"running", "exited"}
      <3> SUFFICES ASSUME NEW k \in 0..Len(request), k <= cpos
                   PROVE  task'[Name(k)] \in {"running", "exited"}
        OBVIOUS
      <3>1. CASE k = cpos  BY <1>2, <2>1, <3>1 DEF TypeOK
      <3>2. CASE k # cpos
        <4>1. task[Name(k)] \in {"running", "exited"}  BY <1>0, <1>1, <3>2
        <4>2. task'[Name(k)] = task[Name(k)] \/ task'[Name(k)] = "running"
          BY <1>2, <2>1 DEF TypeOK
        <4> QED  BY <4>1, <4>2
      <3> QED  BY <3>1, <3>2
    <2>3. CASE cpos = 0
      BY <1>0, <1>1, <1>2, <2>1, <2>2, <2>3
    <2>4. CASE cpos # 0
      BY <1>8, <2>1, <2>2, <2>4
    <2> QED  BY <2>3, <2>4
  <1>10. ASSUME NEW holds \in BOOLEAN, CniAdd(holds)
         PROVE  Built'
    BY <1>0, <1>1, <1>2, <1>10 DEF CniAdd
  <1>11. CASE _rehydrate_containers
    <2>1. NextApp /\ cpc = "rehydrate" /\ UNCHANGED <<snaps, containers, task>>
      BY <1>3, <1>11 DEF _rehydrate_containers, runtimeVars
    <2>2. \A k \in 0..Len(request) : k <= cpos => task'[Name(k)] \in {"running", "exited"}
      BY <1>0, <1>1, <2>1
    <2> QED  BY <1>8, <2>1, <2>2
  <1>12. CASE ReturnHandle
    BY <1>0, <1>1, <1>2, <1>12 DEF ReturnHandle, runtimeVars
  <1>13. ~CreateFails  BY <1>3 DEF CreateFails
  <1> QED
    BY <1>4, <1>5, <1>6, <1>7, <1>9, <1>10, <1>11, <1>12, <1>13 DEF Create

\* Processes that exit leave a pod complete; delete_pod ends the claim.
LEMMA BuiltStep ==
    ASSUME TypeOK, DeletersHoldHandle, BuiltInv, [Next]_vars
    PROVE  BuiltInv'
  <1>1. CASE Create  BY <1>1, BuiltCreate
  <1>2. CASE CreatorDies /\ UNCHANGED <<world, deleteVars>>
    BY <1>2 DEF CreatorDies, BuiltInv, CreateSteps
  <1>3. ASSUME NEW d \in Deleters,
               DeleteStep(d) \/ DeleterDies(d) \/ \E apps \in BOOLEAN : delete_pod(d, apps)
        PROVE  ~Untouched'
    <2>1. CASE DeleteStep(d)
      BY <2>1 DEF DeleteStep, Kill15, TaskDelete, Kill9, Delete9, RemoveContainer,
                  _snap_remove_active, NextDelete, CniDel, DGoto, Untouched, TypeOK
    <2>2. CASE DeleterDies(d)
      BY <2>2 DEF DeleterDies, DGoto, Untouched, TypeOK
    <2>3. CASE \E apps \in BOOLEAN : delete_pod(d, apps)
      BY <2>3 DEF delete_pod, DGoto, Untouched, TypeOK
    <2> QED  BY <1>3, <2>1, <2>2, <2>3
  <1>4. ASSUME NEW n \in Names, Exits(n)
        PROVE  BuiltInv'
    <2>1. /\ UNCHANGED <<request, cpc, cpos, snaps, containers, dpc>>
          /\ \A m \in Names : task'[m] = task[m] \/ task'[m] = "exited"
      BY <1>4 DEF Exits, createVars, deleteVars, world, TypeOK
    <2>2. \A k \in 0..Len(request) : Name(k) \in Names /\ Name(k)' = Name(k)
      BY <2>1, RequestFacts DEF Name
    <2> QED
      BY <2>1, <2>2 DEF BuiltInv, Built, Untouched, Past
  <1>5. CASE UNCHANGED vars
    BY <1>5 DEF vars, world, BuiltInv, Built, Untouched, Past, Name
  <1> QED  BY <1>1, <1>2, <1>3, <1>4, <1>5 DEF Next, BuiltInv

-----------------------------------------------------------------------------
\* A caller that passes the handles of the apps is done with position k.
Passed(d, k) ==
    IF k = 0 THEN dpc[d] = "done"
    ELSE \/ dpc[d] \in {"cni_del", "done"}
         \/ dpc[d] \in DeleteSteps /\ (dpos[d] = 0 \/ k < dpos[d])

\* What it is done with is gone, whoever removed it.
GoneInv ==
    ~faulty => \A d \in Deleters : withApps[d] => \A k \in 0..Len(request) :
        /\ Passed(d, k) => k \notin snaps /\ Name(k) \notin containers
        /\ dpc[d] = "rm_snapshot" /\ dpos[d] = k => Name(k) \notin containers

\* No container object but those of the request.
NamedInv == \A n \in containers : \E k \in 0..Len(request) : n = Name(k)

\* Nothing is deleted at first.
LEMMA GoneInit == Init => GoneInv /\ NamedInv
BY DEF Init, GoneInv, NamedInv

\* Containers and snapshots have the names of the request.
LEMMA NamedStep ==
    ASSUME TypeOK, NamedInv, [Next]_vars
    PROVE  NamedInv'
  <1>1. request' = request /\ cpos \in 0..Len(request)
    BY WorldStays DEF world, TypeOK
  <1>2. \A k \in 0..Len(request) : Name(k)' = Name(k)
    BY <1>1 DEF Name
  <1>3. \A n \in containers' : n \in containers \/ n = Name(cpos)
    <2>1. CASE Create
      BY <2>1 DEF Create, EnsureUnpacked, PrepareSnapshot, create_container, CreateTask,
                  start_task, CniAdd, _rehydrate_containers, ReturnHandle, CreateFails,
                  Raise, runtimeVars
    <2>2. ASSUME NEW d \in Deleters, DeleteStep(d)
          PROVE  containers' \subseteq containers
      BY <2>2 DEF DeleteStep, Kill15, TaskDelete, Kill9, Delete9, RemoveContainer,
                  _snap_remove_active, CniDel
    <2>3. ASSUME ~Create, \A d \in Deleters : ~DeleteStep(d)
          PROVE  containers' = containers
      BY <2>3 DEF Next, vars, CreatorDies, delete_pod, DeleterDies, Exits, runtimeVars
    <2> QED  BY <2>1, <2>2, <2>3
  <1> QED  BY <1>1, <1>2, <1>3 DEF NamedInv

\* A call of delete_pod's loop removes its own position, ...
LEMMA GoneDelete ==
    ASSUME TypeOK, DeletersHoldHandle, GoneInv, NEW d \in Deleters, DeleteStep(d)
    PROVE  GoneInv'
  <1> USE RequestFacts
  <1>0. /\ UNCHANGED <<request, faulty>> /\ withApps' = withApps
        /\ dpos[d] \in 0..Len(request) /\ Len(request) \in Nat
        /\ dpc[d] \in DeleteSteps
    BY DeleterAlone
       DEF createVars, world, TypeOK, DeleteStep, Kill15, TaskDelete, Kill9, Delete9,
           RemoveContainer, _snap_remove_active, CniDel
  <1>1. containers' \subseteq containers /\ snaps' \subseteq snaps
    BY DEF DeleteStep, Kill15, TaskDelete, Kill9, Delete9, RemoveContainer,
           _snap_remove_active, CniDel
  <1> SUFFICES ASSUME ~faulty, NEW e \in Deleters, withApps[e], NEW k \in 0..Len(request)
               PROVE  /\ Passed(e, k)' => k \notin snaps' /\ Name(k) \notin containers'
                      /\ dpc'[e] = "rm_snapshot" /\ dpos'[e] = k
                            => Name(k) \notin containers'
    BY <1>0 DEF GoneInv, Name
  <1>2. /\ Passed(e, k) => k \notin snaps /\ Name(k) \notin containers
        /\ dpc[e] = "rm_snapshot" /\ dpos[e] = k => Name(k) \notin containers
    BY DEF GoneInv
  <1>3. /\ dpos[d] < Len(request) \/ dpos[d] = Len(request)
        /\ k < dpos[d] + 1 <=> k < dpos[d] \/ k = dpos[d]
        /\ dpos[d] = Len(request) => k < dpos[d] \/ k = dpos[d]
        /\ dpos[d] + 1 # 0
    <2> DEFINE m == Len(request)
               i == dpos[d]
    <2>1. m \in Nat /\ i \in 0..m /\ k \in 0..m  BY <1>0
    <2> HIDE DEF m, i
    <2>2. /\ i < m \/ i = m
          /\ k < i + 1 <=> k < i \/ k = i
          /\ i = m => k < i \/ k = i
          /\ i + 1 # 0
      BY ONLY <2>1, Between
    <2> QED  BY <2>2 DEF m, i
  <1>4. CASE e # d
    BY <1>1, <1>2, <1>4, DeleterAlone DEF Passed
  <1>5. CASE e = d
    <2> USE DEF TypeOK, DGoto
    <2>1. CASE Kill15(d) \/ TaskDelete(d) \/ Kill9(d) \/ Delete9(d)
      <3>1. /\ dpos' = dpos /\ dpc'[d] \in DeleteSteps \ {"rm_snapshot", "cni_del"}
            /\ dpc[d] \in DeleteSteps \ {"rm_snapshot", "cni_del"}
        BY <1>5, <2>1 DEF Kill15, TaskDelete, Kill9, Delete9, DeleteSteps
      <3> QED  BY <1>1, <1>2, <1>5, <3>1 DEF Passed, DeleteSteps
    <2>2. CASE RemoveContainer(d)
      <3>1. /\ dpos' = dpos /\ dpc'[d] = "rm_snapshot" /\ dpc[d] = "rm_container"
            /\ containers' = containers \ {Name(dpos[d])}
        BY <1>5, <2>2 DEF RemoveContainer
      <3> QED  BY <1>1, <1>2, <1>5, <3>1 DEF Passed, DeleteSteps
    <2>3. CASE _snap_remove_active(d)
      <3>1. snaps' = snaps \ {dpos[d]} /\ dpc[d] = "rm_snapshot" /\ containers' = containers
        BY <2>3 DEF _snap_remove_active
      <3>2. \/ dpos[d] = 0 /\ dpc'[d] = "done" /\ dpos'[d] = 0
            \/ dpos[d] # 0 /\ dpc'[d] = "kill" /\ dpos'[d] = dpos[d] + 1
            \/ dpos[d] # 0 /\ dpos[d] = Len(request) /\ dpc'[d] = "cni_del"
        BY <1>3, <2>3 DEF _snap_remove_active, NextDelete
      <3>3. CASE dpos[d] = 0
        BY <1>1, <1>2, <1>5, <3>1, <3>2, <3>3 DEF Passed, DeleteSteps
      <3>4. CASE dpos[d] # 0 /\ dpc'[d] = "kill" /\ dpos'[d] = dpos[d] + 1
        BY <1>1, <1>2, <1>5, <1>3, <3>1, <3>4 DEF Passed, DeleteSteps
      <3>5. CASE dpos[d] # 0 /\ dpos[d] = Len(request) /\ dpc'[d] = "cni_del"
        BY <1>1, <1>2, <1>5, <1>3, <3>1, <3>5 DEF Passed, DeleteSteps
      <3> QED  BY <3>2, <3>3, <3>4, <3>5
    <2>4. CASE CniDel(d)
      <3>1. /\ dpos'[d] = 0 /\ dpc'[d] = "kill" /\ dpc[d] = "cni_del"
        BY <2>4 DEF CniDel
      <3> QED  BY <1>1, <1>2, <1>5, <3>1 DEF Passed, DeleteSteps
    <2> QED  BY <2>1, <2>2, <2>3, <2>4 DEF DeleteStep
  <1> QED  BY <1>4, <1>5

\* ... and nothing comes back.
LEMMA GoneStep ==
    ASSUME TypeOK, DeletersHoldHandle, GoneInv, [Next]_vars,
           \A d \in Deleters : withApps[d] => dpc[d] # "idle"
    PROVE  GoneInv'
  <1> USE RequestFacts
  <1>0. UNCHANGED <<request, faulty>> /\ \A k \in 0..Len(request) : Name(k)' = Name(k)
    BY WorldStays DEF world, Name
  <1>1. CASE Create \/ (CreatorDies /\ UNCHANGED <<world, deleteVars>>)
    <2>1. \A d \in Deleters : ~withApps[d]
      BY <1>1, CreateIsOver, NobodyDeletes
    <2> QED
      BY <1>0, <1>1, <2>1 DEF GoneInv, Create, deleteVars
  <1>2. ASSUME NEW d \in Deleters, DeleteStep(d) PROVE GoneInv'
    BY <1>2, GoneDelete
  <1>3. ASSUME NEW d \in Deleters, NEW apps \in BOOLEAN, delete_pod(d, apps),
               UNCHANGED createVars
        PROVE  GoneInv'
    <2>1. /\ UNCHANGED <<snaps, containers>>
          /\ \A e \in Deleters : e # d =>
                dpc'[e] = dpc[e] /\ dpos'[e] = dpos[e] /\ withApps'[e] = withApps[e]
      BY <1>3 DEF delete_pod, DGoto, TypeOK, runtimeVars
    <2>2. withApps'[d] = apps
      BY <1>3 DEF delete_pod, TypeOK
    <2>3. apps => \/ request # <<>> /\ dpc'[d] = "kill" /\ dpos'[d] = 1
                  \/ request = <<>> /\ dpc'[d] = "cni_del"
      BY <1>3 DEF delete_pod, DGoto, TypeOK
    <2>4. request = <<>> => Len(request) = 0
      OBVIOUS
    <2>5. apps => \A k \in 0..Len(request) : ~Passed(d, k)'
      BY <2>3, <2>4 DEF Passed, DeleteSteps
    <2> SUFFICES ASSUME ~faulty, NEW e \in Deleters, withApps'[e], NEW k \in 0..Len(request)
                 PROVE  /\ Passed(e, k)' => k \notin snaps /\ Name(k) \notin containers
                        /\ dpc'[e] = "rm_snapshot" /\ dpos'[e] = k
                              => Name(k) \notin containers
      BY <1>0, <2>1 DEF GoneInv
    <2>6. CASE e = d  BY <2>2, <2>3, <2>5, <2>6
    <2>7. CASE e # d  BY <2>1, <2>7 DEF GoneInv, Passed
    <2> QED  BY <2>6, <2>7
  <1>4. ASSUME NEW d \in Deleters, DeleterDies(d) PROVE GoneInv'
    BY <1>0, <1>4 DEF DeleterDies, GoneInv
  <1>5. CASE UNCHANGED <<snaps, containers, dpc, dpos, withApps>>
    BY <1>0, <1>5 DEF GoneInv, Passed
  <1>6. ASSUME NEW n \in Names, Exits(n)
        PROVE  UNCHANGED <<snaps, containers, dpc, dpos, withApps>>
    BY <1>6 DEF Exits, deleteVars
  <1>7. CASE UNCHANGED vars
    BY <1>5, <1>7 DEF vars
  <1> QED  BY <1>1, <1>2, <1>3, <1>4, <1>5, <1>6, <1>7 DEF Next

\* Who passed the handles has called.
CallersInv == \A d \in Deleters : withApps[d] => dpc[d] # "idle"

\* No call of delete_pod becomes one that has not begun.
LEMMA CallersStep ==
    ASSUME TypeOK, CallersInv, [Next]_vars
    PROVE  CallersInv'
  <1>1. \A d \in Deleters : dpc[d] # "idle" => dpc'[d] # "idle"
    <2>1. ASSUME NEW d \in Deleters, DeleteStep(d)
          PROVE  dpc'[d] # "idle"
      BY <2>1 DEF DeleteStep, Kill15, TaskDelete, Kill9, Delete9, RemoveContainer,
                  _snap_remove_active, NextDelete, CniDel, DGoto, TypeOK
    <2>2. ASSUME NEW d \in Deleters, DeleteStep(d)
          PROVE  \A e \in Deleters : dpc[e] # "idle" => dpc'[e] # "idle"
      BY <2>1, <2>2, DeleterAlone
    <2>3. ASSUME \A d \in Deleters : ~DeleteStep(d)
          PROVE  \A e \in Deleters : dpc[e] # "idle" => dpc'[e] # "idle"
      BY <2>3 DEF Next, vars, Create, CreatorDies, delete_pod, DeleterDies, DGoto, Exits,
                  deleteVars, TypeOK
    <2> QED  BY <2>2, <2>3
  <1>2. \A d \in Deleters : withApps'[d] => withApps[d] \/ dpc'[d] # "idle"
    BY DEF Next, vars, Create, CreatorDies, delete_pod, DeleteStep, Kill15, TaskDelete,
           Kill9, Delete9, RemoveContainer, _snap_remove_active, CniDel, DeleterDies,
           DGoto, Exits, deleteVars, TypeOK
  <1> QED  BY <1>1, <1>2 DEF CallersInv

-----------------------------------------------------------------------------
PInv ==
    /\ TypeOK
    /\ DeletersHoldHandle
    /\ SpecMeansWhatWasAsked
    /\ ManagedInv
    /\ AddressInv
    /\ BuiltInv
    /\ GoneInv
    /\ NamedInv
    /\ CallersInv

\* The inductive invariant holds at first.
LEMMA PInvInit == Init => PInv
BY TypeInit, HolderInit, ManagedInit, AddressInit, BuiltInit, GoneInit
   DEF PInv, Init, CallersInv, SpecMeansWhatWasAsked

\* Every step keeps the inductive invariant.
LEMMA PInvStep == PInv /\ [Next]_vars => PInv'
BY TypeStep, HolderStep, SpecStep, ManagedStep, AddressStep, BuiltStep,
   GoneStep, NamedStep, CallersStep DEF PInv, CallersInv

\* The inductive invariant holds in every reachable state.
LEMMA PInvHolds == Spec => []PInv
BY PInvInit, PInvStep, PTL DEF Spec

\* Every state has the types.
THEOREM PodTypesHold == Spec => []TypeOK
  <1>1. PInv => TypeOK  BY DEF PInv
  <1> QED  BY <1>1, PInvHolds, PTL

\* The spec of every container says what the request asked for, in the reading
\* that the API documents (OciSpecBuilder.build over ResourceSpec).
THEOREM SpecsMeanWhatWasAsked == Spec => []SpecMeansWhatWasAsked
  <1>1. PInv => SpecMeansWhatWasAsked  BY DEF PInv
  <1> QED  BY <1>1, PInvHolds, PTL

\* A handle is only returned for a complete pod (create_pod_task).
THEOREM HandlesMeanComplete == Spec => []HandleMeansComplete
  <1>1. PInv => HandleMeansComplete
    <2> SUFFICES ASSUME PInv, cpc = "up", Untouched
                 PROVE  /\ snaps = 0..Len(request)
                        /\ containers = {Name(k) : k \in 0..Len(request)}
                        /\ \A n \in containers : task[n] \in {"running", "exited"}
      BY DEF HandleMeansComplete, Untouched
    <2>1. Built /\ cpos = Len(request) /\ Len(request) \in Nat
      BY RequestFacts DEF PInv, BuiltInv, Built
    <2>2. \A k \in 0..Len(request) : Past(k, Snapping) /\ Past(k, Creating)
                                                      /\ Past(k, Starting)
      BY <2>1 DEF Past, Snapping, Creating, Starting
    <2>3. snaps = 0..Len(request)  BY <2>1, <2>2 DEF Built, PInv, TypeOK
    <2>4. containers = {Name(k) : k \in 0..Len(request)}  BY <2>1, <2>2 DEF Built
    <2>5. \A n \in containers : task[n] \in {"running", "exited"}
      BY <2>1, <2>2, <2>4 DEF Built
    <2> QED  BY <2>3, <2>4, <2>5
  <1> QED  BY <1>1, PInvHolds, PTL

\* A process that nobody has sent SIGKILL has its container object and its
\* root filesystem (stop_and_delete_task before delete_container goes on).
THEOREM RunningPodsAreManaged == Spec => []RunningIsManaged
  <1>1. PInv => RunningIsManaged  BY DEF PInv, ManagedInv
  <1> QED  BY <1>1, PInvHolds, PTL

\* The address is released before the pause container is signalled, also the
\* one a failed CNI ADD left (delete_pod).
THEOREM SignalledPausesHoldNoAddress == Spec => []SignalledPauseHoldsNoAddress
  <1>1. PInv => SignalledPauseHoldsNoAddress  BY DEF PInv, AddressInv
  <1> QED  BY <1>1, PInvHolds, PTL

\* delete_pod with the handles of the apps leaves no container object and no
\* snapshot, however many callers do it at once (delete_pod, delete_container).
THEOREM DeletesLeaveNoRecord == Spec => []DeleteLeavesNoRecord
  <1>1. PInv => DeleteLeavesNoRecord
    <2> SUFFICES ASSUME PInv, ~faulty, NEW d \in Deleters, dpc[d] = "done", withApps[d]
                 PROVE  containers = {} /\ snaps = {}
      BY DEF DeleteLeavesNoRecord
    <2>1. \A k \in 0..Len(request) : k \notin snaps /\ Name(k) \notin containers
      BY DEF PInv, GoneInv, Passed
    <2> QED  BY <2>1 DEF PInv, NamedInv, TypeOK
  <1> QED  BY <1>1, PInvHolds, PTL

-----------------------------------------------------------------------------
(* What CallsEnd rests on beside fairness: the calls that create_pod_task and *)
(* each delete_pod have still to make only become fewer, whatever happens     *)
(* next to them.                                                              *)

\* A bound on the calls of create_pod_task from this one on, with so many
\* containers behind the current one.
CreateCount(call, behind) ==
    CASE call = "unpack"    -> 8 * behind + 8
      [] call = "prepare"   -> 8 * behind + 7
      [] call = "container" -> 8 * behind + 6
      [] call = "task"      -> 8 * behind + 5
      [] call = "start"     -> 8 * behind + 4
      [] call = "cni"       -> 8 * behind + 3
      [] call = "rehydrate" -> 8 * behind + 2
      [] call = "return"    -> 8 * behind + 1
      [] call \in {"up", "error", "lost"} -> 0

\* The calls of delete_container from this one on.
DeleteRound(call) ==
    CASE call = "kill"         -> 6
      [] call = "delete"       -> 5
      [] call = "kill9"        -> 4
      [] call = "delete9"      -> 3
      [] call = "rm_container" -> 2
      [] call = "rm_snapshot"  -> 1
      [] call \in {"idle", "done", "cut"} -> 0

\* A bound on those of delete_pod: the apps, CNI DEL, the pause container.
DeleteCount(call, pos) ==
    IF call \in {"idle", "done", "cut"} THEN 0
    ELSE IF call = "cni_del" THEN 7
    ELSE IF pos = 0 THEN DeleteRound(call)
    ELSE 7 + 6 * (Len(request) - pos) + DeleteRound(call)

CreateLeft == CreateCount(cpc, Len(request) - cpos)
DeleteLeft(d) == DeleteCount(dpc[d], dpos[d])

\* No more calls than the containers of the request give reason for.
CallsAreFew ==
    /\ CreateLeft \in 0..(8 * Len(request) + 8)
    /\ \A d \in Deleters : DeleteLeft(d) \in 0..(6 * Len(request) + 7)

\* Each call leaves fewer of its own; nothing but a new delete_pod ever makes
\* more of them: neither a container that another caller removed, nor a process
\* that outlives its signals, nor a call that fails sends a loop back.
Falls ==
    /\ Create \/ CreatorDies => CreateLeft' < CreateLeft
    /\ CreateLeft' <= CreateLeft
    /\ \A d \in Deleters :
         /\ DeleteStep(d) \/ DeleterDies(d) => DeleteLeft(d)' < DeleteLeft(d)
         /\ \/ DeleteLeft(d)' <= DeleteLeft(d)
            \/ \E apps \in BOOLEAN : delete_pod(d, apps)

CallsRunDown == [][Falls]_vars

CreateCounts(k) ==
    /\ CreateCount("unpack", k) = 8 * k + 8
    /\ CreateCount("prepare", k) = 8 * k + 7
    /\ CreateCount("container", k) = 8 * k + 6
    /\ CreateCount("task", k) = 8 * k + 5
    /\ CreateCount("start", k) = 8 * k + 4
    /\ CreateCount("cni", k) = 8 * k + 3
    /\ CreateCount("rehydrate", k) = 8 * k + 2
    /\ CreateCount("return", k) = 8 * k + 1
    /\ CreateCount("up", k) = 0
    /\ CreateCount("error", k) = 0
    /\ CreateCount("lost", k) = 0

LEMMA CreateCountsAt == \A k : CreateCounts(k)
  BY DEF CreateCounts, CreateCount

LEMMA DeleteRounds ==
    /\ DeleteRound("kill") = 6
    /\ DeleteRound("delete") = 5
    /\ DeleteRound("kill9") = 4
    /\ DeleteRound("delete9") = 3
    /\ DeleteRound("rm_container") = 2
    /\ DeleteRound("rm_snapshot") = 1
  BY DEF DeleteRound

\* How many calls may be left at a position.
LEMMA Behind ==
    ASSUME TypeOK
    PROVE  /\ Len(request) \in Nat
           /\ cpos \in Nat /\ Len(request) - cpos \in Nat
           /\ cpos # Len(request) => Len(request) - (cpos + 1) \in Nat
           /\ \A d \in Deleters : dpos[d] \in Nat /\ Len(request) - dpos[d] \in Nat
  <1>1. Len(request) \in Nat  BY RequestFacts
  <1>2. cpos \in 0..Len(request) /\ \A d \in Deleters : dpos[d] \in 0..Len(request)
    BY DEF TypeOK
  <1> QED  BY <1>1, <1>2

LEMMA Few ==
    ASSUME TypeOK
    PROVE  CallsAreFew
  <1> DEFINE n == Len(request)
             k == n - cpos
  <1>1. n \in Nat /\ cpos \in Nat /\ k \in Nat /\ k <= n
    BY Behind
  <1>2. cpc \in CreateSteps \cup {"up", "error", "lost"}
    BY DEF TypeOK
  <1>3. CreateLeft \in 0..(8 * n + 8)
    <2>1. CreateCounts(k)  BY CreateCountsAt
    <2> HIDE DEF k, n
    <2>2. CreateCount(cpc, k) \in 0..(8 * n + 8)
      BY <1>1, <1>2, <2>1 DEF CreateCounts, CreateSteps
    <2> QED  BY <2>2 DEF CreateLeft, k, n
  <1>4. ASSUME NEW d \in Deleters
        PROVE  DeleteLeft(d) \in 0..(6 * n + 7)
    <2>1. dpos[d] \in Nat /\ n - dpos[d] \in Nat
      BY Behind
    <2>2. dpc[d] \in DeleteSteps \cup {"idle", "done", "cut"}
      BY DEF TypeOK
    <2>3. dpc[d] \notin {"idle", "done", "cut", "cni_del"} => DeleteRound(dpc[d]) \in 1..6
      BY <2>2, DeleteRounds DEF DeleteSteps
    <2>4. \/ DeleteLeft(d) \in {0, 7}
          \/ /\ DeleteRound(dpc[d]) \in 1..6
             /\ \/ DeleteLeft(d) = DeleteRound(dpc[d])
                \/ dpos[d] # 0 /\ DeleteLeft(d) = 7 + 6 * (n - dpos[d]) + DeleteRound(dpc[d])
      BY <2>3 DEF DeleteLeft, DeleteCount
    <2>5. ASSUME NEW x \in 1..6, NEW q \in Nat, n - q \in Nat, q # 0
          PROVE  7 + 6 * (n - q) + x \in 0..(6 * n + 7) /\ x \in 0..(6 * n + 7)
      BY <1>1, <2>5
    <2>6. 0 \in 0..(6 * n + 7) /\ 7 \in 0..(6 * n + 7) /\ 1..6 \subseteq 0..(6 * n + 7)
      BY <1>1
    <2> HIDE DEF n
    <2> QED
      BY <2>1, <2>4, <2>5, <2>6
  <1> QED  BY <1>3, <1>4 DEF CallsAreFew

\* create_pod_task makes one call after the other.
LEMMA CreateMoves ==
    ASSUME TypeOK, Create \/ CreatorDies
    PROVE  /\ cpc \in CreateSteps
           /\ \/ cpc' \in {"up", "error", "lost"}
              \/ cpos' = cpos /\ \/ cpc = "unpack" /\ cpc' = "prepare"
                                 \/ cpc = "prepare" /\ cpc' = "container"
                                 \/ cpc = "container" /\ cpc' = "task"
                                 \/ cpc = "task" /\ cpc' = "start"
                                 \/ cpc = "start" /\ cpc' \in {"cni", "return"}
                                 \/ cpc = "cni" /\ cpc' = "rehydrate"
                                 \/ cpc = "rehydrate" /\ cpc' = "return"
              \/ /\ cpc \in {"start", "rehydrate"} /\ cpc' = "unpack"
                 /\ cpos # Len(request) /\ cpos' = cpos + 1
  <1> USE DEF CreateSteps, Raise
  <1>1. CASE EnsureUnpacked         BY <1>1 DEF EnsureUnpacked
  <1>2. CASE PrepareSnapshot        BY <1>2 DEF PrepareSnapshot
  <1>3. CASE create_container       BY <1>3 DEF create_container
  <1>4. CASE CreateTask             BY <1>4 DEF CreateTask
  <1>5. CASE start_task             BY <1>5 DEF start_task, NextApp
  <1>6. ASSUME NEW holds \in BOOLEAN, CniAdd(holds)
        PROVE  cpc = "cni" /\ cpc' = "rehydrate" /\ cpos' = cpos
    BY <1>6 DEF CniAdd
  <1>7. CASE _rehydrate_containers  BY <1>7 DEF _rehydrate_containers, NextApp
  <1>8. CASE ReturnHandle           BY <1>8 DEF ReturnHandle
  <1>9. CASE CreateFails            BY <1>9 DEF CreateFails
  <1>10. CASE CreatorDies           BY <1>10 DEF CreatorDies
  <1> QED
    BY <1>1, <1>2, <1>3, <1>4, <1>5, <1>6, <1>7, <1>8, <1>9, <1>10 DEF Create

LEMMA CreateFalls ==
    ASSUME TypeOK, Create \/ CreatorDies, UNCHANGED request
    PROVE  CreateLeft' < CreateLeft
  <1> DEFINE n == Len(request)
             k == n - cpos
  <1>1. /\ k \in Nat /\ n \in Nat /\ cpos \in Nat
        /\ cpos # n => n - (cpos + 1) = k - 1 /\ k - 1 \in Nat
    BY Behind
  <1>2. CreateLeft = CreateCount(cpc, k) /\ CreateLeft' = CreateCount(cpc', n - cpos')
    BY DEF CreateLeft
  <1>c. CreateCounts(k) /\ CreateCounts(k - 1)
    BY CreateCountsAt
  <1>m. cpc \in CreateSteps
    BY CreateMoves
  <1> HIDE DEF k, n
  <1>3. CASE cpc' \in {"up", "error", "lost"}
    <2>1. CreateLeft' = 0
      BY <1>2, <1>3 DEF CreateCount
    <2>2. CreateCount(cpc, k) > 0
      BY <1>1, <1>c, <1>m DEF CreateCounts, CreateSteps
    <2> QED  BY <1>2, <2>1, <2>2
  <1>4. CASE cpc' \notin {"up", "error", "lost"} /\ cpos' = cpos
    <2>1. CreateLeft' = CreateCount(cpc', k)
      BY <1>2, <1>4 DEF k
    <2>2. cpc' # "unpack"
      BY <1>1, <1>4, CreateMoves
    <2> QED  BY <1>1, <1>2, <1>4, <1>c, <2>1, <2>2, CreateMoves DEF CreateCounts
  <1>5. CASE cpc' = "unpack" /\ cpos # n /\ cpos' = cpos + 1
    <2>1. CreateLeft' = CreateCount("unpack", k - 1)
      BY <1>1, <1>2, <1>5
    <2>2. CreateLeft' = 8 * (k - 1) + 8
      BY <1>1, <1>5, <1>c, <2>1 DEF CreateCounts
    <2>3. cpc \in {"start", "rehydrate"}
      BY <1>1, <1>5, CreateMoves
    <2> QED  BY <1>1, <1>2, <1>c, <2>2, <2>3 DEF CreateCounts
  <1> QED  BY <1>3, <1>4, <1>5, CreateMoves DEF n

\* So does delete_pod, whatever became of the container it is at.
LEMMA DeleteMoves ==
    ASSUME TypeOK, NEW d \in Deleters, DeleteStep(d) \/ DeleterDies(d)
    PROVE  /\ dpc[d] \in DeleteSteps
           /\ \/ dpc'[d] \in {"done", "cut"}
              \/ dpos'[d] = dpos[d]
                   /\ \/ dpc[d] = "kill" /\ dpc'[d] = "delete"
                      \/ dpc[d] = "delete" /\ dpc'[d] \in {"kill9", "rm_container"}
                      \/ dpc[d] = "kill9" /\ dpc'[d] \in {"delete9", "rm_container"}
                      \/ dpc[d] = "delete9" /\ dpc'[d] = "rm_container"
                      \/ dpc[d] = "rm_container" /\ dpc'[d] = "rm_snapshot"
                      \/ dpc[d] = "rm_snapshot" /\ dpc'[d] = "cni_del" /\ dpos[d] # 0
              \/ /\ dpc[d] = "rm_snapshot" /\ dpc'[d] = "kill" /\ dpos[d] # 0
                 /\ dpos[d] < Len(request) /\ dpos'[d] = dpos[d] + 1
              \/ dpc[d] = "cni_del" /\ dpc'[d] = "kill" /\ dpos'[d] = 0
  <1> USE DEF TypeOK, DGoto, DeleteSteps
  <1>1. CASE Kill15(d)           BY <1>1 DEF Kill15
  <1>2. CASE TaskDelete(d)       BY <1>2 DEF TaskDelete
  <1>3. CASE Kill9(d)            BY <1>3 DEF Kill9
  <1>4. CASE Delete9(d)          BY <1>4 DEF Delete9
  <1>5. CASE RemoveContainer(d)  BY <1>5 DEF RemoveContainer
  <1>6. CASE _snap_remove_active(d)
    BY <1>6 DEF _snap_remove_active, NextDelete
  <1>7. CASE CniDel(d)           BY <1>7 DEF CniDel
  <1>8. CASE DeleterDies(d)      BY <1>8 DEF DeleterDies
  <1> QED
    BY <1>1, <1>2, <1>3, <1>4, <1>5, <1>6, <1>7, <1>8 DEF DeleteStep

LEMMA DeleteFalls ==
    ASSUME TypeOK, NEW d \in Deleters, DeleteStep(d) \/ DeleterDies(d), UNCHANGED request
    PROVE  DeleteLeft(d)' < DeleteLeft(d)
  <1> DEFINE n == Len(request)
             p == dpos[d]
  <1>1. n \in Nat /\ p \in Nat /\ n - p \in Nat
    BY Behind
  <1>2. /\ DeleteLeft(d) = DeleteCount(dpc[d], p)
        /\ DeleteLeft(d)' = DeleteCount(dpc'[d], dpos'[d])
    BY DEF DeleteLeft, DeleteCount
  <1>3. \A q \in Nat :
          /\ \A call \in {"idle", "done", "cut"} : DeleteCount(call, q) = 0
          /\ DeleteCount("cni_del", q) = 7
          /\ \A call \in DeleteSteps \ {"cni_del"} :
               DeleteCount(call, q) = IF q = 0 THEN DeleteRound(call)
                                      ELSE 7 + 6 * (n - q) + DeleteRound(call)
    BY DEF DeleteCount, DeleteSteps
  <1>4. \A call \in DeleteSteps \ {"cni_del"} : DeleteRound(call) \in 1..6
    BY DeleteRounds DEF DeleteSteps
  <1>5. dpc[d] \in DeleteSteps
    BY DeleteMoves
  <1> HIDE DEF n, p
  <1>6. DeleteCount(dpc[d], p) > 0
    BY <1>1, <1>3, <1>4, <1>5
  <1>7. CASE dpc'[d] \in {"done", "cut"}
    <2>1. DeleteCount(dpc'[d], dpos'[d]) = 0
      BY <1>7 DEF DeleteCount
    <2> QED  BY <1>2, <1>6, <2>1
  <1>8. CASE dpos'[d] = p /\ dpc'[d] \in {"delete", "kill9", "delete9", "rm_container", "rm_snapshot"}
    <2>1. dpc[d] # "cni_del" /\ DeleteRound(dpc'[d]) < DeleteRound(dpc[d])
      BY <1>8, DeleteMoves, DeleteRounds
    <2>2. dpc'[d] \in DeleteSteps \ {"cni_del"}
      BY <1>8 DEF DeleteSteps
    <2>3. DeleteRound(dpc'[d]) \in Int /\ DeleteRound(dpc[d]) \in Int
      BY <1>4, <1>5, <2>1, <2>2
    <2>4. \/ /\ DeleteLeft(d) = DeleteRound(dpc[d])
             /\ DeleteLeft(d)' = DeleteRound(dpc'[d])
          \/ /\ DeleteLeft(d) = 7 + 6 * (n - p) + DeleteRound(dpc[d])
             /\ DeleteLeft(d)' = 7 + 6 * (n - p) + DeleteRound(dpc'[d])
      BY <1>1, <1>2, <1>3, <1>5, <1>8, <2>1, <2>2
    <2>5. \A x, y \in Int : x < y => 7 + 6 * (n - p) + x < 7 + 6 * (n - p) + y
      BY <1>1
    <2> QED  BY <2>1, <2>3, <2>4, <2>5
  <1>9. CASE dpc[d] = "rm_snapshot" /\ dpc'[d] = "cni_del" /\ p # 0 /\ dpos'[d] = p
    BY <1>1, <1>2, <1>3, <1>4, <1>5, <1>9
  <1>10. CASE /\ dpc[d] = "rm_snapshot" /\ dpc'[d] = "kill" /\ p # 0
              /\ p < n /\ dpos'[d] = p + 1
    <2>1. DeleteCount(dpc[d], p) = 7 + 6 * (n - p) + 1
      BY <1>1, <1>3, <1>5, <1>10, DeleteRounds
    <2>2. DeleteCount("kill", p + 1) = 7 + 6 * (n - (p + 1)) + 6
      BY <1>1, <1>3, <1>10, DeleteRounds DEF DeleteSteps
    <2> QED  BY <1>1, <1>2, <1>10, <2>1, <2>2
  <1>11. CASE dpc[d] = "cni_del" /\ dpc'[d] = "kill" /\ dpos'[d] = 0
    <2>1. DeleteCount("kill", 0) = 6
      BY DeleteRounds DEF DeleteCount
    <2>2. DeleteCount("cni_del", p) = 7
      BY <1>1, <1>3
    <2> QED  BY <1>2, <1>11, <2>1, <2>2
  <1> QED
    BY <1>7, <1>8, <1>9, <1>10, <1>11, DeleteMoves DEF n, p

\* The calls left, as CallsRunDown counts them, are a number within bounds.
LEMMA CallsAreBounded == Spec => []CallsAreFew
  <1>1. PInv => CallsAreFew  BY Few DEF PInv
  <1> QED  BY <1>1, PInvHolds, PTL

\* Every call of create_pod_task or of delete_pod leaves it fewer calls to make,
\* and nobody else gives it more, for any request, any number of callers of
\* delete_pod, failing calls and dying processes.  Their number is a natural one
\* (CallsAreBounded): with the fairness of FairSpec both end.
THEOREM CallsAlwaysRunDown == Spec => CallsRunDown
  <1>1. TypeOK /\ CallsAreFew /\ CallsAreFew' /\ [Next]_vars => [Falls]_vars
    <2> SUFFICES ASSUME TypeOK, CallsAreFew, CallsAreFew', Next
                 PROVE  Falls
      OBVIOUS
    <2>0. UNCHANGED world /\ UNCHANGED request
      BY WorldStays DEF world
    <2>1. Create \/ CreatorDies => CreateLeft' < CreateLeft
      BY <2>0, CreateFalls
    <2>2. \A d \in Deleters : DeleteStep(d) \/ DeleterDies(d) => DeleteLeft(d)' < DeleteLeft(d)
      BY <2>0, DeleteFalls
    <2>3. CreateLeft \in Int /\ \A d \in Deleters : DeleteLeft(d) \in Int
      BY RequestFacts DEF CallsAreFew
    <2>4. CreateLeft' \in Int /\ \A d \in Deleters : DeleteLeft(d)' \in Int
      BY <2>0, RequestFacts DEF CallsAreFew
    <2>5. CASE Create \/ (CreatorDies /\ UNCHANGED <<world, deleteVars>>)
      <3>1. \A d \in Deleters : DeleteLeft(d)' = DeleteLeft(d)
        BY <2>0, <2>5 DEF Create, deleteVars, DeleteLeft, DeleteCount
      <3>2. CreateLeft' < CreateLeft
        BY <2>1, <2>5
      <3> QED  BY <2>1, <2>2, <2>3, <2>4, <3>1, <3>2 DEF Falls
    <2>6. ASSUME NEW e \in Deleters, DeleteStep(e) \/ (DeleterDies(e) /\ UNCHANGED createVars)
          PROVE  Falls
      <3>1. UNCHANGED <<cpc, cpos>>
        BY <2>6, DeleterAlone DEF createVars
      <3>2. CreateLeft' = CreateLeft
        BY <2>0, <3>1 DEF CreateLeft
      <3>3. \A d \in Deleters \ {e} : dpc'[d] = dpc[d] /\ dpos'[d] = dpos[d]
        BY <2>6, DeleterAlone DEF DeleterDies, DGoto, TypeOK
      <3>4. \A d \in Deleters \ {e} : DeleteLeft(d)' = DeleteLeft(d)
        BY <2>0, <3>3 DEF DeleteLeft, DeleteCount
      <3>5. \A d \in Deleters : DeleteLeft(d)' <= DeleteLeft(d)
        BY <2>2, <2>3, <2>4, <2>6, <3>4
      <3>6. ~Create /\ ~CreatorDies
        <4>1. ASSUME Create \/ CreatorDies PROVE FALSE
          BY <2>1, <2>3, <2>4, <3>2, <4>1
        <4> QED  BY <4>1
      <3> QED  BY <2>2, <2>3, <3>2, <3>5, <3>6 DEF Falls
    <2>7. ASSUME NEW e \in Deleters, NEW apps \in BOOLEAN,
                 delete_pod(e, apps), UNCHANGED createVars
          PROVE  Falls
      <3>1. CreateLeft' = CreateLeft
        BY <2>0, <2>7 DEF CreateLeft, createVars
      <3>2. ~Create /\ ~CreatorDies
        <4>1. ASSUME Create \/ CreatorDies PROVE FALSE
          BY <2>1, <2>3, <2>4, <3>1, <4>1
        <4> QED  BY <4>1
      <3>3. \A d \in Deleters \ {e} : dpc'[d] = dpc[d] /\ dpos'[d] = dpos[d]
        BY <2>7 DEF delete_pod, DGoto, TypeOK
      <3>4. \A d \in Deleters \ {e} : DeleteLeft(d)' = DeleteLeft(d)
        BY <2>0, <3>3 DEF DeleteLeft, DeleteCount
      <3> QED  BY <2>2, <2>3, <2>7, <3>1, <3>2, <3>4 DEF Falls
    <2>8. ASSUME NEW m \in Names, Exits(m)
          PROVE  Falls
      <3>1. UNCHANGED <<cpc, cpos, dpc, dpos>>
        BY <2>8 DEF Exits, createVars, deleteVars
      <3>2. CreateLeft' = CreateLeft /\ \A d \in Deleters : DeleteLeft(d)' = DeleteLeft(d)
        BY <2>0, <3>1 DEF CreateLeft, DeleteLeft, DeleteCount
      <3>3. ~Create /\ ~CreatorDies
        <4>1. ASSUME Create \/ CreatorDies PROVE FALSE
          BY <2>1, <2>3, <2>4, <3>2, <4>1
        <4> QED  BY <4>1
      <3> QED  BY <2>2, <2>3, <3>2, <3>3 DEF Falls
    <2> QED  BY <2>5, <2>6, <2>7, <2>8 DEF Next
  <1>2. PInv => TypeOK  BY DEF PInv
  <1>3. Spec => [][Falls]_vars
    BY <1>1, <1>2, PInvHolds, CallsAreBounded, PTL DEF Spec
  <1> QED  BY <1>3 DEF CallsRunDown
=============================================================================
