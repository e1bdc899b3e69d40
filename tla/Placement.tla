------------------------------ MODULE Placement ------------------------------
(* ClusterWorkerDistribution: instances of services are placed on worker     *)
(* nodes, the most demanding service first, each instance on the fitting     *)
(* node with the least usage.  cluster_worker_distribution.py leaves out     *)
(* what fits nowhere; distribute_nodes_services.py gives up (strict), and    *)
(* says how many nodes of a default size are needed when there are none.     *)
EXTENDS Integers, Sequences, SequencesExt, FiniteSetsExt, Functions

CONSTANTS
    Capacities,   \* capacities a node may have: records of cpu and memory
    MaxNodes,     \* bound: nodes
    Amounts,      \* cpu or memory an instance may ask for
    Quantities,   \* numbers of instances of a service
    MaxServices,  \* bound: services
    DefaultNode   \* the node that calculate_nodes_needed assumes

ASSUME PlacementAssumption ==
    /\ {MaxNodes, MaxServices} \subseteq Nat
    /\ Amounts \cup Quantities \subseteq Int
    /\ Capacities \subseteq [cpu : Int, memory : Int]
    /\ DefaultNode \in [cpu : Nat \ {0}, memory : Nat \ {0}]

VARIABLES
    strict,         \* the class of distribute_nodes_services.py is used
    worker_nodes,   \* the nodes, in order
    cluster_infos,  \* the services, in the order of the dictionary
    todo,           \* service -> instances still to place
    distribution,   \* node -> service -> instances placed there
    left,           \* service -> instances left out
    result          \* "new", "placing", then "done", "none" or "raises"

input == <<strict, worker_nodes, cluster_infos>>
vars == <<input, todo, distribution, left, result>>

Service == [cpu : Amounts, memory : Amounts, instances : Quantities]
Nodes == DOMAIN worker_nodes
Services == DOMAIN cluster_infos
Resources == {"cpu", "memory"}

Init ==
    /\ strict \in BOOLEAN
    /\ worker_nodes \in BoundedSeq(Capacities, MaxNodes)
    /\ cluster_infos \in BoundedSeq(Service, MaxServices)
    /\ todo = [s \in Services |-> 0]
    /\ distribution = [i \in Nodes |-> [s \in Services |-> 0]]
    /\ left = [s \in Services |-> 0]
    /\ result = "new"

-----------------------------------------------------------------------------
total_per_cluster(s) ==
    (cluster_infos[s].cpu + cluster_infos[s].memory) * cluster_infos[s].instances

\* sorted is stable: services that ask for the same keep their order, and the
\* instances of a service stay together.
sorted_before(s, r) ==
    \/ total_per_cluster(s) > total_per_cluster(r)
    \/ total_per_cluster(s) = total_per_cluster(r) /\ s < r

first_of_sorted(s) ==
    /\ todo[s] > 0
    /\ \A r \in Services \ {s} : todo[r] > 0 => sorted_before(s, r)

valid ==
    /\ \A i \in Nodes, r \in Resources : worker_nodes[i][r] >= 0
    /\ \A s \in Services : /\ \A r \in Resources : cluster_infos[s][r] >= 0
                           /\ cluster_infos[s].instances > 0

\* Without services the strict class was left without its attributes; without
\* nodes it returns None.  The other class goes on in both cases.
Validate ==
    /\ result = "new"
    /\ result' = CASE strict /\ cluster_infos = <<>> -> "raises"
                   [] (strict /\ worker_nodes = <<>>) \/ ~valid -> "none"
                   [] OTHER -> "placing"
    /\ todo' = IF result' = "placing"
               THEN [s \in Services |-> cluster_infos[s].instances] ELSE todo
    /\ UNCHANGED <<input, distribution, left>>

usage(i, r) ==
    SumFunction([s \in Services |-> distribution[i][s] * cluster_infos[s][r]])

fits_sum(i, s) ==   \* Bug: cpu and memory are compared together.
    worker_nodes[i].cpu + worker_nodes[i].memory
        >= usage(i, "cpu") + usage(i, "memory") + cluster_infos[s].cpu + cluster_infos[s].memory

fits_below(i, s) ==   \* Bug: a node is never filled up.
    \A r \in Resources : worker_nodes[i][r] > usage(i, r) + cluster_infos[s][r]

fits(i, s) ==
    \A r \in Resources : worker_nodes[i][r] >= usage(i, r) + cluster_infos[s][r]

\* The first of the fitting nodes with the least usage.
best_node(i, s) ==
    LET resource_usage(j) == usage(j, "cpu") + usage(j, "memory")
    IN  /\ fits(i, s)
        /\ \A j \in Nodes : fits(j, s) =>
              \/ resource_usage(i) < resource_usage(j)
              \/ resource_usage(i) = resource_usage(j) /\ i <= j

Place(s) ==
    /\ \E i \in Nodes :
          best_node(i, s) /\ distribution' = [distribution EXCEPT ![i][s] = @ + 1]
    /\ UNCHANGED <<left, result>>

LeaveOut(s) ==
    /\ \A i \in Nodes : ~fits(i, s)
    /\ left' = [left EXCEPT ![s] = @ + 1]
    /\ result' = IF strict THEN "none" ELSE "placing"
    /\ UNCHANGED distribution

PlaceInstance ==
    /\ result = "placing"
    /\ \E s \in Services :
          /\ first_of_sorted(s)
          /\ Place(s) \/ LeaveOut(s)
          /\ todo' = [todo EXCEPT ![s] = @ - 1]
    /\ UNCHANGED input

Return ==
    /\ result = "placing"
    /\ \A s \in Services : todo[s] = 0
    /\ result' = "done"
    /\ UNCHANGED <<input, todo, distribution, left>>

Next == Validate \/ PlaceInstance \/ Return

Spec == Init /\ [][Next]_vars

-----------------------------------------------------------------------------
total_need(r) ==
    SumFunction([s \in Services |-> cluster_infos[s][r] * cluster_infos[s].instances])

rounded_up_always ==   \* Bug: a whole number of nodes is rounded up, too.
    Max({total_need(r) \div DefaultNode[r] + 1 : r \in Resources})

\* The number of default nodes for the totals, rounded up (without nodes).
calculate_nodes_needed ==
    Max({(total_need(r) + DefaultNode[r] - 1) \div DefaultNode[r] : r \in Resources})

\* No node that is given an instance is ever given more than it has, in either
\* resource, also when the nodes or services are such that the input must be
\* rejected.
CapacityRespected ==
    \A i \in Nodes, r \in Resources :
        (\E s \in Services : distribution[i][s] # 0) => usage(i, r) <= worker_nodes[i][r]

\* The class that is not strict returns partial distributions, against its
\* docstring (see NoneIfImpossible); the strict one never does.  Even then every
\* instance is accounted for, and one is left out only when no node of the
\* finished distribution could take it.
LeftOutFitsNowhere ==
    result = "done" =>
        \A s \in Services :
            /\ SumFunction([i \in Nodes |-> distribution[i][s]]) + left[s]
                 = cluster_infos[s].instances
            /\ left[s] > 0 =>
                 /\ ~strict
                 /\ \A i \in Nodes : \E r \in Resources :
                        worker_nodes[i][r] - usage(i, r) < cluster_infos[s][r]

\* "Returns None if input is invalid or distribution is impossible": also when
\* an instance asks for more than any of the nodes has.
NoneIfImpossible ==
    /\ worker_nodes # <<>>
    /\ \E s \in Services :
          /\ cluster_infos[s].instances > 0
          /\ \A i \in Nodes : \E r \in Resources : worker_nodes[i][r] < cluster_infos[s][r]
    => result # "done"

\* calculate_nodes_needed never asks for more nodes than are needed: when the
\* greedy loop places all instances on some default nodes, it asks for no more.
NoMoreThanNeeded ==
    /\ result = "done"
    /\ \A s \in Services : left[s] = 0
    /\ \A i \in Nodes : worker_nodes[i] = DefaultNode
    => calculate_nodes_needed <= Len(worker_nodes)
=============================================================================
