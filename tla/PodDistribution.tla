-------------------------- MODULE PodDistribution ---------------------------
(* distribute_pods of initial_load_distribution.py: the pods of applications *)
(* go, one by one, to the first node with the fewest.  As many nodes as the  *)
(* division leaves pods over start with a filler, "remainder_pod", which is  *)
(* an entry like those of the applications and is deleted in the end.        *)
EXTENDS Integers, Sequences, Functions

CONSTANTS
    Applications,  \* inputs: sequences of applications with their quantities
    NodeCounts,    \* inputs: numbers of nodes
    Filler         \* the name "remainder_pod"

\* A dictionary has a key once.
ASSUME DistributionAssumption ==
    /\ NodeCounts \subseteq Int
    /\ \A apps \in Applications :
          /\ apps \in Seq([name : STRING, quantity : Int])
          /\ \A j, k \in DOMAIN apps : apps[j].name = apps[k].name => j = k

VARIABLES
    nodes,              \* the number of nodes
    applications,       \* the dictionary, in its order
    pending,            \* place of an application -> its pods still to place
    distributed_nodes,  \* node -> application or filler -> pods
    outcome              \* "new", "placing", then "returned" or "none"

dvars == <<nodes, applications, pending, distributed_nodes, outcome>>

AppsAsked == {applications[k].name : k \in DOMAIN applications}
Keys == AppsAsked \cup {Filler}

\* sum(distributed_nodes[i].values())
Load(i) == SumFunction([a \in Keys |-> distributed_nodes[i][a]])

DistributionInit ==
    /\ nodes \in NodeCounts
    /\ applications \in Applications
    /\ pending = [k \in DOMAIN applications |-> 0]
    /\ distributed_nodes = <<>>
    /\ outcome = "new"

total_pods ==
    SumFunction([k \in DOMAIN applications |-> applications[k].quantity])

fillers_on_first(i) ==   \* Bug: the fillers all go to the first node.
    IF i = 1 THEN total_pods % nodes ELSE 0

fillers(i) == IF i <= total_pods % nodes THEN 1 ELSE 0

\* "[{} for _ in range(nodes)]", then the fillers.
distribute_pods ==
    /\ outcome = "new"
    /\ IF nodes <= 0 \/ applications = <<>>
            \/ \E k \in DOMAIN applications : applications[k].quantity < 0
       THEN outcome' = "none" /\ UNCHANGED <<pending, distributed_nodes>>
       ELSE /\ outcome' = "placing"
            /\ pending' = [k \in DOMAIN applications |-> applications[k].quantity]
            /\ distributed_nodes' = [i \in 1..nodes |-> [a \in Keys |->
                   IF a = Filler THEN fillers(i) ELSE 0]]
    /\ UNCHANGED <<nodes, applications>>

\* The first node with the fewest pods.
min_node_index(i) ==
    /\ \A j \in 1..nodes : Load(i) <= Load(j)
    /\ \A j \in 1..(i - 1) : Load(i) < Load(j)

PlacePod ==
    /\ outcome = "placing"
    /\ \E k \in DOMAIN applications, i \in 1..nodes :
          /\ pending[k] > 0
          /\ \A j \in 1..(k - 1) : pending[j] = 0
          /\ min_node_index(i)
          /\ distributed_nodes' =
                [distributed_nodes EXCEPT ![i][applications[k].name] = @ + 1]
          /\ pending' = [pending EXCEPT ![k] = @ - 1]
    /\ UNCHANGED <<nodes, applications, outcome>>

delete_fillers ==
    /\ outcome = "placing"
    /\ \A k \in DOMAIN applications : pending[k] = 0
    /\ outcome' = "returned"
    /\ distributed_nodes' = [i \in 1..nodes |->
                                [distributed_nodes[i] EXCEPT ![Filler] = 0]]
    /\ UNCHANGED <<nodes, applications, pending>>

DistributionNext == distribute_pods \/ PlacePod \/ delete_fillers

DistributionSpec == DistributionInit /\ [][DistributionNext]_dvars

-----------------------------------------------------------------------------
\* All pods of every application are placed, on "evenly balanced nodes": when
\* the fillers are gone, no node has two pods more than another, although the
\* pods were placed with the fillers counted.  (An application that is itself
\* called "remainder_pod" loses its pods with the fillers.)
DistributedEvenly ==
    outcome = "returned" =>
        /\ \A k \in DOMAIN applications : applications[k].name # Filler =>
            SumFunction([i \in 1..nodes |-> distributed_nodes[i][applications[k].name]])
                = applications[k].quantity
        /\ Filler \notin AppsAsked =>
            \A i, j \in 1..nodes : Load(i) <= Load(j) + 1
=============================================================================
