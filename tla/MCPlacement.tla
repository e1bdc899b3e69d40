---------------------------- MODULE MCPlacement -----------------------------
(* The distribution algorithms one at a time: small nodes and services,      *)
(* negative amounts among them, or a few pods on up to four nodes.           *)
EXTENDS Placement, PodDistribution

SmallNodes == [cpu : {2, 4}, memory : {3}] \cup {[cpu |-> 4, memory |-> -1]}
SomeAmounts == -1..2
TwoByThree == [cpu |-> 2, memory |-> 3]

App(n, q) == [name |-> n, quantity |-> q]
SomeNodeCounts == -1..4
SomeApplications ==
    {<<>>, <<App("a", -1)>>, <<App("a", 3), App(Filler, 2)>>}
    \cup {<<App("a", p), App("b", q)>> : p \in 0..5, q \in 0..4}

NoPlacement ==
    /\ strict = FALSE
    /\ worker_nodes = <<>> /\ cluster_infos = <<>> /\ todo = <<>>
    /\ distribution = <<>> /\ left = <<>>
    /\ result = "done"

NoDistribution ==
    /\ nodes = 0
    /\ applications = <<>> /\ pending = <<>> /\ distributed_nodes = <<>>
    /\ outcome = "none"

PlacementsInit == (Init /\ NoDistribution) \/ (NoPlacement /\ DistributionInit)

PlacementsNext ==
    \/ Next /\ UNCHANGED dvars
    \/ DistributionNext /\ UNCHANGED vars

Placements == PlacementsInit /\ [][PlacementsNext]_<<vars, dvars>>
=============================================================================
