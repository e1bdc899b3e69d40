------------------------------ MODULE MCServer ------------------------------
(* The parts of the API server for TLC, one at a time: sessions, the tasks   *)
(* of a host with a client that asks for its task or with discoveries, and   *)
(* the distribution algorithms.                                              *)
EXTENDS Sessions, HostTasks, MCPlacement

VARIABLE looked_at   \* "sessions", "status", "discovery" or "placement"

pvars == <<vars, dvars>>

LoginsNext ==
    looked_at = "sessions" /\ SessionsNext /\ UNCHANGED <<tvars, pvars>>
AskingNext ==
    looked_at = "status" /\ (HostNext \/ StatusNext) /\ UNCHANGED <<svars, pvars>>
DiscoveringNext ==
    looked_at = "discovery" /\ (HostNext \/ DiscoveryNext) /\ UNCHANGED <<svars, pvars>>
DistributingNext ==
    looked_at = "placement" /\ PlacementsNext /\ UNCHANGED <<svars, tvars>>

\* A distribution is made once.
Distributed ==
    /\ looked_at = "placement"
    /\ result \notin {"new", "placing"} /\ outcome \notin {"new", "placing"}
    /\ UNCHANGED <<svars, tvars, pvars>>

ServerInit ==
    /\ looked_at \in {"sessions", "status", "discovery", "placement"}
    /\ SessionsInit /\ TasksInit
    /\ looked_at # "sessions" => authentication = [u \in Users |-> None]
    /\ IF looked_at = "placement" THEN PlacementsInit ELSE NoPlacement /\ NoDistribution

ServerNext ==
    /\ \/ LoginsNext
       \/ AskingNext
       \/ DiscoveringNext
       \/ DistributingNext
       \/ Distributed
    /\ UNCHANGED looked_at

OneOfThem ==
    /\ ServerInit
    /\ [][ServerNext]_<<svars, tvars, pvars, looked_at>>
    /\ looked_at = "sessions" => SessionsFairness
    /\ TasksFairness
=============================================================================
