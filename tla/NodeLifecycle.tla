---------------------------- MODULE NodeLifecycle ---------------------------
(* What the fleet promises about each instance, whoever asks and however the *)
(* calls interleave: launched, listed in "nodes", told to end while listed,  *)
(* and dropped from "nodes" only after that.  An entry is kept under a name, *)
(* and a name is free when its owner has ended: two instances may share one. *)

CONSTANT Instances

VARIABLES
    phase,   \* instance -> where it is in its life
    shared   \* instances whose name is, or was, that of another one

Phases == {"absent", "unlisted", "listed", "ending", "gone"}

Init ==
    /\ phase = [i \in Instances |-> "absent"]
    /\ shared = {}

\* All instances of a set move together: EC2 takes a batch of ids in one call.
Move(S, to) == phase' = [i \in Instances |-> IF i \in S THEN to ELSE phase[i]]

\* Only instances that have ended come to share their name with the new ones.
Launch(S) ==
    /\ \A i \in S : phase[i] = "absent"
    /\ Move(S, "unlisted")
    /\ shared \subseteq shared'
    /\ \A i \in shared' \ shared : i \in S \/ phase[i] \in {"ending", "gone"}

\* The entry of a former owner of the name is overwritten.
List(i, former) ==
    /\ phase[i] = "unlisted"
    /\ \A j \in former : j \in shared /\ phase[j] = "ending"
    /\ phase' = [j \in Instances |-> IF j = i THEN "listed"
                                     ELSE IF j \in former THEN "gone" ELSE phase[j]]
    /\ UNCHANGED shared

\* An instance in "dropped" has lost its entry to a former owner of its name.
End(S, dropped) ==
    /\ \A i \in S : phase[i] = "listed"
    /\ \A i \in dropped : i \in shared /\ phase[i] = "unlisted"
    /\ phase' = [i \in Instances |-> IF i \in S THEN "ending"
                                     ELSE IF i \in dropped THEN "gone" ELSE phase[i]]
    /\ UNCHANGED shared

Forget(i) == phase[i] = "ending" /\ Move({i}, "gone") /\ UNCHANGED shared

Drop(i) ==
    i \in shared /\ phase[i] = "listed" /\ Move({i}, "unlisted") /\ UNCHANGED shared

Next ==
    \/ \E S \in SUBSET Instances : Launch(S)
    \/ \E i \in Instances, former \in SUBSET Instances : List(i, former)
    \/ \E S, dropped \in SUBSET Instances : End(S, dropped)
    \/ \E i \in Instances : Forget(i) \/ Drop(i)

Spec == Init /\ [][Next]_<<phase, shared>>
=============================================================================
