------------------------------ MODULE ChainStore -----------------------------
(* What concurrent unpackers promise about the layer snapshots of a node: a  *)
(* chain of layers, named by its chain id, appears whole and only on top of  *)
(* the chain without its last layer, and it never changes or disappears.     *)
EXTENDS Sequences

CONSTANT Layers   \* diff ids

VARIABLE chains   \* committed chains, each the sequence of its layers

Init == chains = {}

Extend(base, d) ==
    /\ base = <<>> \/ base \in chains
    /\ chains' = chains \cup {Append(base, d)}

Next == \E base \in chains \cup {<<>>}, d \in Layers : Extend(base, d)

Spec == Init /\ [][Next]_chains
=============================================================================
