--------------------------- MODULE MCHealthCheck ----------------------------
(* HealthCheck for TLC: one worker with two urls, two workers with one, or  *)
(* a cluster without urls.                                                   *)
EXTENDS HealthCheck

CONSTANTS u1, u2, w1, w2

AnyCluster ==
    {[urls |-> {u1, u2}, workers |-> {w1}], [urls |-> {u1}, workers |-> {w1, w2}],
     [urls |-> {}, workers |-> {w1}]}

OneOfEach == {[urls |-> {u1}, workers |-> {w1}]}
=============================================================================
