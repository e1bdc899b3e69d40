---------------------------- MODULE MCImageUnpack ---------------------------
(* Two images that share their lowest layer.  Tasks, references and images   *)
(* are alike, so some of the ways to hand them out stand for all.            *)
EXTENDS ImageUnpack, TLC

CONSTANTS t1, a, b, m1, m2, base, app, lib

MCDiffIds == (m1 :> <<base, app>>) @@ (m2 :> <<base, lib>>)

SameOrOther == {f \in [Tasks -> Refs] : f[t1] = a}
FirstIsM1 == {f \in [Refs -> Manifests] : f[a] = m1}
=============================================================================
