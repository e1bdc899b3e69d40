--------------------------- MODULE MCNodeRegistry ---------------------------
(* Small instances of NodeRegistry for TLC.                                  *)
EXTENDS NodeRegistry

OneOrTwo == {<<1, 1>>, <<1, 2>>}
UpToTwo == {<<1, 2>>}
OneOnly == {<<1, 1>>}
=============================================================================
