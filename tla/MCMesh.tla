------------------------------- MODULE MCMesh -------------------------------
(* One other node.                                                          *)
EXTENDS Mesh
CONSTANTS n1, me
OneNode == {n1}
Slots == 1..2
=============================================================================
