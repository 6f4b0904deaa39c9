--------------------------- MODULE MCControlPlane ---------------------------
(* ControlPlane with four requests for three configurations.               *)
EXTENDS ControlPlane, TLC

CONSTANTS r1, r2, r3, r4, own, v1, v2

MCRequests == {r1, r2, r3, r4}
MCVersions == {own, v1, v2}
Symmetry == Permutations(MCRequests) \cup Permutations({v1, v2})
=============================================================================
