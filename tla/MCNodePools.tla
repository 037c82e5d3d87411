----------------------------- MODULE MCNodePools -----------------------------
(* Small instances of NodePools: one or two node pools besides the default. *)
EXTENDS NodePools

CONSTANTS p1, p2, legacy
=============================================================================
