------------------------- MODULE MCSnapshotPersistence -------------------------
(* Instances of SnapshotPersistence for TLC. *)
EXTENDS SnapshotPersistence, TLC

CONSTANTS r1, r2, n1, j1, j2, p1, p2
=============================================================================
