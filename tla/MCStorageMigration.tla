------------------------- MODULE MCStorageMigration -------------------------
(* TLC instances of StorageMigration. *)
EXTENDS StorageMigration, TLC

CONSTANTS p1, p2, k1, k2

MCProcs == {p1, p2}
MCKeys == {k1, k2}
OneProc == {p1}
OneKey == {k1}
=============================================================================
