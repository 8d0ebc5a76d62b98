---------------------------- MODULE MCUnitOfWork ----------------------------
(* Small instances of UnitOfWork for TLC. *)
EXTENDS UnitOfWork, TLC

CONSTANTS t1, t2, t3, t4

TaskSymmetry == Permutations(Task)
=============================================================================
