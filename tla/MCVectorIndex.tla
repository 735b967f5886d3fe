---------------------------- MODULE MCVectorIndex ----------------------------
(* VectorIndex for TLC: operators are interchangeable. *)
EXTENDS VectorIndex, TLC

OperatorSymmetry == Permutations(Procs)
=============================================================================
