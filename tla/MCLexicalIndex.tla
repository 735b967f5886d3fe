--------------------------- MODULE MCLexicalIndex ---------------------------
(* LexicalIndex for TLC: operators are interchangeable. *)
EXTENDS LexicalIndex, TLC

OperatorSymmetry == Permutations(Procs)
=============================================================================
