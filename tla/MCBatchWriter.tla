--------------------------- MODULE MCBatchWriter ---------------------------
(* Small instances of the batch table writer for TLC. *)
EXTENDS BatchTableWriter, TLC

CONSTANTS c1, c2

CallerSymmetry == Permutations(Callers)
=============================================================================
