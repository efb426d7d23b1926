--------------------------- MODULE MCTableWriter ---------------------------
(* Small instances of the table writer for TLC. *)
EXTENDS MultithreadedTableWriter, TLC

CONSTANTS c1, c2

(* A negative partition key and one key for each of two threads. *)
KeysBothSigns == {-1, 1}
KeysOfOneThread == {-1}

(* Callers that are not distinguished by BulkCallers or Admins. *)
CallerSymmetry == Permutations(Callers \ (BulkCallers \cup Admins))
=============================================================================
