-------------------------- MODULE MCConnectionPool --------------------------
(* Small instances of the connection pool for TLC. *)
EXTENDS ConnectionPool, TLC

CONSTANTS u1, u2, a1, a2, w1, w2

WorkerSymmetry == Permutations(Workers)
ThreadSymmetry == Permutations(Workers) \cup Permutations(Users)
=============================================================================
