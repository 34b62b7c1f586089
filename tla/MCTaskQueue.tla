----------------------------- MODULE MCTaskQueue -----------------------------
(* TaskQueue with small blocks.                                            *)
EXTENDS TaskQueue

CONSTANTS p1, p2, c1, c2
SymmetricThreads == Permutations({p1, p2}) \cup Permutations({c1, c2})
=============================================================================
