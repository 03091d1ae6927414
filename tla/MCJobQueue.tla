----------------------------- MODULE MCJobQueue -----------------------------
(* JobQueue for TLC: symmetry of the safety runs.                          *)
EXTENDS JobQueue, TLC

Symmetry == Permutations(Workers) \cup Permutations(Threads)
=============================================================================
