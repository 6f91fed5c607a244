---------------------------- MODULE MCSolveJobs -----------------------------
(* Small instances of SolveJobs for TLC.  The subscribers are alike. *)
EXTENDS SolveJobs, TLC

Symmetry == Permutations(Readers) \cup Permutations(Digests)
=============================================================================
