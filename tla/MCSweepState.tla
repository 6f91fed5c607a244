---------------------------- MODULE MCSweepState ----------------------------
(* A small instance of SweepState for TLC. *)
EXTENDS SweepState, TLC

\* Callers, tokens, owners and digests are interchangeable.
Symmetry ==
    Permutations(Workers) \cup Permutations(AttemptIds)
        \cup Permutations(Owners) \cup Permutations(Digests)
=============================================================================
