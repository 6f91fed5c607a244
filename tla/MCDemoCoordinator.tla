-------------------------- MODULE MCDemoCoordinator -------------------------
(* A small instance of DemoCoordinator for TLC.  The handlers are alike. *)
EXTENDS DemoCoordinator, TLC

Symmetry == Permutations(Handlers)
=============================================================================
