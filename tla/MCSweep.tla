------------------------------ MODULE MCSweep -------------------------------
(* Sweep at the size of its configurations: attempt tokens and owners are  *)
(* numbers, so that each worker call has one of its own.                   *)
EXTENDS Sweep
=============================================================================
