--------------------------- MODULE MCRemoteSolve ----------------------------
(* Small instances of RemoteSolve for TLC. *)
EXTENDS RemoteSolve
=============================================================================
