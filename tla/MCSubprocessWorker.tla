------------------------- MODULE MCSubprocessWorker -------------------------
(* SubprocessWorker for TLC. *)
EXTENDS SubprocessWorker
=============================================================================
