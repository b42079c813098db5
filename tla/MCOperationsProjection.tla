----------------------- MODULE MCOperationsProjection -----------------------
(* OperationsProjection for TLC. *)
EXTENDS OperationsProjection
=============================================================================
