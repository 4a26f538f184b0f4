------------------------------- MODULE MCProc -------------------------------
(* The process table and the scheduler on small tables. *)
EXTENDS Proc
=============================================================================
