------------------------------- MODULE MCMlfq -------------------------------
(***************************************************************************)
(* Mlfq on small instances.                                                *)
(***************************************************************************)
EXTENDS Mlfq
=============================================================================
