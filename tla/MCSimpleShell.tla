---------------------------- MODULE MCSimpleShell ----------------------------
(***************************************************************************)
(* SimpleShell with a short history, so that it overflows, and with pipes  *)
(* smaller than what a program writes.                                     *)
(***************************************************************************)
EXTENDS SimpleShell
=============================================================================
