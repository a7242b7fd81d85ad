------------------------------- MODULE MCGrass -------------------------------
(***************************************************************************)
(* Grass on a small instance: the constants' values are in the cfg file.   *)
(*                                                                         *)
(* States are told apart by GrassView.  It leaves out what no later step   *)
(* and no property reads: the statistics flag, the level a free slot had   *)
(* (proc_alloc sets it) and what the last process of a slot had received   *)
(* (elf_load clears it).                                                   *)
(***************************************************************************)
EXTENDS GrassRefinement

GrassView ==
  <<pid, status, syscall, curr, last_pid, mapped, call, kpc, loopVars,
    [k \in Slots |-> IF Live(k) THEN mlfq_level[k] ELSE 0],
    [k \in Slots |-> IF status[k] \in {"UNUSED", "LOADING"} THEN NoMsg ELSE usr[k]]>>
=============================================================================
