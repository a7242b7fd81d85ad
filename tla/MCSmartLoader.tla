---------------------------- MODULE MCSmartLoader ----------------------------
(***************************************************************************)
(* SmartLoader with a read-only segment that starts and ends inside a page *)
(* and a data segment whose BSS starts inside one, in pages of two bytes.  *)
(***************************************************************************)
EXTENDS SmartLoader

MCSegments ==
  {[vaddr |-> 1, filesz |-> 2, memsz |-> 2, offset |-> 1, writable |-> FALSE],
   [vaddr |-> 5, filesz |-> 2, memsz |-> 4, offset |-> 3, writable |-> TRUE]}
MCAddresses == 0..9
=============================================================================
