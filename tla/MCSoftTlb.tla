------------------------------ MODULE MCSoftTlb ------------------------------
(***************************************************************************)
(* SoftTlb on a small instance: GPID_PROCESS and two applications, of      *)
(* which the second may get the pages of the first.  The programs differ   *)
(* in size, so that a page that one maps another does not.  All three fit  *)
(* in the free pages, unless page tables have taken some.                  *)
(***************************************************************************)
EXTENDS SoftTlb

\* Blocks per page: 2.  The data segment of pid 2 has two pages of .bss after its file
\* data, that of the others ends on a page it fills only in part.
MCImage(p) ==
  [code |-> [vpage |-> 1, filesz |-> 1, memsz |-> 1],
   data |-> IF p = 2 THEN [vpage |-> 2, filesz |-> 3, memsz |-> 6]
                     ELSE [vpage |-> 2, filesz |-> 1, memsz |-> 3]]

\* The RAM in two pieces, and devices of which two are in the same 4 MB.
MCRegions == << [vpn1 |-> 2, vpn0 |-> 0, npages |-> 4],
                [vpn1 |-> 3, vpn0 |-> 0, npages |-> 4],
                [vpn1 |-> 0, vpn0 |-> 0, npages |-> 2],
                [vpn1 |-> 1, vpn0 |-> 1, npages |-> 1],
                [vpn1 |-> 0, vpn0 |-> 3, npages |-> 1],
                [vpn1 |-> 4, vpn0 |-> 0, npages |-> 2] >>
=============================================================================
