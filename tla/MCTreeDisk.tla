----------------------------- MODULE MCTreeDisk -----------------------------
(***************************************************************************)
(* TreeDisk with small disks and blocks of two or four references.         *)
(***************************************************************************)
EXTENDS TreeDisk

\* Values that are also block numbers: data taken for a reference would be followed.
MCValues == {3, 4}
MCInodes == 0..1
=============================================================================
