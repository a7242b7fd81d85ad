------------------------------ MODULE TreeDisk ------------------------------
(***************************************************************************)
(* treedisk (egos-2000/library/file/file1.c): files as trees of blocks on  *)
(* one disk, with a free list that lives in the free blocks themselves.    *)
(*                                                                         *)
(* A block is REFS_PER_BLOCK numbers, whether it is read as data, as       *)
(* references or as a piece of the free list, as in union treedisk_block.  *)
(* Superblock and inode blocks are the variables free_list and inodes.     *)
(* One step is one turn of a loop of the code, with its writes.  The disk  *)
(* below is a RAM disk (tools/mkfs.c) and does not fail.                   *)
(***************************************************************************)
EXTENDS Integers, FiniteSetsExt

CONSTANTS REFS_PER_BLOCK,
          nblocks,       \* size of the disk below
          n_inodeblocks,
          Inodes,        \* the inode numbers in use
          MaxOffset,     \* bound: largest offset written
          Values         \* what is written: blocks filled with this number

ASSUME TreeDiskAssumption ==
  /\ REFS_PER_BLOCK \in Nat /\ REFS_PER_BLOCK > 1
  /\ nblocks \in Nat /\ n_inodeblocks \in Nat \ {0} /\ nblocks >= n_inodeblocks + 2
  /\ MaxOffset \in Nat /\ Values \subseteq Nat \ {0} /\ Inodes # {}

Refs == 0..(REFS_PER_BLOCK - 1)
DataBlocks == (n_inodeblocks + 1)..(nblocks - 1)
Filled(v) == [i \in Refs |-> v]
null_block == Filled(0)

VARIABLES
  pc,         \* "create", "freelist", "idle", "grow", "walk", "data" or "panic"
  disk,       \* the blocks behind the inode blocks
  free_list,  \* superblock: first block of the free list, 0 if there is none
  inodes,     \* root and nblocks of each inode
  next_free,  \* setup_freelist: first block not yet on the list
  op,         \* treedisk_write: its inode number, offset and value
  root, size, \* the inode as the write's snapshot has it
  nlevels, nlevels_after,
  b,          \* the current block of the walk
  parent_off, tib, index,  \* the block that holds the reference to it: number (0 if it is
                           \* the inode block), contents, position
  files       \* history: what was written to each offset, 0 for nothing

createVars == <<next_free>>
opVars == <<op, root, size, nlevels, nlevels_after, b, parent_off, tib, index>>
tdVars == <<pc, disk, free_list, inodes, createVars, opVars, files>>

TreeInit ==
  /\ pc = "create"
  /\ disk = [d \in DataBlocks |-> null_block]
  /\ free_list = 0 /\ next_free = 0
  /\ inodes = [i \in Inodes |-> [root |-> 0, nblocks |-> 0]]
  /\ op = [ino |-> CHOOSE i \in Inodes : TRUE, offset |-> 0, val |-> 0]
  /\ root = 0 /\ size = 0 /\ nlevels = 0 /\ nlevels_after = 0
  /\ b = 0 /\ parent_off = 0 /\ tib = null_block /\ index = 0
  /\ files = [i \in Inodes |-> [o \in 0..MaxOffset |-> 0]]

-----------------------------------------------------------------------------
(* treedisk_create and setup_freelist.                                     *)

treedisk_create ==
  /\ pc = "create"
  /\ next_free' = n_inodeblocks + 1
  /\ pc' = "freelist"
  /\ UNCHANGED <<disk, free_list, inodes, opVars, files>>

\* A block of the free list: its successor, then the free blocks that follow it.
ListBlock(last) ==
  [i \in Refs |-> CASE i = 0 -> free_list
                   [] i > 0 /\ next_free + i <= last -> next_free + i
                   [] OTHER -> 0]

\* The superblock is written, and the inodes all start out empty.
CreateEnd ==
  /\ inodes' = [i \in Inodes |-> [root |-> 0, nblocks |-> 0]]
  /\ pc' = "idle"
  /\ UNCHANGED <<disk, free_list, createVars>>

\* One turn of the while loop, or the rest of treedisk_create.
setup_freelist ==
  /\ pc = "freelist"
  /\ \/ /\ next_free < nblocks
        /\ LET last == Min({next_free + REFS_PER_BLOCK - 1, nblocks - 1})
           IN  /\ disk' = [disk EXCEPT ![next_free] = ListBlock(last)]
               /\ next_free' = last + 1
        /\ free_list' = next_free
        /\ UNCHANGED <<pc, inodes>>
     \/ next_free >= nblocks /\ CreateEnd
  /\ UNCHANGED <<opVars, files>>

-----------------------------------------------------------------------------
(* Levels and allocation.                                                  *)

\* An offset shifted right by n * log_rpb bits: REFS_PER_BLOCK divides it n times.
log_shift_r[n \in 0..(MaxOffset + 1)] ==
  [x \in 0..MaxOffset |-> IF n = 0 THEN x ELSE log_shift_r[n - 1][x] \div REFS_PER_BLOCK]
\* The number of levels of a tree whose last offset is x.
Levels(x) == CHOOSE n \in 0..(x + 1) :
               log_shift_r[n][x] = 0 /\ \A k \in 0..(n - 1) : log_shift_r[k][x] # 0
LevelsOf(n) == IF n > 0 THEN Levels(n - 1) ELSE 0
IndexAt(offset, level) == log_shift_r[level][offset] % REFS_PER_BLOCK

\* Mutant: a reference is handed out but stays on the list.
AllocStaysListed ==
  LET free == {i \in Refs \ {0} : disk[free_list][i] # 0}
  IN  IF free = {} THEN [no |-> free_list, list |-> disk[free_list][0], disk |-> disk]
      ELSE [no |-> disk[free_list][Max(free)], list |-> free_list, disk |-> disk]

\* The block handed out, and the free list afterwards.
treedisk_alloc_block ==
  LET free == {i \in Refs \ {0} : disk[free_list][i] # 0}
  IN  IF free = {} THEN [no |-> free_list, list |-> disk[free_list][0], disk |-> disk]
      ELSE [no |-> disk[free_list][Max(free)], list |-> free_list,
            disk |-> [disk EXCEPT ![free_list][Max(free)] = 0]]

Panic == pc' = "panic" /\ UNCHANGED <<disk, free_list, inodes, createVars, opVars, files>>

-----------------------------------------------------------------------------
(* treedisk_write.                                                         *)

\* The snapshot, and the levels now and after.  The size is positive from here on, so the
\* special case of line 271 never applies.
WriteBegin(ino, offset, v) ==
  LET old == inodes[ino].nblocks
  IN  /\ pc = "idle"
      /\ op' = [ino |-> ino, offset |-> offset, val |-> v]
      /\ root' = inodes[ino].root
      /\ size' = IF offset >= old THEN offset + 1 ELSE old
      /\ nlevels' = LevelsOf(old)
      /\ nlevels_after' = IF offset >= old THEN Levels(offset) ELSE LevelsOf(old)
      /\ pc' = "grow"
      /\ UNCHANGED <<disk, free_list, inodes, createVars, b, parent_off, tib, index, files>>

\* Mutant: the old root is not linked below the new one.
GrowUnlinked ==
  /\ pc = "grow" /\ nlevels < nlevels_after
  /\ \/ free_list = 0 /\ Panic
     \/ /\ free_list # 0
        /\ LET a == treedisk_alloc_block
           IN  /\ disk' = [a.disk EXCEPT ![a.no] = null_block]
               /\ free_list' = a.list
               /\ root' = a.no
        /\ nlevels' = nlevels + 1
        /\ UNCHANGED <<pc, inodes, createVars, op, size, nlevels_after, b, parent_off, tib, index, files>>

\* A new root above the old one.
Grow ==
  /\ pc = "grow" /\ nlevels < nlevels_after
  /\ \/ free_list = 0 /\ Panic
     \/ /\ free_list # 0
        /\ LET a == treedisk_alloc_block
           IN  /\ disk' = [a.disk EXCEPT ![a.no] = [null_block EXCEPT ![0] = root]]
               /\ free_list' = a.list
               /\ root' = a.no
        /\ nlevels' = nlevels + 1
        /\ UNCHANGED <<pc, inodes, createVars, op, size, nlevels_after, b, parent_off, tib, index, files>>

\* The inode is written back if it changed; the walk starts at its root.
GrowEnd ==
  /\ pc = "grow" /\ nlevels >= nlevels_after
  /\ inodes' = [inodes EXCEPT ![op.ino] = [root |-> root, nblocks |-> size]]
  /\ parent_off' = 0 /\ b' = root
  /\ pc' = "walk"
  /\ UNCHANGED <<disk, free_list, createVars, op, root, size, nlevels, nlevels_after, tib, index, files>>

\* The reference *parent_no becomes no, and its block is written.
SetParent(d, no) ==
  IF parent_off = 0
  THEN disk' = d /\ inodes' = [inodes EXCEPT ![op.ino].root = no]
  ELSE disk' = [d EXCEPT ![parent_off] = [tib EXCEPT ![index] = no]] /\ UNCHANGED inodes

\* Down into block no, whose contents are t; or stop at the last level.
Descend(no, t) ==
  IF nlevels = 0
  THEN pc' = "data" /\ b' = no /\ UNCHANGED <<nlevels, parent_off, tib, index>>
  ELSE /\ nlevels' = nlevels - 1
       /\ index' = IndexAt(op.offset, nlevels')
       /\ tib' = t /\ parent_off' = no
       /\ b' = t[index']
       /\ UNCHANGED pc

\* One turn of the for loop: get or allocate the next block.
Walk ==
  /\ pc = "walk"
  /\ \/ b = 0 /\ free_list = 0 /\ Panic
     \/ /\ b = 0 /\ free_list # 0
        /\ LET a == treedisk_alloc_block
           IN  /\ SetParent(a.disk, a.no)
               /\ free_list' = a.list
               /\ Descend(a.no, null_block)
        /\ UNCHANGED <<createVars, op, root, size, nlevels_after, files>>
     \/ /\ b # 0
        /\ Descend(b, disk[b])
        /\ UNCHANGED <<disk, free_list, inodes, createVars, op, root, size, nlevels_after, files>>

WriteData ==
  /\ pc = "data"
  /\ disk' = [disk EXCEPT ![b] = Filled(op.val)]
  /\ files' = [files EXCEPT ![op.ino][op.offset] = op.val]
  /\ pc' = "idle"
  /\ UNCHANGED <<free_list, inodes, createVars, opVars>>

Panicked == pc = "panic" /\ UNCHANGED tdVars

Step == treedisk_create \/ setup_freelist \/ Grow \/ GrowEnd \/ Walk \/ WriteData
TreeNext ==
  \/ Step
  \/ \E ino \in Inodes, offset \in 0..MaxOffset, v \in Values : WriteBegin(ino, offset, v)
  \/ Panicked
TreeSpec == TreeInit /\ [][TreeNext]_tdVars

-----------------------------------------------------------------------------
(* treedisk_read, as the code would execute it on the disk as it is.       *)

\* The walk down from block x with n levels below it; a hole reads as the null block.
ReadFrom(offset) ==
  LET walk[n \in 0..(MaxOffset + 1)] ==
        [x \in {0} \cup DataBlocks |->
           IF x = 0 THEN null_block
           ELSE IF n = 0 THEN disk[x]
           ELSE walk[n - 1][disk[x][IndexAt(offset, n - 1)]]]
  IN  walk
treedisk_read(ino, offset) == ReadFrom(offset)[LevelsOf(inodes[ino].nblocks)][inodes[ino].root]

-----------------------------------------------------------------------------
(* Properties.                                                             *)

\* Every block of every file reads as what was last written to it, or as zeros, while
\* trees grow under the data and holes are filled.  A write in progress, or one stopped by
\* the panic, disturbs no other file and nothing that was written: only its own block and
\* the holes of its own file, which may show a block of the free list.
ReadsBack ==
  pc \notin {"create", "freelist"} =>
    \A ino \in Inodes : \A offset \in 0..(inodes[ino].nblocks - 1) :
      \/ treedisk_read(ino, offset) = Filled(files[ino][offset])
      \/ pc # "idle" /\ op.ino = ino /\ (op.offset = offset \/ files[ino][offset] = 0)

\* The blocks that hold the free list from block x on, at most n of them.
ListFrom ==
  LET walk[n \in 0..nblocks] ==
        [x \in {0} \cup DataBlocks |-> IF x = 0 \/ n = 0 THEN {} ELSE {x} \cup walk[n - 1][disk[x][0]]]
  IN  walk
ListBlocks == ListFrom[nblocks][free_list]
Free == ListBlocks \cup ({disk[h][i] : h \in ListBlocks, i \in Refs \ {0}} \ {0})

\* The blocks of the tree from block x on that has n levels below it, each with its level.
TreeFrom ==
  LET walk[n \in 0..(MaxOffset + 1)] ==
        [x \in {0} \cup DataBlocks |->
           IF x = 0 THEN {}
           ELSE {<<n, x>>} \cup IF n = 0 THEN {} ELSE UNION {walk[n - 1][disk[x][i]] : i \in Refs}]
  IN  walk
Tree(ino) == TreeFrom[LevelsOf(inodes[ino].nblocks)][inodes[ino].root]
Used(ino) == {t[2] : t \in Tree(ino)}
IndirBlocks(ino) == {t[2] : t \in {u \in Tree(ino) : u[1] > 0}}

\* Every reference there is: what it refers to, the block it is in and where in the block.
References ==
  {<<free_list, 0, 0>>} \cup {<<inodes[ino].root, 1, ino>> : ino \in Inodes}
  \cup {<<disk[h][i], h, i>> : h \in ListBlocks \cup UNION {IndirBlocks(ino) : ino \in Inodes}, i \in Refs}

\* Between two writes every block belongs to the free list or to a file, and there is one
\* reference to it: the allocator loses none and hands none out twice.
NothingLostOrShared ==
  pc = "idle" =>
    /\ Free \cup UNION {Used(ino) : ino \in Inodes} = DataBlocks
    /\ \A r, s \in References : r[1] = s[1] /\ r[1] # 0 => r = s

=============================================================================
