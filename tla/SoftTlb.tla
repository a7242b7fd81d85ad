------------------------------- MODULE SoftTlb -------------------------------
(***************************************************************************)
(* The memory of egos-2000: the page allocator and the software TLB        *)
(* (earth/cpu_mmu.c), the identity map of the page-table mode, and the ELF *)
(* loader (library/elf/elf.c) that gives a new process its pages.          *)
(*                                                                         *)
(* All processes run at the same addresses.  "window" is that shared       *)
(* region, "store" the physical pages above APPS_PAGES_BASE; switching     *)
(* from one process to another copies the pages of the first out of the    *)
(* window and those of the second into it.  Page tables are an exercise    *)
(* that is not done: page_table_map, _switch and _translate call their     *)
(* soft_tlb counterparts, and only an identity map is set up at boot.      *)
(*                                                                         *)
(* GPID_PROCESS loads and frees processes in its own context, with         *)
(* interrupts on: each of its stores to page_info_table is a step, and the *)
(* timer may let any other process run between two of them.  The kernel    *)
(* runs with interrupts off; which process is blocked, and who may run,    *)
(* is what module Grass computes and a choice here.                        *)
(*                                                                         *)
(* Sizes are in disk blocks.  The data of a page is abstracted to where it *)
(* came from.                                                              *)
(***************************************************************************)
EXTENDS Integers, Sequences, FiniteSets

CONSTANTS APPS_PAGES_CNT,   \* number of physical pages for mmu_alloc
          PAGE_BLOCKS,      \* blocks per page (PAGE_SIZE / BLOCK_SIZE)
          MaxVpage,         \* virtual pages of the user region are 1..MaxVpage
          APPS_ARG, SYSCALL_ARG, APPS_STACK_TOP,  \* as page numbers
          PT_MAX_NPROCESS,  \* cpu_mmu.c's own MAX_NPROCESS
          GPID_USER_START,
          MaxPid,           \* bound: pids handed out
          Image(_),         \* the program of each pid: its code and data segment
          TouchPages,       \* bound: the pages that programs write to
          Regions           \* the regions of pagetable_identity_map, in order

GPID_PROCESS == 1
Nobody == -1                \* the initial curr_vm_pid
Pids == 1..MaxPid
Pages == 0..(APPS_PAGES_CNT - 1)
Vpages == 1..MaxVpage
Segment == [vpage : Vpages, filesz : Nat, memsz : Nat]
Region == [vpn1 : Nat, vpn0 : Nat, npages : Nat \ {0}]

ASSUME SoftTlbAssumption ==
  /\ APPS_PAGES_CNT \in Nat \ {0} /\ PAGE_BLOCKS \in Nat \ {0} /\ MaxVpage \in Nat
  /\ {APPS_ARG, SYSCALL_ARG, APPS_STACK_TOP - 1, APPS_STACK_TOP - 2} \subseteq Vpages
  /\ MaxPid \in Nat \ {0} /\ PT_MAX_NPROCESS \in Nat
  /\ GPID_USER_START \in Nat /\ GPID_USER_START > GPID_PROCESS
  /\ \A p \in Pids : Image(p) \in [code : Segment, data : Segment]
  /\ TouchPages \subseteq Vpages
  /\ Regions \in Seq(Region)

VARIABLES
  translation,   \* "PAGE_TABLE" or "SOFT_TLB", chosen at the console
  page_info,     \* page_info_table
  store,         \* contents of the physical pages
  window,        \* contents of the user region
  curr_vm_pid,   \* whose pages are in the window
  root,          \* the leaf page table of each 4 MB region that has one
  life,          \* "none", "loading", "ready" (READY and later) or "unused" again
  ipc,           \* "none", "send" or "recv": the system call a process is blocked in
  run,           \* the process of the core
  mode,          \* "tables", "boot", "user", "kernel" or "fatal"
  ld,            \* where elf_load is
  freeing,       \* the pid proc_free is working on, or 0
  mem            \* history: the memory of each process, as the process left it

modeVars == <<translation, root>>
winVars == <<store, window, curr_vm_pid>>
procVars == <<life, ipc, run, freeing>>
tlbVars == <<modeVars, winVars, procVars, page_info, mode, ld, mem>>

(***************************************************************************)
(* Data.  A loaded page holds n blocks of the file and zeros after them.   *)
(***************************************************************************)
Data == [kind : {"junk", "image", "args", "user", "msg", "root"}, pid : 0..MaxPid,
         vpage : 0..MaxVpage, n : 0..PAGE_BLOCKS]
Junk == [kind |-> "junk", pid |-> 0, vpage |-> 0, n |-> 0]
Loaded(p, v, n) == [kind |-> "image", pid |-> p, vpage |-> v, n |-> n]
Written(kind, p, v) == [kind |-> kind, pid |-> p, vpage |-> v, n |-> 0]
RootTable == [kind |-> "root", pid |-> 0, vpage |-> 0, n |-> 0]
\* A leaf page table, by the pages of its region that it maps to themselves.
LeafTable(vpn1, entries) == [kind |-> "leaf", vpn1 |-> vpn1, entries |-> entries]

FreePage == [use |-> FALSE, pid |-> 0, vpage |-> 0]

\* Page k belongs to p, as the loops of cpu_mmu.c test it.
Belongs(k, p) == page_info[k].use /\ page_info[k].pid = p
LoopFirst(S) == CHOOSE k \in S : \A j \in S : k <= j
LoopLast(S) == CHOOSE k \in S : \A j \in S : k >= j

-----------------------------------------------------------------------------
(* elf_load: the pages of a segment.  The first loop allocates a page for  *)
(* every PAGE_BLOCKS blocks of the file, the second goes on up to          *)
(* end_pageno, which is rounded down.                                      *)

FilePages(s) == (s.filesz + PAGE_BLOCKS - 1) \div PAGE_BLOCKS
\* Mutant: the file's pages are counted as part of the rest.
EndPagenoShort(s) == s.vpage + (s.memsz - s.filesz) \div PAGE_BLOCKS
end_pageno(s) == (s.vpage * PAGE_BLOCKS + s.memsz) \div PAGE_BLOCKS
\* The blocks of the file that go to the k-th page.
BlocksOn(s, k) ==
  IF k < FilePages(s) THEN PAGE_BLOCKS
  ELSE IF k = FilePages(s) THEN s.filesz - (k - 1) * PAGE_BLOCKS ELSE 0

SegmentPlan(s) ==
  LET zero == end_pageno(s) - (s.vpage + FilePages(s))
  IN  [k \in 1..(FilePages(s) + IF zero > 0 THEN zero ELSE 0) |->
         [vpage |-> s.vpage + k - 1, fill |-> "zero", blocks |-> BlocksOn(s, k)]]

\* The pages elf_load allocates, in order; the last three are not cleared.
Plan ==
  [p \in Pids |->
     SegmentPlan(Image(p).code) \o SegmentPlan(Image(p).data)
     \o << [vpage |-> APPS_ARG, fill |-> "args", blocks |-> 0],
           [vpage |-> SYSCALL_ARG, fill |-> "none", blocks |-> 0],
           [vpage |-> APPS_STACK_TOP - 1, fill |-> "none", blocks |-> 0],
           [vpage |-> APPS_STACK_TOP - 2, fill |-> "none", blocks |-> 0] >>]

\* The memory map and the link script of the applications: what elf_load maps is in the user
\* region, and no two of its pages have the same address.
ASSUME PlanAssumption ==
  \A p \in Pids : \A n \in DOMAIN Plan[p] :
    /\ Plan[p][n].vpage \in Vpages
    /\ \A m \in DOMAIN Plan[p] : m # n => Plan[p][m].vpage # Plan[p][n].vpage

NotLoading == [pid |-> 0, n |-> 0, step |-> "idle", page |-> 0, off |-> 0]
StartLoad(p) == [pid |-> p, n |-> 1, step |-> "alloc", page |-> 0, off |-> 0]
Entry == Plan[ld.pid][ld.n]
\* On to the next page, or done.
NextPage ==
  [ld EXCEPT !.n = @ + 1, !.off = 0, !.page = 0,
             !.step = IF ld.n = Len(Plan[ld.pid]) THEN "loaded" ELSE "alloc"]

Init ==
  /\ translation \in {"PAGE_TABLE", "SOFT_TLB"}
  /\ page_info = [k \in Pages |-> FreePage]
  /\ store = [k \in Pages |-> Junk]
  /\ window = [v \in Vpages |-> Junk]
  /\ curr_vm_pid = Nobody
  /\ root = << >>
  /\ life = [p \in Pids |-> "none"]
  /\ ipc = [p \in Pids |-> "none"]
  /\ run = GPID_PROCESS
  /\ mode = IF translation = "PAGE_TABLE" THEN "tables" ELSE "boot"
  /\ ld = StartLoad(GPID_PROCESS)
  /\ freeing = 0
  /\ mem = [p \in Pids |-> [v \in Vpages |-> Junk]]

FATAL ==
  /\ mode' = "fatal"
  /\ UNCHANGED <<modeVars, winVars, procVars, page_info, ld, mem>>

-----------------------------------------------------------------------------
(* pagetable_identity_map(0), at boot.  ld.n counts the regions done.      *)

FreePages == {k \in Pages : ~page_info[k].use}
RootPages == {k \in Pages : store[k] = RootTable}
Entries(r) == r.vpn0..(r.vpn0 + r.npages - 1)

AllocRoot ==
  /\ mode = "tables" /\ RootPages = {}
  /\ IF FreePages = {} THEN FATAL ELSE
       LET k == LoopFirst(FreePages)
       IN  /\ page_info' = [page_info EXCEPT ![k].use = TRUE]
           /\ store' = [store EXCEPT ![k] = RootTable]
           /\ UNCHANGED <<modeVars, procVars, window, curr_vm_pid, mode, ld, mem>>

\* Mutant: the leaf page table is cleared whether or not it is new.
SetupRegionClears(r, k) ==
  /\ page_info' = [page_info EXCEPT ![k].use = TRUE]
  /\ store' = [store EXCEPT ![k] = LeafTable(r.vpn1, Entries(r))]

\* The leaf of the region is allocated unless an earlier region has one there.
setup_identity_region(r, k) ==
  /\ page_info' = [page_info EXCEPT ![k].use = TRUE]
  /\ store' = [store EXCEPT ![k] =
                 LeafTable(r.vpn1, Entries(r) \cup (IF r.vpn1 \in DOMAIN root THEN @.entries
                                                                             ELSE {}))]

MapRegion ==
  /\ mode = "tables" /\ RootPages # {} /\ ld.n <= Len(Regions)
  /\ LET r == Regions[ld.n]
         k == IF r.vpn1 \in DOMAIN root THEN root[r.vpn1] ELSE LoopFirst(FreePages)
     IN  IF r.vpn1 \notin DOMAIN root /\ FreePages = {} THEN FATAL ELSE
           /\ setup_identity_region(r, k)
           /\ root' = [x \in DOMAIN root \cup {r.vpn1} |-> IF x = r.vpn1 THEN k ELSE root[x]]
           /\ ld' = [ld EXCEPT !.n = @ + 1]
           /\ UNCHANGED <<procVars, translation, window, curr_vm_pid, mode, mem>>

TablesDone ==
  /\ mode = "tables" /\ RootPages # {} /\ ld.n > Len(Regions)
  /\ mode' = "boot" /\ ld' = StartLoad(GPID_PROCESS)
  /\ UNCHANGED <<modeVars, winVars, procVars, page_info, mem>>

-----------------------------------------------------------------------------
(* elf_load, by the kernel at boot and by GPID_PROCESS afterwards.         *)

Loader(step) ==
  /\ mode = "boot" \/ (mode = "user" /\ run = GPID_PROCESS)
  /\ ld.step = step

mmu_alloc ==
  /\ Loader("alloc")
  /\ IF FreePages = {} THEN FATAL ELSE
       LET k == LoopFirst(FreePages)
       IN  /\ page_info' = [page_info EXCEPT ![k].use = TRUE]
           /\ ld' = [ld EXCEPT !.page = k, !.step = "pid"]
           /\ UNCHANGED <<modeVars, winVars, procVars, mode, mem>>

\* soft_tlb_map's first store; page_table_map checks the pid before it.
MapPid ==
  /\ Loader("pid")
  /\ IF translation = "PAGE_TABLE" /\ ld.pid >= PT_MAX_NPROCESS THEN FATAL ELSE
       /\ page_info' = [page_info EXCEPT ![ld.page].pid = ld.pid]
       /\ ld' = [ld EXCEPT !.step = "vpage"]
       /\ UNCHANGED <<modeVars, winVars, procVars, mode, mem>>

\* Its second store.  From here on the page is part of the process's memory.
MapVpage ==
  /\ Loader("vpage")
  /\ page_info' = [page_info EXCEPT ![ld.page].vpage = Entry.vpage]
  /\ mem' = [mem EXCEPT ![ld.pid][Entry.vpage] = store[ld.page]]
  /\ ld' = CASE Entry.fill = "zero" -> [ld EXCEPT !.step = "clear"]
             [] Entry.fill = "args" -> [ld EXCEPT !.step = "args"]
             [] OTHER -> NextPage
  /\ UNCHANGED <<modeVars, winVars, procVars, mode>>

\* A store of the loader to the page it is filling, through its physical address.
Fill(data) ==
  /\ store' = [store EXCEPT ![ld.page] = data]
  /\ mem' = [mem EXCEPT ![ld.pid][Entry.vpage] = data]
  /\ UNCHANGED <<modeVars, procVars, page_info, window, curr_vm_pid, mode>>

ClearPage ==
  /\ Loader("clear")
  /\ Fill(Loaded(ld.pid, Entry.vpage, 0))
  /\ ld' = IF Entry.blocks = 0 THEN NextPage ELSE [ld EXCEPT !.step = "read"]

\* reader() and the memcpy of one block; the reader may ask GPID_FILE.
CopyBlock ==
  /\ Loader("read")
  /\ Fill(Loaded(ld.pid, Entry.vpage, ld.off + 1))
  /\ ld' = IF ld.off + 1 = Entry.blocks THEN NextPage ELSE [ld EXCEPT !.off = @ + 1]

SetArgs ==
  /\ Loader("args")
  /\ Fill(Written("args", ld.pid, Entry.vpage))
  /\ ld' = NextPage

-----------------------------------------------------------------------------
(* soft_tlb_switch: the store and the window after the two loops.          *)

Unmap == [k \in Pages |-> IF Belongs(k, curr_vm_pid) THEN window[page_info[k].vpage] ELSE store[k]]
MapIn(p, st) ==
  [v \in Vpages |->
     LET ks == {k \in Pages : Belongs(k, p) /\ page_info[k].vpage = v}
     IN  IF ks = {} THEN window[v] ELSE st[LoopLast(ks)]]
\* Mutant: the new process's pages come in before the old one's go out.
SwitchedSwapped(p) ==
  IF p = curr_vm_pid THEN [store |-> store, window |-> window]
  ELSE [store |-> [k \in Pages |-> IF Belongs(k, curr_vm_pid)
                                   THEN MapIn(p, store)[page_info[k].vpage] ELSE store[k]],
        window |-> MapIn(p, store)]
Switched(p) ==
  IF p = curr_vm_pid THEN [store |-> store, window |-> window]
  ELSE [store |-> Unmap, window |-> MapIn(p, Unmap)]

soft_tlb_switch(p) ==
  /\ store' = Switched(p).store /\ window' = Switched(p).window
  /\ curr_vm_pid' = p

\* grass_entry, after elf_load: the first process is entered.
EnterProcess ==
  /\ mode = "boot" /\ ld.step = "loaded"
  /\ soft_tlb_switch(GPID_PROCESS)
  /\ life' = [life EXCEPT ![GPID_PROCESS] = "ready"]
  /\ ld' = NotLoading
  /\ mode' = "user"
  /\ UNCHANGED <<modeVars, page_info, ipc, run, freeing, mem>>

-----------------------------------------------------------------------------
(* GPID_PROCESS: proc_alloc, proc_set_ready and the mmu_free of proc_free. *)

InProcess == mode = "user" /\ run = GPID_PROCESS
Spawned == {p \in Pids : life[p] # "none"}

Spawn ==
  /\ InProcess /\ ld = NotLoading /\ freeing = 0
  /\ Pids \ Spawned # {}
  /\ LET p == LoopFirst(Pids \ Spawned)
     IN  /\ life' = [life EXCEPT ![p] = "loading"]
         /\ ld' = StartLoad(p)
  /\ UNCHANGED <<modeVars, winVars, page_info, ipc, run, mode, freeing, mem>>

SetReady ==
  /\ InProcess /\ ld.step = "loaded"
  /\ life' = [life EXCEPT ![ld.pid] = "ready"]
  /\ ld' = NotLoading
  /\ UNCHANGED <<modeVars, winVars, page_info, ipc, run, mode, freeing, mem>>

\* One process that exits, or the next one of killall.
Free(p) ==
  /\ InProcess /\ ld = NotLoading /\ freeing = 0
  /\ p >= GPID_USER_START /\ life[p] = "ready"
  /\ freeing' = p
  /\ UNCHANGED <<modeVars, winVars, page_info, life, ipc, run, mode, ld, mem>>

\* Mutant: the loop stops after the first page.
MmuFreeOne ==
  /\ InProcess /\ freeing # 0
  /\ LET ks == {k \in Pages : Belongs(k, freeing)}
     IN  IF Cardinality(ks) < Len(Plan[freeing])
         THEN life' = [life EXCEPT ![freeing] = "unused"] /\ UNCHANGED page_info
         ELSE /\ page_info' = [page_info EXCEPT ![LoopFirst(ks)] = FreePage]
              /\ UNCHANGED life
  /\ freeing' = IF life' = life THEN freeing ELSE 0
  /\ UNCHANGED <<modeVars, winVars, ipc, run, mode, ld, mem>>

\* One iteration of mmu_free that clears a page, or, after the last, the slot becomes
\* UNUSED.  Every iteration may be followed by a timer interrupt.
mmu_free ==
  /\ InProcess /\ freeing # 0
  /\ LET ks == {k \in Pages : Belongs(k, freeing)}
     IN  IF ks = {}
         THEN /\ life' = [life EXCEPT ![freeing] = "unused"]
              /\ freeing' = 0
              /\ UNCHANGED <<page_info, mem>>
         ELSE /\ page_info' = [page_info EXCEPT ![LoopFirst(ks)] = FreePage]
              /\ mem' = [mem EXCEPT ![freeing][page_info[LoopFirst(ks)].vpage] = Junk]
              /\ UNCHANGED <<life, freeing>>
  /\ UNCHANGED <<modeVars, winVars, ipc, run, mode, ld>>

-----------------------------------------------------------------------------
(* Processes and the kernel.                                               *)

Owned(p) == {page_info[k].vpage : k \in {j \in Pages : Belongs(j, p)}}
\* The history after a write to v on behalf of p: only mapped pages are p's memory.
Remember(p, v) == IF v \in Owned(p) THEN [mem EXCEPT ![p][v] = window'[v]] ELSE mem

\* The running process writes to a page, mapped or not.
Touch(v) ==
  /\ mode = "user"
  /\ window' = [window EXCEPT ![v] = Written("user", run, v)]
  /\ mem' = Remember(run, v)
  /\ UNCHANGED <<modeVars, procVars, page_info, store, curr_vm_pid, mode, ld>>

Timer ==
  /\ mode = "user" /\ mode' = "kernel"
  /\ UNCHANGED <<modeVars, winVars, procVars, page_info, ld, mem>>

\* excp_entry: the arguments are read at SYSCALL_ARG, translated.  GPID_PROCESS makes
\* system calls between requests, and from the reader of elf_load: for the ELF header
\* before the first page, and for every block.
MayTrap == freeing = 0 /\ (ld.step \in {"idle", "read"} \/ (ld.step = "alloc" /\ ld.n = 1))
Ecall(kind) ==
  /\ mode = "user"
  /\ run = GPID_PROCESS => MayTrap
  /\ soft_tlb_switch(run)
  /\ ipc' = [ipc EXCEPT ![run] = kind]
  /\ mode' = "kernel"
  /\ UNCHANGED <<modeVars, page_info, life, run, ld, freeing, mem>>

\* proc_try_recv: translate in the receiver's memory and copy the message there.
CopyToUser(r) ==
  /\ store' = Switched(r).store
  /\ window' = [Switched(r).window EXCEPT ![SYSCALL_ARG] = Written("msg", r, SYSCALL_ARG)]
  /\ curr_vm_pid' = r

Deliver(s, r) ==
  /\ mode = "kernel"
  /\ life[s] = "ready" /\ ipc[s] = "send"
  /\ life[r] = "ready" /\ ipc[r] = "recv"
  /\ CopyToUser(r)
  /\ ipc' = [ipc EXCEPT ![s] = "none", ![r] = "none"]
  /\ mem' = Remember(r, SYSCALL_ARG)
  /\ UNCHANGED <<modeVars, page_info, life, run, mode, ld, freeing>>

Candidates == {p \in Pids : life[p] = "ready" /\ ipc[p] = "none"}

\* Mutant: the pages are not switched when the process that trapped goes on.
DispatchUnlessSame(p) ==
  /\ mode = "kernel" /\ p \in Candidates
  /\ IF p = run THEN UNCHANGED <<winVars>> ELSE soft_tlb_switch(p)
  /\ run' = p
  /\ mode' = "user"
  /\ UNCHANGED <<modeVars, page_info, life, ipc, ld, freeing, mem>>

\* The end of proc_yield.
Dispatch(p) ==
  /\ mode = "kernel" /\ p \in Candidates
  /\ soft_tlb_switch(p)
  /\ run' = p
  /\ mode' = "user"
  /\ UNCHANGED <<modeVars, page_info, life, ipc, ld, freeing, mem>>

\* Its FATAL, when nobody can run.
NoProcess == mode = "kernel" /\ Candidates = {} /\ FATAL

\* FATAL never returns.
Halted == mode = "fatal" /\ UNCHANGED tlbVars

TlbNext ==
  \/ AllocRoot \/ MapRegion \/ TablesDone
  \/ mmu_alloc \/ MapPid \/ MapVpage \/ ClearPage \/ CopyBlock \/ SetArgs
  \/ EnterProcess \/ Spawn \/ SetReady \/ mmu_free
  \/ \E p \in Pids : Free(p) \/ Dispatch(p)
  \/ \E v \in TouchPages : Touch(v)
  \/ Timer \/ \E kind \in {"send", "recv"} : Ecall(kind)
  \/ \E s, r \in Pids : Deliver(s, r)
  \/ NoProcess \/ Halted

TlbSpec == Init /\ [][TlbNext]_tlbVars

-----------------------------------------------------------------------------
(* Properties.                                                             *)

\* The pages that are some process's memory.
MappedPages == {k \in Pages : page_info[k].use /\ page_info[k].vpage # 0}

\* Whenever a process runs, every page it owns shows what the process itself, or the
\* loader, or the kernel on its behalf, wrote there last, although all processes use the
\* same addresses and anyone may have run in between (cpu_mmu.c:44-61, kernel.c:169).
RunningSeesOwnMemory ==
  mode = "user" => \A v \in Owned(run) : window[v] = mem[run][v]

\* The memory of every process whose pages are not in the window is kept in its physical
\* pages, also while GPID_PROCESS is interrupted in mmu_alloc, mmu_map or mmu_free, and
\* while a half-freed process runs on what others left in the window (cpu_mmu.c:33-61).
DormantMemoryKept ==
  \A k \in MappedPages :
    LET p == page_info[k].pid
    IN  p # curr_vm_pid => store[k] = mem[p][page_info[k].vpage]

\* Pages are neither lost nor shared: a page in use is a page table, or the one the
\* loader has just taken, or part of a process that exists; and a process that can run
\* and is not being freed owns exactly the pages it was loaded with, each once.
PagesAccounted ==
  /\ \A k \in Pages : page_info[k].use =>
       \/ store[k].kind \in {"root", "leaf"} /\ page_info[k].pid = 0
       \/ k = ld.page /\ ld.step = "pid"
       \/ page_info[k].pid = ld.pid
       \/ page_info[k].pid \in Pids /\ life[page_info[k].pid] = "ready"
  /\ \A p \in Pids : life[p] = "ready" /\ p # freeing =>
       /\ Owned(p) = {Plan[p][n].vpage : n \in DOMAIN Plan[p]}
       /\ Cardinality({k \in Pages : Belongs(k, p)}) = Cardinality(Owned(p))

\* The blocks of segment s, numbered from address 0, and those of the file.
SegmentBlocks(s) == (s.vpage * PAGE_BLOCKS)..(s.vpage * PAGE_BLOCKS + s.memsz - 1)
FileBlocks(s) == (s.vpage * PAGE_BLOCKS)..(s.vpage * PAGE_BLOCKS + s.filesz - 1)
BlocksOfPage(v) == (v * PAGE_BLOCKS)..((v + 1) * PAGE_BLOCKS - 1)

\* A process is made ready only with its program in place: a page that the segment fills,
\* or that has data of the file, holds that data and zeros.  (A last page of .bss that the
\* segment fills only in part is not mapped at all: end_pageno rounds down, elf.c:32.)
ImageComplete ==
  ld.step = "loaded" =>
    \A s \in {Image(ld.pid).code, Image(ld.pid).data}, v \in Vpages :
      \/ BlocksOfPage(v) \subseteq SegmentBlocks(s)
      \/ BlocksOfPage(v) \cap FileBlocks(s) # {}
      => \E k \in Pages :
           /\ Belongs(k, ld.pid) /\ page_info[k].vpage = v
           /\ store[k] = Loaded(ld.pid, v, Cardinality(BlocksOfPage(v) \cap FileBlocks(s)))

\* The identity map stays what pagetable_identity_map made it: regions that share a leaf
\* do not wipe each other's entries, and no page table is ever handed out as memory,
\* although its page_info holds the pid of a free page (cpu_mmu.c:76-101).
TablesIntact ==
  translation = "PAGE_TABLE" /\ mode \in {"boot", "user", "kernel"} =>
    /\ Cardinality(RootPages) = 1
    /\ \A n \in DOMAIN Regions :
         LET v1 == Regions[n].vpn1
             sharing == {m \in DOMAIN Regions : Regions[m].vpn1 = v1}
         IN  store[root[v1]] = LeafTable(v1, UNION {Entries(Regions[m]) : m \in sharing})

=============================================================================
