---------------------------- MODULE SoftTlbProofs ----------------------------
(***************************************************************************)
(* Theorems about the memory of egos-2000: every process finds its own     *)
(* memory, pages are neither lost nor shared, programs are complete before *)
(* they run and page tables stay what they were, for any number of         *)
(* processes and pages, any programs and any regions.                      *)
(***************************************************************************)
EXTENDS SoftTlb, FiniteSetTheorems, SequenceTheorems, NaturalsInduction, TLAPS

-----------------------------------------------------------------------------
(* The inductive invariant.                                                *)

Cells == [kind : {"junk", "image", "args", "user", "msg", "root"}, pid : Nat, vpage : Nat, n : Nat]
         \cup [kind : {"leaf"}, vpn1 : Nat, entries : SUBSET Nat]
PageInfo == [use : BOOLEAN, pid : Pids \cup {0}, vpage : Vpages \cup {0}]
Fillings == {"clear", "read", "args"}
Steps == {"idle", "alloc", "pid", "vpage", "loaded"} \cup Fillings
LoadState == [pid : Pids \cup {0}, n : Nat, step : Steps, page : Pages, off : Nat]

TlbTypeOK ==
  /\ translation \in {"PAGE_TABLE", "SOFT_TLB"}
  /\ page_info \in [Pages -> PageInfo]
  /\ store \in [Pages -> Cells] /\ window \in [Vpages -> Cells]
  /\ mem \in [Pids -> [Vpages -> Cells]]
  /\ curr_vm_pid \in Pids \cup {Nobody}
  /\ life \in [Pids -> {"none", "loading", "ready", "unused"}]
  /\ ipc \in [Pids -> {"none", "send", "recv"}]
  /\ run \in Pids /\ freeing \in Pids \cup {0}
  /\ mode \in {"tables", "boot", "user", "kernel", "fatal"}
  /\ ld \in LoadState

\* A free page has nobody's name on it; a page with a name is a live process's or that of
\* the one being loaded, and only the loader's page is without an address yet; no process
\* has two pages for one address.
PageInv ==
  /\ \A k \in Pages :
       /\ ~page_info[k].use => page_info[k] = FreePage
       /\ page_info[k].pid = 0 => page_info[k].vpage = 0
       /\ page_info[k].pid # 0 =>
            page_info[k].pid = ld.pid \/ life[page_info[k].pid] = "ready"
       /\ page_info[k].pid # 0 /\ page_info[k].vpage = 0 => k = ld.page /\ ld.step = "vpage"
  /\ \A j, k \in Pages :
       /\ page_info[j].pid # 0 /\ page_info[j].pid = page_info[k].pid
       /\ page_info[j].vpage = page_info[k].vpage
       => j = k

\* Who is loaded, freed and in the window, and when.
ProcInv ==
  /\ ld.pid = 0 <=> ld.step = "idle"
  /\ ld.pid = 0 => ld = NotLoading
  /\ ld.pid # 0 => life[ld.pid] \in {"none", "loading"}
  /\ curr_vm_pid # Nobody => life[curr_vm_pid] \in {"ready", "unused"}
  /\ freeing # 0 => life[freeing] = "ready" /\ ld.pid = 0
  /\ mode \in {"tables", "boot"} =>
       run = GPID_PROCESS /\ ld.pid = GPID_PROCESS /\ curr_vm_pid = Nobody
  /\ mode = "tables" => /\ translation = "PAGE_TABLE" /\ ld.step = "alloc"
                        /\ \A k \in Pages : page_info[k].pid = 0
  /\ mode = "user" => run = curr_vm_pid

\* The pages with the first n addresses of p's plan are there and hold what they should.
LoadedUpTo(p, n) ==
  \A m \in 1..n : \E k \in Pages :
    /\ page_info[k].pid = p /\ page_info[k].vpage = Plan[p][m].vpage
    /\ Plan[p][m].fill = "zero" => store[k] = Loaded(p, Plan[p][m].vpage, Plan[p][m].blocks)

\* Page k is in use, with these entries.
Marked(k, p, v) == page_info[k].use /\ page_info[k].pid = p /\ page_info[k].vpage = v

\* Where elf_load is (ld.n counts regions while the page tables are made).
LoadInv ==
  ld.pid # 0 /\ ~(ld.step = "alloc" /\ mode \in {"tables", "fatal"}) =>
    /\ ld.step = "loaded" => ld.n = Len(Plan[ld.pid]) + 1
    /\ ld.step # "loaded" => ld.n \in 1..Len(Plan[ld.pid])
    /\ ld.step = "pid" => Marked(ld.page, 0, 0)
    /\ ld.step = "vpage" => Marked(ld.page, ld.pid, 0)
    /\ ld.step \in Fillings => Marked(ld.page, ld.pid, Entry.vpage)
    /\ ld.step \in {"clear", "read"} => Entry.fill = "zero"
    /\ ld.step = "args" => Entry.fill = "args"
    /\ ld.step # "read" => ld.off = 0
    /\ ld.step = "read" => store[ld.page] = Loaded(ld.pid, Entry.vpage, ld.off)
    /\ \A k \in Pages : page_info[k].pid = ld.pid =>
         \/ k = ld.page /\ ld.step \in {"vpage"} \cup Fillings
         \/ \E m \in 1..(ld.n - 1) : page_info[k].vpage = Plan[ld.pid][m].vpage
    /\ LoadedUpTo(ld.pid, ld.n - 1)

\* A process that was made ready owns the pages of its plan, until it is freed.
OwnInv ==
  \A p \in Pids : life[p] = "ready" =>
    /\ \A k \in Pages : page_info[k].pid = p =>
         \E m \in DOMAIN Plan[p] : page_info[k].vpage = Plan[p][m].vpage
    /\ p # freeing => \A m \in DOMAIN Plan[p] : \E k \in Pages :
         page_info[k].pid = p /\ page_info[k].vpage = Plan[p][m].vpage

\* The memory of a process is in the window, or in its pages.
MemInv ==
  \A k \in Pages : page_info[k].vpage # 0 =>
    LET p == page_info[k].pid
        v == page_info[k].vpage
    IN  mem[p][v] = IF p = curr_vm_pid THEN window[v] ELSE store[k]

IsTable(c) == c.kind \in {"root", "leaf"}
\* The page tables are the pages in use without a name on them, and are in no memory.
TableInv ==
  /\ \A k \in Pages :
       IsTable(store[k]) <=> /\ page_info[k].use /\ page_info[k].pid = 0
                             /\ ~(k = ld.page /\ ld.step = "pid")
  /\ \A v \in Vpages : ~IsTable(window[v])

\* The regions that are mapped, and what their page tables hold.
RegionsDone == IF mode = "tables" THEN 1..(ld.n - 1) ELSE DOMAIN Regions
MappedAt(x) == {m \in RegionsDone : Regions[m].vpn1 = x}
RootInv ==
  translation = "PAGE_TABLE" /\ mode # "fatal" =>
    /\ mode = "tables" => ld.n \in 1..(Len(Regions) + 1)
    /\ RootPages = {} => mode = "tables" /\ ld.n = 1
    /\ \A j, k \in RootPages : j = k
    /\ DOMAIN root = {Regions[m].vpn1 : m \in RegionsDone}
    /\ \A x \in DOMAIN root :
         root[x] \in Pages /\ store[root[x]] = LeafTable(x, UNION {Entries(Regions[m]) : m \in MappedAt(x)})

TlbInv == TlbTypeOK /\ PageInv /\ ProcInv /\ LoadInv /\ OwnInv /\ MemInv /\ TableInv /\ RootInv

-----------------------------------------------------------------------------
(* Facts about the constants and the operators.                            *)

LEMMA Consts ==
  /\ Pages \subseteq Nat /\ 0 \in Pages
  /\ GPID_PROCESS \in Pids /\ Pids \subseteq Nat /\ 0 \notin Pids /\ Nobody \notin Pids
  /\ Vpages \subseteq Nat /\ 0 \notin Vpages /\ SYSCALL_ARG \in Vpages /\ TouchPages \subseteq Vpages
BY SoftTlbAssumption DEF Pages, Pids, Vpages, GPID_PROCESS, Nobody

\* The quotient of a natural number.
LEMMA QuotientIsNat == \A x \in Nat, b \in Nat \ {0} : x \div b \in Nat
OBVIOUS

\* The plan of a program is a sequence of pages.
PlanEntry == [vpage : Int, fill : {"zero", "args", "none"}, blocks : Int]

LEMMA SegmentPlanType ==
  ASSUME NEW s \in Segment
  PROVE  SegmentPlan(s) \in Seq(PlanEntry)
<1>1. /\ PAGE_BLOCKS \in Nat \ {0} /\ s.vpage \in Nat /\ s.filesz \in Nat /\ s.memsz \in Nat
  BY SoftTlbAssumption DEF Segment, Vpages
<1>2. FilePages(s) \in Nat
  <2>1. s.filesz + PAGE_BLOCKS - 1 \in Nat
    BY <1>1
  <2> QED BY <1>1, <2>1, QuotientIsNat DEF FilePages
<1>3. end_pageno(s) \in Nat
  <2>1. s.vpage * PAGE_BLOCKS + s.memsz \in Nat
    BY <1>1
  <2> QED BY <1>1, <2>1, QuotientIsNat DEF end_pageno
<1>4. \A k \in Int : BlocksOn(s, k) \in Int
  BY <1>1, <1>2 DEF BlocksOn
<1> DEFINE zero == end_pageno(s) - (s.vpage + FilePages(s))
           N == FilePages(s) + IF zero > 0 THEN zero ELSE 0
           e(k) == [vpage |-> s.vpage + k - 1, fill |-> "zero", blocks |-> BlocksOn(s, k)]
<1>5. N \in Nat
  BY <1>1, <1>2, <1>3
<1>6. \A k \in 1..N : e(k) \in PlanEntry
  BY <1>1, <1>4, <1>5 DEF PlanEntry
<1>7. SegmentPlan(s) = [k \in 1..N |-> e(k)]
  BY DEF SegmentPlan
<1> HIDE DEF N, e
<1> QED BY <1>5, <1>6, <1>7

LEMMA PlanFacts ==
  ASSUME NEW p \in Pids
  PROVE  /\ Plan[p] \in Seq(PlanEntry)
         /\ Len(Plan[p]) \in Nat \ {0} /\ DOMAIN Plan[p] = 1..Len(Plan[p])
         /\ \A n \in 1..Len(Plan[p]) : Plan[p][n].vpage \in Vpages
         /\ \A m, n \in 1..Len(Plan[p]) : m # n => Plan[p][m].vpage # Plan[p][n].vpage
<1> DEFINE A == SegmentPlan(Image(p).code)
           B == SegmentPlan(Image(p).data)
           C == << [vpage |-> APPS_ARG, fill |-> "args", blocks |-> 0],
                   [vpage |-> SYSCALL_ARG, fill |-> "none", blocks |-> 0],
                   [vpage |-> APPS_STACK_TOP - 1, fill |-> "none", blocks |-> 0],
                   [vpage |-> APPS_STACK_TOP - 2, fill |-> "none", blocks |-> 0] >>
<1>1. A \in Seq(PlanEntry) /\ B \in Seq(PlanEntry)
  <2>1. Image(p).code \in Segment /\ Image(p).data \in Segment
    BY SoftTlbAssumption
  <2> QED BY <2>1, SegmentPlanType
<1>2. APPS_ARG \in Int /\ SYSCALL_ARG \in Int /\ APPS_STACK_TOP - 1 \in Int /\ APPS_STACK_TOP - 2 \in Int
  BY SoftTlbAssumption DEF Vpages
<1>3. C \in Seq(PlanEntry) /\ Len(C) = 4
  BY <1>2 DEF PlanEntry
<1>4. Plan[p] = A \o B \o C
  BY DEF Plan
<1> HIDE DEF A, B, C
<1>5. Plan[p] \in Seq(PlanEntry) /\ Len(Plan[p]) = Len(A) + Len(B) + 4
  <2>1. A \o B \in Seq(PlanEntry) /\ Len(A \o B) = Len(A) + Len(B)
    BY <1>1, ConcatProperties
  <2>2. (A \o B) \o C \in Seq(PlanEntry) /\ Len((A \o B) \o C) = Len(A \o B) + Len(C)
    BY <2>1, <1>3, ConcatProperties
  <2> QED BY <2>1, <2>2, <1>3, <1>4
<1>6. Len(A) \in Nat /\ Len(B) \in Nat
  BY <1>1
<1>7. DOMAIN Plan[p] = 1..Len(Plan[p])
  BY <1>5
<1> QED BY <1>5, <1>6, <1>7, PlanAssumption

\* A loop over a nonempty set of numbers stops at the first of them.
LEMMA LoopFirstIsIn ==
  ASSUME NEW S \in SUBSET Nat, S # {}
  PROVE  LoopFirst(S) \in S
<1> DEFINE R == OpToRel(<, Nat)
<1>1. \E x \in S : \A y \in S : ~ (<<y, x>> \in R)
  <2>1. IsWellFoundedOn(R, Nat)
    BY NatLessThanWellFounded
  <2> HIDE DEF R
  <2> QED BY <2>1, WFMin
<1>2. PICK x \in S : \A y \in S : ~ (<<y, x>> \in R)
  BY <1>1
<1>3. ASSUME NEW y \in S, y < x PROVE <<y, x>> \in R
  BY <1>3 DEF OpToRel
<1> HIDE DEF R
<1>4. \A y \in S : ~(y < x)
  BY <1>2, <1>3, Zenon
<1>5. x \in Nat /\ S \subseteq Nat
  OBVIOUS
<1>6. \A y \in S : x <= y
  BY <1>4, <1>5
<1> QED BY <1>6 DEF LoopFirst

LEMMA LoopLastOfOne ==
  ASSUME NEW k \in Nat
  PROVE  LoopLast({k}) = k
BY DEF LoopLast

\* A page with a name on it is in use.
LEMMA BelongsIsName ==
  ASSUME PageInv, NEW p \in Pids, NEW k \in Pages
  PROVE  Belongs(k, p) <=> page_info[k].pid = p
BY Consts DEF PageInv, Belongs, FreePage

\* The three stores to an entry of page_info_table.
LEMMA StoreUse ==
  ASSUME TlbTypeOK, NEW k \in Pages,
         page_info' = [page_info EXCEPT ![k].use = TRUE]
  PROVE  /\ page_info' \in [Pages -> PageInfo]
         /\ \A j \in Pages : j # k => page_info'[j] = page_info[j]
         /\ page_info'[k].use /\ page_info'[k].pid = page_info[k].pid /\ page_info'[k].vpage = page_info[k].vpage
BY DEF TlbTypeOK, PageInfo

LEMMA StorePid ==
  ASSUME TlbTypeOK, NEW k \in Pages, NEW p \in Pids,
         page_info' = [page_info EXCEPT ![k].pid = p]
  PROVE  /\ page_info' \in [Pages -> PageInfo]
         /\ \A j \in Pages : j # k => page_info'[j] = page_info[j]
         /\ (page_info'[k].use <=> page_info[k].use) /\ page_info'[k].pid = p /\ page_info'[k].vpage = page_info[k].vpage
BY DEF TlbTypeOK, PageInfo

LEMMA StoreVpage ==
  ASSUME TlbTypeOK, NEW k \in Pages, NEW v \in Vpages,
         page_info' = [page_info EXCEPT ![k].vpage = v]
  PROVE  /\ page_info' \in [Pages -> PageInfo]
         /\ \A j \in Pages : j # k => page_info'[j] = page_info[j]
         /\ (page_info'[k].use <=> page_info[k].use) /\ page_info'[k].pid = page_info[k].pid /\ page_info'[k].vpage = v
BY DEF TlbTypeOK, PageInfo

-----------------------------------------------------------------------------
(* Steps of the kernel and of the processes.                               *)

\* What elf_load has done stays while others work.
LEMMA LoadKept ==
  ASSUME TlbInv, ld' = ld, page_info' = page_info,
         \A k \in Pages : page_info[k].pid \in {0, ld.pid} => store'[k] = store[k],
         mode' \in {"tables", "fatal"} \/ mode \notin {"tables", "fatal"}
  PROVE  LoadInv'
<1> SUFFICES ASSUME ld.pid # 0, ~(ld.step = "alloc" /\ mode \in {"tables", "fatal"})
             PROVE  LoadInv'
  BY DEF LoadInv
<1>1. LoadedUpTo(ld.pid, ld.n - 1)'
  <2> SUFFICES ASSUME NEW m \in 1..(ld.n - 1)
               PROVE  \E k \in Pages :
                        /\ page_info[k].pid = ld.pid /\ page_info[k].vpage = Plan[ld.pid][m].vpage
                        /\ Plan[ld.pid][m].fill = "zero" =>
                             store'[k] = Loaded(ld.pid, Plan[ld.pid][m].vpage, Plan[ld.pid][m].blocks)
    BY DEF LoadedUpTo
  <2>1. LoadedUpTo(ld.pid, ld.n - 1)
    BY DEF TlbInv, LoadInv
  <2>2. PICK k \in Pages :
          /\ page_info[k].pid = ld.pid /\ page_info[k].vpage = Plan[ld.pid][m].vpage
          /\ Plan[ld.pid][m].fill = "zero" =>
               store[k] = Loaded(ld.pid, Plan[ld.pid][m].vpage, Plan[ld.pid][m].blocks)
    BY <2>1 DEF LoadedUpTo
  <2>3. store'[k] = store[k]
    BY <2>2
  <2> QED BY <2>2, <2>3
<1>2. ld.step = "read" => store'[ld.page] = store[ld.page]
  BY DEF TlbInv, LoadInv, TlbTypeOK, LoadState, Fillings, Marked
<1> QED BY <1>1, <1>2 DEF TlbInv, LoadInv, Entry, Marked

\* So do the page tables, whatever happens to other pages.
LEMMA RootKept ==
  ASSUME TlbInv, UNCHANGED <<translation, root>>,
         \A k \in Pages : IsTable(store[k]) \/ IsTable(store'[k]) => store'[k] = store[k],
         \/ mode' = "fatal"
         \/ mode' = "tables" /\ mode = "tables" /\ ld' = ld
         \/ mode' # "tables" /\ mode \notin {"tables", "fatal"}
  PROVE  RootInv'
<1> SUFFICES ASSUME translation = "PAGE_TABLE", mode' # "fatal" PROVE RootInv'
  BY DEF RootInv
<1>1. RootInv /\ mode # "fatal" /\ (mode' = "tables" <=> mode = "tables")
  BY DEF TlbInv
<1>2. RegionsDone' = RegionsDone
  BY <1>1 DEF RegionsDone
<1>3. \A x : MappedAt(x)' = MappedAt(x)
  BY <1>2 DEF MappedAt
<1>4. RootPages' = RootPages
  BY DEF RootPages, RootTable, IsTable
<1>5. ASSUME NEW x \in DOMAIN root
      PROVE  root[x] \in Pages /\ store'[root[x]] = LeafTable(x, UNION {Entries(Regions[m]) : m \in MappedAt(x)'})
  <2>1. root[x] \in Pages /\ store[root[x]] = LeafTable(x, UNION {Entries(Regions[m]) : m \in MappedAt(x)})
    BY <1>1 DEF RootInv
  <2>2. IsTable(store[root[x]])
    BY <2>1 DEF LeafTable, IsTable
  <2> QED BY <1>3, <2>1, <2>2
<1> QED BY <1>1, <1>2, <1>4, <1>5 DEF RootInv

\* A store to the memory of one process.
LEMMA MemUpdate ==
  ASSUME TlbTypeOK, NEW q \in Pids, NEW v \in Vpages, NEW c \in Cells,
         mem' = [mem EXCEPT ![q][v] = c]
  PROVE  /\ mem' \in [Pids -> [Vpages -> Cells]]
         /\ \A p \in Pids, x \in Vpages : mem'[p][x] = IF p = q /\ x = v THEN c ELSE mem[p][x]
<1>1. mem \in [Pids -> [Vpages -> Cells]]
  BY DEF TlbTypeOK
<1> HIDE DEF Cells
<1>2. mem' = [mem EXCEPT ![q] = [mem[q] EXCEPT ![v] = c]]
  BY <1>1
<1>3. [mem[q] EXCEPT ![v] = c] \in [Vpages -> Cells]
  BY <1>1
<1> QED BY <1>1, <1>2, <1>3

\* A step that changes none of the state below keeps the invariant.
LEMMA SameMemory ==
  ASSUME TlbInv, UNCHANGED <<page_info, store, window, curr_vm_pid, mem, translation, root, life, ld, freeing>>,
         ipc' \in [Pids -> {"none", "send", "recv"}], run' = run,
         \/ mode' = "fatal"
         \/ mode' = mode
         \/ mode = "user" /\ mode' = "kernel"
  PROVE  TlbInv'
<1>1. TlbTypeOK' /\ PageInv' /\ ProcInv' /\ OwnInv' /\ MemInv' /\ TableInv'
  BY DEF TlbInv, TlbTypeOK, PageInv, ProcInv, OwnInv, MemInv, TableInv
<1>2. LoadInv'
  BY LoadKept DEF TlbInv, TlbTypeOK
<1>3. mode = "fatal" => mode' = "fatal"
  OBVIOUS
<1>4. RootInv'
  BY <1>3, RootKept
<1> QED BY <1>1, <1>2, <1>4 DEF TlbInv

LEMMA FatalInv == TlbInv /\ FATAL => TlbInv'
BY SameMemory DEF FATAL, modeVars, winVars, procVars, TlbInv, TlbTypeOK

LEMMA TimerInv == TlbInv /\ Timer => TlbInv'
BY SameMemory DEF Timer, modeVars, winVars, procVars, TlbInv, TlbTypeOK

\* The page table of the caller is the one that is in the window.
LEMMA EcallInv ==
  ASSUME TlbInv, NEW kind \in {"send", "recv"}, Ecall(kind)
  PROVE  TlbInv'
<1>1. run = curr_vm_pid /\ mode = "user" /\ mode' = "kernel"
  BY DEF Ecall, TlbInv, ProcInv
<1>2. UNCHANGED <<store, window, curr_vm_pid>>
  BY <1>1 DEF Ecall, soft_tlb_switch, Switched
<1>3. ipc' \in [Pids -> {"none", "send", "recv"}]
  BY DEF Ecall, TlbInv, TlbTypeOK
<1> QED BY <1>1, <1>2, <1>3, SameMemory DEF Ecall, modeVars

\* A process writes to the window, which holds its own pages.
LEMMA TouchInv ==
  ASSUME TlbInv, NEW v \in TouchPages, Touch(v)
  PROVE  TlbInv'
<1>0. /\ mode = "user" /\ run = curr_vm_pid /\ run \in Pids /\ v \in Vpages
      /\ TlbTypeOK /\ PageInv /\ MemInv
  BY Consts DEF Touch, TlbInv, ProcInv, TlbTypeOK
<1> DEFINE c == Written("user", run, v)
<1>1. c \in Cells /\ ~IsTable(c)
  BY <1>0, Consts DEF Written, Cells, IsTable
<1> HIDE DEF c
<1>2. window' = [window EXCEPT ![v] = c] /\ UNCHANGED <<modeVars, procVars, page_info, store, curr_vm_pid, mode, ld>>
  BY DEF Touch, c
<1>3. \/ v \in Owned(run) /\ mem' = [mem EXCEPT ![run][v] = c]
      \/ v \notin Owned(run) /\ mem' = mem
  BY <1>0, <1>2 DEF Touch, Remember, TlbTypeOK
<1>4. /\ mem' \in [Pids -> [Vpages -> Cells]]
      /\ \A p \in Pids, x \in Vpages :
           mem'[p][x] = IF p = run /\ x = v /\ v \in Owned(run) THEN c ELSE mem[p][x]
  <2>1. CASE mem' = mem /\ v \notin Owned(run)
    BY <2>1, <1>0 DEF TlbTypeOK
  <2>2. CASE mem' = [mem EXCEPT ![run][v] = c] /\ v \in Owned(run)
    <3>1. /\ TlbTypeOK /\ run \in Pids /\ v \in Vpages /\ c \in Cells
          /\ mem' = [mem EXCEPT ![run][v] = c]
      BY <2>2, <1>0, <1>1
    <3>2. /\ mem' \in [Pids -> [Vpages -> Cells]]
          /\ \A p \in Pids, x \in Vpages : mem'[p][x] = IF p = run /\ x = v THEN c ELSE mem[p][x]
      BY ONLY <3>1, MemUpdate, ZenonT(30)
    <3> QED BY <2>2, <3>2
  <2> QED BY <1>3, <2>1, <2>2
<1>41. window' \in [Vpages -> Cells] /\ \A x \in Vpages : window'[x] = IF x = v THEN c ELSE window[x]
  BY <1>0, <1>1, <1>2 DEF TlbTypeOK
<1>42. TlbTypeOK'
  BY <1>0, <1>2, <1>4, <1>41 DEF TlbTypeOK, modeVars, procVars
<1>5. MemInv'
  <2> SUFFICES ASSUME NEW k \in Pages, page_info[k].vpage # 0
               PROVE  mem'[page_info[k].pid][page_info[k].vpage] =
                        IF page_info[k].pid = curr_vm_pid THEN window'[page_info[k].vpage] ELSE store[k]
    BY <1>2 DEF MemInv
  <2> DEFINE p == page_info[k].pid
             x == page_info[k].vpage
  <2>1. p \in Pids /\ x \in Vpages
    BY <1>0 DEF TlbTypeOK, PageInfo, PageInv
  <2>2. mem[p][x] = IF p = curr_vm_pid THEN window[x] ELSE store[k]
    BY <1>0 DEF MemInv
  <2>3. p = run => x \in Owned(run)
    BY <1>0, BelongsIsName DEF Owned
  <2> HIDE DEF p, x
  <2>4. mem'[p][x] = IF p = curr_vm_pid THEN window'[x] ELSE store[k]
    BY <2>1, <2>2, <2>3, <1>0, <1>4, <1>41
  <2> QED BY <2>4 DEF p, x
<1>6. PageInv' /\ ProcInv' /\ OwnInv'
  BY <1>2 DEF TlbInv, PageInv, ProcInv, OwnInv, procVars, modeVars
<1>7. LoadInv'
  BY <1>0, <1>2, LoadKept DEF TlbInv
<1>8. TableInv'
  BY <1>0, <1>1, <1>2 DEF TlbInv, TableInv, TlbTypeOK
<1>9. RootInv'
  BY <1>0, <1>2, RootKept DEF modeVars
<1> QED BY <1>42, <1>5, <1>6, <1>7, <1>8, <1>9 DEF TlbInv

\* Only a page of the process that is being loaded has no address.
LEMMA Addressed ==
  ASSUME TlbInv, NEW k \in Pages, page_info[k].pid # 0,
         page_info[k].pid # ld.pid \/ ld.step # "vpage"
  PROVE  page_info[k].pid \in Pids /\ page_info[k].vpage \in Vpages
<1>1. page_info[k] \in PageInfo
  BY DEF TlbInv, TlbTypeOK
<1>2. page_info[k].vpage = 0 => k = ld.page /\ ld.step = "vpage"
  BY DEF TlbInv, PageInv
<1>3. ld.step = "vpage" => page_info[ld.page].pid = ld.pid
  BY DEF TlbInv, LoadInv, ProcInv, Marked
<1> QED BY <1>1, <1>2, <1>3 DEF PageInfo

\* soft_tlb_switch moves memory and loses none.
LEMMA SwitchKeeps ==
  ASSUME TlbInv, NEW p \in Pids, life[p] = "ready" \/ (p = ld.pid /\ ld.step = "loaded"),
         NEW st, NEW wi, st = Switched(p).store, wi = Switched(p).window
  PROVE  /\ st \in [Pages -> Cells] /\ wi \in [Vpages -> Cells]
         /\ \A k \in Pages : page_info[k].pid # curr_vm_pid => st[k] = store[k]
         /\ \A k \in Pages : page_info[k].pid # 0 => ~IsTable(st[k])
         /\ \A v \in Vpages : ~IsTable(wi[v])
         /\ \A k \in Pages : page_info[k].vpage # 0 =>
              mem[page_info[k].pid][page_info[k].vpage] =
                IF page_info[k].pid = p THEN wi[page_info[k].vpage] ELSE st[k]
<1>0. /\ store \in [Pages -> Cells] /\ window \in [Vpages -> Cells]
      /\ page_info \in [Pages -> PageInfo] /\ PageInv
      /\ \A k \in Pages : page_info[k].pid # 0 => ~IsTable(store[k])
      /\ \A v \in Vpages : ~IsTable(window[v])
      /\ \A k \in Pages : page_info[k].vpage # 0 =>
           mem[page_info[k].pid][page_info[k].vpage] =
             IF page_info[k].pid = curr_vm_pid THEN window[page_info[k].vpage] ELSE store[k]
  BY DEF TlbInv, TlbTypeOK, TableInv, MemInv
<1> HIDE DEF Cells, IsTable
<1>1. CASE p = curr_vm_pid
  BY <1>0, <1>1 DEF Switched
<1>2. CASE p # curr_vm_pid
  <2>1. st = Unmap /\ wi = MapIn(p, Unmap)
    BY <1>2 DEF Switched
  <2>2. ASSUME NEW k \in Pages
        PROVE  /\ st[k] = IF page_info[k].pid = curr_vm_pid THEN window[page_info[k].vpage] ELSE store[k]
               /\ page_info[k].pid = curr_vm_pid => page_info[k].vpage \in Vpages /\ page_info[k].pid # 0
    <3>1. curr_vm_pid \in Pids \cup {Nobody}
      BY DEF TlbInv, TlbTypeOK
    <3>2. st[k] = IF Belongs(k, curr_vm_pid) THEN window[page_info[k].vpage] ELSE store[k]
      BY <2>1 DEF Unmap
    <3>3. CASE curr_vm_pid = Nobody
      <4>1. page_info[k].pid # Nobody
        BY <1>0, Consts DEF PageInfo, Nobody
      <4> QED BY <3>2, <3>3, <4>1 DEF Belongs
    <3>4. CASE curr_vm_pid \in Pids
      <4>1. Belongs(k, curr_vm_pid) <=> page_info[k].pid = curr_vm_pid
        BY <1>0, <3>4, BelongsIsName
      <4>2. ld.pid # curr_vm_pid /\ curr_vm_pid # 0
        BY <3>4, Consts DEF TlbInv, ProcInv
      <4>3. page_info[k].pid = curr_vm_pid => page_info[k].vpage \in Vpages
        BY <4>2, Addressed
      <4> QED BY <3>2, <4>1, <4>2, <4>3
    <3> QED BY <3>1, <3>3, <3>4
  <2>3. st \in [Pages -> Cells]
    <3>1. \A k \in Pages : st[k] \in Cells
      BY <2>2, <1>0
    <3> QED BY <3>1, <2>1 DEF Unmap
  <2>4. ASSUME NEW v \in Vpages
        PROVE  \/ /\ wi[v] = window[v]
                  /\ \A k \in Pages : ~(page_info[k].pid = p /\ page_info[k].vpage = v)
               \/ \E k \in Pages : /\ page_info[k].pid = p /\ page_info[k].vpage = v
                                   /\ wi[v] = st[k]
    <3> DEFINE ks == {k \in Pages : Belongs(k, p) /\ page_info[k].vpage = v}
    <3>1. wi[v] = IF ks = {} THEN window[v] ELSE st[LoopLast(ks)]
      BY <2>1 DEF MapIn
    <3>2. ks = {k \in Pages : page_info[k].pid = p /\ page_info[k].vpage = v}
      BY <1>0, BelongsIsName
    <3> HIDE DEF ks
    <3>3. CASE ks = {}
      BY <3>1, <3>2, <3>3
    <3>4. ASSUME NEW k \in ks PROVE wi[v] = st[k]
      <4>1. ks = {k}
        <5>1. k \in Pages /\ page_info[k].pid = p /\ page_info[k].vpage = v /\ p # 0
          BY <3>2, Consts
        <5>2. \A j \in ks : j = k
          BY <5>1, <3>2, <1>0 DEF PageInv
        <5> QED BY <5>2
      <4>2. LoopLast(ks) = k
        BY <4>1, <3>2, LoopLastOfOne, Consts
      <4> QED BY <3>1, <4>1, <4>2
    <3> QED BY <3>2, <3>3, <3>4
  <2>5. wi \in [Vpages -> Cells]
    <3>1. \A v \in Vpages : wi[v] \in Cells
      BY <2>3, <2>4, <1>0
    <3> QED BY <3>1, <2>1 DEF MapIn
  <2>6. ASSUME NEW k \in Pages, page_info[k].pid # 0 PROVE ~IsTable(st[k])
    BY <2>2, <2>6, <1>0
  <2>7. ASSUME NEW v \in Vpages PROVE ~IsTable(wi[v])
    BY <2>4, <2>6, <1>0, Consts
  <2>8. ASSUME NEW k \in Pages, page_info[k].vpage # 0
        PROVE  mem[page_info[k].pid][page_info[k].vpage] =
                IF page_info[k].pid = p THEN wi[page_info[k].vpage] ELSE st[k]
    <3> DEFINE q == page_info[k].pid
               v == page_info[k].vpage
    <3>1. v \in Vpages /\ q # 0
      BY <2>8, <1>0 DEF PageInfo, PageInv
    <3>2. q = p => wi[v] = st[k]
      BY <3>1, <2>4, <1>0 DEF PageInv
    <3>3. mem[q][v] = IF q = curr_vm_pid THEN window[v] ELSE store[k]
      BY <1>0, <2>8
    <3>4. st[k] = IF q = curr_vm_pid THEN window[v] ELSE store[k]
      BY <2>2
    <3>5. mem[q][v] = IF q = p THEN wi[v] ELSE st[k]
      <4> HIDE DEF q, v
      <4> QED BY <3>2, <3>3, <3>4
    <3> QED BY <3>5
  <2> QED BY <2>2, <2>3, <2>5, <2>6, <2>7, <2>8
<1> QED BY <1>1, <1>2

\* The switch at the end of proc_yield.
LEMMA DispatchInv ==
  ASSUME TlbInv, NEW p \in Pids, Dispatch(p)
  PROVE  TlbInv'
<1>0. /\ mode = "kernel" /\ life[p] = "ready" /\ mode' = "user" /\ run' = p /\ curr_vm_pid' = p
      /\ store' = Switched(p).store /\ window' = Switched(p).window
      /\ UNCHANGED <<translation, root, page_info, life, ipc, ld, freeing, mem>>
  BY DEF Dispatch, Candidates, soft_tlb_switch, modeVars
<1>1. /\ store' \in [Pages -> Cells] /\ window' \in [Vpages -> Cells]
      /\ \A k \in Pages : page_info[k].pid # curr_vm_pid => store'[k] = store[k]
      /\ \A k \in Pages : page_info[k].pid # 0 => ~IsTable(store'[k])
      /\ \A v \in Vpages : ~IsTable(window'[v])
      /\ \A k \in Pages : page_info[k].vpage # 0 =>
           mem[page_info[k].pid][page_info[k].vpage] =
             IF page_info[k].pid = p THEN window'[page_info[k].vpage] ELSE store'[k]
  BY <1>0, SwitchKeeps
<1>2. curr_vm_pid # 0 /\ (ld.pid # 0 => curr_vm_pid # ld.pid)
  BY Consts DEF TlbInv, TlbTypeOK, LoadState, ProcInv, Nobody
<1>3. TlbTypeOK' /\ PageInv' /\ ProcInv' /\ OwnInv'
  BY <1>0, <1>1 DEF TlbInv, TlbTypeOK, PageInv, ProcInv, OwnInv
<1>4. LoadInv'
  <2>1. \A k \in Pages : page_info[k].pid \in {0, ld.pid} => store'[k] = store[k]
    BY <1>1, <1>2
  <2> QED BY <1>0, <2>1, LoadKept
<1>5. MemInv'
  BY <1>0, <1>1 DEF MemInv
<1>6. TableInv'
  BY <1>0, <1>1, <1>2 DEF TlbInv, TableInv
<1>7. RootInv'
  <2>1. \A k \in Pages : IsTable(store[k]) \/ IsTable(store'[k]) => store'[k] = store[k]
    BY <1>1, <1>2 DEF TlbInv, TableInv
  <2> QED BY <1>0, <2>1, RootKept
<1> QED BY <1>3, <1>4, <1>5, <1>6, <1>7 DEF TlbInv

\* The switch to a receiver, and the message that is copied to it.
LEMMA DeliverInv ==
  ASSUME TlbInv, NEW s \in Pids, NEW r \in Pids, Deliver(s, r)
  PROVE  TlbInv'
<1> DEFINE wi == Switched(r).window
           c == Written("msg", r, SYSCALL_ARG)
<1>0. /\ mode = "kernel" /\ life[r] = "ready" /\ curr_vm_pid' = r /\ SYSCALL_ARG \in Vpages
      /\ store' = Switched(r).store /\ window' = [wi EXCEPT ![SYSCALL_ARG] = c]
      /\ ipc' = [ipc EXCEPT ![s] = "none", ![r] = "none"] /\ mem' = Remember(r, SYSCALL_ARG)
      /\ UNCHANGED <<translation, root, page_info, life, run, mode, ld, freeing>>
      /\ TlbTypeOK /\ PageInv
  BY Consts DEF Deliver, CopyToUser, modeVars, TlbInv
<1>1. /\ store' \in [Pages -> Cells] /\ wi \in [Vpages -> Cells]
      /\ \A k \in Pages : page_info[k].pid # curr_vm_pid => store'[k] = store[k]
      /\ \A k \in Pages : page_info[k].pid # 0 => ~IsTable(store'[k])
      /\ \A v \in Vpages : ~IsTable(wi[v])
      /\ \A k \in Pages : page_info[k].vpage # 0 =>
           mem[page_info[k].pid][page_info[k].vpage] =
             IF page_info[k].pid = r THEN wi[page_info[k].vpage] ELSE store'[k]
  BY <1>0, SwitchKeeps
<1>2. c \in Cells /\ ~IsTable(c)
  BY <1>0, Consts DEF Written, Cells, IsTable
<1>3. curr_vm_pid # 0 /\ (ld.pid # 0 => curr_vm_pid # ld.pid)
  BY Consts DEF TlbInv, TlbTypeOK, LoadState, ProcInv, Nobody
<1> HIDE DEF wi, c
<1>4. window' \in [Vpages -> Cells] /\ \A x \in Vpages : window'[x] = IF x = SYSCALL_ARG THEN c ELSE wi[x]
  <2> HIDE DEF Cells
  <2> QED BY <1>0, <1>1, <1>2
<1>5. /\ mem' \in [Pids -> [Vpages -> Cells]]
      /\ \A p \in Pids, x \in Vpages :
           mem'[p][x] = IF p = r /\ x = SYSCALL_ARG /\ x \in Owned(r) THEN c ELSE mem[p][x]
  <2>1. CASE mem' = mem /\ SYSCALL_ARG \notin Owned(r)
    BY <2>1, <1>0 DEF TlbTypeOK
  <2>2. CASE mem' = [mem EXCEPT ![r][SYSCALL_ARG] = c] /\ SYSCALL_ARG \in Owned(r)
    <3>1. PICK v \in Vpages, d \in Cells : v = SYSCALL_ARG /\ d = c
      BY <1>0, <1>2
    <3>2. TlbTypeOK /\ r \in Pids /\ v \in Vpages /\ d \in Cells /\ mem' = [mem EXCEPT ![r][v] = d]
      BY <2>2, <3>1, <1>0
    <3>3. /\ mem' \in [Pids -> [Vpages -> Cells]]
          /\ \A p \in Pids, x \in Vpages : mem'[p][x] = IF p = r /\ x = v THEN d ELSE mem[p][x]
      BY ONLY <3>2, MemUpdate, ZenonT(30)
    <3> QED BY <2>2, <3>1, <3>3
  <2> QED BY <1>0, <1>4, <2>1, <2>2 DEF Remember
<1>6. ipc' \in [Pids -> {"none", "send", "recv"}]
  BY <1>0 DEF TlbTypeOK
<1>7. TlbTypeOK' /\ PageInv' /\ ProcInv' /\ OwnInv'
  <2>1. TlbTypeOK'
    BY <1>0, <1>1, <1>4, <1>5, <1>6 DEF TlbTypeOK
  <2>2. PageInv'
    BY <1>0 DEF PageInv
  <2>3. ProcInv'
    BY <1>0 DEF TlbInv, ProcInv
  <2>4. OwnInv'
    BY <1>0 DEF TlbInv, OwnInv
  <2> QED BY <2>1, <2>2, <2>3, <2>4
<1>8. LoadInv'
  <2>1. \A k \in Pages : page_info[k].pid \in {0, ld.pid} => store'[k] = store[k]
    BY <1>1, <1>3
  <2> QED BY <1>0, <2>1, LoadKept
<1>9. MemInv'
  <2> SUFFICES ASSUME NEW k \in Pages, page_info[k].vpage # 0
               PROVE  mem'[page_info[k].pid][page_info[k].vpage] =
                        IF page_info[k].pid = r THEN window'[page_info[k].vpage] ELSE store'[k]
    BY <1>0 DEF MemInv
  <2> DEFINE p == page_info[k].pid
             x == page_info[k].vpage
  <2>1. p \in Pids /\ x \in Vpages
    BY <1>0 DEF TlbTypeOK, PageInfo, PageInv
  <2>2. mem[p][x] = IF p = r THEN wi[x] ELSE store'[k]
    BY <1>1
  <2>3. p = r => x \in Owned(r)
    BY <1>0, BelongsIsName DEF Owned
  <2> HIDE DEF p, x
  <2>4. mem'[p][x] = IF p = r THEN window'[x] ELSE store'[k]
    BY <2>1, <2>2, <2>3, <1>4, <1>5
  <2> QED BY <2>4 DEF p, x
<1>10. TableInv'
  BY <1>0, <1>1, <1>2, <1>3, <1>4 DEF TlbInv, TableInv
<1>11. RootInv'
  <2>1. \A k \in Pages : IsTable(store[k]) \/ IsTable(store'[k]) => store'[k] = store[k]
    BY <1>1, <1>3 DEF TlbInv, TableInv
  <2> QED BY <1>0, <2>1, RootKept
<1> QED BY <1>7, <1>8, <1>9, <1>10, <1>11 DEF TlbInv

\* A process whose pages are all loaded owns its plan when it is made ready.
LEMMA ReadyOwns ==
  ASSUME TlbInv, ld.step = "loaded", mode \in {"boot", "user"}, ld' = NotLoading,
         life' = [life EXCEPT ![ld.pid] = "ready"], UNCHANGED <<page_info, freeing>>
  PROVE  PageInv' /\ OwnInv'
<1>0. /\ ld.pid \in Pids /\ ld.pid # 0 /\ TlbTypeOK /\ PageInv /\ LoadInv /\ OwnInv /\ ld'.pid = 0 /\ freeing # ld.pid
      /\ ld'.step = "idle" /\ ld.n = Len(Plan[ld.pid]) + 1
  BY Consts DEF TlbInv, TlbTypeOK, LoadState, ProcInv, NotLoading, LoadInv
<1>1. /\ life' \in [Pids -> {"none", "loading", "ready", "unused"}]
      /\ \A p \in Pids : life'[p] = IF p = ld.pid THEN "ready" ELSE life[p]
  BY <1>0 DEF TlbTypeOK
<1>2. PageInv'
  <2>1. ASSUME NEW k \in Pages, page_info[k].pid # 0 PROVE life'[page_info[k].pid] = "ready"
    BY <1>0, <1>1, <2>1 DEF PageInv, TlbTypeOK, PageInfo
  <2> QED BY <2>1, <1>0 DEF PageInv
<1>3. OwnInv'
  <2> SUFFICES ASSUME NEW p \in Pids, life'[p] = "ready"
               PROVE  /\ \A k \in Pages : page_info[k].pid = p =>
                           \E m \in DOMAIN Plan[p] : page_info[k].vpage = Plan[p][m].vpage
                      /\ p # freeing => \A m \in DOMAIN Plan[p] : \E k \in Pages :
                           page_info[k].pid = p /\ page_info[k].vpage = Plan[p][m].vpage
    BY DEF OwnInv
  <2>1. CASE p # ld.pid
    BY <2>1, <1>0, <1>1 DEF OwnInv
  <2>2. CASE p = ld.pid
    <3>1. ld.n - 1 = Len(Plan[p]) /\ DOMAIN Plan[p] = 1..Len(Plan[p])
      BY <1>0, <2>2, PlanFacts
    <3>2. LoadedUpTo(p, Len(Plan[p]))
      BY <1>0, <2>2, <3>1 DEF LoadInv
    <3>3. \A k \in Pages : page_info[k].pid = p =>
            \E m \in 1..Len(Plan[p]) : page_info[k].vpage = Plan[p][m].vpage
      BY <1>0, <2>2, <3>1 DEF LoadInv, Fillings
    <3> QED BY <3>1, <3>2, <3>3 DEF LoadedUpTo
  <2> QED BY <2>1, <2>2
<1> QED BY <1>2, <1>3

\* The first process is entered: its pages, and those alone, come to the window.
LEMMA EnterInv ==
  ASSUME TlbInv, EnterProcess
  PROVE  TlbInv'
<1> DEFINE p == GPID_PROCESS
<1>0. /\ mode = "boot" /\ ld.step = "loaded" /\ ld.pid = p /\ p \in Pids /\ curr_vm_pid = Nobody
      /\ mode' = "user" /\ run = p /\ curr_vm_pid' = p /\ freeing = 0
      /\ life' = [life EXCEPT ![p] = "ready"] /\ ld' = NotLoading
      /\ store' = Switched(p).store /\ window' = Switched(p).window
      /\ UNCHANGED <<translation, root, page_info, run, ipc, freeing, mem>>
      /\ TlbTypeOK /\ PageInv
  BY Consts DEF EnterProcess, soft_tlb_switch, modeVars, TlbInv, ProcInv, GPID_PROCESS
<1>1. /\ store' \in [Pages -> Cells] /\ window' \in [Vpages -> Cells]
      /\ \A k \in Pages : page_info[k].pid # curr_vm_pid => store'[k] = store[k]
      /\ \A k \in Pages : page_info[k].pid # 0 => ~IsTable(store'[k])
      /\ \A v \in Vpages : ~IsTable(window'[v])
      /\ \A k \in Pages : page_info[k].vpage # 0 =>
           mem[page_info[k].pid][page_info[k].vpage] =
             IF page_info[k].pid = p THEN window'[page_info[k].vpage] ELSE store'[k]
  BY <1>0, SwitchKeeps
<1>2. \A k \in Pages : page_info[k].pid # curr_vm_pid
  BY <1>0, Consts DEF TlbTypeOK, PageInfo, Nobody
<1>3. TlbTypeOK'
  BY <1>0, <1>1, Consts DEF TlbTypeOK, NotLoading, LoadState, Steps
<1>4. PageInv' /\ OwnInv'
  BY <1>0, ReadyOwns
<1>5. ProcInv'
  BY <1>0, Consts DEF TlbInv, TlbTypeOK, ProcInv, NotLoading
<1>6. LoadInv'
  BY <1>0 DEF LoadInv, NotLoading
<1>7. MemInv'
  BY <1>0, <1>1 DEF MemInv
<1>8. TableInv'
  BY <1>0, <1>1, <1>2 DEF TlbInv, TableInv, NotLoading
<1>9. RootInv'
  BY <1>0, <1>1, <1>2, RootKept
<1> QED BY <1>3, <1>4, <1>5, <1>6, <1>7, <1>8, <1>9 DEF TlbInv

-----------------------------------------------------------------------------
(* Steps of GPID_PROCESS: a process begins and ends.                       *)

LEMMA SpawnInv ==
  ASSUME TlbInv, Spawn
  PROVE  TlbInv'
<1> DEFINE p == LoopFirst(Pids \ Spawned)
<1>0. /\ mode = "user" /\ ld = NotLoading /\ freeing = 0 /\ Pids \ Spawned # {}
      /\ life' = [life EXCEPT ![p] = "loading"] /\ ld' = StartLoad(p)
      /\ UNCHANGED <<translation, root, store, window, curr_vm_pid, page_info, ipc, run, mode, freeing, mem>>
      /\ TlbTypeOK /\ PageInv /\ ProcInv
  BY DEF Spawn, InProcess, modeVars, winVars, TlbInv
<1>1. p \in Pids /\ p # 0 /\ life[p] = "none"
  <2>1. p \in Pids \ Spawned
    BY <1>0, LoopFirstIsIn, Consts
  <2> QED BY <2>1, Consts DEF Spawned
<1> HIDE DEF p
<1>2. /\ life' \in [Pids -> {"none", "loading", "ready", "unused"}]
      /\ \A q \in Pids : life'[q] = IF q = p THEN "loading" ELSE life[q]
  BY <1>0, <1>1 DEF TlbTypeOK
<1>3. /\ ld' \in LoadState
      /\ ld'.pid = p /\ ld'.n = 1 /\ ld'.step = "alloc" /\ ld'.off = 0
      /\ ld.pid = 0 /\ ld.step = "idle"
  BY <1>0, <1>1, Consts DEF StartLoad, NotLoading, LoadState, Steps
<1>4. \A k \in Pages : /\ page_info[k].pid # p
                       /\ page_info[k].pid # 0 =>
                            page_info[k].pid \in Pids /\ life'[page_info[k].pid] = "ready"
  BY <1>0, <1>1, <1>2, <1>3 DEF TlbTypeOK, PageInv, PageInfo
<1>5. TlbTypeOK'
  BY <1>0, <1>2, <1>3 DEF TlbTypeOK
<1>6. PageInv'
  BY <1>0, <1>3, <1>4 DEF PageInv
<1>7. ProcInv'
  BY <1>0, <1>1, <1>2, <1>3 DEF ProcInv, TlbTypeOK
<1>8. LoadInv'
  <2>1. LoadedUpTo(ld.pid, ld.n - 1)'
    BY <1>3 DEF LoadedUpTo
  <2>2. Len(Plan[p]) \in Nat \ {0}
    BY <1>1, PlanFacts
  <2>3. ld'.n \in 1..Len(Plan[p])
    BY <1>3, <2>2
  <2> QED BY <1>0, <1>3, <1>4, <2>1, <2>3 DEF LoadInv, Fillings
<1>9. OwnInv'
  BY <1>0, <1>1, <1>2 DEF TlbInv, OwnInv
<1>10. MemInv' /\ TableInv'
  BY <1>0, <1>3 DEF TlbInv, MemInv, TableInv
<1>11. RootInv'
  BY <1>0, RootKept
<1> QED BY <1>5, <1>6, <1>7, <1>8, <1>9, <1>10, <1>11 DEF TlbInv

LEMMA SetReadyInv ==
  ASSUME TlbInv, SetReady
  PROVE  TlbInv'
<1>0. /\ mode = "user" /\ ld.step = "loaded" /\ ld' = NotLoading
      /\ life' = [life EXCEPT ![ld.pid] = "ready"]
      /\ UNCHANGED <<translation, root, store, window, curr_vm_pid, page_info, ipc, run, mode, freeing, mem>>
      /\ TlbTypeOK /\ PageInv /\ ProcInv
  BY DEF SetReady, InProcess, modeVars, winVars, TlbInv
<1>1. ld.pid \in Pids /\ ld.pid # curr_vm_pid /\ freeing = 0
  BY <1>0, Consts DEF TlbTypeOK, LoadState, ProcInv
<1>2. /\ life' \in [Pids -> {"none", "loading", "ready", "unused"}]
      /\ \A q \in Pids : life'[q] = IF q = ld.pid THEN "ready" ELSE life[q]
  BY <1>0, <1>1 DEF TlbTypeOK
<1>3. /\ ld' \in LoadState
      /\ ld'.pid = 0 /\ ld'.step = "idle"
  BY <1>0, Consts DEF NotLoading, LoadState, Steps
<1>4. TlbTypeOK'
  BY <1>0, <1>2, <1>3 DEF TlbTypeOK
<1>5. PageInv' /\ OwnInv'
  BY <1>0, ReadyOwns
<1>6. ProcInv'
  BY <1>0, <1>1, <1>2, <1>3 DEF ProcInv, TlbTypeOK
<1>7. LoadInv'
  BY <1>3 DEF LoadInv
<1>8. MemInv' /\ TableInv'
  BY <1>0, <1>3 DEF TlbInv, MemInv, TableInv
<1>9. RootInv'
  BY <1>0, RootKept
<1> QED BY <1>4, <1>5, <1>6, <1>7, <1>8, <1>9 DEF TlbInv

LEMMA FreeInv ==
  ASSUME TlbInv, NEW p \in Pids, Free(p)
  PROVE  TlbInv'
<1>0. /\ mode = "user" /\ ld = NotLoading /\ freeing = 0 /\ life[p] = "ready" /\ freeing' = p
      /\ UNCHANGED <<translation, root, store, window, curr_vm_pid, page_info, life, ipc, run, mode, ld, mem>>
  BY DEF Free, InProcess, modeVars, winVars
<1>01. ld.pid = 0
  BY <1>0 DEF NotLoading
<1>1. TlbTypeOK' /\ PageInv' /\ ProcInv' /\ MemInv' /\ TableInv'
  BY <1>0, <1>01 DEF TlbInv, TlbTypeOK, PageInv, ProcInv, MemInv, TableInv
<1>11. OwnInv'
  BY <1>0, Consts DEF TlbInv, OwnInv
<1>2. LoadInv'
  BY <1>0 DEF LoadInv, NotLoading
<1>3. RootInv'
  BY <1>0, RootKept
<1> QED BY <1>1, <1>11, <1>2, <1>3 DEF TlbInv

LEMMA MmuFreeInv ==
  ASSUME TlbInv, mmu_free
  PROVE  TlbInv'
<1> DEFINE ks == {j \in Pages : Belongs(j, freeing)}
           k == LoopFirst(ks)
<1>0. /\ mode = "user" /\ freeing # 0 /\ freeing \in Pids /\ life[freeing] = "ready"
      /\ ld.pid = 0 /\ ld.step = "idle"
      /\ UNCHANGED <<translation, root, store, window, curr_vm_pid, ipc, run, mode, ld>>
      /\ TlbTypeOK /\ PageInv /\ ProcInv
  BY DEF mmu_free, InProcess, modeVars, winVars, TlbInv, TlbTypeOK, ProcInv
<1>1. ks = {j \in Pages : page_info[j].pid = freeing}
  BY <1>0, BelongsIsName
<1>2. LoadInv'
  BY <1>0 DEF LoadInv
<1>3. RootInv'
  BY <1>0, RootKept
<1>4. CASE ks = {}
  <2>1. life' = [life EXCEPT ![freeing] = "unused"] /\ freeing' = 0 /\ page_info' = page_info /\ mem' = mem
    BY <1>4 DEF mmu_free
  <2>2. /\ life' \in [Pids -> {"none", "loading", "ready", "unused"}]
        /\ \A q \in Pids : life'[q] = IF q = freeing THEN "unused" ELSE life[q]
    BY <1>0, <2>1 DEF TlbTypeOK
  <2>3. \A j \in Pages : page_info[j].pid # 0 =>
          page_info[j].pid \in Pids /\ page_info[j].pid # freeing
    BY <1>0, <1>1, <1>4 DEF TlbTypeOK, PageInfo
  <2> HIDE DEF ks
  <2>4. TlbTypeOK'
    BY <1>0, <2>1, <2>2 DEF TlbTypeOK
  <2>5. PageInv'
    BY <1>0, <2>1, <2>2, <2>3 DEF PageInv
  <2>6. ProcInv'
    BY <1>0, <2>1, <2>2 DEF TlbTypeOK, ProcInv
  <2>7. OwnInv'
    <3> SUFFICES ASSUME NEW p \in Pids, life[p] = "ready", p # freeing
                 PROVE  /\ \A j \in Pages : page_info[j].pid = p =>
                             \E m \in DOMAIN Plan[p] : page_info[j].vpage = Plan[p][m].vpage
                        /\ \A m \in DOMAIN Plan[p] : \E j \in Pages :
                             page_info[j].pid = p /\ page_info[j].vpage = Plan[p][m].vpage
      BY <2>1, <2>2 DEF OwnInv
    <3> QED BY DEF TlbInv, OwnInv
  <2>8. MemInv' /\ TableInv'
    BY <1>0, <2>1 DEF TlbInv, MemInv, TableInv
  <2> QED BY <1>2, <1>3, <2>4, <2>5, <2>6, <2>7, <2>8 DEF TlbInv
<1>5. CASE ks # {}
  <2> DEFINE v == page_info[k].vpage
  <2>1. /\ page_info' = [page_info EXCEPT ![k] = FreePage]
        /\ mem' = [mem EXCEPT ![freeing][v] = Junk] /\ life' = life /\ freeing' = freeing
    BY <1>5 DEF mmu_free
  <2>2. k \in ks
    BY <1>5, LoopFirstIsIn, Consts
  <2>3. k \in Pages /\ page_info[k].pid = freeing
    BY <1>1, <2>2
  <2> HIDE DEF k, ks
  <2>4. v \in Vpages
    BY <1>0, <2>3, Addressed
  <2> HIDE DEF v
  <2>5. Junk \in Cells
    BY DEF Junk, Cells
  <2>6. /\ mem' \in [Pids -> [Vpages -> Cells]]
        /\ \A p \in Pids, x \in Vpages : mem'[p][x] = IF p = freeing /\ x = v THEN Junk ELSE mem[p][x]
    BY <1>0, <2>1, <2>4, <2>5, MemUpdate, ZenonT(30)
  <2>7. FreePage \in PageInfo /\ FreePage.pid = 0 /\ FreePage.vpage = 0 /\ FreePage.use = FALSE
    BY DEF FreePage, PageInfo
  <2>8. /\ page_info' \in [Pages -> PageInfo]
        /\ \A j \in Pages : page_info'[j] = IF j = k THEN FreePage ELSE page_info[j]
    <3> HIDE DEF FreePage, PageInfo
    <3> QED BY <1>0, <2>1, <2>3, <2>7 DEF TlbTypeOK
  <2>9. TlbTypeOK'
    BY <1>0, <2>1, <2>6, <2>8 DEF TlbTypeOK
  <2>10. PageInv'
    BY <1>0, <2>1, <2>7, <2>8 DEF PageInv
  <2>11. ProcInv'
    BY <1>0, <2>1 DEF ProcInv
  <2>12. OwnInv'
    <3> SUFFICES ASSUME NEW p \in Pids, life[p] = "ready"
                 PROVE  /\ \A j \in Pages : page_info'[j].pid = p =>
                             \E m \in DOMAIN Plan[p] : page_info'[j].vpage = Plan[p][m].vpage
                        /\ p # freeing => \A m \in DOMAIN Plan[p] : \E j \in Pages :
                             page_info'[j].pid = p /\ page_info'[j].vpage = Plan[p][m].vpage
      BY <2>1 DEF OwnInv
    <3>1. /\ \A j \in Pages : page_info[j].pid = p =>
               \E m \in DOMAIN Plan[p] : page_info[j].vpage = Plan[p][m].vpage
          /\ p # freeing => \A m \in DOMAIN Plan[p] : \E j \in Pages :
               page_info[j].pid = p /\ page_info[j].vpage = Plan[p][m].vpage
      BY DEF TlbInv, OwnInv
    <3> QED BY <3>1, <2>3, <2>7, <2>8, Consts
  <2>13. MemInv'
    <3> SUFFICES ASSUME NEW j \in Pages, page_info'[j].vpage # 0
                 PROVE  mem'[page_info'[j].pid][page_info'[j].vpage] =
                         IF page_info'[j].pid = curr_vm_pid THEN window[page_info'[j].vpage] ELSE store[j]
      BY <1>0 DEF MemInv
    <3>1. j # k /\ page_info'[j] = page_info[j]
      BY <2>7, <2>8
    <3>2. page_info[j].pid \in Pids /\ page_info[j].vpage \in Vpages
      BY <1>0, <3>1 DEF TlbTypeOK, PageInfo, PageInv
    <3>3. ~(page_info[j].pid = freeing /\ page_info[j].vpage = v)
      BY <1>0, <2>3, <3>1 DEF PageInv, v
    <3>4. mem'[page_info[j].pid][page_info[j].vpage] = mem[page_info[j].pid][page_info[j].vpage]
      BY <2>6, <3>2, <3>3
    <3> QED BY <3>1, <3>4 DEF TlbInv, MemInv
  <2>14. TableInv'
    BY <1>0, <2>3, <2>7, <2>8 DEF TlbInv, TableInv
  <2> QED BY <1>2, <1>3, <2>9, <2>10, <2>11, <2>12, <2>13, <2>14 DEF TlbInv
<1> QED BY <1>4, <1>5

-----------------------------------------------------------------------------
(* Steps of elf_load.                                                      *)

\* Who loads whom.
LEMMA LoaderFacts ==
  ASSUME TlbInv, NEW step \in Steps, Loader(step), step \notin {"idle", "loaded"}
  PROVE  /\ mode \in {"boot", "user"} /\ ld.step = step
         /\ ld.pid \in Pids /\ ld.pid # 0 /\ ld.pid # curr_vm_pid /\ ld.page \in Pages
         /\ life[ld.pid] \in {"none", "loading"} /\ freeing = 0
         /\ ld.n \in 1..Len(Plan[ld.pid]) /\ Len(Plan[ld.pid]) \in Nat
         /\ Entry.vpage \in Vpages
         /\ \A m \in 1..(ld.n - 1) : Plan[ld.pid][m].vpage # Entry.vpage
         /\ \A k \in Pages : page_info[k].pid = ld.pid =>
              \/ k = ld.page /\ ld.step \in {"vpage"} \cup Fillings
              \/ \E m \in 1..(ld.n - 1) : page_info[k].vpage = Plan[ld.pid][m].vpage
<1>1. /\ mode \in {"boot", "user"} /\ ld.step = step /\ TlbTypeOK /\ ProcInv /\ LoadInv
  BY DEF Loader, TlbInv
<1>2. /\ ld.pid \in Pids /\ ld.pid # 0 /\ ld.page \in Pages
  BY <1>1 DEF TlbTypeOK, LoadState, ProcInv
<1>3. ld.pid # curr_vm_pid /\ life[ld.pid] \in {"none", "loading"} /\ freeing = 0
  BY <1>1, <1>2, Consts DEF ProcInv
<1>4. /\ ld.n \in 1..Len(Plan[ld.pid])
      /\ \A k \in Pages : page_info[k].pid = ld.pid =>
           \/ k = ld.page /\ ld.step \in {"vpage"} \cup Fillings
           \/ \E m \in 1..(ld.n - 1) : page_info[k].vpage = Plan[ld.pid][m].vpage
  BY <1>1, <1>2 DEF LoadInv
<1>5. /\ Len(Plan[ld.pid]) \in Nat /\ Plan[ld.pid][ld.n].vpage \in Vpages
      /\ \A m \in 1..(ld.n - 1) : Plan[ld.pid][m].vpage # Plan[ld.pid][ld.n].vpage
  BY <1>2, <1>4, PlanFacts
<1> QED BY <1>1, <1>2, <1>3, <1>4, <1>5 DEF Entry

\* elf_load goes on to the next page when this one is there and holds what it should.
LEMMA PageDone ==
  ASSUME TlbInv, Loader(ld.step), ld.step \in {"vpage"} \cup Fillings, mode' = mode, ld' = NextPage,
         \A j \in Pages : j # ld.page => page_info'[j] = page_info[j] /\ store'[j] = store[j],
         page_info'[ld.page].pid = ld.pid, page_info'[ld.page].vpage = Entry.vpage,
         Entry.fill = "zero" => store'[ld.page] = Loaded(ld.pid, Entry.vpage, Entry.blocks)
  PROVE  /\ ld' \in LoadState
         /\ ld'.pid = ld.pid /\ ld'.step \in {"alloc", "loaded"}
         /\ LoadInv'
<1> DEFINE p == ld.pid
           n == ld.n
<1>1. /\ mode \in {"boot", "user"} /\ p \in Pids /\ p # 0 /\ ld.page \in Pages
      /\ n \in 1..Len(Plan[p]) /\ Len(Plan[p]) \in Nat /\ Entry = Plan[p][n] /\ Entry.vpage \in Vpages
      /\ \A m \in 1..(n - 1) : Plan[p][m].vpage # Entry.vpage
      /\ \A k \in Pages : page_info[k].pid = p =>
           \/ k = ld.page
           \/ \E m \in 1..(n - 1) : page_info[k].vpage = Plan[p][m].vpage
  BY LoaderFacts DEF Steps, Fillings, Entry
<1>2. ld \in LoadState
  BY DEF TlbInv, TlbTypeOK
<1>3. /\ ld' \in LoadState
      /\ ld'.pid = p /\ ld'.n = n + 1 /\ ld'.off = 0
      /\ ld'.step = IF n = Len(Plan[p]) THEN "loaded" ELSE "alloc"
  <2> DEFINE to == IF n = Len(Plan[p]) THEN "loaded" ELSE "alloc"
  <2>1. to \in Steps
    BY DEF Steps
  <2>2. ld' = [ld EXCEPT !.n = @ + 1, !.off = 0, !.page = 0, !.step = to]
    BY DEF NextPage
  <2> HIDE DEF to, Steps
  <2>3. ld' = [pid |-> p, n |-> n + 1, step |-> to, page |-> 0, off |-> 0]
    BY <1>2, <2>2 DEF LoadState
  <2>4. p \in Pids \cup {0} /\ n + 1 \in Nat
    BY <1>2 DEF LoadState
  <2>5. ld' \in LoadState
    BY <2>1, <2>3, <2>4, Consts DEF LoadState
  <2> QED BY <2>3, <2>5 DEF to
<1>4. LoadedUpTo(p, n - 1)
  BY <1>1 DEF TlbInv, LoadInv, Fillings
<1>5. \A m \in 1..(n - 1) : ~(page_info[ld.page].vpage = Plan[p][m].vpage)
  <2>1. page_info[ld.page].vpage \in {0, Entry.vpage}
    BY <1>1 DEF TlbInv, LoadInv, Fillings, Marked
  <2>2. \A m \in 1..(n - 1) : Plan[p][m].vpage \in Vpages
    BY <1>1, PlanFacts
  <2> QED BY <1>1, <2>1, <2>2, Consts
<1>6. ASSUME NEW k \in Pages, page_info'[k].pid = p
      PROVE  \E m \in 1..n : page_info'[k].vpage = Plan[p][m].vpage
  BY <1>1, <1>6
<1>7. /\ ld'.n - 1 = n
      /\ ld'.step = "loaded" => ld'.n = Len(Plan[p]) + 1
      /\ ld'.step # "loaded" => ld'.n \in 1..Len(Plan[p])
  BY <1>1, <1>3
<1>8. ld'.step \in {"alloc", "loaded"}
  BY <1>3
<1>9. LoadedUpTo(ld.pid, ld.n - 1)'
  <2> SUFFICES ASSUME NEW m \in 1..n
               PROVE  \E k \in Pages :
                        /\ page_info'[k].pid = p /\ page_info'[k].vpage = Plan[p][m].vpage
                        /\ Plan[p][m].fill = "zero" =>
                             store'[k] = Loaded(p, Plan[p][m].vpage, Plan[p][m].blocks)
    BY <1>3, <1>7 DEF LoadedUpTo
  <2>1. CASE m = n
    BY <1>1, <2>1
  <2>2. CASE m # n
    <3>1. m \in 1..(n - 1)
      BY <1>1, <2>2
    <3>2. PICK k \in Pages : /\ page_info[k].pid = p /\ page_info[k].vpage = Plan[p][m].vpage
                             /\ Plan[p][m].fill = "zero" =>
                                  store[k] = Loaded(p, Plan[p][m].vpage, Plan[p][m].blocks)
      BY <1>4, <3>1 DEF LoadedUpTo
    <3>3. k # ld.page
      BY <1>5, <3>1, <3>2
    <3> QED BY <3>2, <3>3
  <2> QED BY <2>1, <2>2
<1>10. LoadInv'
  <2>1. ld'.step \notin {"pid", "vpage", "clear", "read", "args"}
    BY <1>8
  <2>2. \A k \in Pages : page_info'[k].pid = ld'.pid =>
          \E m \in 1..(ld'.n - 1) : page_info'[k].vpage = Plan[ld'.pid][m].vpage
    BY <1>3, <1>6, <1>7
  <2>3. /\ ld'.off = 0
        /\ ld'.step = "loaded" => ld'.n = Len(Plan[ld'.pid]) + 1
        /\ ld'.step # "loaded" => ld'.n \in 1..Len(Plan[ld'.pid])
    BY <1>3, <1>7
  <2> HIDE DEF p, n
  <2> QED BY <1>9, <2>1, <2>2, <2>3 DEF LoadInv, Fillings
<1> QED BY <1>3, <1>8, <1>10

\* A page is taken: it is in use, without a name.
LEMMA AllocInv ==
  ASSUME TlbInv, mmu_alloc
  PROVE  TlbInv'
<1>1. CASE FreePages = {}
  BY <1>1, FatalInv DEF mmu_alloc
<1>2. CASE FreePages # {}
  <2> DEFINE k == LoopFirst(FreePages)
  <2>0. /\ page_info' = [page_info EXCEPT ![k].use = TRUE]
        /\ ld' = [ld EXCEPT !.page = k, !.step = "pid"]
        /\ UNCHANGED <<translation, root, store, window, curr_vm_pid, life, ipc, run, freeing, mode, mem>>
        /\ TlbTypeOK /\ PageInv /\ ProcInv /\ Loader("alloc")
    BY <1>2 DEF mmu_alloc, modeVars, winVars, procVars, TlbInv
  <2>1. k \in Pages /\ ~page_info[k].use
    <3>1. k \in FreePages
      BY <1>2, LoopFirstIsIn, Consts DEF FreePages
    <3> QED BY <3>1 DEF FreePages
  <2> HIDE DEF k
  <2>2. page_info[k] = FreePage
    BY <2>0, <2>1 DEF PageInv
  <2>3. /\ mode \in {"boot", "user"} /\ ld.step = "alloc" /\ ld.pid \in Pids /\ ld.pid # 0
        /\ ld.n \in 1..Len(Plan[ld.pid])
        /\ \A j \in Pages : page_info[j].pid = ld.pid =>
             \E m \in 1..(ld.n - 1) : page_info[j].vpage = Plan[ld.pid][m].vpage
    BY <2>0, LoaderFacts DEF Steps, Fillings
  <2>4. ld' \in LoadState /\ ld'.pid = ld.pid /\ ld'.n = ld.n /\ ld'.off = ld.off /\ ld'.page = k /\ ld'.step = "pid"
    BY <2>0, <2>1 DEF TlbTypeOK, LoadState, Steps
  <2>5. /\ page_info' \in [Pages -> PageInfo] /\ page_info'[k].use
        /\ page_info'[k].pid = page_info[k].pid /\ page_info'[k].vpage = page_info[k].vpage
        /\ \A j \in Pages : j # k => page_info'[j] = page_info[j]
    BY <2>0, <2>1, StoreUse
  <2>6. /\ \A j \in Pages : page_info'[j].pid = page_info[j].pid /\ page_info'[j].vpage = page_info[j].vpage
        /\ \A j \in Pages : j # k => (page_info'[j].use <=> page_info[j].use)
        /\ page_info'[k].use /\ page_info'[k].pid = 0 /\ page_info'[k].vpage = 0
    BY <2>2, <2>5 DEF FreePage
  <2>7. TlbTypeOK'
    BY <2>0, <2>4, <2>5 DEF TlbTypeOK
  <2>8. PageInv'
    BY <2>0, <2>3, <2>4, <2>5, <2>6 DEF PageInv
  <2>9. ProcInv'
    BY <2>0, <2>3, <2>4, Consts DEF ProcInv
  <2>10. LoadInv'
    <3>1. LoadedUpTo(ld.pid, ld.n - 1)
      BY <2>3 DEF TlbInv, LoadInv
    <3>2. LoadedUpTo(ld.pid, ld.n - 1)'
      BY <2>0, <2>4, <2>6, <3>1 DEF LoadedUpTo
    <3>3. ld.off = 0
      BY <2>3 DEF TlbInv, LoadInv
    <3>4. \A j \in Pages : page_info'[j].pid = ld.pid =>
             \E m \in 1..(ld.n - 1) : page_info'[j].vpage = Plan[ld.pid][m].vpage
      BY <2>3, <2>6
    <3> QED BY <2>3, <2>4, <2>6, <3>2, <3>3, <3>4 DEF LoadInv, Fillings, Marked
  <2>11. OwnInv'
    BY <2>0, <2>6 DEF TlbInv, OwnInv
  <2>12. MemInv'
    BY <2>0, <2>6 DEF TlbInv, MemInv
  <2>13. TableInv'
    BY <2>0, <2>1, <2>3, <2>4, <2>6 DEF TlbInv, TableInv
  <2>14. RootInv'
    BY <2>0, <2>3, RootKept
  <2> QED BY <2>7, <2>8, <2>9, <2>10, <2>11, <2>12, <2>13, <2>14 DEF TlbInv
<1> QED BY <1>1, <1>2

\* It gets its name: from now on it belongs to the new process, without an address.
LEMMA MapPidInv ==
  ASSUME TlbInv, MapPid
  PROVE  TlbInv'
<1>1. CASE translation = "PAGE_TABLE" /\ ld.pid >= PT_MAX_NPROCESS
  BY <1>1, FatalInv DEF MapPid
<1>2. CASE ~(translation = "PAGE_TABLE" /\ ld.pid >= PT_MAX_NPROCESS)
  <2> DEFINE k == ld.page
  <2>0. /\ page_info' = [page_info EXCEPT ![k].pid = ld.pid]
        /\ ld' = [ld EXCEPT !.step = "vpage"]
        /\ UNCHANGED <<translation, root, store, window, curr_vm_pid, life, ipc, run, freeing, mode, mem>>
        /\ TlbTypeOK /\ PageInv /\ ProcInv /\ Loader("pid")
    BY <1>2 DEF MapPid, modeVars, winVars, procVars, TlbInv
  <2>1. /\ mode \in {"boot", "user"} /\ ld.step = "pid" /\ ld.pid \in Pids /\ ld.pid # 0 /\ k \in Pages
        /\ ld.n \in 1..Len(Plan[ld.pid]) /\ life[ld.pid] # "ready"
        /\ \A j \in Pages : page_info[j].pid = ld.pid =>
             \E m \in 1..(ld.n - 1) : page_info[j].vpage = Plan[ld.pid][m].vpage
    BY <2>0, LoaderFacts DEF Steps, Fillings
  <2>2. page_info[k].use /\ page_info[k].pid = 0 /\ page_info[k].vpage = 0
    BY <2>1 DEF TlbInv, LoadInv, Marked
  <2>3. ld' \in LoadState /\ ld'.pid = ld.pid /\ ld'.n = ld.n /\ ld'.off = ld.off /\ ld'.page = k /\ ld'.step = "vpage"
    BY <2>0 DEF TlbTypeOK, LoadState, Steps
  <2>4. /\ page_info' \in [Pages -> PageInfo]
        /\ page_info'[k].use /\ page_info'[k].pid = ld.pid /\ page_info'[k].vpage = 0
        /\ \A j \in Pages : j # k => page_info'[j] = page_info[j]
    BY <2>0, <2>1, <2>2, StorePid
  <2>5. /\ \A j \in Pages : j # k => page_info'[j] = page_info[j]
        /\ page_info'[k].use /\ page_info'[k].pid = ld.pid /\ page_info'[k].vpage = 0
        /\ page_info[k].use /\ page_info[k].pid = 0 /\ page_info[k].vpage = 0
    BY <2>2, <2>4
  <2>6. TlbTypeOK'
    BY <2>0, <2>3, <2>4 DEF TlbTypeOK
  <2>7. PageInv'
    BY <2>0, <2>1, <2>3, <2>5 DEF PageInv
  <2>8. ProcInv'
    BY <2>0, <2>1, <2>3, Consts DEF ProcInv
  <2>9. LoadInv'
    <3>1. LoadedUpTo(ld.pid, ld.n - 1) /\ ld.off = 0
      BY <2>1 DEF TlbInv, LoadInv
    <3>2. \A j \in Pages : page_info[j].pid = ld.pid => j # k
      BY <2>1, <2>5
    <3>3. LoadedUpTo(ld.pid, ld.n - 1)'
      BY <2>0, <2>3, <2>5, <3>1, <3>2 DEF LoadedUpTo
    <3>4. \A j \in Pages : page_info'[j].pid = ld.pid =>
             j = k \/ \E m \in 1..(ld.n - 1) : page_info'[j].vpage = Plan[ld.pid][m].vpage
      BY <2>1, <2>5
    <3> QED BY <2>1, <2>3, <2>5, <3>1, <3>3, <3>4 DEF LoadInv, Fillings, Marked
  <2>10. OwnInv'
    <3> SUFFICES ASSUME NEW p \in Pids, life[p] = "ready"
                 PROVE  /\ \A j \in Pages : page_info'[j].pid = p =>
                             \E m \in DOMAIN Plan[p] : page_info'[j].vpage = Plan[p][m].vpage
                        /\ p # freeing => \A m \in DOMAIN Plan[p] : \E j \in Pages :
                             page_info'[j].pid = p /\ page_info'[j].vpage = Plan[p][m].vpage
      BY <2>0 DEF OwnInv
    <3>1. \A j \in Pages : page_info[j].pid = p \/ page_info'[j].pid = p => page_info'[j] = page_info[j]
      BY <2>1, <2>5, Consts
    <3> QED BY <3>1 DEF TlbInv, OwnInv
  <2>11. MemInv'
    <3>1. \A j \in Pages : page_info'[j].vpage # 0 => page_info'[j] = page_info[j]
      BY <2>5
    <3> QED BY <2>0, <3>1 DEF TlbInv, MemInv
  <2>12. TableInv'
    BY <2>0, <2>1, <2>3, <2>5 DEF TlbInv, TableInv
  <2>13. RootInv'
    BY <2>0, <2>1, RootKept
  <2> QED BY <2>6, <2>7, <2>8, <2>9, <2>10, <2>11, <2>12, <2>13 DEF TlbInv
<1> QED BY <1>1, <1>2

\* It gets its address: what it holds is now part of the new process's memory.
LEMMA MapVpageInv ==
  ASSUME TlbInv, MapVpage
  PROVE  TlbInv'
<1> DEFINE k == ld.page
           v == Entry.vpage
<1>0. /\ page_info' = [page_info EXCEPT ![k].vpage = v]
      /\ mem' = [mem EXCEPT ![ld.pid][v] = store[k]]
      /\ \/ Entry.fill = "zero" /\ ld' = [ld EXCEPT !.step = "clear"]
         \/ Entry.fill = "args" /\ ld' = [ld EXCEPT !.step = "args"]
         \/ Entry.fill # "zero" /\ ld' = NextPage
      /\ UNCHANGED <<translation, root, store, window, curr_vm_pid, life, ipc, run, freeing, mode>>
      /\ TlbTypeOK /\ PageInv /\ ProcInv /\ Loader("vpage")
  BY DEF MapVpage, modeVars, winVars, procVars, TlbInv
<1>1. /\ mode \in {"boot", "user"} /\ ld.step = "vpage" /\ ld.pid \in Pids /\ ld.pid # 0 /\ k \in Pages
      /\ ld.n \in 1..Len(Plan[ld.pid]) /\ life[ld.pid] # "ready" /\ v \in Vpages /\ ld.pid # curr_vm_pid
      /\ \A m \in 1..(ld.n - 1) : Plan[ld.pid][m].vpage # v
      /\ \A j \in Pages : page_info[j].pid = ld.pid =>
           j = k \/ \E m \in 1..(ld.n - 1) : page_info[j].vpage = Plan[ld.pid][m].vpage
  BY <1>0, LoaderFacts DEF Steps
<1>2. page_info[k].use /\ page_info[k].pid = ld.pid /\ page_info[k].vpage = 0
  BY <1>1 DEF TlbInv, LoadInv, Marked
<1> HIDE DEF v
<1>3. /\ page_info' \in [Pages -> PageInfo]
      /\ page_info'[k].use /\ page_info'[k].pid = ld.pid /\ page_info'[k].vpage = v
      /\ \A j \in Pages : j # k => page_info'[j] = page_info[j]
  <2>1. /\ TlbTypeOK /\ k \in Pages /\ v \in Vpages
        /\ page_info' = [page_info EXCEPT ![k].vpage = v]
    BY <1>0, <1>1
  <2>2. /\ page_info' \in [Pages -> PageInfo]
        /\ page_info'[k].use <=> page_info[k].use
        /\ page_info'[k].pid = page_info[k].pid /\ page_info'[k].vpage = v
        /\ \A j \in Pages : j # k => page_info'[j] = page_info[j]
    BY ONLY <2>1, StoreVpage
  <2> QED BY <1>2, <2>2
<1>4. /\ page_info'[k].use /\ page_info'[k].pid = ld.pid /\ page_info'[k].vpage = v
      /\ page_info[k].use /\ page_info[k].pid = ld.pid /\ page_info[k].vpage = 0
  BY <1>2, <1>3
<1>5. \A j \in Pages : j # k /\ page_info[j].pid = ld.pid => page_info[j].vpage # v
  BY <1>1
<1>6. store[k] \in Cells
  BY <1>0, <1>1 DEF TlbTypeOK
<1>7. /\ mem' \in [Pids -> [Vpages -> Cells]]
      /\ \A p \in Pids, x \in Vpages : mem'[p][x] = IF p = ld.pid /\ x = v THEN store[k] ELSE mem[p][x]
  <2>1. PICK q \in Pids, c \in Cells : q = ld.pid /\ c = store[k]
    BY <1>0, <1>1, <1>6
  <2>2. TlbTypeOK /\ q \in Pids /\ v \in Vpages /\ c \in Cells /\ mem' = [mem EXCEPT ![q][v] = c]
    BY <2>1, <1>0, <1>1
  <2>3. /\ mem' \in [Pids -> [Vpages -> Cells]]
        /\ \A p \in Pids, x \in Vpages : mem'[p][x] = IF p = q /\ x = v THEN c ELSE mem[p][x]
    BY ONLY <2>2, MemUpdate, ZenonT(30)
  <2> QED BY <2>1, <2>3
<1>8. ld' \in LoadState /\ ld'.pid = ld.pid /\ ld'.step \in {"clear", "args", "alloc", "loaded"} /\ LoadInv'
  <2>1. CASE ld' = NextPage /\ Entry.fill # "zero"
    BY <2>1, <1>0, <1>1, <1>3, PageDone DEF v
  <2>2. CASE \/ Entry.fill = "zero" /\ ld' = [ld EXCEPT !.step = "clear"]
             \/ Entry.fill = "args" /\ ld' = [ld EXCEPT !.step = "args"]
    <3>1. /\ ld' \in LoadState /\ ld'.pid = ld.pid /\ ld'.n = ld.n /\ ld'.off = ld.off /\ ld'.page = k
          /\ \/ Entry.fill = "zero" /\ ld'.step = "clear"
             \/ Entry.fill = "args" /\ ld'.step = "args"
      BY <1>0, <2>2 DEF TlbTypeOK, LoadState, Steps, Fillings
    <3>2. LoadedUpTo(ld.pid, ld.n - 1) /\ ld.off = 0
      BY <1>1 DEF TlbInv, LoadInv
    <3>3. \A m \in 1..(ld.n - 1) : Plan[ld.pid][m].vpage # 0
      <4>1. \A m \in 1..(ld.n - 1) : m \in 1..Len(Plan[ld.pid])
        BY <1>1, PlanFacts
      <4> QED BY <4>1, <1>1, PlanFacts, Consts
    <3>4. LoadedUpTo(ld.pid, ld.n - 1)'
      <4> SUFFICES ASSUME NEW m \in 1..(ld.n - 1)
                   PROVE  \E j \in Pages :
                            /\ page_info'[j].pid = ld.pid /\ page_info'[j].vpage = Plan[ld.pid][m].vpage
                            /\ Plan[ld.pid][m].fill = "zero" =>
                                 store[j] = Loaded(ld.pid, Plan[ld.pid][m].vpage, Plan[ld.pid][m].blocks)
        BY <1>0, <3>1 DEF LoadedUpTo
      <4>1. PICK j \in Pages :
              /\ page_info[j].pid = ld.pid /\ page_info[j].vpage = Plan[ld.pid][m].vpage
              /\ Plan[ld.pid][m].fill = "zero" =>
                   store[j] = Loaded(ld.pid, Plan[ld.pid][m].vpage, Plan[ld.pid][m].blocks)
        BY <3>2 DEF LoadedUpTo
      <4>2. j # k
        BY <4>1, <3>3, <1>4
      <4> QED BY <4>1, <4>2, <1>3
    <3>5. \A j \in Pages : page_info'[j].pid = ld.pid =>
            j = k \/ \E m \in 1..(ld.n - 1) : page_info'[j].vpage = Plan[ld.pid][m].vpage
      BY <1>1, <1>3
    <3>6. Entry' = Entry /\ page_info'[k].use /\ page_info'[k].pid = ld.pid /\ page_info'[k].vpage = Entry.vpage
      BY <3>1, <1>3 DEF Entry, v
    <3>7. ld'.step \in {"clear", "args"}
      BY <3>1
    <3>8. LoadInv'
      BY <1>1, <3>1, <3>2, <3>4, <3>5, <3>6, <3>7 DEF LoadInv, Fillings, Marked
    <3> QED BY <3>1, <3>7, <3>8
  <2> QED BY <1>0, <2>1, <2>2
<1>9. TlbTypeOK'
  BY <1>0, <1>3, <1>7, <1>8 DEF TlbTypeOK
<1>10. PageInv'
  <2>1. \A j \in Pages : page_info'[j].pid = page_info[j].pid /\ (page_info'[j].use <=> page_info[j].use)
    BY <1>3, <1>4
  <2>2. \A j \in Pages : page_info[j].pid # 0 /\ j # k => page_info[j].vpage # 0
    BY <1>0 DEF PageInv
  <2>3. \A i, j \in Pages :
          /\ page_info'[i].pid # 0 /\ page_info'[i].pid = page_info'[j].pid
          /\ page_info'[i].vpage = page_info'[j].vpage
          => i = j
    BY <1>0, <1>3, <1>4, <1>5 DEF PageInv
  <2>4. ASSUME NEW j \in Pages
        PROVE  /\ ~page_info'[j].use => page_info'[j] = FreePage
               /\ page_info'[j].pid = 0 => page_info'[j].vpage = 0
               /\ page_info'[j].pid # 0 =>
                    page_info'[j].pid = ld'.pid \/ life'[page_info'[j].pid] = "ready"
               /\ ~(page_info'[j].pid # 0 /\ page_info'[j].vpage = 0)
    BY <1>0, <1>1, <1>3, <1>4, <1>8, <2>1, <2>2, Consts DEF PageInv
  <2> QED BY <2>3, <2>4 DEF PageInv
<1>11. ProcInv'
  BY <1>0, <1>1, <1>8 DEF ProcInv
<1>12. OwnInv'
  <2> SUFFICES ASSUME NEW p \in Pids, life[p] = "ready"
               PROVE  /\ \A j \in Pages : page_info'[j].pid = p =>
                           \E m \in DOMAIN Plan[p] : page_info'[j].vpage = Plan[p][m].vpage
                      /\ p # freeing => \A m \in DOMAIN Plan[p] : \E j \in Pages :
                           page_info'[j].pid = p /\ page_info'[j].vpage = Plan[p][m].vpage
    BY <1>0 DEF OwnInv
  <2>1. \A j \in Pages : page_info[j].pid = p \/ page_info'[j].pid = p => page_info'[j] = page_info[j]
    BY <1>1, <1>3, <1>4
  <2> QED BY <2>1 DEF TlbInv, OwnInv
<1>13. MemInv'
  <2> SUFFICES ASSUME NEW j \in Pages, page_info'[j].vpage # 0
               PROVE  mem'[page_info'[j].pid][page_info'[j].vpage] =
                       IF page_info'[j].pid = curr_vm_pid THEN window[page_info'[j].vpage] ELSE store[j]
    BY <1>0 DEF MemInv
  <2>1. CASE j = k
    BY <2>1, <1>1, <1>4, <1>7
  <2>2. CASE j # k
    <3>1. page_info'[j] = page_info[j]
      BY <2>2, <1>3
    <3>2. page_info[j].pid \in Pids /\ page_info[j].vpage \in Vpages
      BY <1>0, <3>1 DEF TlbTypeOK, PageInfo, PageInv
    <3>3. mem'[page_info[j].pid][page_info[j].vpage] = mem[page_info[j].pid][page_info[j].vpage]
      BY <1>5, <1>7, <2>2, <3>2
    <3> QED BY <3>1, <3>3 DEF TlbInv, MemInv
  <2> QED BY <2>1, <2>2
<1>14. TableInv'
  <2>1. \A j \in Pages : page_info'[j].pid = page_info[j].pid /\ (page_info'[j].use <=> page_info[j].use)
    BY <1>3, <1>4
  <2> QED BY <1>0, <1>1, <1>8, <2>1 DEF TlbInv, TableInv
<1>15. RootInv'
  BY <1>0, <1>1, RootKept
<1> QED BY <1>8, <1>9, <1>10, <1>11, <1>12, <1>13, <1>14, <1>15 DEF TlbInv

\* Another block of the page is still to be read.
LEMMA PageGoesOn ==
  ASSUME TlbInv, Loader(ld.step), ld.step \in {"clear", "read"}, mode' = mode, page_info' = page_info,
         ld'.pid = ld.pid, ld'.n = ld.n, ld'.page = ld.page, ld'.step = "read",
         \A j \in Pages : j # ld.page => store'[j] = store[j],
         store'[ld.page] = Loaded(ld.pid, Entry.vpage, ld'.off)
  PROVE  LoadInv'
<1>1. /\ mode \in {"boot", "user"} /\ ld.pid \in Pids /\ ld.pid # 0 /\ ld.page \in Pages
      /\ ld.n \in 1..Len(Plan[ld.pid])
      /\ \A m \in 1..(ld.n - 1) : Plan[ld.pid][m].vpage # Entry.vpage
      /\ \A k \in Pages : page_info[k].pid = ld.pid =>
           k = ld.page \/ \E m \in 1..(ld.n - 1) : page_info[k].vpage = Plan[ld.pid][m].vpage
  BY LoaderFacts DEF Steps, Fillings
<1>2. Marked(ld.page, ld.pid, Entry.vpage) /\ Entry.fill = "zero" /\ LoadedUpTo(ld.pid, ld.n - 1)
  BY <1>1 DEF TlbInv, LoadInv, Fillings
<1>3. Entry' = Entry
  BY DEF Entry
<1>4. LoadedUpTo(ld.pid, ld.n - 1)'
  <2> SUFFICES ASSUME NEW m \in 1..(ld.n - 1)
               PROVE  \E j \in Pages :
                        /\ page_info[j].pid = ld.pid /\ page_info[j].vpage = Plan[ld.pid][m].vpage
                        /\ Plan[ld.pid][m].fill = "zero" =>
                             store'[j] = Loaded(ld.pid, Plan[ld.pid][m].vpage, Plan[ld.pid][m].blocks)
    BY DEF LoadedUpTo
  <2>1. PICK j \in Pages :
          /\ page_info[j].pid = ld.pid /\ page_info[j].vpage = Plan[ld.pid][m].vpage
          /\ Plan[ld.pid][m].fill = "zero" =>
               store[j] = Loaded(ld.pid, Plan[ld.pid][m].vpage, Plan[ld.pid][m].blocks)
    BY <1>2 DEF LoadedUpTo
  <2>2. j # ld.page
    BY <1>1, <1>2, <2>1 DEF Marked
  <2> QED BY <2>1, <2>2
<1> QED BY <1>1, <1>2, <1>3, <1>4 DEF LoadInv, Fillings, Marked

\* A store of elf_load to the page it is filling.
LEMMA FillInv ==
  ASSUME TlbInv, Loader(ld.step), ld.step \in Fillings,
         NEW data \in Cells, ~IsTable(data), Fill(data),
         ld' \in LoadState, ld'.pid = ld.pid, ld'.step \in {"alloc", "loaded", "read"}, LoadInv'
  PROVE  TlbInv'
<1> DEFINE k == ld.page
           v == Entry.vpage
<1>0. /\ store' = [store EXCEPT ![k] = data] /\ mem' = [mem EXCEPT ![ld.pid][v] = data]
      /\ UNCHANGED <<translation, root, window, curr_vm_pid, page_info, life, ipc, run, freeing, mode>>
      /\ TlbTypeOK /\ PageInv /\ ProcInv
  BY DEF Fill, modeVars, procVars, TlbInv
<1>1. /\ mode \in {"boot", "user"} /\ ld.pid \in Pids /\ ld.pid # 0 /\ k \in Pages
      /\ v \in Vpages /\ ld.pid # curr_vm_pid
  BY LoaderFacts DEF Steps, Fillings
<1>2. page_info[k].use /\ page_info[k].pid = ld.pid /\ page_info[k].vpage = v
  BY <1>1 DEF TlbInv, LoadInv, Fillings, Marked
<1> HIDE DEF k, v
<1>3. store' \in [Pages -> Cells] /\ \A j \in Pages : store'[j] = IF j = k THEN data ELSE store[j]
  <2> HIDE DEF Cells
  <2> QED BY <1>0, <1>1 DEF TlbTypeOK
<1>4. /\ mem' \in [Pids -> [Vpages -> Cells]]
      /\ \A p \in Pids, x \in Vpages : mem'[p][x] = IF p = ld.pid /\ x = v THEN data ELSE mem[p][x]
  <2>1. PICK q \in Pids, c \in Cells : q = ld.pid /\ c = data
    BY <1>0, <1>1
  <2>2. TlbTypeOK /\ q \in Pids /\ v \in Vpages /\ c \in Cells /\ mem' = [mem EXCEPT ![q][v] = c]
    BY <2>1, <1>0, <1>1
  <2>3. /\ mem' \in [Pids -> [Vpages -> Cells]]
        /\ \A p \in Pids, x \in Vpages : mem'[p][x] = IF p = q /\ x = v THEN c ELSE mem[p][x]
    BY ONLY <2>2, MemUpdate, ZenonT(30)
  <2> QED BY <2>1, <2>3
<1>5. TlbTypeOK'
  BY <1>0, <1>3, <1>4 DEF TlbTypeOK
<1>6. PageInv'
  BY <1>0 DEF PageInv, Fillings
<1>7. ProcInv'
  BY <1>0, <1>1 DEF ProcInv
<1>8. OwnInv'
  BY <1>0 DEF TlbInv, OwnInv
<1>9. MemInv'
  <2> SUFFICES ASSUME NEW j \in Pages, page_info[j].vpage # 0
               PROVE  mem'[page_info[j].pid][page_info[j].vpage] =
                       IF page_info[j].pid = curr_vm_pid THEN window[page_info[j].vpage] ELSE store'[j]
    BY <1>0 DEF MemInv
  <2>1. CASE j = k
    BY <2>1, <1>1, <1>2, <1>3, <1>4
  <2>2. CASE j # k
    <3>1. page_info[j].pid \in Pids /\ page_info[j].vpage \in Vpages
      BY <1>0 DEF TlbTypeOK, PageInfo, PageInv
    <3>2. ~(page_info[j].pid = ld.pid /\ page_info[j].vpage = v)
      BY <1>0, <1>1, <1>2, <2>2 DEF PageInv
    <3>3. mem'[page_info[j].pid][page_info[j].vpage] = mem[page_info[j].pid][page_info[j].vpage]
      BY <1>4, <3>1, <3>2
    <3> QED BY <1>3, <2>2, <3>3 DEF TlbInv, MemInv
  <2> QED BY <2>1, <2>2
<1>10. TableInv'
  BY <1>0, <1>1, <1>2, <1>3 DEF TlbInv, TableInv, Fillings
<1>11. RootInv'
  <2>1. ~IsTable(store[k])
    BY <1>1, <1>2 DEF TlbInv, TableInv
  <2>2. \A j \in Pages : IsTable(store[j]) \/ IsTable(store'[j]) => store'[j] = store[j]
    BY <1>3, <2>1
  <2> QED BY <1>0, <1>1, <2>2, RootKept
<1> QED BY <1>5, <1>6, <1>7, <1>8, <1>9, <1>10, <1>11 DEF TlbInv

LEMMA LoadedIsData ==
  ASSUME NEW p \in Pids, NEW v \in Vpages, NEW n \in Nat
  PROVE  /\ Loaded(p, v, n) \in Cells /\ ~IsTable(Loaded(p, v, n))
         /\ Written("args", p, v) \in Cells /\ ~IsTable(Written("args", p, v))
BY Consts DEF Loaded, Written, Cells, IsTable

\* The three ways of filling a page.
LEMMA FillingInv == TlbInv /\ (ClearPage \/ CopyBlock \/ SetArgs) => TlbInv'
<1> DEFINE k == ld.page
           v == Entry.vpage
<1>0. ASSUME TlbInv, Loader(ld.step), ld.step \in Fillings, NEW data \in Cells, Fill(data)
      PROVE  /\ page_info' = page_info /\ mode' = mode /\ k \in Pages
             /\ page_info[k].pid = ld.pid /\ page_info[k].vpage = v
             /\ store'[k] = data /\ \A j \in Pages : j # k => store'[j] = store[j]
  <2>1. k \in Pages /\ Marked(k, ld.pid, v) /\ store \in [Pages -> Cells]
    BY <1>0, LoaderFacts DEF Steps, Fillings, TlbInv, LoadInv, TlbTypeOK
  <2> HIDE DEF Cells
  <2> QED BY <1>0, <2>1 DEF Fill, Marked
<1>01. ASSUME TlbInv, Loader(ld.step), ld.step \in Fillings
       PROVE  /\ ld.pid \in Pids /\ v \in Vpages /\ ld \in LoadState /\ ld.off \in Nat
              /\ ld.step # "read" => ld.off = 0
  <2>1. ld \in LoadState /\ ld.off \in Nat
    BY <1>01 DEF TlbInv, TlbTypeOK, LoadState
  <2>2. ld.pid \in Pids /\ ld.pid # 0 /\ v \in Vpages
    BY <1>01, LoaderFacts DEF Steps, Fillings
  <2>3. ld.step # "read" => ld.off = 0
    BY <1>01, <2>2 DEF TlbInv, LoadInv, Fillings
  <2> QED BY <2>1, <2>2, <2>3
<1>1. ASSUME TlbInv, ClearPage PROVE TlbInv'
  <2>0. Loader(ld.step) /\ ld.step = "clear" /\ ld.step \in Fillings
    BY <1>1 DEF ClearPage, Loader, Fillings
  <2> DEFINE data == Loaded(ld.pid, Entry.vpage, 0)
  <2>1. data \in Cells /\ ~IsTable(data) /\ Fill(data)
    BY <1>1, <1>01, <2>0, LoadedIsData DEF ClearPage
  <2>2. /\ page_info' = page_info /\ mode' = mode /\ k \in Pages
        /\ page_info[k].pid = ld.pid /\ page_info[k].vpage = v
        /\ store'[k] = data /\ \A j \in Pages : j # k => store'[j] = store[j]
    BY <1>0, <1>1, <2>0, <2>1
  <2>3. CASE Entry.blocks = 0 /\ ld' = NextPage
    BY <1>1, <2>0, <2>1, <2>2, <2>3, PageDone, FillInv
  <2>4. CASE ld' = [ld EXCEPT !.step = "read"]
    <3>1. /\ ld' \in LoadState /\ ld'.pid = ld.pid /\ ld'.n = ld.n /\ ld'.page = ld.page
          /\ ld'.step = "read" /\ ld'.off = 0
      BY <1>01, <1>1, <2>0, <2>4 DEF LoadState, Steps, Fillings
    <3> QED BY <1>1, <2>0, <2>1, <2>2, <3>1, PageGoesOn, FillInv
  <2> QED BY <1>1, <2>3, <2>4 DEF ClearPage
<1>2. ASSUME TlbInv, CopyBlock PROVE TlbInv'
  <2>0. Loader(ld.step) /\ ld.step = "read" /\ ld.step \in Fillings
    BY <1>2 DEF CopyBlock, Loader, Fillings
  <2> DEFINE data == Loaded(ld.pid, Entry.vpage, ld.off + 1)
  <2>1. data \in Cells /\ ~IsTable(data) /\ Fill(data)
    BY <1>2, <1>01, <2>0, LoadedIsData DEF CopyBlock
  <2>2. /\ page_info' = page_info /\ mode' = mode /\ k \in Pages
        /\ page_info[k].pid = ld.pid /\ page_info[k].vpage = v
        /\ store'[k] = data /\ \A j \in Pages : j # k => store'[j] = store[j]
    BY <1>0, <1>2, <2>0, <2>1
  <2>3. CASE ld.off + 1 = Entry.blocks /\ ld' = NextPage
    BY <1>2, <2>0, <2>1, <2>2, <2>3, PageDone, FillInv
  <2>4. CASE ld' = [ld EXCEPT !.off = @ + 1]
    <3>1. /\ ld' \in LoadState /\ ld'.pid = ld.pid /\ ld'.n = ld.n /\ ld'.page = ld.page
          /\ ld'.step = "read" /\ ld'.off = ld.off + 1
      BY <1>01, <1>2, <2>0, <2>4 DEF LoadState
    <3> QED BY <1>2, <2>0, <2>1, <2>2, <3>1, PageGoesOn, FillInv
  <2> QED BY <1>2, <2>3, <2>4 DEF CopyBlock
<1>3. ASSUME TlbInv, SetArgs PROVE TlbInv'
  <2>0. Loader(ld.step) /\ ld.step = "args" /\ ld.step \in Fillings
    BY <1>3 DEF SetArgs, Loader, Fillings
  <2> DEFINE data == Written("args", ld.pid, Entry.vpage)
  <2>1. data \in Cells /\ ~IsTable(data) /\ Fill(data) /\ ld' = NextPage
    BY <1>3, <1>01, <2>0, LoadedIsData DEF SetArgs
  <2>2. /\ page_info' = page_info /\ mode' = mode /\ k \in Pages
        /\ page_info[k].pid = ld.pid /\ page_info[k].vpage = v
        /\ store'[k] = data /\ \A j \in Pages : j # k => store'[j] = store[j]
    BY <1>0, <1>3, <2>0, <2>1
  <2>3. Entry.fill = "args"
    BY <1>3, <2>0, LoaderFacts DEF TlbInv, LoadInv, Steps, Fillings
  <2> QED BY <1>3, <2>0, <2>1, <2>2, <2>3, PageDone, FillInv
<1> QED BY <1>1, <1>2, <1>3

-----------------------------------------------------------------------------
(* The page tables, and the initial state.                                 *)

LEMMA RegionFacts ==
  ASSUME NEW m \in DOMAIN Regions
  PROVE  Regions[m].vpn1 \in Nat /\ Entries(Regions[m]) \subseteq Nat
<1>1. Regions[m] \in Region
  BY SoftTlbAssumption
<1> QED BY <1>1 DEF Region, Entries

\* A page that is taken for a table while there are no processes.
LEMMA TablePage ==
  ASSUME TlbInv, mode = "tables", NEW k \in Pages, NEW table \in Cells, IsTable(table),
         ~page_info[k].use \/ IsTable(store[k]),
         page_info' = [page_info EXCEPT ![k].use = TRUE], store' = [store EXCEPT ![k] = table],
         ld' \in LoadState, ld'.pid = ld.pid, ld'.step = ld.step, mode' = mode,
         UNCHANGED <<translation, window, curr_vm_pid, life, ipc, run, freeing, mem>>
  PROVE  /\ TlbTypeOK' /\ PageInv' /\ ProcInv' /\ LoadInv' /\ OwnInv' /\ MemInv' /\ TableInv'
         /\ \A j \in Pages : store'[j] = IF j = k THEN table ELSE store[j]
<1>0. /\ TlbTypeOK /\ PageInv /\ ProcInv /\ OwnInv /\ TableInv
      /\ ld.step = "alloc" /\ \A j \in Pages : page_info[j].pid = 0
  BY DEF TlbInv, ProcInv
<1>1. /\ page_info' \in [Pages -> PageInfo]
      /\ \A j \in Pages : j # k => page_info'[j] = page_info[j]
      /\ page_info'[k].use /\ page_info'[k].pid = page_info[k].pid /\ page_info'[k].vpage = page_info[k].vpage
  BY <1>0, StoreUse
<1>2. \A j \in Pages : page_info'[j].pid = 0 /\ page_info'[j].vpage = 0 /\ page_info[j].vpage = 0
  BY <1>0, <1>1 DEF PageInv
<1>3. store' \in [Pages -> Cells] /\ \A j \in Pages : store'[j] = IF j = k THEN table ELSE store[j]
  <2> HIDE DEF Cells
  <2> QED BY <1>0 DEF TlbTypeOK
<1>4. TlbTypeOK'
  BY <1>0, <1>1, <1>3 DEF TlbTypeOK
<1>5. PageInv'
  BY <1>0, <1>1, <1>2 DEF PageInv
<1>6. ProcInv'
  BY <1>0, <1>2, Consts DEF ProcInv, NotLoading
<1>7. LoadInv'
  BY <1>0 DEF LoadInv
<1>8. OwnInv'
  BY <1>0, <1>2 DEF OwnInv
<1>9. MemInv'
  BY <1>2 DEF MemInv
<1>10. TableInv'
  BY <1>0, <1>1, <1>2, <1>3 DEF TableInv
<1> QED BY <1>3, <1>4, <1>5, <1>6, <1>7, <1>8, <1>9, <1>10

LEMMA AllocRootInv ==
  ASSUME TlbInv, AllocRoot
  PROVE  TlbInv'
<1>1. CASE FreePages = {}
  BY <1>1, FatalInv DEF AllocRoot
<1>2. CASE FreePages # {}
  <2> DEFINE k == LoopFirst(FreePages)
  <2>0. /\ mode = "tables" /\ RootPages = {} /\ mode' = mode /\ ld' = ld
        /\ page_info' = [page_info EXCEPT ![k].use = TRUE] /\ store' = [store EXCEPT ![k] = RootTable]
        /\ UNCHANGED <<translation, root, window, curr_vm_pid, life, ipc, run, freeing, mem>>
    BY <1>2 DEF AllocRoot, modeVars, procVars
  <2>1. k \in Pages /\ ~page_info[k].use
    <3>1. k \in FreePages
      BY <1>2, LoopFirstIsIn, Consts DEF FreePages
    <3> QED BY <3>1 DEF FreePages
  <2> HIDE DEF k
  <2>2. RootTable \in Cells /\ IsTable(RootTable)
    BY DEF RootTable, Cells, IsTable
  <2>3. ld' \in LoadState
    BY <2>0 DEF TlbInv, TlbTypeOK
  <2>4. /\ TlbTypeOK' /\ PageInv' /\ ProcInv' /\ LoadInv' /\ OwnInv' /\ MemInv' /\ TableInv'
        /\ \A j \in Pages : store'[j] = IF j = k THEN RootTable ELSE store[j]
    BY <2>0, <2>1, <2>2, <2>3, TablePage
  <2>5. RootPages' = {k}
    <3>1. \A j \in Pages : store'[j] = RootTable <=> j = k
      BY <2>0, <2>4 DEF RootPages
    <3> QED BY <2>1, <3>1 DEF RootPages
  <2>6. RootInv'
    <3> SUFFICES ASSUME translation = "PAGE_TABLE" PROVE RootInv'
      BY <2>0 DEF RootInv
    <3>1. RootInv /\ ld.n = 1
      BY <2>0 DEF TlbInv, RootInv
    <3>2. RegionsDone = {} /\ RegionsDone' = {}
      BY <2>0, <3>1 DEF RegionsDone
    <3>3. DOMAIN root = {}
      BY <2>0, <3>1, <3>2 DEF RootInv
    <3> QED BY <2>0, <2>5, <3>1, <3>2, <3>3 DEF RootInv
  <2> QED BY <2>4, <2>6 DEF TlbInv
<1> QED BY <1>1, <1>2

\* The entries that the regions mapped so far have made in the table of a 4 MB region.
TableOf(x) == UNION {Entries(Regions[m]) : m \in MappedAt(x)}

LEMMA MapRegionInv ==
  ASSUME TlbInv, MapRegion
  PROVE  TlbInv'
<1> DEFINE r == Regions[ld.n]
           v1 == r.vpn1
           k == IF v1 \in DOMAIN root THEN root[v1] ELSE LoopFirst(FreePages)
           table == LeafTable(v1, Entries(r) \cup (IF v1 \in DOMAIN root THEN store[k].entries ELSE {}))
<1>1. CASE v1 \notin DOMAIN root /\ FreePages = {}
  BY <1>1, FatalInv DEF MapRegion
<1>2. CASE ~(v1 \notin DOMAIN root /\ FreePages = {})
  <2>0. /\ mode = "tables" /\ RootPages # {} /\ ld.n <= Len(Regions) /\ mode' = mode
        /\ page_info' = [page_info EXCEPT ![k].use = TRUE] /\ store' = [store EXCEPT ![k] = table]
        /\ root' = [x \in DOMAIN root \cup {v1} |-> IF x = v1 THEN k ELSE root[x]]
        /\ ld' = [ld EXCEPT !.n = @ + 1]
        /\ UNCHANGED <<translation, window, curr_vm_pid, life, ipc, run, freeing, mem>>
    BY <1>2 DEF MapRegion, setup_identity_region, modeVars, procVars
  <2>1. /\ RootInv /\ TableInv /\ translation = "PAGE_TABLE" /\ ld \in LoadState
        /\ ld.n \in 1..Len(Regions) /\ DOMAIN Regions = 1..Len(Regions)
    <3>1. RootInv /\ TableInv /\ translation = "PAGE_TABLE" /\ ld \in LoadState
      BY <2>0 DEF TlbInv, ProcInv, TlbTypeOK
    <3>2. Len(Regions) \in Nat /\ DOMAIN Regions = 1..Len(Regions)
      BY SoftTlbAssumption
    <3>3. ld.n \in 1..(Len(Regions) + 1)
      BY <2>0, <3>1 DEF RootInv
    <3> QED BY <2>0, <3>1, <3>2, <3>3
  <2>2. v1 \in Nat /\ Entries(r) \subseteq Nat
    BY <2>1, RegionFacts
  <2> HIDE DEF r, v1
  <2>3. /\ DOMAIN root = {Regions[m].vpn1 : m \in RegionsDone}
        /\ \A x \in DOMAIN root : root[x] \in Pages /\ store[root[x]] = LeafTable(x, TableOf(x))
        /\ \A i, j \in RootPages : i = j
    BY <2>0, <2>1 DEF RootInv, TableOf
  <2>4. RegionsDone = 1..(ld.n - 1) /\ RegionsDone \subseteq DOMAIN Regions
    BY <2>0, <2>1 DEF RegionsDone
  <2>5. \A x : TableOf(x) \subseteq Nat
    BY <2>4, RegionFacts DEF TableOf, MappedAt
  <2>6. k \in Pages /\ (~page_info[k].use \/ IsTable(store[k])) /\ store[k] # RootTable
    <3>1. CASE v1 \in DOMAIN root
      <4>1. k \in Pages /\ store[k] = LeafTable(v1, TableOf(v1))
        BY <3>1, <2>3
      <4> HIDE DEF k
      <4> QED BY <4>1 DEF LeafTable, IsTable, RootTable
    <3>2. CASE v1 \notin DOMAIN root
      <4>1. k \in FreePages
        BY <1>2, <3>2, LoopFirstIsIn, Consts DEF FreePages
      <4>2. k \in Pages /\ ~page_info[k].use
        BY <4>1 DEF FreePages
      <4> HIDE DEF k
      <4> QED BY <4>2, <2>1 DEF TableInv, IsTable, RootTable
    <3> QED BY <3>1, <3>2
  <2>7. table = LeafTable(v1, TableOf(v1) \cup Entries(r))
    <3>1. CASE v1 \in DOMAIN root
      <4>1. store[k] = LeafTable(v1, TableOf(v1))
        BY <3>1, <2>3
      <4>2. store[k].entries = TableOf(v1)
        BY <4>1 DEF LeafTable
      <4>3. Entries(r) \cup TableOf(v1) = TableOf(v1) \cup Entries(r)
        OBVIOUS
      <4> QED BY <3>1, <4>2, <4>3
    <3>2. CASE v1 \notin DOMAIN root
      <4>1. MappedAt(v1) = {}
        BY <3>2, <2>3 DEF MappedAt
      <4>2. TableOf(v1) = {}
        BY <4>1 DEF TableOf
      <4>3. Entries(r) \cup {} = TableOf(v1) \cup Entries(r)
        BY <4>2
      <4> QED BY <3>2, <4>3
    <3> QED BY <3>1, <3>2
  <2> HIDE DEF k, table
  <2>8. table \in Cells /\ IsTable(table)
    BY <2>2, <2>5, <2>7 DEF LeafTable, Cells, IsTable
  <2>9. ld' \in LoadState /\ ld'.pid = ld.pid /\ ld'.step = ld.step /\ ld'.n = ld.n + 1
    BY <2>0, <2>1 DEF LoadState
  <2>10. /\ TlbTypeOK' /\ PageInv' /\ ProcInv' /\ LoadInv' /\ OwnInv' /\ MemInv' /\ TableInv'
         /\ \A j \in Pages : store'[j] = IF j = k THEN table ELSE store[j]
    BY <2>0, <2>6, <2>8, <2>9, TablePage
  <2>11. RootPages' = RootPages
    <3>1. table # RootTable
      BY <2>7 DEF LeafTable, RootTable
    <3> QED BY <2>6, <2>10, <3>1 DEF RootPages
  <2>12. RegionsDone' = RegionsDone \cup {ld.n}
    <3>1. RegionsDone' = 1..(ld'.n - 1) /\ ld'.n - 1 = ld.n
      BY <2>0, <2>1, <2>9 DEF RegionsDone
    <3> QED BY <2>1, <2>4, <3>1
  <2>13. \A x : TableOf(x)' = TableOf(x) \cup (IF x = v1 THEN Entries(r) ELSE {})
    <3> SUFFICES ASSUME NEW x
                 PROVE  TableOf(x)' = TableOf(x) \cup (IF x = v1 THEN Entries(r) ELSE {})
      OBVIOUS
    <3>1. MappedAt(x)' = {m \in RegionsDone \cup {ld.n} : Regions[m].vpn1 = x}
      BY <2>12 DEF MappedAt
    <3>2. MappedAt(x)' = MappedAt(x) \cup (IF x = v1 THEN {ld.n} ELSE {})
      BY <3>1 DEF MappedAt, v1, r
    <3>3. TableOf(x)' = UNION {Entries(Regions[m]) : m \in MappedAt(x)'}
      BY DEF TableOf
    <3>4. CASE x = v1
      BY <3>2, <3>3, <3>4 DEF TableOf, r
    <3>5. CASE x # v1
      BY <3>2, <3>3, <3>5 DEF TableOf
    <3> QED BY <3>4, <3>5
  <2>14. DOMAIN root' = {Regions[m].vpn1 : m \in RegionsDone'}
    BY <2>0, <2>3, <2>12 DEF v1, r
  <2>15. ASSUME NEW x \in DOMAIN root'
         PROVE  root'[x] \in Pages /\ store'[root'[x]] = LeafTable(x, TableOf(x)')
    <3>1. root'[x] = IF x = v1 THEN k ELSE root[x]
      BY <2>0
    <3>2. CASE x = v1
      BY <3>1, <3>2, <2>6, <2>7, <2>10, <2>13
    <3>3. CASE x # v1
      <4>1. x \in DOMAIN root /\ root'[x] = root[x]
        BY <2>0, <3>1, <3>3
      <4>2. root[x] \in Pages /\ store[root[x]] = LeafTable(x, TableOf(x))
        BY <2>3, <4>1
      <4>3. root[x] # k
        <5>1. IsTable(store[root[x]])
          BY <4>2 DEF LeafTable, IsTable
        <5>2. page_info[root[x]].use
          BY <2>1, <4>2, <5>1 DEF TableInv
        <5>3. CASE v1 \in DOMAIN root
          <6>1. store[k] = LeafTable(v1, TableOf(v1))
            BY <5>3, <2>3 DEF k
          <6> QED BY <6>1, <4>2, <3>3 DEF LeafTable
        <5>4. CASE v1 \notin DOMAIN root
          <6>1. k \in FreePages
            BY <1>2, <5>4, LoopFirstIsIn, Consts DEF FreePages, k
          <6> QED BY <6>1, <5>2 DEF FreePages
        <5> QED BY <5>3, <5>4
      <4>4. TableOf(x)' = TableOf(x)
        BY <2>13, <3>3
      <4> QED BY <4>1, <4>2, <4>3, <4>4, <2>10
    <3> QED BY <3>2, <3>3
  <2>16. ld'.n \in 1..(Len(Regions) + 1)
    BY <2>1, <2>9
  <2>17. RootInv'
    BY <2>0, <2>3, <2>11, <2>14, <2>15, <2>16 DEF RootInv, TableOf
  <2> QED BY <2>10, <2>17 DEF TlbInv
<1> QED BY <1>1, <1>2

\* elf_load begins: no page has a name yet.
LEMMA LoadBegins ==
  ASSUME ld' = StartLoad(GPID_PROCESS), \A k \in Pages : page_info'[k].pid = 0
  PROVE  LoadInv' /\ ld' \in LoadState
<1>1. /\ ld' \in LoadState /\ ld'.pid = GPID_PROCESS /\ ld'.n = 1 /\ ld'.step = "alloc" /\ ld'.off = 0
  BY Consts DEF StartLoad, LoadState, Steps
<1>2. GPID_PROCESS # 0 /\ Len(Plan[GPID_PROCESS]) \in Nat \ {0}
  BY Consts, PlanFacts DEF GPID_PROCESS
<1>3. ld'.n \in 1..Len(Plan[GPID_PROCESS])
  BY <1>1, <1>2
<1>4. LoadedUpTo(ld.pid, ld.n - 1)'
  BY <1>1 DEF LoadedUpTo
<1> QED BY <1>1, <1>2, <1>3, <1>4 DEF LoadInv, Fillings

LEMMA TablesDoneInv ==
  ASSUME TlbInv, TablesDone
  PROVE  TlbInv'
<1>0. /\ mode = "tables" /\ RootPages # {} /\ ld.n > Len(Regions) /\ mode' = "boot"
      /\ ld' = StartLoad(GPID_PROCESS)
      /\ UNCHANGED <<translation, root, store, window, curr_vm_pid, life, ipc, run, freeing, page_info, mem>>
      /\ TlbTypeOK /\ PageInv /\ ProcInv /\ RootInv
  BY DEF TablesDone, modeVars, winVars, procVars, TlbInv
<1>1. ld.pid = GPID_PROCESS /\ ld.step = "alloc" /\ \A k \in Pages : page_info[k].pid = 0
  BY <1>0 DEF ProcInv
<1>2. LoadInv' /\ ld' \in LoadState
  BY <1>0, <1>1, LoadBegins
<1>3. ld'.pid = ld.pid /\ ld'.step = "alloc"
  BY <1>0, <1>1 DEF StartLoad
<1>4. TlbTypeOK' /\ PageInv' /\ ProcInv' /\ OwnInv' /\ MemInv' /\ TableInv'
  <2>1. TlbTypeOK'
    BY <1>0, <1>2 DEF TlbTypeOK
  <2>2. PageInv' /\ ProcInv'
    BY <1>0, <1>1, <1>3, Consts DEF PageInv, ProcInv
  <2>3. OwnInv' /\ MemInv' /\ TableInv'
    BY <1>0, <1>1, <1>3 DEF TlbInv, OwnInv, MemInv, TableInv
  <2> QED BY <2>1, <2>2, <2>3
<1>5. RootInv'
  <2>1. translation = "PAGE_TABLE" /\ ld.n \in 1..(Len(Regions) + 1)
    BY <1>0 DEF ProcInv, RootInv
  <2>2. Len(Regions) \in Nat /\ DOMAIN Regions = 1..Len(Regions)
    BY SoftTlbAssumption
  <2>3. RegionsDone = DOMAIN Regions /\ RegionsDone' = DOMAIN Regions
    <3>1. ld.n - 1 = Len(Regions)
      BY <1>0, <2>1, <2>2
    <3> QED BY <1>0, <2>2, <3>1 DEF RegionsDone
  <2>4. RootPages' = RootPages /\ \A x : MappedAt(x)' = MappedAt(x)
    BY <1>0, <2>3 DEF RootPages, MappedAt
  <2> QED BY <1>0, <2>1, <2>3, <2>4 DEF RootInv
<1> QED BY <1>2, <1>4, <1>5 DEF TlbInv

LEMMA TlbInitInv == Init => TlbInv
<1> SUFFICES ASSUME Init PROVE TlbInv
  OBVIOUS
<1>1. /\ page_info = [k \in Pages |-> FreePage] /\ store = [k \in Pages |-> Junk]
      /\ window = [v \in Vpages |-> Junk] /\ mem = [p \in Pids |-> [v \in Vpages |-> Junk]]
      /\ curr_vm_pid = Nobody /\ root = << >> /\ run = GPID_PROCESS /\ freeing = 0
      /\ life = [p \in Pids |-> "none"] /\ ipc = [p \in Pids |-> "none"]
      /\ translation \in {"PAGE_TABLE", "SOFT_TLB"} /\ ld = StartLoad(GPID_PROCESS)
      /\ mode = IF translation = "PAGE_TABLE" THEN "tables" ELSE "boot"
  BY DEF Init
<1>2. /\ FreePage \in PageInfo /\ FreePage.pid = 0 /\ FreePage.vpage = 0 /\ ~FreePage.use
      /\ Junk \in Cells /\ ~IsTable(Junk) /\ Junk # RootTable
  BY DEF FreePage, PageInfo, Junk, Cells, IsTable, RootTable
<1>3. /\ ld \in LoadState /\ ld.pid = GPID_PROCESS /\ ld.n = 1 /\ ld.step = "alloc" /\ ld.off = 0
      /\ GPID_PROCESS # 0
  BY <1>1, Consts DEF StartLoad, LoadState, Steps
<1>4. TlbTypeOK
  <2> HIDE DEF FreePage, PageInfo, Junk, Cells
  <2> QED BY <1>1, <1>2, <1>3, Consts DEF TlbTypeOK
<1>5. PageInv /\ MemInv /\ TableInv
  <2>1. \A k \in Pages : page_info[k] = FreePage /\ store[k] = Junk
    BY <1>1
  <2>2. \A v \in Vpages : window[v] = Junk
    BY <1>1
  <2> QED BY <1>2, <2>1, <2>2 DEF PageInv, MemInv, TableInv
<1>6. ProcInv
  BY <1>1, <1>2, <1>3, Consts DEF ProcInv
<1>7. OwnInv
  BY <1>1 DEF OwnInv
<1>8. LoadInv
  <2>1. Len(Plan[GPID_PROCESS]) \in Nat \ {0}
    BY Consts, PlanFacts
  <2>2. ld.n \in 1..Len(Plan[GPID_PROCESS])
    BY <1>3, <2>1
  <2>3. LoadedUpTo(ld.pid, ld.n - 1)
    BY <1>3 DEF LoadedUpTo
  <2>4. \A k \in Pages : page_info[k].pid # ld.pid
    BY <1>1, <1>2, <1>3
  <2> QED BY <1>3, <2>2, <2>3, <2>4 DEF LoadInv, Fillings
<1>9. RootInv
  <2> SUFFICES ASSUME translation = "PAGE_TABLE" PROVE RootInv
    BY DEF RootInv
  <2>1. mode = "tables" /\ RegionsDone = {} /\ RootPages = {} /\ DOMAIN root = {}
    BY <1>1, <1>2, <1>3 DEF RegionsDone, RootPages
  <2>2. Len(Regions) \in Nat
    BY SoftTlbAssumption
  <2> QED BY <1>3, <2>1, <2>2 DEF RootInv
<1> QED BY <1>4, <1>5, <1>6, <1>7, <1>8, <1>9 DEF TlbInv

LEMMA TlbStepInv == TlbInv /\ [TlbNext]_tlbVars => TlbInv'
<1> SUFFICES ASSUME TlbInv, [TlbNext]_tlbVars PROVE TlbInv'
  OBVIOUS
<1>1. CASE AllocRoot \/ MapRegion \/ TablesDone
  BY <1>1, AllocRootInv, MapRegionInv, TablesDoneInv
<1>2. CASE mmu_alloc \/ MapPid \/ MapVpage
  BY <1>2, AllocInv, MapPidInv, MapVpageInv
<1>3. CASE ClearPage \/ CopyBlock \/ SetArgs
  BY <1>3, FillingInv
<1>4. CASE EnterProcess \/ Spawn \/ SetReady \/ mmu_free
  BY <1>4, EnterInv, SpawnInv, SetReadyInv, MmuFreeInv
<1>5. CASE \E p \in Pids : Free(p) \/ Dispatch(p)
  BY <1>5, FreeInv, DispatchInv
<1>6. CASE \E v \in TouchPages : Touch(v)
  BY <1>6, TouchInv
<1>7. CASE Timer \/ \E kind \in {"send", "recv"} : Ecall(kind)
  BY <1>7, TimerInv, EcallInv
<1>8. CASE \E s, r \in Pids : Deliver(s, r)
  BY <1>8, DeliverInv
<1>9. CASE NoProcess
  BY <1>9, FatalInv DEF NoProcess
<1>10. CASE Halted \/ UNCHANGED tlbVars
  BY <1>10, SameMemory DEF Halted, tlbVars, modeVars, winVars, procVars, TlbInv, TlbTypeOK
<1> QED BY <1>1, <1>2, <1>3, <1>4, <1>5, <1>6, <1>7, <1>8, <1>9, <1>10 DEF TlbNext

\* The inductive invariant of the memory of egos-2000.
THEOREM TlbInvariant == TlbSpec => []TlbInv
BY TlbInitInv, TlbStepInv, PTL DEF TlbSpec

\* Whoever runs finds in the window what it, the loader or the kernel for it wrote there
\* last, for any number of processes and pages (cpu_mmu.c:44-61, kernel.c:169).
THEOREM OwnMemorySeen == TlbSpec => []RunningSeesOwnMemory
<1>1. TlbInv => RunningSeesOwnMemory
  <2> SUFFICES ASSUME TlbInv, mode = "user", NEW v \in Owned(run) PROVE window[v] = mem[run][v]
    BY DEF RunningSeesOwnMemory
  <2>1. run \in Pids /\ run = curr_vm_pid /\ PageInv /\ run # ld.pid
    BY Consts DEF TlbInv, TlbTypeOK, ProcInv
  <2>2. PICK k \in Pages : Belongs(k, run) /\ v = page_info[k].vpage
    BY DEF Owned
  <2>3. page_info[k].pid = run /\ page_info[k].pid # 0
    BY <2>1, <2>2, BelongsIsName, Consts
  <2>4. v # 0
    BY <2>1, <2>2, <2>3, Addressed, Consts
  <2> QED BY <2>1, <2>2, <2>3, <2>4 DEF TlbInv, MemInv
<1> QED BY <1>1, TlbInvariant, PTL

\* The memory of everybody else is kept in its pages, also while GPID_PROCESS is
\* interrupted in mmu_alloc, mmu_map or mmu_free (cpu_mmu.c:33-61).
THEOREM MemoryKept == TlbSpec => []DormantMemoryKept
<1>1. TlbInv => DormantMemoryKept
  BY DEF TlbInv, MemInv, DormantMemoryKept, MappedPages
<1> QED BY <1>1, TlbInvariant, PTL

\* Page tables are what pagetable_identity_map made them, whatever is loaded and freed
\* afterwards (cpu_mmu.c:76-101).
THEOREM PageTablesIntact == TlbSpec => []TablesIntact
<1>1. TlbInv => TablesIntact
  <2> SUFFICES ASSUME TlbInv, translation = "PAGE_TABLE", mode \in {"boot", "user", "kernel"}
               PROVE  /\ Cardinality(RootPages) = 1
                      /\ \A n \in DOMAIN Regions :
                           store[root[Regions[n].vpn1]] =
                             LeafTable(Regions[n].vpn1,
                               UNION {Entries(Regions[m]) :
                                 m \in {i \in DOMAIN Regions : Regions[i].vpn1 = Regions[n].vpn1}})
    BY DEF TablesIntact
  <2>1. RootInv /\ RegionsDone = DOMAIN Regions
    BY DEF TlbInv, RegionsDone
  <2>2. Cardinality(RootPages) = 1
    <3>1. PICK k \in RootPages : RootPages = {k}
      BY <2>1 DEF RootInv
    <3> QED BY <3>1, FS_Singleton
  <2>3. ASSUME NEW n \in DOMAIN Regions
        PROVE  store[root[Regions[n].vpn1]] =
                 LeafTable(Regions[n].vpn1,
                   UNION {Entries(Regions[m]) :
                     m \in {i \in DOMAIN Regions : Regions[i].vpn1 = Regions[n].vpn1}})
    <3>1. Regions[n].vpn1 \in DOMAIN root
      BY <2>1 DEF RootInv
    <3> QED BY <2>1, <3>1 DEF RootInv, MappedAt
  <2> QED BY <2>2, <2>3
<1> QED BY <1>1, TlbInvariant, PTL

\* Pages are neither lost nor shared: whatever is in use has one owner that exists, and a
\* process that can run owns exactly its plan (cpu_mmu.c:20-42, elf.c:15-45).
THEOREM NoPageLost == TlbSpec => []PagesAccounted
<1>1. TlbInv => PagesAccounted
  <2> SUFFICES ASSUME TlbInv PROVE PagesAccounted
    OBVIOUS
  <2>0. PageInv /\ TlbTypeOK /\ OwnInv /\ TableInv
    BY DEF TlbInv
  <2>1. ASSUME NEW k \in Pages, page_info[k].use
        PROVE  \/ store[k].kind \in {"root", "leaf"} /\ page_info[k].pid = 0
               \/ k = ld.page /\ ld.step = "pid"
               \/ page_info[k].pid = ld.pid
               \/ page_info[k].pid \in Pids /\ life[page_info[k].pid] = "ready"
    BY <2>0, <2>1 DEF PageInv, TableInv, IsTable, TlbTypeOK, PageInfo
  <2>2. ASSUME NEW p \in Pids, life[p] = "ready", p # freeing
        PROVE  /\ Owned(p) = {Plan[p][n].vpage : n \in DOMAIN Plan[p]}
               /\ Cardinality({k \in Pages : Belongs(k, p)}) = Cardinality(Owned(p))
    <3> DEFINE S == {k \in Pages : Belongs(k, p)}
               f == [k \in S |-> page_info[k].vpage]
    <3>1. S = {k \in Pages : page_info[k].pid = p}
      BY <2>0, BelongsIsName
    <3>2. Owned(p) = {page_info[k].vpage : k \in S}
      BY DEF Owned
    <3> HIDE DEF S
    <3>3. Owned(p) = {Plan[p][n].vpage : n \in DOMAIN Plan[p]}
      BY <2>0, <2>2, <3>1, <3>2 DEF OwnInv
    <3>4. f \in Bijection(S, Owned(p))
      <4>1. f \in [S -> Owned(p)] /\ \A y \in Owned(p) : \E k \in S : f[k] = y
        BY <3>2
      <4>2. \A j, k \in S : f[j] = f[k] => j = k
        BY <2>0, <3>1, Consts DEF PageInv
      <4> HIDE DEF f
      <4> QED BY <4>1, <4>2 DEF Bijection, Injection, Surjection, IsInjective
    <3>5. IsFiniteSet(S)
      <4>1. IsFiniteSet(Pages)
        BY FS_Interval, SoftTlbAssumption DEF Pages
      <4> QED BY <3>1, <4>1, FS_Subset
    <3>6. Cardinality(S) = Cardinality(Owned(p))
      BY <3>4, <3>5, FS_Bijection DEF ExistsBijection
    <3> QED BY <3>3, <3>6 DEF S
  <2> QED BY <2>1, <2>2 DEF PagesAccounted
<1> QED BY <1>1, TlbInvariant, PTL
-----------------------------------------------------------------------------
(* The program of a new process: the plan covers every page it needs.      *)

\* A larger number of pages is at least as many blocks.
LEMMA TimesMonotone ==
  ASSUME NEW b \in Nat, NEW x \in Int, NEW y \in Int, x <= y
  PROVE  x * b <= y * b
<1>1. (y - x) * b \in Nat
  <2>1. y - x \in Nat
    OBVIOUS
  <2> QED BY <2>1
<1>2. (y - x) * b = y * b - x * b /\ x * b \in Int /\ y * b \in Int
  OBVIOUS
<1> QED BY <1>1, <1>2

\* How a quotient compares with other numbers.
LEMMA QuotientBounds ==
  ASSUME NEW x \in Nat, NEW b \in Nat \ {0}
  PROVE  (x \div b) * b <= x /\ x < (x \div b) * b + b
OBVIOUS

\* The blocks that elf_load reads into the page at v are those of the file that lie there.
LEMMA SegmentCovered ==
  ASSUME NEW s \in Segment, NEW v \in Vpages,
         \/ BlocksOfPage(v) \subseteq SegmentBlocks(s)
         \/ BlocksOfPage(v) \cap FileBlocks(s) # {}
  PROVE  \E n \in DOMAIN SegmentPlan(s) :
           SegmentPlan(s)[n] = [vpage |-> v, fill |-> "zero",
                                blocks |-> Cardinality(BlocksOfPage(v) \cap FileBlocks(s))]
<1> DEFINE b == PAGE_BLOCKS
           q == FilePages(s)
           e == end_pageno(s)
           n == v - s.vpage + 1
           sb == s.vpage * b
           vb == v * b
           common == BlocksOfPage(v) \cap FileBlocks(s)
<1>0. /\ b \in Nat \ {0} /\ s.vpage \in Nat /\ s.filesz \in Nat /\ s.memsz \in Nat /\ v \in Nat
      /\ sb \in Nat /\ vb \in Nat /\ (v + 1) * b = vb + b
  <2>1. b \in Nat \ {0} /\ s.vpage \in Nat /\ s.filesz \in Nat /\ s.memsz \in Nat /\ v \in Nat
    BY SoftTlbAssumption DEF Segment, Vpages
  <2> HIDE DEF b
  <2> QED BY <2>1
<1> HIDE DEF b
<1>1. q \in Nat /\ s.filesz <= q * b /\ q * b < s.filesz + b
  <2>1. s.filesz + b - 1 \in Nat
    BY <1>0
  <2>2. q \in Nat /\ q = (s.filesz + b - 1) \div b
    BY <1>0, <2>1, QuotientIsNat DEF FilePages, b
  <2>3. q * b <= s.filesz + b - 1 /\ s.filesz + b - 1 < q * b + b
    BY <1>0, <2>1, <2>2, QuotientBounds
  <2>4. q * b \in Nat
    BY <1>0, <2>2
  <2> QED BY <1>0, <2>2, <2>3, <2>4
<1>2. e \in Nat /\ sb + s.memsz < (e + 1) * b
  <2>1. sb + s.memsz \in Nat
    BY <1>0
  <2>2. e \in Nat /\ e = (sb + s.memsz) \div b
    BY <1>0, <2>1, QuotientIsNat DEF end_pageno, b
  <2>3. sb + s.memsz < e * b + b
    BY <1>0, <2>1, <2>2, QuotientBounds
  <2>4. (e + 1) * b = e * b + b
    BY <1>0, <2>2
  <2> QED BY <2>2, <2>3, <2>4
<1> HIDE DEF q, e
<1>3. BlocksOfPage(v) = vb..(vb + b - 1) /\ SegmentBlocks(s) = sb..(sb + s.memsz - 1)
      /\ FileBlocks(s) = sb..(sb + s.filesz - 1)
  BY <1>0 DEF BlocksOfPage, SegmentBlocks, FileBlocks, b
\* Multiples of b in the order of the page numbers.
<1>4. \A x, y \in Int : x * b < y * b => x < y
  <2> SUFFICES ASSUME NEW x \in Int, NEW y \in Int, x * b < y * b, y <= x PROVE FALSE
    OBVIOUS
  <2>1. y * b <= x * b
    BY <1>0, TimesMonotone
  <2>2. x * b \in Int /\ y * b \in Int
    BY <1>0
  <2> QED BY <2>1, <2>2
<1>5. /\ (s.vpage + q) * b = sb + q * b /\ q * b \in Nat
      /\ (q - 1) * b = q * b - b /\ (v - s.vpage) * b = vb - sb /\ (n - 1) * b = vb - sb
  <2>1. q * b \in Nat /\ (s.vpage + q) * b = sb + q * b
    BY <1>0, <1>1
  <2>2. (q - 1) * b = q * b - b
    BY <1>0, <1>1
  <2>3. (v - s.vpage) * b = vb - sb
    BY <1>0
  <2>4. n - 1 = v - s.vpage
    BY <1>0
  <2> QED BY <2>1, <2>2, <2>3, <2>4
<1>6. sb < vb + b /\ (vb < sb + s.filesz \/ vb + b <= sb + s.memsz)
  <2> HIDE DEF vb, sb
  <2>1. CASE BlocksOfPage(v) \subseteq SegmentBlocks(s)
    <3>1. vb \in vb..(vb + b - 1) /\ vb + b - 1 \in vb..(vb + b - 1)
      BY <1>0
    <3>2. vb \in sb..(sb + s.memsz - 1) /\ vb + b - 1 \in sb..(sb + s.memsz - 1)
      BY <2>1, <3>1, <1>3
    <3> QED BY <1>0, <3>2
  <2>2. CASE common # {}
    <3>1. PICK x \in Int : x \in vb..(vb + b - 1) /\ x \in sb..(sb + s.filesz - 1)
      BY <2>2, <1>0, <1>3
    <3> QED BY <1>0, <3>1
  <2> QED BY <2>1, <2>2
<1>7. s.vpage <= v /\ n \in Nat \ {0}
  <2>1. s.vpage * b < (v + 1) * b
    BY <1>0, <1>6
  <2>2. s.vpage < v + 1
    BY <2>1, <1>0, <1>4
  <2> QED BY <2>2, <1>0
<1>8. vb < sb + s.filesz => n <= q
  <2> SUFFICES ASSUME vb < sb + s.filesz PROVE n <= q
    OBVIOUS
  <2>1. v * b < (s.vpage + q) * b
    <3> HIDE DEF vb, sb
    <3>1. vb < (s.vpage + q) * b
      BY <1>0, <1>1, <1>5
    <3> QED BY <3>1 DEF vb
  <2>2. v < s.vpage + q
    BY <2>1, <1>0, <1>1, <1>4
  <2> QED BY <2>2, <1>0, <1>1
<1>9. vb + b <= sb + s.memsz => n <= e - s.vpage
  <2> SUFFICES ASSUME vb + b <= sb + s.memsz PROVE n <= e - s.vpage
    OBVIOUS
  <2>1. (v + 1) * b < (e + 1) * b
    <3> HIDE DEF vb, sb
    <3>1. (e + 1) * b \in Int
      BY <1>0, <1>2
    <3> QED BY <1>0, <1>2, <3>1
  <2>2. v + 1 < e + 1
    BY <2>1, <1>0, <1>2, <1>4
  <2> QED BY <2>2, <1>0, <1>2
<1>10. n \in DOMAIN SegmentPlan(s) /\ SegmentPlan(s)[n] = [vpage |-> v, fill |-> "zero", blocks |-> BlocksOn(s, n)]
  <2> DEFINE zero == e - (s.vpage + q)
             N == q + IF zero > 0 THEN zero ELSE 0
             entry(k) == [vpage |-> s.vpage + k - 1, fill |-> "zero", blocks |-> BlocksOn(s, k)]
  <2>1. SegmentPlan(s) = [k \in 1..N |-> entry(k)]
    BY DEF SegmentPlan, q, e
  <2>2. n <= N /\ N \in Int
    BY <1>0, <1>1, <1>2, <1>6, <1>8, <1>9
  <2>3. n \in 1..N
    BY <1>7, <2>2
  <2>4. s.vpage + n - 1 = v
    BY <1>0
  <2> HIDE DEF N, n
  <2> QED BY <2>1, <2>3, <2>4
<1>11. BlocksOn(s, n) = Cardinality(common)
  <2>0. BlocksOn(s, n) = IF n < q THEN b ELSE IF n = q THEN s.filesz - (vb - sb) ELSE 0
    <3> HIDE DEF n, vb, sb
    <3> QED BY <1>5 DEF BlocksOn, q, b
  <2>1. CASE n < q
    <3>1. (v - s.vpage + 1) * b <= (q - 1) * b
      <4>1. n <= q - 1 /\ n \in Int /\ q - 1 \in Int
        BY <2>1, <1>7, <1>1
      <4> QED BY <4>1, <1>0, TimesMonotone
    <3>2. n * b = vb - sb + b
      BY <1>0
    <3> HIDE DEF vb, sb
    <3>3. vb + b <= sb + s.filesz
      BY <1>0, <1>1, <1>5, <3>1, <3>2
    <3>4. sb <= vb
      <4>1. s.vpage * b <= v * b
        BY <1>0, <1>7, TimesMonotone
      <4> QED BY <4>1 DEF vb, sb
    <3>5. common = vb..(vb + b - 1)
      BY <1>0, <1>3, <3>3, <3>4
    <3>6. Cardinality(vb..(vb + b - 1)) = b
      BY <1>0, FS_Interval
    <3> QED BY <2>0, <2>1, <3>5, <3>6
  <2>2. CASE n = q
    <3>1. (n - 1) * b = (q - 1) * b
      BY <2>2
    <3>4. s.vpage * b <= v * b
      BY <1>0, <1>7, TimesMonotone
    <3>5. vb < sb + s.filesz /\ sb + s.filesz <= vb + b /\ sb <= vb
      <4>1. sb <= vb
        BY <3>4
      <4> HIDE DEF vb, sb, n
      <4> QED BY <4>1, <1>0, <1>1, <1>5, <3>1
    <3> HIDE DEF vb, sb
    <3>6. common = vb..(sb + s.filesz - 1)
      <4>1. \A x \in Int : x \in vb..(vb + b - 1) /\ x \in sb..(sb + s.filesz - 1)
                          <=> x \in vb..(sb + s.filesz - 1)
        BY <1>0, <3>5
      <4> QED BY <1>0, <1>3, <4>1
    <3>7. Cardinality(vb..(sb + s.filesz - 1)) = s.filesz - (vb - sb)
      <4> DEFINE last == sb + s.filesz - 1
      <4>1. vb \in Int /\ last \in Int /\ ~(vb > last) /\ last - vb + 1 = s.filesz - (vb - sb)
        BY <1>0, <3>5
      <4> HIDE DEF last
      <4>2. Cardinality(vb..last) = last - vb + 1
        BY <4>1, FS_Interval
      <4> QED BY <4>1, <4>2 DEF last
    <3>8. BlocksOn(s, n) = s.filesz - (vb - sb)
      BY <2>0, <2>2, <1>1
    <3> QED BY <3>6, <3>7, <3>8
  <2>3. CASE n > q
    <3>1. ~(vb < sb + s.filesz)
      BY <2>3, <1>7, <1>8, <1>1
    <3> HIDE DEF vb, sb
    <3>2. common = {}
      BY <1>0, <1>3, <3>1
    <3>3. BlocksOn(s, n) = 0
      BY <2>0, <2>3, <1>7, <1>1
    <3> HIDE DEF common
    <3> QED BY <3>2, <3>3, FS_EmptySet
  <2> QED BY <1>7, <1>1, <2>1, <2>2, <2>3
<1> QED BY <1>10, <1>11

\* What a segment needs is in the plan of the program.
LEMMA SegmentInPlan ==
  ASSUME NEW p \in Pids, NEW s \in {Image(p).code, Image(p).data},
         NEW n \in DOMAIN SegmentPlan(s)
  PROVE  \E m \in 1..Len(Plan[p]) : Plan[p][m] = SegmentPlan(s)[n]
<1> DEFINE A == SegmentPlan(Image(p).code)
           B == SegmentPlan(Image(p).data)
           C == << [vpage |-> APPS_ARG, fill |-> "args", blocks |-> 0],
                   [vpage |-> SYSCALL_ARG, fill |-> "none", blocks |-> 0],
                   [vpage |-> APPS_STACK_TOP - 1, fill |-> "none", blocks |-> 0],
                   [vpage |-> APPS_STACK_TOP - 2, fill |-> "none", blocks |-> 0] >>
<1>1. A \in Seq(PlanEntry) /\ B \in Seq(PlanEntry)
  <2>1. Image(p).code \in Segment /\ Image(p).data \in Segment
    BY SoftTlbAssumption
  <2> QED BY <2>1, SegmentPlanType
<1>2. APPS_ARG \in Int /\ SYSCALL_ARG \in Int /\ APPS_STACK_TOP - 1 \in Int /\ APPS_STACK_TOP - 2 \in Int
  BY SoftTlbAssumption DEF Vpages
<1>3. C \in Seq(PlanEntry) /\ Len(C) = 4
  BY <1>2 DEF PlanEntry
<1>4. Plan[p] = A \o B \o C
  BY DEF Plan
<1>5. (s = Image(p).code /\ n \in DOMAIN A /\ SegmentPlan(s)[n] = A[n])
      \/ (s = Image(p).data /\ n \in DOMAIN B /\ SegmentPlan(s)[n] = B[n])
  OBVIOUS
<1> HIDE DEF A, B, C
<1>6. /\ A \o B \in Seq(PlanEntry) /\ Len(A \o B) = Len(A) + Len(B)
      /\ \A i \in 1..(Len(A) + Len(B)) :
           (A \o B)[i] = IF i <= Len(A) THEN A[i] ELSE B[i - Len(A)]
  BY <1>1, ConcatProperties
<1>7. /\ Len(Plan[p]) = Len(A) + Len(B) + 4
      /\ \A i \in 1..(Len(A) + Len(B)) : Plan[p][i] = (A \o B)[i]
  <2>1. /\ Len((A \o B) \o C) = Len(A \o B) + Len(C)
        /\ \A i \in 1..(Len(A \o B) + Len(C)) : ((A \o B) \o C)[i] =
             IF i <= Len(A \o B) THEN (A \o B)[i] ELSE C[i - Len(A \o B)]
    <3> DEFINE D == A \o B
    <3>1. D \in Seq(PlanEntry)
      BY <1>6
    <3> HIDE DEF D
    <3>2. /\ Len(D \o C) = Len(D) + Len(C)
          /\ \A i \in 1..(Len(D) + Len(C)) :
               (D \o C)[i] = IF i <= Len(D) THEN D[i] ELSE C[i - Len(D)]
      BY <3>1, <1>3, ConcatProperties
    <3> QED BY <3>2 DEF D
  <2>2. Len(A) \in Nat /\ Len(B) \in Nat
    BY <1>1
  <2> QED BY <2>1, <2>2, <1>3, <1>4, <1>6
<1>8. Len(A) \in Nat /\ Len(B) \in Nat /\ DOMAIN A = 1..Len(A) /\ DOMAIN B = 1..Len(B)
  BY <1>1
<1>9. CASE n \in DOMAIN A /\ SegmentPlan(s)[n] = A[n]
  <2>1. n \in 1..(Len(A) + Len(B)) /\ n <= Len(A) /\ n \in 1..Len(Plan[p])
    BY <1>7, <1>8, <1>9
  <2> QED BY <2>1, <1>6, <1>7, <1>9
<1>10. CASE n \in DOMAIN B /\ SegmentPlan(s)[n] = B[n]
  <2> DEFINE m == Len(A) + n
  <2>1. m \in 1..(Len(A) + Len(B)) /\ ~(m <= Len(A)) /\ m \in 1..Len(Plan[p]) /\ m - Len(A) = n
    BY <1>7, <1>8, <1>10
  <2> HIDE DEF m
  <2> QED BY <2>1, <1>6, <1>7, <1>10
<1> QED BY <1>5, <1>9, <1>10

\* A process is made ready only with its program in place, whatever the sizes of its
\* segments and whoever ran while it was loaded (elf.c:26-49).
THEOREM ProgramLoaded == TlbSpec => []ImageComplete
<1>1. TlbInv => ImageComplete
  <2> SUFFICES ASSUME TlbInv, ld.step = "loaded",
                      NEW s \in {Image(ld.pid).code, Image(ld.pid).data}, NEW v \in Vpages,
                      \/ BlocksOfPage(v) \subseteq SegmentBlocks(s)
                      \/ BlocksOfPage(v) \cap FileBlocks(s) # {}
               PROVE  \E k \in Pages :
                        /\ Belongs(k, ld.pid) /\ page_info[k].vpage = v
                        /\ store[k] = Loaded(ld.pid, v, Cardinality(BlocksOfPage(v) \cap FileBlocks(s)))
    BY DEF ImageComplete
  <2> DEFINE p == ld.pid
             c == Cardinality(BlocksOfPage(v) \cap FileBlocks(s))
  <2>1. p \in Pids /\ TlbTypeOK /\ PageInv
    BY DEF TlbInv, TlbTypeOK, LoadState, ProcInv
  <2>2. s \in Segment
    BY <2>1, SoftTlbAssumption
  <2>3. PICK n \in DOMAIN SegmentPlan(s) :
          SegmentPlan(s)[n] = [vpage |-> v, fill |-> "zero", blocks |-> c]
    BY <2>2, SegmentCovered
  <2>4. PICK m \in 1..Len(Plan[p]) : Plan[p][m] = SegmentPlan(s)[n]
    BY <2>1, SegmentInPlan
  <2>5. Plan[p][m].vpage = v /\ Plan[p][m].fill = "zero" /\ Plan[p][m].blocks = c
    BY <2>3, <2>4
  <2>6. LoadedUpTo(p, Len(Plan[p]))
    <3>1. LoadedUpTo(p, ld.n - 1) /\ ld.n = Len(Plan[p]) + 1
      BY <2>1, Consts DEF TlbInv, LoadInv
    <3> QED BY <3>1, <2>1, PlanFacts
  <2>7. PICK k \in Pages : page_info[k].pid = p /\ page_info[k].vpage = v /\ store[k] = Loaded(p, v, c)
    BY <2>5, <2>6 DEF LoadedUpTo
  <2>8. Belongs(k, p)
    BY <2>1, <2>7, BelongsIsName
  <2> QED BY <2>7, <2>8
<1> QED BY <1>1, TlbInvariant, PTL
=============================================================================
