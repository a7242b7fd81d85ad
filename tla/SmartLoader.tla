----------------------------- MODULE SmartLoader -----------------------------
(***************************************************************************)
(* SimpleSmartLoader (group-16-4): the loader jumps to the entry point of  *)
(* an ELF file of which nothing is mapped, and its SIGSEGV handler maps    *)
(* one page per fault, from the file or, for BSS, zeroed.                  *)
(*                                                                         *)
(* The program is arbitrary: it reads and writes any address.  The handler *)
(* runs in the program's own thread, so a fault is one step.  A byte of    *)
(* memory is the file offset it was mapped from, Zero or Written.          *)
(***************************************************************************)
EXTENDS Integers, FiniteSets

CONSTANTS PAGE_SIZE,
          Segments,      \* the PT_LOAD headers: vaddr, filesz, memsz, offset, writable
          Addresses,     \* 0..n: what the program may touch
          MaxFaults      \* bound: page faults

VARIABLES
  legal,    \* whether the program touches only what its segments allow
  loader,   \* "start", "running", "killed", "exited" or "done"
  access,   \* the instruction being executed: address and whether it writes
  mem,      \* the bytes of the mapped pages
  prot,     \* the mapped pages that are writable
  map_ranges,
  no_page_faults, no_allocations, no_internal_fragmentation,
  cause     \* history: the address whose fault mapped each page

ldVars == <<legal, loader, access, mem, prot, map_ranges, no_page_faults, no_allocations,
            no_internal_fragmentation, cause>>

Zero == -1
Written == -2
NoAccess == [addr |-> -1, write |-> FALSE]

PageOf(a) == a \div PAGE_SIZE
Bytes(p) == {p * PAGE_SIZE + x : x \in 0..(PAGE_SIZE - 1)}
Pages == {PageOf(a) : a \in Addresses}
Mapped == {PageOf(a) : a \in DOMAIN mem}

FileEnd(s) == s.vaddr + s.filesz
MemEnd(s) == s.vaddr + s.memsz
InSegment(s, a) == a >= s.vaddr /\ a < MemEnd(s)
Owner(a) == {s \in Segments : InSegment(s, a)}

\* The address space is made of whole pages.  What ld guarantees: congruent offsets, no
\* page with two segments, writable BSS.
ASSUME LoaderAssumption ==
  /\ PAGE_SIZE \in Nat \ {0} /\ MaxFaults \in Nat
  /\ Addresses \subseteq Nat /\ \A a \in Addresses : Bytes(PageOf(a)) \subseteq Addresses
  /\ Segments \subseteq [vaddr : Nat, filesz : Nat, memsz : Nat, offset : Nat, writable : BOOLEAN]
  /\ \A s \in Segments : /\ s.offset % PAGE_SIZE = s.vaddr % PAGE_SIZE
                         /\ s.memsz >= s.filesz
                         /\ s.memsz > s.filesz => s.writable
  /\ \A s, t \in Segments : s # t =>
       \A a, b \in Addresses : InSegment(s, a) /\ InSegment(t, b) => PageOf(a) # PageOf(b)

LoaderInit ==
  /\ legal \in BOOLEAN
  /\ loader = "start" /\ access = NoAccess
  /\ mem = <<>> /\ prot = {} /\ map_ranges = {}
  /\ no_page_faults = 0 /\ no_allocations = 0 /\ no_internal_fragmentation = 0
  /\ cause = [p \in Pages |-> -1]

\* load_and_run_elf up to the entry point; any of its steps may fail.
Load ==
  /\ loader = "start"
  /\ loader' \in {"running", "exited"}
  /\ UNCHANGED <<legal, access, mem, prot, map_ranges, no_page_faults, no_allocations,
                 no_internal_fragmentation, cause>>

-----------------------------------------------------------------------------
(* loader_map_segment.                                                     *)

\* The byte at a of a page mapped from the file for s, with its BSS part zeroed.
FileByte(s, a) ==
  LET aligned == (s.offset \div PAGE_SIZE) * PAGE_SIZE
      file_offset == aligned + (PageOf(a) * PAGE_SIZE - (s.vaddr \div PAGE_SIZE) * PAGE_SIZE)
      bssHere == s.memsz > s.filesz /\ PageOf(FileEnd(s)) = PageOf(a)
  IN  IF bssHere /\ a >= FileEnd(s) /\ a < MemEnd(s) THEN Zero
      ELSE file_offset + (a % PAGE_SIZE)

\* Mutant: the BSS part of the last file page keeps what the file has there.
PageUncleared(s, fault) ==
  [a \in Bytes(PageOf(fault)) |->
     IF fault < FileEnd(s) THEN s.offset + (a - s.vaddr) ELSE Zero]

\* The page mapped for a fault in s.
PageFor(s, fault) ==
  [a \in Bytes(PageOf(fault)) |-> IF fault < FileEnd(s) THEN FileByte(s, a) ELSE Zero]

\* Mutant: the bytes before the segment are counted as used.
FragmentAtEnd(s, p) ==
  LET page_end == (p + 1) * PAGE_SIZE
  IN  IF page_end > MemEnd(s) THEN page_end - MemEnd(s) ELSE 0
\* What the page of the fault adds to the internal fragmentation.
Fragment(s, p) ==
  LET used_start == IF p * PAGE_SIZE < s.vaddr THEN s.vaddr ELSE p * PAGE_SIZE
      page_end == (p + 1) * PAGE_SIZE
      used_end == IF page_end > MemEnd(s) THEN MemEnd(s) ELSE page_end
  IN  IF used_end > used_start THEN PAGE_SIZE - (used_end - used_start) ELSE 0

\* Mutant: the BSS is zeroed to its end, not only to the end of the page.
MapPageZeroesOn(s, fault) ==
  LET page == PageFor(s, fault)
      inPage == fault < FileEnd(s) /\ PageOf(FileEnd(s)) = PageOf(fault)
  IN  mem' = [a \in DOMAIN mem \cup DOMAIN page |->
                CASE a \in DOMAIN page -> page[a]
                  [] inPage /\ a \notin DOMAIN page /\ a \in FileEnd(s)..(MemEnd(s) - 1) -> Zero
                  [] OTHER -> mem[a]]

\* mmap with MAP_FIXED replaces what was there.
MapPage(s, fault) ==
  LET page == PageFor(s, fault)
  IN  mem' = [a \in DOMAIN mem \cup DOMAIN page |->
                IF a \in DOMAIN page THEN page[a] ELSE mem[a]]

\* map_ranges is a list in the code and may name a page twice; unmapping it twice is
\* the same as once, so it is a set here.
loader_map_segment(s, fault) ==
  LET p == PageOf(fault)
  IN  /\ MapPage(s, fault)
      /\ prot' = IF s.writable THEN prot \cup {p} ELSE prot \ {p}
      /\ map_ranges' = map_ranges \cup {p}
      /\ no_allocations' = no_allocations + 1
      /\ no_internal_fragmentation' = no_internal_fragmentation + Fragment(s, p)
      /\ cause' = [cause EXCEPT ![p] = fault]
      /\ UNCHANGED loader

-----------------------------------------------------------------------------
(* The program and the handler.                                            *)

Permitted(a, w) == Owner(a) # {} /\ (w => \E s \in Owner(a) : s.writable)
Succeeds == PageOf(access.addr) \in Mapped /\ (access.write => PageOf(access.addr) \in prot)

Instruction ==
  /\ loader = "running" /\ access = NoAccess
  /\ \E a \in Addresses, w \in BOOLEAN :
       /\ legal => Permitted(a, w)
       /\ access' = [addr |-> a, write |-> w]
  /\ UNCHANGED <<legal, loader, mem, prot, map_ranges, no_page_faults, no_allocations,
                 no_internal_fragmentation, cause>>

Execute ==
  /\ loader = "running" /\ access # NoAccess /\ Succeeds
  /\ mem' = IF access.write THEN [mem EXCEPT ![access.addr] = Written] ELSE mem
  /\ access' = NoAccess
  /\ UNCHANGED <<legal, loader, prot, map_ranges, no_page_faults, no_allocations,
                 no_internal_fragmentation, cause>>

\* Mutant: the handler returns although nothing could be mapped.
FaultIgnored ==
  /\ loader = "running" /\ access # NoAccess /\ ~Succeeds
  /\ no_page_faults < MaxFaults
  /\ no_page_faults' = no_page_faults + 1
  /\ \/ \E s \in Owner(access.addr) : loader_map_segment(s, access.addr)
     \/ UNCHANGED <<loader, mem, prot, map_ranges, no_allocations, no_internal_fragmentation, cause>>
  /\ UNCHANGED <<legal, access>>

\* segv_handler and try_load_for_fault: no segment, or a failed mmap or realloc, and the
\* default action kills the process.
Fault ==
  /\ loader = "running" /\ access # NoAccess /\ ~Succeeds
  /\ no_page_faults < MaxFaults
  /\ no_page_faults' = no_page_faults + 1
  /\ \/ \E s \in Owner(access.addr) : loader_map_segment(s, access.addr)
     \/ /\ loader' = "killed"
        /\ UNCHANGED <<mem, prot, map_ranges, no_allocations, no_internal_fragmentation, cause>>
  /\ UNCHANGED <<legal, access>>

\* The entry point returns; the statistics are printed and loader_cleanup unmaps.
Return ==
  /\ loader = "running" /\ access = NoAccess
  /\ loader' = "done"
  /\ mem' = [a \in {a \in DOMAIN mem : PageOf(a) \notin map_ranges} |-> mem[a]]
  /\ map_ranges' = {}
  /\ UNCHANGED <<legal, access, prot, no_page_faults, no_allocations, no_internal_fragmentation, cause>>

Ended == (loader \in {"killed", "exited", "done"} \/ no_page_faults = MaxFaults) /\ UNCHANGED ldVars

LoaderNext == Load \/ Instruction \/ Execute \/ Fault \/ Return \/ Ended
LoaderSpec == LoaderInit /\ [][LoaderNext]_ldVars
\* The processor goes on with the instruction it is at.
FairLoaderSpec == LoaderSpec /\ WF_ldVars(Execute \/ Fault)

-----------------------------------------------------------------------------
(* Properties.                                                             *)

\* What the ELF file says the byte at a is before the program writes it.
ImageByte(s, a) == IF a < FileEnd(s) THEN s.offset + (a - s.vaddr) ELSE Zero
Correct(a) == \A s \in Owner(a) : mem[a] \in {ImageByte(s, a), Written}

\* A mapped byte of a segment is what the file says, or what the program wrote, unless
\* its page holds the end of the file data and was mapped by a fault behind it: the test
\* at SimpleSmartLoader.c:69 looks at the address, not at the page.
ImageUnlessBssFirst ==
  \A a \in DOMAIN mem :
    \/ Correct(a)
    \/ \E s \in Owner(a) : a < FileEnd(s) /\ cause[PageOf(a)] >= FileEnd(s)

\* The printed numbers are right for a legal program: one allocation per page, and the
\* fragmentation is the number of mapped bytes that belong to no segment.
StatisticsExact ==
  legal /\ loader = "running" =>
    /\ no_allocations = Cardinality(Mapped)
    /\ no_internal_fragmentation = Cardinality({a \in DOMAIN mem : Owner(a) = {}})

\* What the program wrote is never taken away by a later fault.
WritesSurvive ==
  [][loader' = "running" =>
       \A a \in DOMAIN mem : mem[a] = Written => a \in DOMAIN mem' /\ mem'[a] = Written]_ldVars

\* Every permitted instruction completes, or the process is killed: no endless faults.
InstructionCompletes == (legal /\ access # NoAccess) ~> (access = NoAccess \/ loader = "killed")

=============================================================================
