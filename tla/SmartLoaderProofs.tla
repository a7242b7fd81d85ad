-------------------------- MODULE SmartLoaderProofs --------------------------
(***************************************************************************)
(* Theorems about SimpleSmartLoader, for every page size, every set of     *)
(* segments that ld produces and every program.                            *)
(***************************************************************************)
EXTENDS SmartLoader, FiniteSetTheorems, TLAPS

-----------------------------------------------------------------------------
(* The inductive invariant.                                                *)

\* The byte at a, or what the program wrote over it, comes from s, mapped by the fault that
\* the history names; its page has the protection of s.
From(s, a) ==
  LET f == cause[PageOf(a)]
  IN  /\ f \in Addresses /\ PageOf(f) = PageOf(a) /\ InSegment(s, f)
      /\ mem[a] \in {PageFor(s, f)[a], Written}
      /\ PageOf(a) \in prot <=> s.writable

\* Memory is made of whole pages, each of one segment, written only if writable.
MemInv ==
  /\ DOMAIN mem \subseteq Addresses
  /\ \A a \in DOMAIN mem : Bytes(PageOf(a)) \subseteq DOMAIN mem
  /\ \A a \in DOMAIN mem : \E s \in Segments : From(s, a)
  /\ \A a \in DOMAIN mem : mem[a] = Written => PageOf(a) \in prot

\* The instruction that is being executed is one that the program may execute.
AccessInv ==
  /\ cause \in [Pages -> Int]
  /\ access # NoAccess => /\ access.addr \in Addresses
                          /\ legal => Permitted(access.addr, access.write)

Spare == {a \in DOMAIN mem : Owner(a) = {}}

CountInv ==
  /\ IsFiniteSet(Mapped) /\ IsFiniteSet(Spare)
  /\ legal /\ loader \in {"start", "running"} =>
       /\ no_allocations = Cardinality(Mapped)
       /\ no_internal_fragmentation = Cardinality(Spare)

LoaderInv == MemInv /\ AccessInv

-----------------------------------------------------------------------------
(* Pages.                                                                  *)

LEMMA Product == \A x, y \in Nat : x * y \in Nat
OBVIOUS

LEMMA PageSize == PAGE_SIZE \in Nat \ {0}
BY LoaderAssumption

LEMMA PageType ==
  ASSUME NEW x \in Nat
  PROVE  PageOf(x) \in Nat /\ x % PAGE_SIZE \in 0..(PAGE_SIZE - 1)
BY PageSize DEF PageOf

LEMMA Rounded ==
  ASSUME NEW x \in Nat
  PROVE  x = PageOf(x) * PAGE_SIZE + (x % PAGE_SIZE)
BY PageSize DEF PageOf

\* A page is an interval of addresses.
LEMMA PageBounds ==
  ASSUME NEW x \in Nat, NEW p \in Nat
  PROVE  PageOf(x) = p <=> p * PAGE_SIZE <= x /\ x < (p + 1) * PAGE_SIZE
BY PageSize DEF PageOf

LEMMA BytesOfPage ==
  ASSUME NEW p \in Nat
  PROVE  /\ Bytes(p) = (p * PAGE_SIZE)..(p * PAGE_SIZE + PAGE_SIZE - 1)
         /\ \A x \in Nat : x \in Bytes(p) <=> PageOf(x) = p
         /\ Bytes(p) \subseteq Nat
<1> DEFINE b == p * PAGE_SIZE
<1>1. b \in Nat /\ PAGE_SIZE \in Nat \ {0} /\ (p + 1) * PAGE_SIZE = b + PAGE_SIZE
  BY PageSize
<1>2. Bytes(p) = {b + x : x \in 0..(PAGE_SIZE - 1)}
  BY DEF Bytes
<1>3. \A x \in Nat : PageOf(x) = p <=> b <= x /\ x < b + PAGE_SIZE
  BY <1>1, PageBounds
<1> HIDE DEF b
<1>4. Bytes(p) = b..(b + PAGE_SIZE - 1)
  <2>1. \A y \in b..(b + PAGE_SIZE - 1) : y - b \in 0..(PAGE_SIZE - 1) /\ y = b + (y - b)
    BY <1>1
  <2>2. b..(b + PAGE_SIZE - 1) \subseteq Bytes(p)
    BY <1>2, <2>1
  <2>3. Bytes(p) \subseteq b..(b + PAGE_SIZE - 1)
    BY <1>1, <1>2
  <2> QED BY <2>2, <2>3
<1>5. Bytes(p) \subseteq Nat
  BY <1>1, <1>4
<1>6. \A x \in Nat : x \in Bytes(p) <=> PageOf(x) = p
  BY <1>1, <1>3, <1>4
<1> QED BY <1>4, <1>5, <1>6 DEF b

\* Pages are in the order of their addresses.
LEMMA PageOrder ==
  ASSUME NEW x \in Nat, NEW y \in Nat, NEW z \in Nat, x <= y, y <= z, PageOf(x) = PageOf(z)
  PROVE  PageOf(y) = PageOf(x)
<1> DEFINE b == PageOf(x) * PAGE_SIZE
           t == (PageOf(x) + 1) * PAGE_SIZE
<1>1. PageOf(x) \in Nat /\ b \in Nat /\ t \in Nat
  <2>1. PageOf(x) \in Nat /\ PageOf(x) + 1 \in Nat /\ PAGE_SIZE \in Nat
    BY PageType, PageSize
  <2> QED BY <2>1, Product
<1>2. b <= x /\ z < t
  BY <1>1, PageBounds
<1>3. b <= y /\ y < t
  <2> HIDE DEF b, t
  <2> QED BY <1>1, <1>2
<1> QED BY <1>1, <1>3, PageBounds

\* The page that a fault at f in the file data of s maps holds, in s, what the file says.
LEMMA MappedFromFile ==
  ASSUME NEW s \in Segments, NEW a \in Nat, NEW f \in Nat, PageOf(a) = PageOf(f),
         InSegment(s, a), InSegment(s, f), f < FileEnd(s)
  PROVE  FileByte(s, a) = ImageByte(s, a)
<1> DEFINE fileOffset == (s.offset \div PAGE_SIZE) * PAGE_SIZE
                         + (PageOf(a) * PAGE_SIZE - (s.vaddr \div PAGE_SIZE) * PAGE_SIZE)
<1>1. /\ s.vaddr \in Nat /\ s.offset \in Nat /\ s.filesz \in Nat /\ s.memsz \in Nat
      /\ s.offset % PAGE_SIZE = s.vaddr % PAGE_SIZE /\ s.memsz >= s.filesz
      /\ PAGE_SIZE \in Nat \ {0}
  BY LoaderAssumption
<1>2. fileOffset + (a % PAGE_SIZE) = s.offset + (a - s.vaddr)
  <2>1. a = PageOf(a) * PAGE_SIZE + (a % PAGE_SIZE) /\ PageOf(a) \in Nat
    BY Rounded, PageType
  <2>2. s.vaddr = (s.vaddr \div PAGE_SIZE) * PAGE_SIZE + (s.vaddr % PAGE_SIZE)
        /\ s.vaddr \div PAGE_SIZE \in Nat
    BY <1>1, Rounded, PageType DEF PageOf
  <2>3. s.offset = (s.offset \div PAGE_SIZE) * PAGE_SIZE + (s.vaddr % PAGE_SIZE)
        /\ s.offset \div PAGE_SIZE \in Nat
    BY <1>1, Rounded, PageType DEF PageOf
  <2>4. /\ PageOf(a) * PAGE_SIZE \in Nat /\ (s.vaddr \div PAGE_SIZE) * PAGE_SIZE \in Nat
        /\ (s.offset \div PAGE_SIZE) * PAGE_SIZE \in Nat
    BY <1>1, <2>1, <2>2, <2>3, Product
  <2>5. a % PAGE_SIZE \in Int /\ s.vaddr % PAGE_SIZE \in Int
    BY <1>1, PageType, PageSize
  <2> DEFINE x == PageOf(a) * PAGE_SIZE
             y == (s.vaddr \div PAGE_SIZE) * PAGE_SIZE
             z == (s.offset \div PAGE_SIZE) * PAGE_SIZE
             m == a % PAGE_SIZE
             n == s.vaddr % PAGE_SIZE
  <2>6. /\ x \in Nat /\ y \in Nat /\ z \in Nat /\ m \in Int /\ n \in Int
        /\ a = x + m /\ s.vaddr = y + n /\ s.offset = z + n
    BY <2>1, <2>2, <2>3, <2>4, <2>5
  <2> HIDE DEF x, y, z, m, n
  <2>7. (z + (x - y)) + m = s.offset + (a - s.vaddr)
    BY <2>6
  <2> QED BY <2>7 DEF x, y, z, m
<1>3. CASE a < FileEnd(s)
  <2>1. FileByte(s, a) = fileOffset + (a % PAGE_SIZE)
    BY <1>1, <1>3 DEF FileByte, FileEnd
  <2> HIDE DEF fileOffset
  <2> QED BY <1>2, <1>3, <2>1 DEF ImageByte
<1>4. CASE ~(a < FileEnd(s))
  <2>1. FileEnd(s) \in Nat /\ f <= FileEnd(s) /\ FileEnd(s) <= a /\ a < MemEnd(s)
        /\ s.memsz > s.filesz
    BY <1>1, <1>4 DEF FileEnd, MemEnd, InSegment
  <2>2. PageOf(FileEnd(s)) = PageOf(a)
    BY <2>1, PageOrder
  <2>3. FileByte(s, a) = Zero
    BY <2>1, <2>2 DEF FileByte
  <2> QED BY <1>4, <2>3 DEF ImageByte
<1> QED BY <1>3, <1>4

\* The segment of a page is unique.
LEMMA OwnerOfPage ==
  ASSUME NEW s \in Segments, NEW t \in Segments, NEW a \in Addresses, NEW b \in Addresses,
         PageOf(a) = PageOf(b), InSegment(s, a), InSegment(t, b)
  PROVE  s = t
BY LoaderAssumption

\* What a fault maps is never taken for what the program wrote.
LEMMA NeverWritten ==
  ASSUME NEW s \in Segments, NEW a \in Nat, NEW f \in Nat, PageOf(a) = PageOf(f), InSegment(s, f)
  PROVE  PageFor(s, f)[a] # Written
<1> DEFINE fileOffset == (s.offset \div PAGE_SIZE) * PAGE_SIZE
                         + (PageOf(a) * PAGE_SIZE - (s.vaddr \div PAGE_SIZE) * PAGE_SIZE)
<1>1. /\ s.vaddr \in Nat /\ s.offset \in Nat /\ s.filesz \in Nat /\ PAGE_SIZE \in Nat \ {0}
      /\ s.vaddr <= f
  BY LoaderAssumption DEF InSegment
<1>2. fileOffset + (a % PAGE_SIZE) >= 0
  <2>1. PageOf(s.vaddr) <= PageOf(f)
    BY <1>1 DEF PageOf
  <2>2. PageOf(a) \in Nat /\ PageOf(s.vaddr) \in Nat /\ s.offset \div PAGE_SIZE \in Nat
        /\ a % PAGE_SIZE \in Nat
    BY <1>1, Rounded, PageType DEF PageOf
  <2>3. PageOf(s.vaddr) * PAGE_SIZE <= PageOf(a) * PAGE_SIZE
    BY <1>1, <2>1, <2>2
  <2>4. (s.offset \div PAGE_SIZE) * PAGE_SIZE \in Nat /\ PageOf(s.vaddr) * PAGE_SIZE \in Nat
        /\ PageOf(a) * PAGE_SIZE \in Nat
    BY <1>1, <2>2
  <2> QED BY <2>2, <2>3, <2>4 DEF PageOf
<1>3. a \in Bytes(PageOf(f))
  BY PageType, BytesOfPage
<1>4. PageFor(s, f)[a] \in {Zero, FileByte(s, a)}
  BY <1>3 DEF PageFor
<1>5. FileByte(s, a) \in {Zero, fileOffset + (a % PAGE_SIZE)}
  BY DEF FileByte
<1> HIDE DEF fileOffset
<1> QED BY <1>2, <1>4, <1>5 DEF Zero, Written

-----------------------------------------------------------------------------
(* The fault handler.                                                      *)

\* What a fault that is served leaves in memory: the page of the fault, mapped from the
\* segment, and everything else as it was.
LEMMA FaultMaps ==
  ASSUME LoaderInv, NEW s \in Segments, NEW f \in Addresses, InSegment(s, f),
         loader_map_segment(s, f)
  PROVE  /\ DOMAIN mem' = DOMAIN mem \cup Bytes(PageOf(f))
         /\ \A a \in DOMAIN mem' : a \in Addresses
         /\ \A a \in DOMAIN mem' : PageOf(a) = PageOf(f) =>
              /\ mem'[a] = PageFor(s, f)[a] /\ mem'[a] # Written
              /\ cause'[PageOf(a)] = f /\ (PageOf(a) \in prot' <=> s.writable)
         /\ \A a \in DOMAIN mem' : PageOf(a) # PageOf(f) =>
              /\ a \in DOMAIN mem /\ mem'[a] = mem[a]
              /\ cause'[PageOf(a)] = cause[PageOf(a)] /\ (PageOf(a) \in prot' <=> PageOf(a) \in prot)
<1> DEFINE p == PageOf(f)
           page == PageFor(s, f)
<1>0. Addresses \subseteq Nat /\ DOMAIN mem \subseteq Addresses /\ f \in Nat /\ Bytes(p) \subseteq Addresses
  BY LoaderAssumption DEF LoaderInv, MemInv
<1>1. p \in Nat /\ (\A x \in Nat : x \in Bytes(p) <=> PageOf(x) = p) /\ p \in Pages
  BY <1>0, PageType, BytesOfPage DEF Pages
<1>2. DOMAIN page = Bytes(p)
  BY DEF PageFor
<1>3. mem' = [a \in DOMAIN mem \cup Bytes(p) |-> IF a \in Bytes(p) THEN page[a] ELSE mem[a]]
  BY <1>2 DEF loader_map_segment, MapPage
<1>4. prot' = (IF s.writable THEN prot \cup {p} ELSE prot \ {p}) /\ cause' = [cause EXCEPT ![p] = f]
      /\ s.writable \in BOOLEAN
  BY LoaderAssumption DEF loader_map_segment
<1> HIDE DEF page
<1>5. \A a \in DOMAIN mem' : a \in Addresses /\ a \in Nat
  BY <1>0, <1>3
<1>6. ASSUME NEW a \in DOMAIN mem', PageOf(a) = p
      PROVE  /\ mem'[a] = page[a] /\ mem'[a] # Written
             /\ cause'[PageOf(a)] = f /\ (PageOf(a) \in prot' <=> s.writable)
  <2>1. a \in Bytes(p) /\ a \in Nat
    BY <1>1, <1>5, <1>6
  <2>2. mem'[a] = page[a]
    BY <1>3, <2>1
  <2>3. page[a] # Written
    BY <2>1, <1>0, <1>6, NeverWritten DEF page
  <2>4. cause'[p] = f
    BY <1>1, <1>4 DEF LoaderInv, AccessInv
  <2> HIDE DEF p
  <2>5. p \in prot' <=> s.writable
    BY <1>4
  <2> QED BY <2>2, <2>3, <2>4, <2>5, <1>6
<1>7. ASSUME NEW a \in DOMAIN mem', PageOf(a) # p
      PROVE  /\ a \in DOMAIN mem /\ mem'[a] = mem[a]
             /\ cause'[PageOf(a)] = cause[PageOf(a)] /\ (PageOf(a) \in prot' <=> PageOf(a) \in prot)
  <2>1. a \notin Bytes(p) /\ PageOf(a) \in Pages
    BY <1>1, <1>5, <1>7 DEF Pages
  <2>2. a \in DOMAIN mem /\ mem'[a] = mem[a]
    BY <1>3, <2>1
  <2>3. cause'[PageOf(a)] = cause[PageOf(a)]
    BY <1>4, <1>7, <2>1 DEF LoaderInv, AccessInv
  <2> HIDE DEF p
  <2>4. PageOf(a) \in prot' <=> PageOf(a) \in prot
    BY <1>4, <1>7
  <2> QED BY <2>2, <2>3, <2>4
<1> QED BY <1>3, <1>5, <1>6, <1>7 DEF page

\* The page of an access that faults holds nothing that the program wrote.
LEMMA FaultOnUnwritten ==
  ASSUME MemInv, ~Succeeds, NEW a \in DOMAIN mem, mem[a] = Written
  PROVE  PageOf(a) # PageOf(access.addr)
BY DEF MemInv, Succeeds, Mapped

\* The pages of a legal program's accesses that fault are not mapped.
LEMMA FaultOnUnmapped ==
  ASSUME MemInv, access.addr \in Addresses, Permitted(access.addr, access.write), ~Succeeds
  PROVE  PageOf(access.addr) \notin Mapped
<1>1. SUFFICES ASSUME PageOf(access.addr) \in Mapped PROVE FALSE
  OBVIOUS
<1>2. PICK a \in DOMAIN mem : PageOf(a) = PageOf(access.addr)
  BY <1>1 DEF Mapped
<1>3. PICK s \in Segments : From(s, a)
  BY DEF MemInv
<1>4. access.write /\ PageOf(a) \notin prot
  BY <1>1, <1>2 DEF Succeeds
<1>5. PICK t \in Segments : InSegment(t, access.addr) /\ t.writable
  BY <1>4 DEF Permitted, Owner
<1>6. s = t
  <2>1. PICK b \in Addresses : PageOf(b) = PageOf(a) /\ InSegment(s, b)
    BY <1>3 DEF From
  <2> QED BY <1>2, <1>5, <2>1, OwnerOfPage
<1> QED BY <1>3, <1>4, <1>5, <1>6 DEF From

LEMMA LoaderStep == ASSUME LoaderInv, [LoaderNext]_ldVars PROVE LoaderInv'
<1>1. CASE Load \/ Ended \/ UNCHANGED ldVars
  <2>1. UNCHANGED <<mem, prot, cause, access, legal>>
    BY <1>1 DEF Load, Ended, ldVars
  <2>2. MemInv'
    BY <2>1 DEF LoaderInv, MemInv, From
  <2>3. AccessInv'
    BY <2>1 DEF LoaderInv, AccessInv
  <2> QED BY <2>2, <2>3 DEF LoaderInv
<1>2. CASE Instruction
  <2>1. UNCHANGED <<mem, prot, cause, legal>>
    BY <1>2 DEF Instruction
  <2>2. MemInv'
    BY <2>1 DEF LoaderInv, MemInv, From
  <2>3. PICK a \in Addresses, w \in BOOLEAN : (legal => Permitted(a, w)) /\ access' = [addr |-> a, write |-> w]
    BY <1>2 DEF Instruction
  <2>4. access'.addr = a /\ access'.write = w
    BY <2>3
  <2>5. AccessInv'
    BY <2>1, <2>3, <2>4 DEF LoaderInv, AccessInv
  <2> QED BY <2>2, <2>5 DEF LoaderInv
<1>3. CASE Execute
  <2>1. /\ UNCHANGED <<prot, cause, legal>> /\ access' = NoAccess /\ Succeeds
        /\ mem' = IF access.write THEN [mem EXCEPT ![access.addr] = Written] ELSE mem
    BY <1>3 DEF Execute
  <2>2. DOMAIN mem' = DOMAIN mem
    BY <2>1
  <2>3. \A a \in DOMAIN mem : mem'[a] = mem[a] \/ (access.write /\ a = access.addr /\ mem'[a] = Written)
    BY <2>1
  <2>4. \A a \in DOMAIN mem, s \in Segments : From(s, a) => From(s, a)'
    BY <2>1, <2>3 DEF From
  <2>5. \A a \in DOMAIN mem : mem'[a] = Written => PageOf(a) \in prot
    BY <2>1, <2>3 DEF LoaderInv, MemInv, Succeeds
  <2>6. MemInv'
    BY <2>1, <2>2, <2>4, <2>5 DEF LoaderInv, MemInv
  <2>7. AccessInv'
    BY <2>1 DEF LoaderInv, AccessInv
  <2> QED BY <2>6, <2>7 DEF LoaderInv
<1>4. CASE Fault
  <2>1. UNCHANGED <<legal, access>> /\ access.addr \in Addresses
    BY <1>4 DEF Fault, LoaderInv, AccessInv
  <2>2. CASE UNCHANGED <<mem, prot, cause>>
    <3>1. MemInv'
      BY <2>2 DEF LoaderInv, MemInv, From
    <3>2. AccessInv'
      BY <2>1, <2>2 DEF LoaderInv, AccessInv
    <3> QED BY <3>1, <3>2 DEF LoaderInv
  <2>3. CASE ~UNCHANGED <<mem, prot, cause>>
    <3>1. PICK s \in Segments : InSegment(s, access.addr) /\ loader_map_segment(s, access.addr)
      BY <1>4, <2>3 DEF Fault, Owner
    <3>2. PICK f \in Addresses : f = access.addr
      BY <2>1
    <3>3. /\ DOMAIN mem' = DOMAIN mem \cup Bytes(PageOf(f))
          /\ \A a \in DOMAIN mem' : a \in Addresses
          /\ \A a \in DOMAIN mem' : PageOf(a) = PageOf(f) =>
               /\ mem'[a] = PageFor(s, f)[a] /\ mem'[a] # Written
               /\ cause'[PageOf(a)] = f /\ (PageOf(a) \in prot' <=> s.writable)
          /\ \A a \in DOMAIN mem' : PageOf(a) # PageOf(f) =>
               /\ a \in DOMAIN mem /\ mem'[a] = mem[a]
               /\ cause'[PageOf(a)] = cause[PageOf(a)] /\ (PageOf(a) \in prot' <=> PageOf(a) \in prot)
      BY <3>1, <3>2, FaultMaps
    <3>4. ASSUME NEW a \in DOMAIN mem' PROVE Bytes(PageOf(a)) \subseteq DOMAIN mem'
      BY <3>3 DEF LoaderInv, MemInv
    <3>5. ASSUME NEW a \in DOMAIN mem' PROVE \E t \in Segments : From(t, a)'
      <4>1. CASE PageOf(a) = PageOf(f)
        <5>1. From(s, a)'
          BY <4>1, <3>1, <3>2, <3>3 DEF From
        <5> QED BY <5>1
      <4>2. CASE PageOf(a) # PageOf(f)
        <5>1. PICK t \in Segments : From(t, a)
          BY <4>2, <3>3 DEF LoaderInv, MemInv
        <5>2. From(t, a)'
          BY <5>1, <4>2, <3>3 DEF From
        <5> QED BY <5>2
      <4> QED BY <4>1, <4>2
    <3>6. ASSUME NEW a \in DOMAIN mem', mem'[a] = Written PROVE PageOf(a) \in prot'
      BY <3>3, <3>6 DEF LoaderInv, MemInv
    <3>7. MemInv'
      BY <3>3, <3>4, <3>5, <3>6 DEF MemInv
    <3>8. cause' \in [Pages -> Int]
      <4>1. cause' = [cause EXCEPT ![PageOf(f)] = f] /\ f \in Int
        BY <3>1, <3>2, LoaderAssumption DEF loader_map_segment
      <4> QED BY <4>1 DEF LoaderInv, AccessInv
    <3>9. AccessInv'
      BY <2>1, <3>8 DEF LoaderInv, AccessInv, Permitted
    <3> QED BY <3>7, <3>9 DEF LoaderInv
  <2> QED BY <2>2, <2>3
<1>5. CASE Return
  <2>1. /\ UNCHANGED <<legal, access, prot, cause>>
        /\ mem' = [a \in {a \in DOMAIN mem : PageOf(a) \notin map_ranges} |-> mem[a]]
    BY <1>5 DEF Return
  <2>2. \A a \in DOMAIN mem' : a \in DOMAIN mem /\ PageOf(a) \notin map_ranges /\ mem'[a] = mem[a]
    BY <2>1
  <2>3. ASSUME NEW a \in DOMAIN mem', NEW b \in Bytes(PageOf(a)) PROVE b \in DOMAIN mem'
    <3>1. b \in DOMAIN mem /\ a \in Nat /\ b \in Nat
      BY <2>2, LoaderAssumption DEF LoaderInv, MemInv
    <3>2. PageOf(b) = PageOf(a)
      BY <3>1, PageType, BytesOfPage
    <3> QED BY <2>1, <2>2, <3>1, <3>2
  <2>4. \A a \in DOMAIN mem', s \in Segments : From(s, a) => From(s, a)'
    BY <2>1, <2>2 DEF From
  <2>5. MemInv'
    BY <2>1, <2>2, <2>3, <2>4 DEF LoaderInv, MemInv
  <2>6. AccessInv'
    BY <2>1 DEF LoaderInv, AccessInv
  <2> QED BY <2>5, <2>6 DEF LoaderInv
<1> QED BY <1>1, <1>2, <1>3, <1>4, <1>5 DEF LoaderNext

LEMMA LoaderStart == LoaderInit => LoaderInv
<1> SUFFICES ASSUME LoaderInit PROVE LoaderInv
  OBVIOUS
<1>1. mem = <<>> /\ access = NoAccess /\ cause \in [Pages -> Int]
  BY DEF LoaderInit
<1>2. DOMAIN mem = {}
  BY <1>1
<1> QED BY <1>1, <1>2 DEF LoaderInv, MemInv, AccessInv

LEMMA LoaderInvariant == LoaderSpec => []LoaderInv
<1>1. LoaderInv /\ [LoaderNext]_ldVars => LoaderInv'
  BY LoaderStep
<1> QED BY <1>1, LoaderStart, PTL DEF LoaderSpec

\* A program that runs under the smart loader sees, in every mapped byte of its segments,
\* the contents of the file, a zero of the BSS or what it wrote itself, except in the
\* file's part of a page that a fault behind the file data mapped
\* (SimpleSmartLoader.c:69 and the mappings after it).
THEOREM ImageIsTheFile == LoaderSpec => []ImageUnlessBssFirst
<1>1. LoaderInv => ImageUnlessBssFirst
  <2> SUFFICES ASSUME LoaderInv, NEW a \in DOMAIN mem,
                      ~\E s \in Owner(a) : a < FileEnd(s) /\ cause[PageOf(a)] >= FileEnd(s),
                      NEW s \in Owner(a)
               PROVE  mem[a] \in {ImageByte(s, a), Written}
    BY DEF ImageUnlessBssFirst, Correct
  <2>1. s \in Segments /\ InSegment(s, a) /\ a \in Addresses /\ a \in Nat
    BY LoaderAssumption DEF Owner, LoaderInv, MemInv
  <2>2. PICK t \in Segments : From(t, a)
    BY DEF LoaderInv, MemInv
  <2>3. PICK f \in Addresses : f = cause[PageOf(a)]
    BY <2>2 DEF From
  <2>4. /\ PageOf(f) = PageOf(a) /\ InSegment(t, f) /\ mem[a] \in {PageFor(t, f)[a], Written}
        /\ f \in Nat
    BY <2>2, <2>3, LoaderAssumption DEF From
  <2>5. t = s
    BY <2>1, <2>4, OwnerOfPage
  <2>6. PageFor(s, f)[a] = IF f < FileEnd(s) THEN FileByte(s, a) ELSE Zero
    <3>1. a \in Bytes(PageOf(f))
      BY <2>1, <2>4, PageType, BytesOfPage
    <3> QED BY <3>1 DEF PageFor
  <2>7. CASE f < FileEnd(s)
    <3>1. FileByte(s, a) = ImageByte(s, a)
      BY <2>1, <2>4, <2>5, <2>7, MappedFromFile
    <3> QED BY <3>1, <2>4, <2>5, <2>6, <2>7
  <2>8. CASE ~(f < FileEnd(s))
    <3>1. FileEnd(s) \in Nat
      BY <2>1, LoaderAssumption DEF FileEnd
    <3>2. ~(a < FileEnd(s))
      BY <2>1, <2>3, <2>4, <2>8, <3>1
    <3> QED BY <2>4, <2>5, <2>6, <2>8, <3>2 DEF ImageByte
  <2> QED BY <2>7, <2>8
<1> QED BY <1>1, LoaderInvariant, PTL

\* While the program runs, no later fault replaces a page it has written to: the handler
\* maps with MAP_FIXED, but only pages that are absent or read-only.
THEOREM WritesAreKept == LoaderSpec => WritesSurvive
<1> DEFINE Kept == loader' = "running" =>
             \A a \in DOMAIN mem : mem[a] = Written => a \in DOMAIN mem' /\ mem'[a] = Written
<1>1. LoaderInv /\ [LoaderNext]_ldVars => [Kept]_ldVars
  <2> SUFFICES ASSUME LoaderInv, LoaderNext, loader' = "running", NEW a \in DOMAIN mem,
                      mem[a] = Written
               PROVE  a \in DOMAIN mem' /\ mem'[a] = Written
    OBVIOUS
  <2>1. CASE Load \/ Instruction \/ Ended
    BY <2>1 DEF Load, Instruction, Ended, ldVars
  <2>2. CASE Execute
    BY <2>2 DEF Execute
  <2>3. CASE Fault
    <3>1. access.addr \in Addresses /\ PageOf(a) # PageOf(access.addr)
      BY <2>3, FaultOnUnwritten DEF Fault, LoaderInv, AccessInv
    <3>2. PICK s \in Segments : InSegment(s, access.addr) /\ loader_map_segment(s, access.addr)
      BY <2>3 DEF Fault, Owner
    <3>3. PICK f \in Addresses : f = access.addr
      BY <3>1
    <3>4. /\ DOMAIN mem' = DOMAIN mem \cup Bytes(PageOf(f))
          /\ \A x \in DOMAIN mem' : PageOf(x) # PageOf(f) =>
               /\ x \in DOMAIN mem /\ mem'[x] = mem[x]
               /\ cause'[PageOf(x)] = cause[PageOf(x)] /\ (PageOf(x) \in prot' <=> PageOf(x) \in prot)
      BY <3>2, <3>3, FaultMaps
    <3> QED BY <3>1, <3>3, <3>4
  <2>4. ~Return
    BY DEF Return
  <2> QED BY <2>1, <2>2, <2>3, <2>4 DEF LoaderNext
<1> QED BY <1>1, LoaderInvariant, PTL DEF LoaderSpec, WritesSurvive

-----------------------------------------------------------------------------
(* The statistics.                                                         *)

\* What segv_handler adds for a page is the number of its bytes outside the segment.
LEMMA FragmentCounts ==
  ASSUME NEW s \in Segments, NEW f \in Addresses, InSegment(s, f)
  PROVE  LET outside == {a \in Bytes(PageOf(f)) : Owner(a) = {}}
         IN  IsFiniteSet(outside) /\ Cardinality(outside) = Fragment(s, PageOf(f))
<1> DEFINE p == PageOf(f)
           b == p * PAGE_SIZE
           top == b + PAGE_SIZE
           outside == {a \in Bytes(p) : Owner(a) = {}}
           from == IF b < s.vaddr THEN s.vaddr ELSE b
           to == IF top > MemEnd(s) THEN MemEnd(s) ELSE top
<1>1. /\ s.vaddr \in Nat /\ s.memsz \in Nat /\ MemEnd(s) \in Nat /\ PAGE_SIZE \in Nat \ {0}
      /\ Addresses \subseteq Nat /\ Bytes(p) \subseteq Addresses
  BY LoaderAssumption DEF MemEnd
<1>2. f \in Nat /\ p \in Nat /\ s.vaddr <= f /\ f < MemEnd(s)
  BY <1>1, PageType DEF InSegment
<1>3. b \in Nat /\ (p + 1) * PAGE_SIZE = top
  BY <1>1, <1>2
<1>4. Bytes(p) = b..(top - 1) /\ f \in Bytes(p)
  <2>1. p \in Nat /\ f \in Nat /\ PageOf(f) = p
    BY <1>2
  <2> HIDE DEF p
  <2>2. Bytes(p) = b..(b + PAGE_SIZE - 1)
    BY <2>1, BytesOfPage
  <2>3. f \in Bytes(p)
    BY <2>1, BytesOfPage
  <2>4. b + PAGE_SIZE - 1 = top - 1
    <3>1. b \in Nat /\ PAGE_SIZE \in Nat
      BY <1>1, <1>3
    <3> HIDE DEF b
    <3> QED BY <3>1
  <2> QED BY <2>2, <2>3, <2>4
<1>5. Fragment(s, p) = IF to > from THEN PAGE_SIZE - (to - from) ELSE 0
  BY <1>3 DEF Fragment
<1>6. ASSUME NEW a \in Bytes(p) PROVE Owner(a) = {} <=> ~InSegment(s, a)
  <2>1. a \in Addresses /\ PageOf(a) = PageOf(f)
    BY <1>1, <1>2, <1>6, BytesOfPage
  <2>2. \A t \in Segments : InSegment(t, a) => t = s
    BY <2>1, OwnerOfPage
  <2> QED BY <2>2 DEF Owner
<1> HIDE DEF p, b
<1>7. from \in Nat /\ to \in Nat /\ from < to /\ b <= from /\ to <= top
  BY <1>1, <1>2, <1>3, <1>4
<1>8. outside = Bytes(p) \ (from..(to - 1))
  <2>1. ASSUME NEW a \in Bytes(p) PROVE InSegment(s, a) <=> a \in from..(to - 1)
    BY <2>1, <1>1, <1>3, <1>4 DEF InSegment
  <2> QED BY <1>6, <2>1
<1> DEFINE inside == from..(to - 1)
<1>9. inside \subseteq Bytes(p)
  BY <1>3, <1>4, <1>7, <1>1
<1>10. IsFiniteSet(Bytes(p)) /\ Cardinality(Bytes(p)) = PAGE_SIZE
  <2>1. b \in Int /\ top - 1 \in Int /\ ~(b > top - 1) /\ (top - 1) - b + 1 = PAGE_SIZE
    BY <1>1, <1>3
  <2> HIDE DEF top
  <2> QED BY <1>4, <2>1, FS_Interval
<1>11. IsFiniteSet(inside) /\ Cardinality(inside) = to - from
  <2>1. from \in Int /\ to - 1 \in Int /\ ~(from > to - 1) /\ (to - 1) - from + 1 = to - from
    BY <1>7
  <2> HIDE DEF from, to
  <2> QED BY <2>1, FS_Interval
<1> HIDE DEF inside, from, to
<1>12. IsFiniteSet(Bytes(p) \ inside) /\ Cardinality(Bytes(p) \ inside) = PAGE_SIZE - (to - from)
  <2>1. /\ IsFiniteSet(Bytes(p) \ inside)
        /\ Cardinality(Bytes(p) \ inside) = Cardinality(Bytes(p)) - Cardinality(Bytes(p) \cap inside)
    BY <1>10, FS_Difference
  <2>2. Bytes(p) \cap inside = inside
    BY <1>9
  <2> QED BY <1>10, <1>11, <2>1, <2>2
<1>13. IsFiniteSet(outside) /\ Cardinality(outside) = Fragment(s, p)
  BY <1>5, <1>7, <1>8, <1>12 DEF inside
<1> QED BY <1>13 DEF p

LEMMA CountStep == ASSUME LoaderInv, CountInv, [LoaderNext]_ldVars PROVE CountInv'
<1>1. CASE ~Fault /\ ~Return
  <2>1. /\ DOMAIN mem' = DOMAIN mem /\ UNCHANGED <<legal, no_allocations, no_internal_fragmentation>>
        /\ loader' \in {"start", "running"} => loader \in {"start", "running"}
    BY <1>1 DEF LoaderNext, Load, Instruction, Execute, Ended, ldVars
  <2>2. Mapped' = Mapped /\ Spare' = Spare
    BY <2>1 DEF Mapped, Spare
  <2> QED BY <2>1, <2>2 DEF CountInv
<1>2. CASE Return
  <2>1. DOMAIN mem' \subseteq DOMAIN mem /\ loader' = "done"
    BY <1>2 DEF Return
  <2>2. Mapped' \in SUBSET Mapped /\ Spare' \in SUBSET Spare
    BY <2>1 DEF Mapped, Spare
  <2>3. IsFiniteSet(Mapped') /\ IsFiniteSet(Spare')
    BY <2>2, FS_Subset DEF CountInv
  <2> QED BY <2>1, <2>3 DEF CountInv
<1>3. CASE Fault
  <2>0. UNCHANGED legal /\ loader = "running" /\ access.addr \in Addresses
        /\ (legal => Permitted(access.addr, access.write)) /\ ~Succeeds
    BY <1>3 DEF Fault, LoaderInv, AccessInv
  <2>1. CASE loader' = "killed" /\ mem' = mem
    <3>1. Mapped' = Mapped /\ Spare' = Spare
      BY <2>1 DEF Mapped, Spare
    <3> QED BY <2>1, <3>1 DEF CountInv
  <2>2. CASE ~(loader' = "killed" /\ mem' = mem)
    <3>1. PICK f \in Addresses : f = access.addr
      BY <2>0
    <3>2. PICK s \in Segments : InSegment(s, f) /\ loader_map_segment(s, f)
      BY <1>3, <2>2, <3>1 DEF Fault, Owner
    <3> DEFINE p == PageOf(f)
               outside == {a \in Bytes(p) : Owner(a) = {}}
    <3>3. /\ no_allocations' = no_allocations + 1 /\ loader' = loader
          /\ no_internal_fragmentation' = no_internal_fragmentation + Fragment(s, p)
      BY <3>2 DEF loader_map_segment
    <3>4. DOMAIN mem' = DOMAIN mem \cup Bytes(p)
      BY <3>2, FaultMaps
    <3>5. IsFiniteSet(outside) /\ Cardinality(outside) = Fragment(s, p)
      BY <3>2, FragmentCounts
    <3>6. f \in Nat /\ f \in Bytes(p) /\ (\A a \in Bytes(p) : PageOf(a) = p)
      <4>1. f \in Nat /\ Bytes(p) \subseteq Nat /\ p \in Nat
        BY LoaderAssumption, PageType
      <4> QED BY <4>1, BytesOfPage
    <3>7. Mapped' = Mapped \cup {p} /\ Spare' = Spare \cup outside
      <4>1. Mapped' = {PageOf(a) : a \in DOMAIN mem'} /\ Spare' = {a \in DOMAIN mem' : Owner(a) = {}}
        BY DEF Mapped, Spare
      <4>2. Spare' = Spare \cup outside
        BY <4>1, <3>4 DEF Spare
      <4> HIDE DEF p
      <4>3. Mapped' = Mapped \cup {p}
        BY <4>1, <3>4, <3>6 DEF Mapped
      <4> QED BY <4>2, <4>3
    <3> HIDE DEF outside, p
    <3>8. IsFiniteSet(Mapped') /\ IsFiniteSet(Spare')
      BY <3>5, <3>7, FS_AddElement, FS_Union DEF CountInv
    <3>9. ASSUME legal
          PROVE  /\ Cardinality(Mapped') = Cardinality(Mapped) + 1
                 /\ Cardinality(Spare') = Cardinality(Spare) + Cardinality(outside)
      <4>1. p \notin Mapped
        BY <2>0, <3>1, <3>9, FaultOnUnmapped DEF LoaderInv, p
      <4>2. Spare \cap outside = {}
        BY <4>1, <3>6 DEF Mapped, Spare, outside
      <4>3. Cardinality(Mapped') = Cardinality(Mapped) + 1
        BY <4>1, <3>7, FS_AddElement DEF CountInv
      <4>4. Cardinality(Spare') = Cardinality(Spare) + Cardinality(outside) - Cardinality({})
        BY <4>2, <3>5, <3>7, FS_Union DEF CountInv
      <4>5. Cardinality(Spare) \in Nat /\ Cardinality(outside) \in Nat /\ Cardinality({}) = 0
        BY <3>5, FS_CardinalityType, FS_EmptySet DEF CountInv
      <4> QED BY <4>3, <4>4, <4>5
    <3> QED BY <2>0, <3>3, <3>5, <3>8, <3>9 DEF CountInv
  <2> QED BY <2>1, <2>2
<1> QED BY <1>1, <1>2, <1>3

\* The numbers that the loader prints for a program that stays inside its segments are
\* right: every page is allocated once, and the internal fragmentation is the number of
\* mapped bytes that belong to no segment.
THEOREM StatisticsAreExact == LoaderSpec => []StatisticsExact
<1>1. LoaderInit => CountInv
  <2> SUFFICES ASSUME LoaderInit PROVE CountInv
    OBVIOUS
  <2>1. mem = <<>> /\ no_allocations = 0 /\ no_internal_fragmentation = 0
    BY DEF LoaderInit
  <2>2. DOMAIN mem = {}
    BY <2>1
  <2>3. Mapped = {} /\ Spare = {}
    BY <2>2 DEF Mapped, Spare
  <2> QED BY <2>1, <2>3, FS_EmptySet DEF CountInv
<1>2. LoaderInv /\ CountInv /\ [LoaderNext]_ldVars => CountInv'
  BY CountStep
<1>3. CountInv => StatisticsExact
  BY DEF CountInv, StatisticsExact, Spare
<1> QED BY <1>1, <1>2, <1>3, LoaderInvariant, PTL DEF LoaderSpec
=============================================================================
