--------------------------- MODULE TreeDiskProofs ---------------------------
(***************************************************************************)
(* Theorems about treedisk, for every size of a block and of the disk, any *)
(* inodes, values and largest offset, and a write that stops anywhere.     *)
(***************************************************************************)
EXTENDS TreeDisk, WellFoundedInduction, TLAPS

-----------------------------------------------------------------------------
(* Induction over a set of naturals, and numbers divided by the size of a  *)
(* block.                                                                  *)

\* A nonempty set of naturals has a smallest element.
LEMMA LeastElement ==
  ASSUME NEW S \in SUBSET Nat, S # {}
  PROVE  \E m \in S : \A n \in S : m <= n
<1> DEFINE R == OpToRel(<, Nat)
<1>1. IsWellFoundedOn(R, Nat)
  BY NatLessThanWellFounded
<1>2. \A m, n \in S : n < m => <<n, m>> \in R
  BY DEF OpToRel
<1> HIDE DEF R
<1>3. PICK m \in S : \A n \in S : ~(<<n, m>> \in R)
  BY <1>1, WFMin
<1>4. \A n \in S : ~(n < m)
  BY <1>2, <1>3, Zenon
<1>5. \A n \in S : m \in Nat /\ n \in Nat
  OBVIOUS
<1> QED BY <1>4, <1>5

\* A set that has 0 and, up to h, the successor of what it has, has all of 0..h.
LEMMA UpTo ==
  ASSUME NEW h \in Nat, NEW S, 0 \in S,
         \A n \in 0..h : n \in S /\ n < h => n + 1 \in S
  PROVE  0..h \subseteq S
<1> DEFINE Out == (0..h) \ S
<1> SUFFICES ASSUME Out # {} PROVE FALSE
  OBVIOUS
<1>1. Out \in SUBSET Nat
  OBVIOUS
<1>2. PICK m \in Out : \A n \in Out : m <= n
  BY <1>1, LeastElement
<1>3. m \in 0..h /\ m # 0 /\ m \notin S
  BY <1>2
<1>4. m - 1 \in 0..h /\ m - 1 < h /\ m - 1 < m
  BY <1>3
<1>5. m - 1 \in S
  BY <1>2, <1>3, <1>4
<1>6. (m - 1) + 1 \in S
  BY <1>4, <1>5
<1> QED BY <1>3, <1>6

\* A nonempty set of numbers up to h has a largest element, which Max is.
LEMMA MaxIsIn ==
  ASSUME NEW h \in Nat, NEW S \in SUBSET (0..h), S # {}
  PROVE  Max(S) \in S
<1> DEFINE D == {h - x : x \in S}
<1>1. D \in SUBSET Nat /\ D # {}
  <2>1. \A x \in S : h - x \in Nat
    OBVIOUS
  <2> QED BY <2>1
<1>2. PICK d \in D : \A n \in D : d <= n
  BY <1>1, LeastElement
<1>3. PICK x \in S : d = h - x
  OBVIOUS
<1>4. \A y \in S : x >= y
  <2> TAKE y \in S
  <2>1. h - y \in D
    OBVIOUS
  <2> QED BY <1>2, <1>3, <2>1
<1> QED BY <1>3, <1>4 DEF Max

\* Division by the size of a block.
LEMMA Division ==
  ASSUME NEW y \in Nat
  PROVE  /\ y \div REFS_PER_BLOCK \in Nat
         /\ y % REFS_PER_BLOCK \in Refs
         /\ y = REFS_PER_BLOCK * (y \div REFS_PER_BLOCK) + (y % REFS_PER_BLOCK)
BY TreeDiskAssumption DEF Refs

LEMMA DivisionShrinks ==
  ASSUME NEW y \in Nat
  PROVE  /\ y \div REFS_PER_BLOCK <= y
         /\ y # 0 => y \div REFS_PER_BLOCK < y
<1> DEFINE d == y \div REFS_PER_BLOCK
           m == y % REFS_PER_BLOCK
<1>1. d \in Nat /\ m \in Nat /\ y = REFS_PER_BLOCK * d + m
  BY Division DEF Refs
<1> HIDE DEF d, m
<1>2. REFS_PER_BLOCK \in Nat /\ REFS_PER_BLOCK >= 2
  BY TreeDiskAssumption
<1>3. REFS_PER_BLOCK * d >= 2 * d
  BY <1>1, <1>2
<1> QED BY <1>1, <1>2, <1>3 DEF d

LEMMA DivisionMonotonic ==
  ASSUME NEW x \in Nat, NEW y \in Nat, x <= y
  PROVE  x \div REFS_PER_BLOCK <= y \div REFS_PER_BLOCK
<1> DEFINE c == x \div REFS_PER_BLOCK
           d == y \div REFS_PER_BLOCK
           k == x % REFS_PER_BLOCK
           m == y % REFS_PER_BLOCK
<1>1. /\ c \in Nat /\ k \in Nat /\ x = REFS_PER_BLOCK * c + k
      /\ d \in Nat /\ m \in Nat /\ y = REFS_PER_BLOCK * d + m
      /\ m < REFS_PER_BLOCK
  BY Division, TreeDiskAssumption DEF Refs
<1>2. REFS_PER_BLOCK \in Nat
  BY TreeDiskAssumption
<1> SUFFICES ASSUME c > d PROVE FALSE
  BY <1>1
<1> HIDE DEF c, d, k, m
<1>3. PICK j \in Nat : c = d + 1 + j
  <2>1. c - d - 1 \in Nat /\ c = d + 1 + (c - d - 1)
    BY <1>1
  <2> QED BY <2>1
<1>4. REFS_PER_BLOCK * c = REFS_PER_BLOCK * d + REFS_PER_BLOCK + REFS_PER_BLOCK * j
  BY <1>1, <1>2, <1>3
<1>5. REFS_PER_BLOCK * j \in Nat
  BY <1>2, <1>3
<1>6. REFS_PER_BLOCK * c \in Nat /\ REFS_PER_BLOCK * d \in Nat
  BY <1>1, <1>2
<1> QED BY <1>1, <1>2, <1>4, <1>5, <1>6

\* Equal parts make equal numbers.
LEMMA DivisionUnique ==
  ASSUME NEW x \in Nat, NEW y \in Nat,
         x \div REFS_PER_BLOCK = y \div REFS_PER_BLOCK,
         x % REFS_PER_BLOCK = y % REFS_PER_BLOCK
  PROVE  x = y
BY Division

\* A block has REFS_PER_BLOCK references to blocks with numbers that follow each other.
LEMMA DivisionNotAbove ==
  ASSUME NEW c \in Nat, NEW d \in Nat, NEW i \in Refs, NEW m \in Refs,
         REFS_PER_BLOCK * c + i = REFS_PER_BLOCK * d + m
  PROVE  c <= d
<1> SUFFICES ASSUME c > d PROVE FALSE
  OBVIOUS
<1>1. REFS_PER_BLOCK \in Nat /\ i \in Nat /\ m \in Nat /\ m < REFS_PER_BLOCK
  BY TreeDiskAssumption DEF Refs
<1>2. PICK j \in Nat : c = d + 1 + j
  <2>1. c - d - 1 \in Nat /\ c = d + 1 + (c - d - 1)
    OBVIOUS
  <2> QED BY <2>1
<1>3. REFS_PER_BLOCK * c = REFS_PER_BLOCK * d + REFS_PER_BLOCK + REFS_PER_BLOCK * j
  BY <1>1, <1>2
<1>4. REFS_PER_BLOCK * c \in Nat /\ REFS_PER_BLOCK * d \in Nat /\ REFS_PER_BLOCK * j \in Nat
  BY <1>1, <1>2
<1> QED BY <1>1, <1>3, <1>4

LEMMA DivisionOf ==
  ASSUME NEW c \in Nat, NEW i \in Refs
  PROVE  /\ REFS_PER_BLOCK * c + i \in Nat
         /\ (REFS_PER_BLOCK * c + i) \div REFS_PER_BLOCK = c
         /\ (REFS_PER_BLOCK * c + i) % REFS_PER_BLOCK = i
<1>1. PICK y \in Nat : y = REFS_PER_BLOCK * c + i
  BY TreeDiskAssumption DEF Refs
<1>2. PICK d \in Nat, m \in Refs :
        d = y \div REFS_PER_BLOCK /\ m = y % REFS_PER_BLOCK /\ y = REFS_PER_BLOCK * d + m
  BY Division
<1>3. c <= d /\ d <= c
  BY <1>1, <1>2, DivisionNotAbove
<1>4. c = d
  BY <1>3
<1>5. i = m
  <2>1. PICK z \in Nat : z = REFS_PER_BLOCK * c
    BY TreeDiskAssumption
  <2>2. z + i = z + m /\ i \in Nat /\ m \in Nat
    BY <1>1, <1>2, <1>4, <2>1 DEF Refs
  <2> QED BY <2>2
<1> QED BY <1>1, <1>2, <1>4, <1>5

-----------------------------------------------------------------------------
(* Shifts and levels.                                                      *)

Level == 0..(MaxOffset + 1)
Offset == 0..MaxOffset

\* The defining equation of log_shift_r: a solution of it exists.
LEMMA ShiftDef ==
  log_shift_r = [n \in Level |->
    [x \in Offset |-> IF n = 0 THEN x ELSE log_shift_r[n - 1][x] \div REFS_PER_BLOCK]]
<1> DEFINE Eq(f, h) == f = [n \in 0..h |->
             [x \in Offset |-> IF n = 0 THEN x ELSE f[n - 1][x] \div REFS_PER_BLOCK]]
           S == {h \in Nat : \E f : Eq(f, h)}
<1>1. 0 \in S
  <2> DEFINE f == [n \in 0..0 |-> [x \in Offset |-> x]]
  <2>1. Eq(f, 0)
    OBVIOUS
  <2> QED BY <2>1
<1>2. ASSUME NEW h \in Nat, h \in S PROVE h + 1 \in S
  <2>1. PICK f : Eq(f, h)
    BY <1>2
  <2> DEFINE g == [n \in 0..(h + 1) |-> [x \in Offset |->
                    IF n = 0 THEN x ELSE f[n - 1][x] \div REFS_PER_BLOCK]]
  <2>2. \A n \in 0..h : g[n] = f[n]
    <3>1. \A n \in 0..h : n \in 0..(h + 1)
      OBVIOUS
    <3>2. \A n \in 0..h : f[n] = [x \in Offset |->
                    IF n = 0 THEN x ELSE f[n - 1][x] \div REFS_PER_BLOCK]
      BY <2>1, Zenon
    <3>3. \A n \in 0..(h + 1) : g[n] = [x \in Offset |->
                    IF n = 0 THEN x ELSE f[n - 1][x] \div REFS_PER_BLOCK]
      BY Zenon
    <3> QED BY <3>1, <3>2, <3>3, Zenon
  <2>3. \A n \in 0..(h + 1) : n # 0 => n - 1 \in 0..h
    OBVIOUS
  <2>4. Eq(g, h + 1)
    <3>1. \A n \in 0..(h + 1) :
            g[n] = [x \in Offset |-> IF n = 0 THEN x ELSE g[n - 1][x] \div REFS_PER_BLOCK]
      BY <2>2, <2>3
    <3> HIDE DEF g
    <3> QED BY <3>1 DEF g
  <2> HIDE DEF Eq, g
  <2> QED BY <2>4
<1>3. MaxOffset + 1 \in Nat
  BY TreeDiskAssumption
<1>4. 0..(MaxOffset + 1) \subseteq S
  <2> HIDE DEF S
  <2> QED BY <1>1, <1>2, <1>3, UpTo
<1>5. PICK f : Eq(f, MaxOffset + 1)
  BY <1>3, <1>4
<1> QED BY <1>5 DEF log_shift_r, Level, Offset

LEMMA ShiftZero == \A x \in Offset : log_shift_r[0][x] = x
BY ShiftDef, TreeDiskAssumption DEF Level

LEMMA ShiftNext ==
  \A n \in Offset, x \in Offset :
    log_shift_r[n + 1][x] = log_shift_r[n][x] \div REFS_PER_BLOCK
<1> TAKE n \in Offset, x \in Offset
<1>1. n + 1 \in Level /\ n + 1 # 0 /\ (n + 1) - 1 = n
  BY TreeDiskAssumption DEF Level, Offset
<1> QED BY <1>1, ShiftDef

\* Every level divides at least by two, and keeps the order of the offsets.
LEMMA ShiftBounds ==
  \A n \in Level, x \in Offset :
    /\ log_shift_r[n][x] \in Offset
    /\ log_shift_r[n][x] # 0 => log_shift_r[n][x] + n <= x
<1> DEFINE S == {n \in Level : \A x \in Offset :
                   /\ log_shift_r[n][x] \in Offset
                   /\ log_shift_r[n][x] # 0 => log_shift_r[n][x] + n <= x}
<1>1. 0 \in S
  BY ShiftZero, TreeDiskAssumption DEF Level, Offset
<1>2. ASSUME NEW n \in 0..(MaxOffset + 1), n \in S, n < MaxOffset + 1 PROVE n + 1 \in S
  <2>1. n \in Offset /\ n + 1 \in Level
    BY <1>2, TreeDiskAssumption DEF Level, Offset
  <2>2. ASSUME NEW x \in Offset
        PROVE  /\ log_shift_r[n + 1][x] \in Offset
               /\ log_shift_r[n + 1][x] # 0 => log_shift_r[n + 1][x] + (n + 1) <= x
    <3> DEFINE y == log_shift_r[n][x]
               d == y \div REFS_PER_BLOCK
    <3>1. log_shift_r[n + 1][x] = d
      BY <2>1, ShiftNext
    <3>2. y \in Offset /\ (y # 0 => y + n <= x)
      BY <1>2
    <3>3. y \in Nat
      BY <3>2, TreeDiskAssumption DEF Offset
    <3>4. d \in Nat /\ d <= y /\ (y # 0 => d < y)
      BY <3>3, Division, DivisionShrinks
    <3>5. x \in Nat /\ n \in Nat
      BY DEF Offset
    <3> HIDE DEF d, y
    <3>6. d \in Offset
      BY <3>2, <3>3, <3>4, TreeDiskAssumption DEF Offset
    <3>7. d # 0 => d + (n + 1) <= x
      BY <3>2, <3>3, <3>4, <3>5
    <3> QED BY <3>1, <3>6, <3>7
  <2> QED BY <2>1, <2>2
<1>3. MaxOffset + 1 \in Nat
  BY TreeDiskAssumption
<1>4. 0..(MaxOffset + 1) \subseteq S
  <2> HIDE DEF S
  <2> QED BY <1>1, <1>2, <1>3, UpTo
<1> QED BY <1>4 DEF Level

LEMMA ShiftMonotonic ==
  ASSUME NEW x \in Offset, NEW y \in Offset, x <= y
  PROVE  \A n \in Level : log_shift_r[n][x] <= log_shift_r[n][y]
<1> DEFINE S == {n \in Level : log_shift_r[n][x] <= log_shift_r[n][y]}
<1>1. 0 \in S
  BY ShiftZero, TreeDiskAssumption DEF Level, Offset
<1>2. ASSUME NEW n \in 0..(MaxOffset + 1), n \in S, n < MaxOffset + 1 PROVE n + 1 \in S
  <2>1. n \in Offset /\ n + 1 \in Level
    BY <1>2, TreeDiskAssumption DEF Level, Offset
  <2>2. log_shift_r[n][x] \in Nat /\ log_shift_r[n][y] \in Nat
    BY <1>2, ShiftBounds DEF Offset
  <2>3. log_shift_r[n][x] <= log_shift_r[n][y]
    BY <1>2
  <2> QED BY <2>1, <2>2, <2>3, DivisionMonotonic, ShiftNext
<1>3. MaxOffset + 1 \in Nat
  BY TreeDiskAssumption
<1>4. 0..(MaxOffset + 1) \subseteq S
  <2> HIDE DEF S
  <2> QED BY <1>1, <1>2, <1>3, UpTo
<1> QED BY <1>4 DEF Level

\* Once nothing is left of an offset, nothing is left of it at the levels above.
LEMMA ShiftStaysZero ==
  ASSUME NEW x \in Offset, NEW n \in Level, log_shift_r[n][x] = 0
  PROVE  \A m \in Level : n <= m => log_shift_r[m][x] = 0
<1> DEFINE S == {m \in Level : n <= m => log_shift_r[m][x] = 0}
<1>1. 0 \in S
  BY TreeDiskAssumption DEF Level
<1>2. ASSUME NEW m \in 0..(MaxOffset + 1), m \in S, m < MaxOffset + 1 PROVE m + 1 \in S
  <2>1. m \in Offset /\ m + 1 \in Level
    BY <1>2, TreeDiskAssumption DEF Level, Offset
  <2>2. CASE n = m + 1
    BY <2>1, <2>2
  <2>3. CASE n <= m
    <3>1. log_shift_r[m][x] = 0
      BY <1>2, <2>3
    <3>2. 0 \div REFS_PER_BLOCK = 0
      BY Division, DivisionShrinks
    <3> QED BY <2>1, <3>1, <3>2, ShiftNext
  <2>4. CASE n > m + 1
    BY <2>1, <2>4 DEF Level
  <2> QED BY <2>2, <2>3, <2>4 DEF Level
<1>3. MaxOffset + 1 \in Nat
  BY TreeDiskAssumption
<1>4. 0..(MaxOffset + 1) \subseteq S
  <2> HIDE DEF S
  <2> QED BY <1>1, <1>2, <1>3, UpTo
<1> QED BY <1>4 DEF Level

\* Levels is what its definition asks for.
LEMMA LevelsValue ==
  ASSUME NEW x \in Offset
  PROVE  /\ Levels(x) \in Level
         /\ log_shift_r[Levels(x)][x] = 0
         /\ \A k \in Level : k < Levels(x) => log_shift_r[k][x] # 0
<1> DEFINE S == {n \in 0..(x + 1) : log_shift_r[n][x] = 0}
<1>1. x \in Nat /\ 0..(x + 1) \subseteq Level /\ x + 1 \in Level
  BY TreeDiskAssumption DEF Level, Offset
<1>2. x + 1 \in S
  <2>1. log_shift_r[x + 1][x] \in Nat
    BY <1>1, ShiftBounds DEF Offset
  <2> QED BY <1>1, <2>1, ShiftBounds
<1>3. PICK n \in S : \A k \in S : n <= k
  <2>1. S \in SUBSET Nat
    OBVIOUS
  <2> HIDE DEF S
  <2> QED BY <1>2, <2>1, LeastElement
<1>4. log_shift_r[n][x] = 0 /\ \A k \in 0..(n - 1) : log_shift_r[k][x] # 0
  <2>1. \A k \in 0..(n - 1) : k \in 0..(x + 1) /\ ~(n <= k)
    BY <1>1
  <2> QED BY <1>3, <2>1
<1>5. /\ Levels(x) \in 0..(x + 1) /\ log_shift_r[Levels(x)][x] = 0
      /\ \A k \in 0..(Levels(x) - 1) : log_shift_r[k][x] # 0
  BY <1>4 DEF Levels
<1>6. \A k \in Level : k < Levels(x) => k \in 0..(Levels(x) - 1)
  BY <1>5 DEF Level
<1> QED BY <1>1, <1>5, <1>6

LEMMA LevelsOfValue ==
  ASSUME NEW n \in Level
  PROVE  /\ LevelsOf(n) \in Level
         /\ \A o \in Offset : o < n => log_shift_r[LevelsOf(n)][o] = 0
         /\ \A m \in Level : n <= m => LevelsOf(n) <= LevelsOf(m)
<1>1. CASE n = 0
  <2>1. \A m \in Level : LevelsOf(m) \in Level
    <3> TAKE m \in Level
    <3>1. m > 0 => m - 1 \in Offset
      BY TreeDiskAssumption DEF Level, Offset
    <3> QED BY <3>1, LevelsValue, TreeDiskAssumption DEF LevelsOf, Level
  <2>2. LevelsOf(n) = 0
    BY <1>1 DEF LevelsOf
  <2> QED BY <1>1, <2>1, <2>2 DEF Level, Offset
<1>2. CASE n > 0
  <2>1. n - 1 \in Offset /\ LevelsOf(n) = Levels(n - 1) /\ n \in Nat
    BY <1>2, TreeDiskAssumption DEF LevelsOf, Level, Offset
  <2>2. LevelsOf(n) \in Level
    BY <2>1, LevelsValue
  <2>3. ASSUME NEW o \in Offset, o < n PROVE log_shift_r[LevelsOf(n)][o] = 0
    <3>1. o <= n - 1
      BY <2>1, <2>3 DEF Offset
    <3>2. log_shift_r[LevelsOf(n)][o] <= log_shift_r[LevelsOf(n)][n - 1]
      BY <2>1, <2>2, <3>1, ShiftMonotonic
    <3>3. log_shift_r[LevelsOf(n)][n - 1] = 0
      BY <2>1, LevelsValue
    <3>4. log_shift_r[LevelsOf(n)][o] \in Nat
      BY <2>2, ShiftBounds DEF Offset
    <3> QED BY <3>2, <3>3, <3>4
  <2>4. ASSUME NEW m \in Level, n <= m PROVE LevelsOf(n) <= LevelsOf(m)
    <3>1. m - 1 \in Offset /\ LevelsOf(m) = Levels(m - 1) /\ n - 1 <= m - 1 /\ m \in Nat
      BY <1>2, <2>4, <2>1, TreeDiskAssumption DEF LevelsOf, Level, Offset
    <3>2. LevelsOf(m) \in Level /\ log_shift_r[LevelsOf(m)][m - 1] = 0
      BY <3>1, LevelsValue
    <3>3. log_shift_r[LevelsOf(m)][n - 1] = 0
      <4>1. log_shift_r[LevelsOf(m)][n - 1] <= log_shift_r[LevelsOf(m)][m - 1]
        BY <2>1, <3>1, <3>2, ShiftMonotonic
      <4>2. log_shift_r[LevelsOf(m)][n - 1] \in Offset
        BY <2>1, <3>2, ShiftBounds
      <4> QED BY <3>2, <4>1, <4>2 DEF Offset
    <3>4. ~(LevelsOf(m) < LevelsOf(n))
      BY <2>1, <3>2, <3>3, LevelsValue
    <3> QED BY <2>2, <3>2, <3>4 DEF Level
  <2> QED BY <2>2, <2>3, <2>4
<1> QED BY <1>1, <1>2 DEF Level

-----------------------------------------------------------------------------
(* The equation of ReadFrom.                                               *)

MaybeBlock == {0} \cup DataBlocks
ReadStep(o, n, x, f) ==
  IF x = 0 THEN null_block
  ELSE IF n = 0 THEN disk[x]
  ELSE f[n - 1][disk[x][IndexAt(o, n - 1)]]

\* What ReadFrom computes at a level depends on the level below only.
LEMMA ReadDef ==
  ASSUME NEW o
  PROVE  ReadFrom(o) = [n \in Level |-> [x \in MaybeBlock |-> ReadStep(o, n, x, ReadFrom(o))]]
<1> DEFINE Eq(f, h) == f = [n \in 0..h |-> [x \in MaybeBlock |-> ReadStep(o, n, x, f)]]
           S == {h \in Nat : \E f : Eq(f, h)}
<1>1. 0 \in S
  <2> DEFINE f == [n \in 0..0 |-> [x \in MaybeBlock |->
                     IF x = 0 THEN null_block ELSE disk[x]]]
  <2>1. \A x : ReadStep(o, 0, x, f) = IF x = 0 THEN null_block ELSE disk[x]
    BY DEF ReadStep
  <2>2. \A n \in 0..0 : n = 0
    OBVIOUS
  <2>3. Eq(f, 0)
    BY <2>1, <2>2
  <2> HIDE DEF Eq, f
  <2> QED BY <2>3
<1>2. ASSUME NEW h \in Nat, h \in S PROVE h + 1 \in S
  <2>1. PICK f : Eq(f, h)
    BY <1>2
  <2> DEFINE g == [n \in 0..(h + 1) |-> [x \in MaybeBlock |-> ReadStep(o, n, x, f)]]
  <2>2. \A n \in 0..h : g[n] = f[n]
    <3>1. \A n \in 0..h : n \in 0..(h + 1)
      OBVIOUS
    <3>2. \A n \in 0..h : f[n] = [x \in MaybeBlock |-> ReadStep(o, n, x, f)]
      BY <2>1, Zenon
    <3>3. \A n \in 0..(h + 1) : g[n] = [x \in MaybeBlock |-> ReadStep(o, n, x, f)]
      BY Zenon
    <3> QED BY <3>1, <3>2, <3>3, Zenon
  <2>3. \A n \in 0..(h + 1) : n # 0 => n - 1 \in 0..h
    OBVIOUS
  <2>4. Eq(g, h + 1)
    <3>1. \A n \in 0..(h + 1) : \A x : ReadStep(o, n, x, g) = ReadStep(o, n, x, f)
      <4> HIDE DEF g
      <4> QED BY <2>2, <2>3 DEF ReadStep
    <3> HIDE DEF ReadStep
    <3>2. \A n \in 0..(h + 1) : g[n] = [x \in MaybeBlock |-> ReadStep(o, n, x, g)]
      BY <3>1
    <3> QED BY <3>2, Zenon
  <2> HIDE DEF Eq, g
  <2> QED BY <2>4
<1>3. MaxOffset + 1 \in Nat
  BY TreeDiskAssumption
<1>4. 0..(MaxOffset + 1) \subseteq S
  <2> HIDE DEF S
  <2> QED BY <1>1, <1>2, <1>3, UpTo
<1>5. PICK f : Eq(f, MaxOffset + 1)
  BY <1>3, <1>4
<1> QED BY <1>5 DEF ReadFrom, ReadStep, Level, MaybeBlock

-----------------------------------------------------------------------------
(* The inductive invariant.  It says what is where: T gives the block at   *)
(* each place of each file, 0 for a hole; place <<i, n, c>> is number c of *)
(* level n of file i, level 0 being the data.  A file has top[i] levels,   *)
(* which a write in progress may have grown already.  The disk is as e     *)
(* says, except that block F, the one the write has just taken from the    *)
(* free list, has not been written yet and counts as zeros in e.  Heads    *)
(* are the blocks that hold the free list, Items the ones it refers to;    *)
(* the Heads are listed from the largest to the smallest.                  *)

Contents == [Refs -> Nat]
Place == Inodes \X Level \X Nat
\* The levels of a file as its inode has it.
Height(i) == LevelsOf(inodes[i].nblocks)
\* The place on the way to offset o at level n of file i.
At(i, n, o) == <<i, n, log_shift_r[n][o]>>

TreeTypeOK ==
  /\ pc \in {"create", "freelist", "idle", "grow", "walk", "data", "panic"}
  /\ disk \in [DataBlocks -> Contents] /\ free_list \in MaybeBlock
  /\ inodes \in [Inodes -> [root : MaybeBlock, nblocks : Level]]
  /\ next_free \in Nat
  /\ op \in [ino : Inodes, offset : Offset, val : Nat]
  /\ root \in MaybeBlock /\ size \in Level
  /\ nlevels \in Level /\ nlevels_after \in Level
  /\ b \in MaybeBlock /\ parent_off \in MaybeBlock
  /\ tib \in Contents /\ index \in Refs
  /\ files \in [Inodes -> [Offset -> Nat]]

\* No block is at two places.
Placed(T) == \A p, q \in Place : T[p] = T[q] /\ T[p] # 0 => p = q

\* A tree has one root, at its height, and at most its new roots above.
Rooted(T, top) ==
  \A i \in Inodes :
    /\ Height(i) <= top[i]
    /\ T[<<i, Height(i), 0>>] = inodes[i].root
    /\ \A n \in Level : /\ n >= Height(i) => \A c \in Nat \ {0} : T[<<i, n, c>>] = 0
                        /\ n > top[i] => T[<<i, n, 0>>] = 0

\* A block of references refers to the places below its own; below a hole there are holes.
Linked(T, top, e) ==
  \A i \in Inodes, n \in Offset, c \in Nat :
    LET up == T[<<i, n + 1, c \div REFS_PER_BLOCK>>]
    IN  IF up # 0 THEN e[up][c % REFS_PER_BLOCK] = T[<<i, n, c>>]
        ELSE n + 1 <= top[i] => T[<<i, n, c>>] = 0

\* What was written is in the data blocks, and nothing was written to the holes.
Stored(T, e) ==
  \A i \in Inodes, o \in Offset :
    IF T[<<i, 0, o>>] = 0 THEN files[i][o] = 0
    ELSE e[T[<<i, 0, o>>]] = Filled(files[i][o])

\* The free list: it has every block at most once.
Chain(e, list, Heads, Items) ==
  /\ list \in Heads \cup {0} /\ Heads \cap Items = {}
  /\ \A h \in Heads : e[h][0] \in Heads \cup {0} /\ (e[h][0] # 0 => e[h][0] # list)
  /\ \A h \in Heads : \A i \in Refs \ {0} : e[h][i] \in Items \cup {0}
  /\ \A h, k \in Heads : \A i, j \in Refs : e[h][i] = e[k][j] /\ e[h][i] # 0 => h = k /\ i = j

\* The list goes down from block to block, and what it has is referred to on it.
InOrder(e, list, Heads, Items) ==
  /\ \A h \in Heads : h <= list /\ e[h][0] < h /\ \A k \in Heads : k < h => k <= e[h][0]
  /\ \A x \in Items : \E h \in Heads : \E i \in Refs \ {0} : e[h][i] = x

\* Every block that was put on the list is still on it or in a tree.
Kept(T, Heads, Items) ==
  /\ \A d \in DataBlocks : d < next_free => d \in Heads \cup Items \/ \E p \in Place : T[p] = d
  /\ pc \in {"idle", "grow", "walk", "data"} => next_free >= nblocks

\* No block is both in a tree and on the free list.
Apart(T, Heads, Items) == \A p \in Place : T[p] \notin Heads \cup Items

\* Only the block that was just taken is not yet what it counts as.
Pending(T, e, F) ==
  /\ \A d \in DataBlocks : d # F => e[d] = disk[d]
  /\ F # 0 => /\ e[F] = null_block
              /\ \E m \in Level : F = T[At(op.ino, m, op.offset)]

CreateInv(T, F, Heads, Items) ==
  /\ pc \in {"create", "freelist"} =>
       /\ \A p \in Place : T[p] = 0
       /\ \A i \in Inodes : inodes[i].nblocks = 0
       /\ \A d \in Heads \cup Items : d < next_free
  /\ pc = "create" => free_list = 0 /\ Heads = {} /\ Items = {}
  /\ pc = "freelist" => next_free \in (n_inodeblocks + 1)..nblocks
  /\ pc \in {"create", "freelist", "idle", "grow"} => F = 0

GrowInv(T, top) ==
  /\ pc # "panic" => \A i \in Inodes :
                       top[i] = IF pc = "grow" /\ i = op.ino THEN nlevels ELSE Height(i)
  /\ pc = "grow" => /\ T[<<op.ino, nlevels, 0>>] = root
                    /\ nlevels <= nlevels_after /\ nlevels_after = LevelsOf(size)
                    /\ op.offset < size /\ inodes[op.ino].nblocks <= size

WalkInv(T, e, F) ==
  /\ pc = "walk" =>
       /\ op.offset < inodes[op.ino].nblocks /\ nlevels <= Height(op.ino)
       /\ b = T[At(op.ino, nlevels, op.offset)]
       /\ F \in {0, parent_off}
       /\ IF parent_off = 0 THEN nlevels = Height(op.ino)
          ELSE /\ nlevels < Height(op.ino)
               /\ parent_off = T[At(op.ino, nlevels + 1, op.offset)]
               /\ tib = e[parent_off] /\ index = IndexAt(op.offset, nlevels)
  /\ pc = "data" => b # 0 /\ b = T[At(op.ino, 0, op.offset)] /\ F \in {0, b}

Layout(T, top, e, F, Heads, Items) ==
  /\ Placed(T) /\ Rooted(T, top) /\ Linked(T, top, e) /\ Stored(T, e)
  /\ Chain(e, free_list, Heads, Items) /\ Apart(T, Heads, Items) /\ Pending(T, e, F)
  /\ InOrder(e, free_list, Heads, Items) /\ Kept(T, Heads, Items)
  /\ CreateInv(T, F, Heads, Items) /\ GrowInv(T, top) /\ WalkInv(T, e, F)

TreeInv ==
  /\ TreeTypeOK
  /\ \E T \in [Place -> MaybeBlock], top \in [Inodes -> Level], e \in [DataBlocks -> Contents],
       F \in MaybeBlock, Heads \in SUBSET DataBlocks, Items \in SUBSET DataBlocks :
         Layout(T, top, e, F, Heads, Items)

-----------------------------------------------------------------------------
(* Facts about types, places and the free list.                            *)

LEMMA BlockFacts ==
  /\ 0 \notin DataBlocks /\ DataBlocks \subseteq Nat /\ MaybeBlock \subseteq Nat
  /\ 0 \in Refs /\ Refs \subseteq Nat
  /\ null_block \in Contents /\ \A i \in Refs : null_block[i] = 0
  /\ \A v \in Nat : Filled(v) \in Contents
  /\ 0 \in Level /\ 0 \in Offset /\ Offset \subseteq Level /\ Level \subseteq Nat
  /\ \A n \in Offset : n + 1 \in Level
BY TreeDiskAssumption DEF DataBlocks, MaybeBlock, Refs, null_block, Filled, Contents, Level, Offset

LEMMA AtPlace ==
  ASSUME NEW i \in Inodes, NEW n \in Level, NEW o \in Offset
  PROVE  At(i, n, o) \in Place /\ log_shift_r[n][o] \in Nat
BY ShiftBounds, BlockFacts DEF At, Place, Offset

\* The free list is what its heads hold.
LEMMA ChainSame ==
  ASSUME NEW e, NEW g, NEW list, NEW Heads, NEW Items,
         Chain(e, list, Heads, Items), \A h \in Heads : g[h] = e[h]
  PROVE  Chain(g, list, Heads, Items)
BY DEF Chain

LEMMA InOrderSame ==
  ASSUME NEW e, NEW g, NEW list, NEW Heads, NEW Items,
         InOrder(e, list, Heads, Items), \A h \in Heads : g[h] = e[h]
  PROVE  InOrder(g, list, Heads, Items)
BY DEF InOrder

\* A block that is taken off the list and put in a tree is kept.
LEMMA KeptAttached ==
  ASSUME NEW T, NEW U, NEW Heads, NEW Items, NEW H, NEW I, NEW p \in Place, NEW no,
         Kept(T, Heads, Items), T[p] = 0, Heads \cup Items \subseteq H \cup I \cup {no},
         \A q \in Place : U[q] = IF q = p THEN no ELSE T[q],
         next_free' = next_free, pc \in {"grow", "walk"}
  PROVE  Kept(U, H, I)'
<1> SUFFICES ASSUME NEW d \in DataBlocks, d < next_free
             PROVE  d \in H \cup I \/ \E q \in Place : U[q] = d
  BY DEF Kept
<1>1. d \in Heads \cup Items \/ \E q \in Place : T[q] = d
  BY DEF Kept
<1>2. CASE d \in Heads \cup Items
  <2>1. d \in H \cup I \/ d = no
    BY <1>2
  <2>2. U[p] = no
    OBVIOUS
  <2> QED BY <2>1, <2>2
<1>3. ASSUME NEW q \in Place, T[q] = d PROVE U[q] = d
  <2>1. q # p
    BY <1>3, BlockFacts
  <2> QED BY <1>3, <2>1
<1> QED BY <1>1, <1>2, <1>3

\* The allocator takes a block off the list and leaves a list.
LEMMA Allocate ==
  ASSUME TreeTypeOK, free_list # 0,
         NEW Heads \in SUBSET DataBlocks, NEW Items \in SUBSET DataBlocks,
         Chain(disk, free_list, Heads, Items), InOrder(disk, free_list, Heads, Items)
  PROVE  LET a == treedisk_alloc_block
         IN  /\ a.no \in Heads \cup Items /\ a.no \in DataBlocks
             /\ a.list \in MaybeBlock /\ a.disk \in [DataBlocks -> Contents]
             /\ \A d \in DataBlocks \ Heads : a.disk[d] = disk[d]
             /\ \E H \in SUBSET Heads, I \in SUBSET Items :
                  /\ a.no \notin H \cup I /\ Heads \cup Items \subseteq H \cup I \cup {a.no}
                  /\ Chain(a.disk, a.list, H, I) /\ InOrder(a.disk, a.list, H, I)
<1> DEFINE h == free_list
           free == {i \in Refs \ {0} : disk[h][i] # 0}
<1>1. h \in Heads /\ h \in DataBlocks /\ disk \in [DataBlocks -> Contents] /\ disk[h] \in Contents
  BY DEF Chain, TreeTypeOK
<1>2. CASE free = {}
  <2> DEFINE H == Heads \ {h}
  <2>1. treedisk_alloc_block = [no |-> h, list |-> disk[h][0], disk |-> disk]
    BY <1>2 DEF treedisk_alloc_block
  <2>2. disk[h][0] \in H \cup {0}
    BY <1>1, BlockFacts DEF Chain
  <2>3. Chain(disk, disk[h][0], H, Items)
    <3>1. \A k \in H : disk[k][0] \in H \cup {0} /\ (disk[k][0] # 0 => disk[k][0] # disk[h][0])
      BY <1>1, BlockFacts DEF Chain
    <3> QED BY <2>2, <3>1 DEF Chain
  <2>4. disk[h][0] \in MaybeBlock
    BY <2>2 DEF MaybeBlock
  <2>5. h \notin H \cup Items
    BY <1>1 DEF Chain
  <2>6. InOrder(disk, disk[h][0], H, Items)
    <3>1. \A k \in H : k < h
      <4> TAKE k \in H
      <4>1. k <= h /\ k # h /\ k \in Nat /\ h \in Nat
        BY <1>1, BlockFacts DEF InOrder
      <4> QED BY <4>1
    <3>2. \A k \in H : k <= disk[h][0]
      BY <1>1, <3>1 DEF InOrder
    <3>3. \A x \in Items : \E k \in H : \E i \in Refs \ {0} : disk[k][i] = x
      <4> SUFFICES ASSUME NEW x \in Items PROVE \E k \in H : \E i \in Refs \ {0} : disk[k][i] = x
        OBVIOUS
      <4>1. PICK k \in Heads, i \in Refs \ {0} : disk[k][i] = x
        BY DEF InOrder
      <4>2. x # 0
        BY BlockFacts
      <4>3. k # h
        BY <1>2, <4>1, <4>2
      <4> QED BY <4>1, <4>3
    <3> QED BY <3>2, <3>3 DEF InOrder
  <2> HIDE DEF H, h
  <2>7. H \in SUBSET Heads /\ Heads \cup Items \subseteq H \cup Items \cup {h}
    BY DEF H
  <2> QED BY <1>1, <2>1, <2>3, <2>4, <2>5, <2>6, <2>7
<1>3. CASE free # {}
  <2> DEFINE x == Max(free)
             no == disk[h][x]
             g == [disk EXCEPT ![h][x] = 0]
             I == Items \ {no}
  <2>1. x \in free
    <3>1. free \in SUBSET (0..(REFS_PER_BLOCK - 1)) /\ REFS_PER_BLOCK - 1 \in Nat
      BY TreeDiskAssumption DEF Refs
    <3> HIDE DEF free
    <3> QED BY <1>3, <3>1, MaxIsIn
  <2>2. treedisk_alloc_block = [no |-> no, list |-> h, disk |-> g]
    BY <1>3 DEF treedisk_alloc_block
  <2> HIDE DEF x
  <2>3. x \in Refs \ {0} /\ no # 0 /\ no \in Items
    BY <1>1, <2>1 DEF Chain
  <2>4. /\ \A d \in DataBlocks : d # h => g[d] = disk[d]
        /\ \A i \in Refs : g[h][i] = IF i = x THEN 0 ELSE disk[h][i]
        /\ g \in [DataBlocks -> Contents]
    BY <1>1, <2>3 DEF Contents
  <2> HIDE DEF g
  <2>5. Chain(g, h, Heads, I)
    <3>1. \A k \in Heads : \A i \in Refs : g[k][i] = IF k = h /\ i = x THEN 0 ELSE disk[k][i]
      BY <2>4
    <3>2. \A k \in Heads : g[k][0] \in Heads \cup {0} /\ (g[k][0] # 0 => g[k][0] # h)
      BY <3>1, <2>3, BlockFacts DEF Chain
    <3>3. \A k \in Heads : \A i \in Refs \ {0} : g[k][i] \in I \cup {0}
      BY <3>1, <2>3, <1>1 DEF Chain
    <3>4. \A k, l \in Heads : \A i, j \in Refs : g[k][i] = g[l][j] /\ g[k][i] # 0 => k = l /\ i = j
      BY <3>1 DEF Chain
    <3> QED BY <1>1, <3>2, <3>3, <3>4 DEF Chain
  <2>6. no \notin Heads
    BY <2>3 DEF Chain
  <2>7. h \in MaybeBlock
    BY <1>1 DEF MaybeBlock
  <2>8. InOrder(g, h, Heads, I)
    <3>1. \A k \in Heads : \A i \in Refs : g[k][i] = IF k = h /\ i = x THEN 0 ELSE disk[k][i]
      BY <2>4
    <3>2. \A k \in Heads : g[k][0] = disk[k][0]
      BY <2>3, <3>1, BlockFacts
    <3>3. \A y \in I : \E k \in Heads : \E i \in Refs \ {0} : g[k][i] = y
      <4> SUFFICES ASSUME NEW y \in I PROVE \E k \in Heads : \E i \in Refs \ {0} : g[k][i] = y
        OBVIOUS
      <4>1. PICK k \in Heads, i \in Refs \ {0} : disk[k][i] = y
        BY DEF InOrder
      <4>2. ~(k = h /\ i = x)
        BY <4>1
      <4>3. g[k][i] = y
        BY <3>1, <4>1, <4>2
      <4> QED BY <4>3
    <3>4. \A k \in Heads : k <= h /\ disk[k][0] < k /\ \A l \in Heads : l < k => l <= disk[k][0]
      BY DEF InOrder
    <3> QED BY <3>2, <3>3, <3>4 DEF InOrder
  <2> HIDE DEF h, no
  <2>9. /\ I \in SUBSET Items /\ Heads \in SUBSET Heads /\ no \notin Heads \cup I
        /\ Heads \cup Items \subseteq Heads \cup I \cup {no}
    BY <2>6
  <2> HIDE DEF I
  <2> QED BY <1>1, <2>2, <2>3, <2>4, <2>5, <2>7, <2>8, <2>9
<1> QED BY <1>2, <1>3

-----------------------------------------------------------------------------
(* The initial state, and the steps that take no block.                    *)

LEMMA InitTreeInv == TreeInit => TreeInv
<1> SUFFICES ASSUME TreeInit PROVE TreeInv
  OBVIOUS
<1> USE BlockFacts
<1> DEFINE T == [p \in Place |-> 0]
           top == [i \in Inodes |-> 0]
<1>1. TreeTypeOK
  <2>1. (CHOOSE i \in Inodes : TRUE) \in Inodes
    BY TreeDiskAssumption
  <2>2. op \in [ino : Inodes, offset : Offset, val : Nat]
    BY <2>1 DEF TreeInit
  <2>3. disk \in [DataBlocks -> Contents] /\ files \in [Inodes -> [Offset -> Nat]]
    BY DEF TreeInit, Offset
  <2>4. inodes \in [Inodes -> [root : MaybeBlock, nblocks : Level]]
    BY DEF TreeInit, MaybeBlock
  <2>5. 0 \in MaybeBlock
    BY DEF MaybeBlock
  <2> QED BY <2>2, <2>3, <2>4, <2>5 DEF TreeTypeOK, TreeInit
<1>2. T \in [Place -> MaybeBlock] /\ top \in [Inodes -> Level] /\ 0 \in MaybeBlock
  BY DEF MaybeBlock
<1>3. disk \in [DataBlocks -> Contents] /\ {} \in SUBSET DataBlocks
  BY <1>1 DEF TreeTypeOK
<1>4. \A p \in Place : T[p] = 0
  OBVIOUS
<1>5. \A i \in Inodes : top[i] = 0 /\ Height(i) = 0 /\ inodes[i].root = 0 /\ inodes[i].nblocks = 0
  BY DEF Height, LevelsOf, TreeInit
<1>6. pc = "create" /\ free_list = 0 /\ \A i \in Inodes, o \in Offset : files[i][o] = 0
  BY DEF TreeInit, Offset
<1> HIDE DEF T, top
<1>7. \A i \in Inodes, n \in Level, c \in Nat : <<i, n, c>> \in Place /\ T[<<i, n, c>>] = 0
  BY <1>4 DEF Place
<1>8. Placed(T)
  BY <1>4 DEF Placed
<1>9. Rooted(T, top)
  <2> SUFFICES ASSUME NEW i \in Inodes
               PROVE  /\ Height(i) <= top[i] /\ T[<<i, Height(i), 0>>] = inodes[i].root
                      /\ \A n \in Level : \A c \in Nat : T[<<i, n, c>>] = 0
    BY Zenon DEF Rooted
  <2>1. T[<<i, 0, 0>>] = 0
    BY <1>7
  <2>2. Height(i) <= top[i] /\ T[<<i, Height(i), 0>>] = inodes[i].root
    BY <1>5, <2>1
  <2> QED BY <1>7, <2>2
<1>10. Linked(T, top, disk)
  <2> SUFFICES ASSUME NEW i \in Inodes, NEW n \in Offset, NEW c \in Nat
               PROVE  T[<<i, n, c>>] = 0 /\ T[<<i, n + 1, c \div REFS_PER_BLOCK>>] = 0
    BY DEF Linked
  <2> QED BY <1>7, Division
<1>11. Stored(T, disk)
  BY <1>6, <1>7 DEF Stored, Offset
<1>12. Chain(disk, free_list, {}, {}) /\ Apart(T, {}, {}) /\ Pending(T, disk, 0)
  BY <1>6 DEF Chain, Apart, Pending
<1>13. CreateInv(T, 0, {}, {}) /\ GrowInv(T, top) /\ WalkInv(T, disk, 0)
  BY <1>4, <1>5, <1>6 DEF CreateInv, GrowInv, WalkInv
<1>14. InOrder(disk, free_list, {}, {}) /\ Kept(T, {}, {})
  <2>1. next_free = 0 /\ \A d \in DataBlocks : ~(d < 0)
    BY DEF TreeInit
  <2> QED BY <1>6, <2>1 DEF InOrder, Kept
<1>15. Layout(T, top, disk, 0, {}, {})
  BY <1>8, <1>9, <1>10, <1>11, <1>12, <1>13, <1>14 DEF Layout
<1> QED BY <1>1, <1>2, <1>3, <1>15 DEF TreeInv

\* What the layout says depends on the disk and the inodes, not on where the write is.
LEMMA LayoutSame ==
  ASSUME NEW T, NEW top, NEW e, NEW F, NEW Heads, NEW Items,
         Layout(T, top, e, F, Heads, Items),
         UNCHANGED <<disk, free_list, inodes, files>>
  PROVE  /\ Placed(T) /\ Rooted(T, top)' /\ Linked(T, top, e) /\ Stored(T, e)'
         /\ Chain(e, free_list', Heads, Items) /\ Apart(T, Heads, Items)
         /\ InOrder(e, free_list', Heads, Items)
         /\ UNCHANGED next_free /\ pc \in {"idle", "grow", "walk", "data"} =>
              Kept(T, Heads, Items)'
         /\ \A i : Height(i)' = Height(i)
         /\ F = 0 => Pending(T, e, F)'
<1>1. \A i : Height(i)' = Height(i)
  BY DEF Height
<1>2. Rooted(T, top)' = Rooted(T, top)
  BY <1>1 DEF Rooted
<1>3. Stored(T, e)' = Stored(T, e)
  BY DEF Stored
<1>4. F = 0 => Pending(T, e, F)'
  BY DEF Layout, Pending
<1>5. UNCHANGED next_free /\ pc \in {"idle", "grow", "walk", "data"} => Kept(T, Heads, Items)'
  BY DEF Layout, Kept
<1> QED BY <1>1, <1>2, <1>3, <1>4, <1>5 DEF Layout

LEMMA PanicTreeInv ==
  ASSUME TreeInv, Panic
  PROVE  TreeInv'
<1> USE DEF Panic, createVars, opVars
<1>1. PICK T \in [Place -> MaybeBlock], top \in [Inodes -> Level],
           e \in [DataBlocks -> Contents], F \in MaybeBlock,
           Heads \in SUBSET DataBlocks, Items \in SUBSET DataBlocks :
             Layout(T, top, e, F, Heads, Items)
  BY DEF TreeInv
<1>2. TreeTypeOK'
  BY DEF TreeInv, TreeTypeOK
<1>3. Pending(T, e, F)'
  BY <1>1 DEF Layout, Pending
<1>4. (CreateInv(T, F, Heads, Items) /\ GrowInv(T, top) /\ WalkInv(T, e, F))'
  BY DEF CreateInv, GrowInv, WalkInv
<1>5. Kept(T, Heads, Items)'
  BY <1>1 DEF Layout, Kept
<1>6. Layout(T, top, e, F, Heads, Items)'
  BY <1>1, <1>3, <1>4, <1>5, LayoutSame DEF Layout
<1> QED BY <1>2, <1>6 DEF TreeInv

LEMMA CreateTreeInv ==
  ASSUME TreeInv, treedisk_create
  PROVE  TreeInv'
<1> USE DEF treedisk_create, opVars
<1>1. PICK T \in [Place -> MaybeBlock], top \in [Inodes -> Level],
           e \in [DataBlocks -> Contents], F \in MaybeBlock,
           Heads \in SUBSET DataBlocks, Items \in SUBSET DataBlocks :
             Layout(T, top, e, F, Heads, Items)
  BY DEF TreeInv
<1>2. TreeTypeOK'
  BY TreeDiskAssumption DEF TreeInv, TreeTypeOK
<1>3. F = 0
  BY <1>1 DEF Layout, CreateInv
<1>4. CreateInv(T, F, Heads, Items)'
  BY <1>1, TreeDiskAssumption DEF Layout, CreateInv
<1>5. (GrowInv(T, top) /\ WalkInv(T, e, F))'
  BY <1>1, LayoutSame DEF Layout, GrowInv, WalkInv
<1>6. Kept(T, Heads, Items)'
  BY TreeDiskAssumption DEF Kept, DataBlocks
<1>7. Layout(T, top, e, F, Heads, Items)'
  BY <1>1, <1>3, <1>4, <1>5, <1>6, LayoutSame DEF Layout
<1> QED BY <1>2, <1>7 DEF TreeInv

\* A block of the free list is put before the others, with the numbers of the blocks that
\* follow it.
LEMMA FreelistTreeInv ==
  ASSUME TreeInv, setup_freelist, next_free < nblocks
  PROVE  TreeInv'
<1> USE BlockFacts
<1>1. PICK T \in [Place -> MaybeBlock], top \in [Inodes -> Level],
           e \in [DataBlocks -> Contents], F \in MaybeBlock,
           Heads \in SUBSET DataBlocks, Items \in SUBSET DataBlocks :
             Layout(T, top, e, F, Heads, Items)
  BY DEF TreeInv
<1>2. TreeTypeOK
  BY DEF TreeInv
<1> DEFINE last == Min({next_free + REFS_PER_BLOCK - 1, nblocks - 1})
           block == ListBlock(last)
<1>3. /\ pc = "freelist" /\ pc' = pc /\ F = 0
      /\ disk' = [disk EXCEPT ![next_free] = block]
      /\ next_free' = last + 1 /\ free_list' = next_free
      /\ UNCHANGED <<inodes, op, root, size, nlevels, nlevels_after, b, parent_off, tib, index, files>>
  <2>1. ~(next_free >= nblocks)
    BY <1>2, TreeDiskAssumption DEF TreeTypeOK
  <2>2. F = 0
    BY <1>1 DEF setup_freelist, Layout, CreateInv
  <2> QED BY <2>1, <2>2 DEF setup_freelist, opVars
<1>4. /\ next_free \in (n_inodeblocks + 1)..nblocks /\ next_free \in DataBlocks
      /\ \A d \in Heads \cup Items : d < next_free
      /\ \A p \in Place : T[p] = 0
      /\ \A i \in Inodes : inodes[i].nblocks = 0
  BY <1>1, <1>3, TreeDiskAssumption DEF Layout, CreateInv, DataBlocks
<1>5. last \in next_free..(nblocks - 1) /\ last <= next_free + REFS_PER_BLOCK - 1
  <2>1. \/ last = next_free + REFS_PER_BLOCK - 1 /\ last <= nblocks - 1
        \/ last = nblocks - 1 /\ last <= next_free + REFS_PER_BLOCK - 1
    <3> DEFINE x == next_free + REFS_PER_BLOCK - 1
               y == nblocks - 1
    <3>1. x \in Int /\ y \in Int
      BY <1>4, TreeDiskAssumption
    <3>2. last = CHOOSE m \in {x, y} : \A n \in {x, y} : m <= n
      BY DEF Min
    <3>3. \E m \in {x, y} : \A n \in {x, y} : m <= n
      BY <3>1
    <3> HIDE DEF x, y, last
    <3>4. last \in {x, y} /\ \A n \in {x, y} : last <= n
      BY <3>2, <3>3
    <3> QED BY <3>1, <3>4 DEF x, y
  <2> QED BY <1>4, <2>1, TreeDiskAssumption
<1> HIDE DEF last
<1>6. /\ block[0] = free_list
      /\ \A i \in Refs \ {0} : block[i] = IF next_free + i <= last THEN next_free + i ELSE 0
      /\ block \in Contents
  <2>1. block[0] = free_list
    BY DEF ListBlock
  <2>2. \A i \in Refs \ {0} : block[i] = IF next_free + i <= last THEN next_free + i ELSE 0
    BY DEF ListBlock
  <2>3. free_list \in Nat
    BY <1>2 DEF TreeTypeOK
  <2>4. block = [i \in Refs |-> block[i]]
    BY DEF ListBlock
  <2> HIDE DEF block
  <2>5. \A i \in Refs : block[i] \in Nat
    BY <1>4, <2>1, <2>2, <2>3
  <2>6. [i \in Refs |-> block[i]] \in Contents
    BY <2>5 DEF Contents
  <2> QED BY <2>1, <2>2, <2>4, <2>6
<1> HIDE DEF block
<1>7. /\ disk' \in [DataBlocks -> Contents] /\ disk'[next_free] = block
      /\ \A d \in DataBlocks : d # next_free => disk'[d] = disk[d]
  BY <1>2, <1>3, <1>4, <1>6 DEF TreeTypeOK
<1>8. PICK g \in [DataBlocks -> Contents] : g = disk'
  BY <1>7
<1>9. PICK H : H = Heads \cup {next_free}
  OBVIOUS
<1>10. PICK I : I = Items \cup {next_free + i : i \in {j \in Refs \ {0} : next_free + j <= last}}
  OBVIOUS
<1>11. TreeTypeOK'
  <2>1. next_free' \in Nat /\ free_list' \in MaybeBlock
    BY <1>3, <1>4, <1>5 DEF MaybeBlock
  <2> QED BY <1>2, <1>3, <1>7, <2>1 DEF TreeTypeOK
<1>12. /\ H \in SUBSET DataBlocks /\ I \in SUBSET DataBlocks /\ H \cap I = {}
      /\ \A d \in H \cup I : d < next_free'
  <2>1. \A i \in Refs \ {0} : next_free + i <= last =>
          /\ next_free + i \in DataBlocks /\ next_free + i < last + 1 /\ next_free + i > next_free
    BY <1>4, <1>5, TreeDiskAssumption DEF DataBlocks
  <2>2. Heads \cap Items = {}
    BY <1>1 DEF Layout, Chain
  <2>3. \A d \in H : d \in DataBlocks /\ d <= next_free /\ d < last + 1
    <3>1. \A d \in Heads : d \in DataBlocks /\ d \in Nat /\ d < next_free
      BY <1>4
    <3>2. \A d \in H : d \in Heads \/ d = next_free
      BY <1>9
    <3>3. next_free \in Nat /\ last \in Nat /\ next_free <= last
      BY <1>4, <1>5, TreeDiskAssumption
    <3>4. next_free \in DataBlocks
      BY <1>4
    <3> TAKE d \in H
    <3>5. CASE d \in Heads
      BY <3>1, <3>3, <3>5
    <3>6. CASE d = next_free
      BY <3>3, <3>4, <3>6
    <3> QED BY <3>2, <3>5, <3>6
  <2>4. \A d \in I : d \in DataBlocks /\ d # next_free /\ d < last + 1 /\ (d \in Heads => FALSE)
    BY <1>4, <1>5, <1>10, <2>1, <2>2
  <2> QED BY <1>3, <1>9, <2>3, <2>4
<1>13. Chain(g, free_list', H, I)
  <2>1. Chain(disk, free_list, Heads, Items)
    <3>1. \A h \in Heads : e[h] = disk[h]
      BY <1>1, <1>3 DEF Layout, Pending
    <3> QED BY <1>1, <3>1, ChainSame DEF Layout
  <2>2. \A h \in Heads : disk'[h] = disk[h] /\ h # next_free
    BY <1>4, <1>7
  <2>3. ASSUME NEW h \in H
        PROVE  disk'[h][0] \in H \cup {0} /\ (disk'[h][0] # 0 => disk'[h][0] # next_free)
    <3>1. CASE h = next_free
      BY <1>9, <1>10, <1>4, <1>6, <1>7, <2>1, <3>1 DEF Chain
    <3>2. CASE h \in Heads
      BY <1>9, <1>10, <1>4, <2>1, <2>2, <3>2 DEF Chain
    <3> QED BY <1>9, <3>1, <3>2
  <2>4. ASSUME NEW h \in H, NEW i \in Refs \ {0}
        PROVE  disk'[h][i] \in I \cup {0}
    <3>1. CASE h = next_free
      BY <1>9, <1>10, <1>6, <1>7, <3>1
    <3>2. CASE h \in Heads
      BY <1>9, <1>10, <2>1, <2>2, <3>2 DEF Chain
    <3> QED BY <1>9, <3>1, <3>2
  <2>5. \A h \in Heads : \A i \in Refs :
          /\ disk'[h][i] \in Heads \cup Items \cup {0}
          /\ disk'[h][i] # 0 => disk'[h][i] < next_free /\ disk'[h][i] # free_list
    <3> SUFFICES ASSUME NEW h \in Heads, NEW i \in Refs
                 PROVE  /\ disk[h][i] \in Heads \cup Items \cup {0}
                        /\ disk[h][i] # 0 => disk[h][i] < next_free /\ disk[h][i] # free_list
      BY <2>2
    <3>1. disk[h][i] \in Heads \cup Items \cup {0}
      BY <2>1 DEF Chain
    <3>2. disk[h][i] # 0 => disk[h][i] # free_list
      <4>1. CASE i = 0
        BY <2>1, <4>1 DEF Chain
      <4>2. CASE i # 0
        <5>1. disk[h][i] \in Items \cup {0} /\ free_list \in Heads \cup {0} /\ Heads \cap Items = {}
          BY <2>1, <4>2 DEF Chain
        <5> QED BY <5>1
      <4> QED BY <4>1, <4>2
    <3> QED BY <1>4, <3>1, <3>2
  <2>6. \A i, j \in Refs : block[i] = block[j] /\ block[i] # 0 => i = j
    <3>1. free_list < next_free /\ free_list \in Nat
      BY <1>2, <1>4, <2>1, TreeDiskAssumption DEF Chain, TreeTypeOK
    <3> QED BY <1>4, <1>6, <3>1
  <2>7. \A h \in Heads : \A i, j \in Refs : disk'[h][i] = block[j] => disk'[h][i] = 0
    <3> SUFFICES ASSUME NEW h \in Heads, NEW i \in Refs, NEW j \in Refs,
                        disk'[h][i] = block[j], disk'[h][i] # 0
                 PROVE  FALSE
      OBVIOUS
    <3>1. disk'[h][i] < next_free /\ disk'[h][i] # free_list
      BY <2>5
    <3>2. CASE j = 0
      BY <1>6, <3>1, <3>2
    <3>3. CASE j # 0
      BY <1>4, <1>6, <3>1, <3>3
    <3> QED BY <3>2, <3>3
  <2>8. ASSUME NEW h \in H, NEW k \in H, NEW i \in Refs, NEW j \in Refs,
               disk'[h][i] = disk'[k][j], disk'[h][i] # 0
        PROVE  h = k /\ i = j
    <3>1. CASE h = next_free /\ k = next_free
      BY <1>7, <2>6, <2>8, <3>1
    <3>2. CASE h = next_free /\ k \in Heads
      BY <1>7, <2>7, <2>8, <3>2
    <3>3. CASE h \in Heads /\ k = next_free
      BY <1>7, <2>7, <2>8, <3>3
    <3>4. CASE h \in Heads /\ k \in Heads
      BY <2>1, <2>2, <2>8, <3>4 DEF Chain
    <3> QED BY <1>9, <3>1, <3>2, <3>3, <3>4
  <2>9. free_list' \in H
    BY <1>3, <1>9
  <2> QED BY <1>3, <1>12, <1>8, <2>3, <2>4, <2>8, <2>9 DEF Chain
<1>14. Apart(T, H, I)
  <2>1. 0 \notin H \cup I
    BY <1>12
  <2> QED BY <1>4, <2>1 DEF Apart
<1>15. \A i : Height(i)' = Height(i)
  BY <1>3 DEF Height
<1>16. Rooted(T, top)'
  BY <1>1, <1>3, <1>15 DEF Layout, Rooted
<1>17. Linked(T, top, g)
  <2> SUFFICES ASSUME NEW i \in Inodes, NEW n \in Offset, NEW c \in Nat
               PROVE  T[<<i, n, c>>] = 0 /\ T[<<i, n + 1, c \div REFS_PER_BLOCK>>] = 0
    BY DEF Linked
  <2> QED BY <1>4, Division DEF Place
<1>18. Stored(T, g)'
  <2> SUFFICES ASSUME NEW i \in Inodes, NEW o \in Offset
               PROVE  T[<<i, 0, o>>] = 0 /\ files'[i][o] = 0
    BY DEF Stored
  <2>1. T[<<i, 0, o>>] = 0
    BY <1>4 DEF Place, Offset
  <2> QED BY <1>1, <1>3, <2>1 DEF Layout, Stored
<1>19. Pending(T, g, 0)'
  BY <1>8 DEF Pending
<1>20. (CreateInv(T, 0, H, I) /\ GrowInv(T, top) /\ WalkInv(T, g, 0))'
  <2>1. last + 1 \in (n_inodeblocks + 1)..nblocks
    BY <1>4, <1>5, TreeDiskAssumption
  <2>2. CreateInv(T, 0, H, I)'
    BY <1>3, <1>4, <1>12, <2>1 DEF CreateInv
  <2>3. GrowInv(T, top)' /\ WalkInv(T, g, 0)'
    BY <1>1, <1>3, <1>15 DEF Layout, GrowInv, WalkInv
  <2> QED BY <2>2, <2>3
<1>21. InOrder(g, free_list', H, I)
  <2>1. InOrder(disk, free_list, Heads, Items)
    <3>1. \A h \in Heads : e[h] = disk[h]
      BY <1>1, <1>3 DEF Layout, Pending
    <3> QED BY <1>1, <3>1, InOrderSame DEF Layout
  <2>2. \A h \in Heads : h < next_free /\ h \in Nat /\ g[h] = disk[h]
    <3> TAKE h \in Heads
    <3>1. h < next_free /\ h \in DataBlocks /\ h \in Nat /\ next_free \in Nat
      BY <1>4, TreeDiskAssumption
    <3>2. h # next_free
      BY <3>1
    <3> QED BY <1>7, <1>8, <3>1, <3>2
  <2>3. free_list < next_free /\ free_list \in Nat /\ g[next_free] = block
    <3>1. free_list \in Heads \cup {0}
      BY <1>1 DEF Layout, Chain
    <3> QED BY <1>4, <1>7, <1>8, <2>2, <3>1, TreeDiskAssumption
  <2>4. ASSUME NEW h \in H
        PROVE  h <= next_free /\ g[h][0] < h /\ \A k \in H : k < h => k <= g[h][0]
    <3>1. CASE h = next_free
      <4>1. g[h][0] = free_list /\ \A k \in Heads : k <= free_list
        BY <1>6, <2>1, <2>3, <3>1 DEF InOrder
      <4>2. h \in Nat
        BY <1>4, <3>1
      <4>3. \A k \in H : k < h => k <= g[h][0]
        <5> SUFFICES ASSUME NEW k \in H, k < h PROVE k <= g[h][0]
          OBVIOUS
        <5>1. k # next_free
          BY <3>1, <4>2
        <5> QED BY <1>9, <4>1, <5>1
      <4> QED BY <2>3, <3>1, <4>1, <4>2, <4>3
    <3>2. CASE h \in Heads
      <4>1. g[h][0] < h /\ \A k \in Heads : k < h => k <= g[h][0]
        BY <2>1, <2>2, <3>2 DEF InOrder
      <4>2. h < next_free /\ h \in Nat /\ next_free \in Nat
        BY <1>4, <2>2, <3>2
      <4> QED BY <1>9, <4>1, <4>2
    <3> QED BY <1>9, <3>1, <3>2
  <2>5. ASSUME NEW x \in I
        PROVE  \E h \in H : \E i \in Refs \ {0} : g[h][i] = x
    <3>1. CASE x \in Items
      <4>1. PICK h \in Heads, i \in Refs \ {0} : disk[h][i] = x
        BY <2>1, <3>1 DEF InOrder
      <4>2. h \in H /\ g[h][i] = x
        BY <1>9, <2>2, <4>1
      <4> QED BY <4>2
    <3>2. CASE x \notin Items
      <4>1. PICK i \in Refs \ {0} : next_free + i <= last /\ x = next_free + i
        BY <1>10, <3>2
      <4>2. next_free \in H /\ g[next_free][i] = x
        BY <1>6, <1>9, <2>3, <4>1
      <4> QED BY <4>2
    <3> QED BY <3>1, <3>2
  <2> QED BY <1>3, <2>4, <2>5 DEF InOrder
<1>22. Kept(T, H, I)'
  <2> SUFFICES ASSUME NEW d \in DataBlocks, d < last + 1 PROVE d \in H \cup I
    BY <1>3 DEF Kept
  <2>1. d \in Nat /\ next_free \in Nat /\ last \in Nat /\ d <= last
    BY <1>4, <1>5, TreeDiskAssumption
  <2>2. CASE d < next_free
    <3>1. d \in Heads \cup Items \/ \E p \in Place : T[p] = d
      BY <1>1, <2>2 DEF Layout, Kept
    <3> QED BY <1>4, <1>9, <1>10, <3>1
  <2>3. CASE d = next_free
    BY <1>9, <2>3
  <2>4. CASE d > next_free
    <3>1. PICK i \in Nat : i = d - next_free
      BY <2>1, <2>4
    <3>2. i \in Refs \ {0} /\ next_free + i = d
      BY <1>5, <2>1, <2>4, <3>1, TreeDiskAssumption DEF Refs
    <3> QED BY <1>10, <2>1, <3>2
  <2> QED BY <2>1, <2>2, <2>3, <2>4
<1>23. Layout(T, top, g, 0, H, I)'
  BY <1>1, <1>13, <1>14, <1>16, <1>17, <1>18, <1>19, <1>20, <1>21, <1>22 DEF Layout, Placed
<1>24. 0 \in MaybeBlock /\ g \in [DataBlocks -> Contents]
  BY <1>8 DEF MaybeBlock
<1> QED BY <1>1, <1>11, <1>12, <1>23, <1>24 DEF TreeInv

LEMMA CreateEndTreeInv ==
  ASSUME TreeInv, setup_freelist, ~(next_free < nblocks)
  PROVE  TreeInv'
<1> USE BlockFacts DEF CreateEnd
<1>1. PICK T \in [Place -> MaybeBlock], top \in [Inodes -> Level],
           e \in [DataBlocks -> Contents], F \in MaybeBlock,
           Heads \in SUBSET DataBlocks, Items \in SUBSET DataBlocks :
             Layout(T, top, e, F, Heads, Items)
  BY DEF TreeInv
<1>2. /\ pc = "freelist" /\ pc' = "idle"
      /\ inodes' = [i \in Inodes |-> [root |-> 0, nblocks |-> 0]]
      /\ UNCHANGED <<disk, free_list, next_free, opVars, files>>
  BY DEF setup_freelist, createVars
<1>3. TreeTypeOK /\ inodes \in [Inodes -> [root : MaybeBlock, nblocks : Level]]
  BY DEF TreeInv, TreeTypeOK
<1>4. \A i \in Inodes : inodes[i].nblocks = 0 /\ T[<<i, 0, 0>>] = 0 /\ inodes[i].root = 0
  <2> TAKE i \in Inodes
  <2>1. inodes[i].nblocks = 0 /\ T[<<i, 0, 0>>] = 0
    BY <1>1, <1>2 DEF Layout, CreateInv, Place
  <2>2. Height(i) = 0
    BY <2>1 DEF Height, LevelsOf
  <2> QED BY <1>1, <2>1, <2>2 DEF Layout, Rooted
<1>5. inodes' = inodes
  BY <1>2, <1>3, <1>4
<1>6. TreeTypeOK'
  BY <1>2, <1>3, <1>5 DEF TreeTypeOK, opVars
<1>7. F = 0
  BY <1>1, <1>2 DEF Layout, CreateInv
<1>8. UNCHANGED <<disk, free_list, inodes, files>>
  BY <1>2, <1>5
<1>9. (CreateInv(T, F, Heads, Items) /\ GrowInv(T, top) /\ WalkInv(T, e, F))'
  BY <1>1, <1>2, <1>7, <1>8, LayoutSame DEF Layout, CreateInv, GrowInv, WalkInv
<1>10. Kept(T, Heads, Items)'
  <2>1. next_free >= nblocks
    BY <1>1, <1>2, TreeDiskAssumption DEF setup_freelist, Layout, CreateInv
  <2> QED BY <1>1, <1>2, <2>1 DEF Layout, Kept
<1>11. Layout(T, top, e, F, Heads, Items)'
  BY <1>1, <1>7, <1>8, <1>9, <1>10, LayoutSame DEF Layout
<1> QED BY <1>6, <1>11 DEF TreeInv

LEMMA BeginTreeInv ==
  ASSUME TreeInv, NEW ino \in Inodes, NEW offset \in Offset, NEW v \in Values,
         WriteBegin(ino, offset, v)
  PROVE  TreeInv'
<1> USE BlockFacts DEF createVars
<1>1. PICK T \in [Place -> MaybeBlock], top \in [Inodes -> Level],
           e \in [DataBlocks -> Contents], F \in MaybeBlock,
           Heads \in SUBSET DataBlocks, Items \in SUBSET DataBlocks :
             Layout(T, top, e, F, Heads, Items)
  BY DEF TreeInv
<1> DEFINE old == inodes[ino].nblocks
<1>2. /\ pc = "idle" /\ pc' = "grow"
      /\ op' = [ino |-> ino, offset |-> offset, val |-> v]
      /\ root' = inodes[ino].root
      /\ size' = IF offset >= old THEN offset + 1 ELSE old
      /\ nlevels' = LevelsOf(old)
      /\ nlevels_after' = IF offset >= old THEN Levels(offset) ELSE LevelsOf(old)
      /\ UNCHANGED <<disk, free_list, inodes, next_free, b, parent_off, tib, index, files>>
  BY DEF WriteBegin
<1>3. TreeTypeOK /\ old \in Level /\ inodes[ino].root \in MaybeBlock
  BY DEF TreeInv, TreeTypeOK
<1>4. offset \in Nat /\ old \in Nat /\ offset + 1 \in Level /\ v \in Nat
  BY <1>3, TreeDiskAssumption
<1>5. /\ size' \in Level /\ offset < size' /\ old <= size'
      /\ nlevels_after' = LevelsOf(size')
  <2>1. LevelsOf(offset + 1) = Levels(offset)
    BY <1>4 DEF LevelsOf
  <2>2. CASE offset >= old
    BY <1>2, <1>4, <2>1, <2>2
  <2>3. CASE ~(offset >= old)
    BY <1>2, <1>3, <1>4, <2>3
  <2> QED BY <2>2, <2>3
<1>6. nlevels' \in Level /\ nlevels_after' \in Level /\ nlevels' <= nlevels_after'
  <2>1. \A n, m \in Level : LevelsOf(n) \in Level /\ (n <= m => LevelsOf(n) <= LevelsOf(m))
    BY LevelsOfValue
  <2>2. nlevels' = LevelsOf(old) /\ nlevels_after' = LevelsOf(size')
    BY <1>2, <1>5
  <2> HIDE DEF old
  <2>3. LevelsOf(old) \in Level /\ LevelsOf(size') \in Level /\ LevelsOf(old) <= LevelsOf(size')
    BY <1>3, <1>5, <2>1, Zenon
  <2> QED BY <2>2, <2>3, Zenon
<1>7. TreeTypeOK'
  <2>1. op' \in [ino : Inodes, offset : Offset, val : Nat]
    BY <1>2, <1>4
  <2> QED BY <1>2, <1>3, <1>5, <1>6, <2>1 DEF TreeTypeOK
<1>8. F = 0
  BY <1>1, <1>2 DEF Layout, CreateInv
<1>9. UNCHANGED <<disk, free_list, inodes, files>>
  BY <1>2
<1>10. \A i \in Inodes : Height(i)' = Height(i) /\ top[i] = Height(i)
                       /\ T[<<i, Height(i), 0>>] = inodes[i].root
  BY <1>1, <1>2, <1>9, LayoutSame DEF Layout, GrowInv, Rooted
<1>11. CreateInv(T, F, Heads, Items)' /\ WalkInv(T, e, F)'
  BY <1>2, <1>8 DEF CreateInv, WalkInv
<1>12. nlevels' = Height(ino) /\ op'.ino = ino /\ op'.offset = offset
  BY <1>2 DEF Height
<1>13. GrowInv(T, top)'
  <2> HIDE DEF old
  <2>1. \A i \in Inodes : top[i] = IF i = op'.ino THEN nlevels' ELSE Height(i)'
    BY <1>10, <1>12
  <2>2. T[<<op'.ino, nlevels', 0>>] = root'
    BY <1>2, <1>10, <1>12
  <2>3. inodes'[op'.ino].nblocks <= size' /\ op'.offset < size'
    BY <1>2, <1>5, <1>12 DEF old
  <2> QED BY <1>2, <1>5, <1>6, <2>1, <2>2, <2>3 DEF GrowInv
<1>14. Layout(T, top, e, F, Heads, Items)'
  BY <1>1, <1>2, <1>8, <1>9, <1>11, <1>13, LayoutSame DEF Layout
<1> QED BY <1>7, <1>14 DEF TreeInv

\* The inode gets the new root and the new size; the walk starts there.
LEMMA GrowEndTreeInv ==
  ASSUME TreeInv, GrowEnd
  PROVE  TreeInv'
<1> USE BlockFacts DEF createVars
<1>1. PICK T \in [Place -> MaybeBlock], top \in [Inodes -> Level],
           e \in [DataBlocks -> Contents], F \in MaybeBlock,
           Heads \in SUBSET DataBlocks, Items \in SUBSET DataBlocks :
             Layout(T, top, e, F, Heads, Items)
  BY DEF TreeInv
<1>2. /\ pc = "grow" /\ pc' = "walk" /\ nlevels >= nlevels_after
      /\ inodes' = [inodes EXCEPT ![op.ino] = [root |-> root, nblocks |-> size]]
      /\ parent_off' = 0 /\ b' = root
      /\ UNCHANGED <<disk, free_list, next_free, op, root, size, nlevels, nlevels_after, tib, index, files>>
  BY DEF GrowEnd
<1>3. TreeTypeOK /\ op.ino \in Inodes /\ op.offset \in Offset /\ size \in Level
  BY DEF TreeInv, TreeTypeOK
<1>4. /\ F = 0 /\ nlevels = LevelsOf(size) /\ nlevels \in Level
      /\ T[<<op.ino, nlevels, 0>>] = root /\ top[op.ino] = nlevels
      /\ op.offset < size /\ inodes[op.ino].nblocks <= size
  <2>1. nlevels \in Nat /\ nlevels_after \in Nat /\ nlevels \in Level
    BY <1>3 DEF TreeTypeOK
  <2>2. F = 0
    BY <1>1, <1>2 DEF Layout, CreateInv
  <2> QED BY <1>1, <1>2, <1>3, <2>1, <2>2 DEF Layout, GrowInv
<1>5. /\ inodes'[op.ino] = [root |-> root, nblocks |-> size]
      /\ \A i \in Inodes : i # op.ino => inodes'[i] = inodes[i]
      /\ inodes' \in [Inodes -> [root : MaybeBlock, nblocks : Level]]
  BY <1>2, <1>3 DEF TreeTypeOK
<1>6. TreeTypeOK'
  <2>1. 0 \in MaybeBlock
    BY DEF MaybeBlock
  <2> QED BY <1>2, <1>3, <1>5, <2>1 DEF TreeTypeOK
<1>7. /\ Height(op.ino)' = nlevels
      /\ \A i \in Inodes : i # op.ino => Height(i)' = Height(i)
  BY <1>2, <1>4, <1>5 DEF Height
<1>8. \A i \in Inodes : top[i] = Height(i)'
  BY <1>1, <1>2, <1>4, <1>7 DEF Layout, GrowInv
<1>9. log_shift_r[nlevels][op.offset] = 0
  <2>1. \A n \in Level : \A o \in Offset : o < n => log_shift_r[LevelsOf(n)][o] = 0
    BY LevelsOfValue
  <2>2. \A o \in Offset : o < size => log_shift_r[LevelsOf(size)][o] = 0
    BY <1>3, <2>1
  <2>3. log_shift_r[LevelsOf(size)][op.offset] = 0
    BY <1>3, <1>4, <2>2
  <2> QED BY <1>4, <2>3, Zenon
<1>10. Rooted(T, top)'
  <2> SUFFICES ASSUME NEW i \in Inodes
               PROVE  /\ Height(i)' <= top[i]
                      /\ T[<<i, Height(i)', 0>>] = inodes'[i].root
                      /\ \A n \in Level : /\ n >= Height(i)' => \A c \in Nat \ {0} : T[<<i, n, c>>] = 0
                                          /\ n > top[i] => T[<<i, n, 0>>] = 0
    BY DEF Rooted
  <2>1. CASE i # op.ino
    BY <1>1, <1>5, <1>7, <2>1 DEF Layout, Rooted
  <2>2. CASE i = op.ino
    <3>1. Height(i)' = top[i] /\ T[<<i, Height(i)', 0>>] = inodes'[i].root
      <4>1. Height(i)' = nlevels /\ inodes'[i].root = root /\ top[i] = nlevels
        BY <1>4, <1>5, <1>8, <2>2
      <4> QED BY <1>4, <2>2, <4>1
    <3>2. Height(i) <= top[i] /\ Height(i) \in Nat /\ top[i] \in Nat
      <4>1. inodes[i].nblocks \in Level
        BY <1>3 DEF TreeTypeOK
      <4> QED BY <1>1, <4>1, LevelsOfValue DEF Layout, Rooted, Height
    <3>3. ASSUME NEW n \in Level
          PROVE  /\ n >= Height(i)' => \A c \in Nat \ {0} : T[<<i, n, c>>] = 0
                 /\ n > top[i] => T[<<i, n, 0>>] = 0
      <4>1. n >= top[i] => n >= Height(i)
        BY <3>2
      <4>2. /\ n >= Height(i) => \A c \in Nat \ {0} : T[<<i, n, c>>] = 0
            /\ n > top[i] => T[<<i, n, 0>>] = 0
        <5>1. Rooted(T, top)
          BY <1>1 DEF Layout
        <5> QED BY <5>1, Zenon DEF Rooted
      <4> QED BY <3>1, <4>1, <4>2
    <3>4. Height(i)' <= top[i]
      BY <3>1, <3>2
    <3> QED BY <3>1, <3>3, <3>4
  <2> QED BY <2>1, <2>2
<1>11. Stored(T, e)' /\ Pending(T, e, F)'
  BY <1>1, <1>2, <1>4 DEF Layout, Stored, Pending
<1>12. CreateInv(T, F, Heads, Items)' /\ GrowInv(T, top)'
  BY <1>2, <1>8 DEF CreateInv, GrowInv
<1>13. WalkInv(T, e, F)'
  <2>1. op.offset < inodes'[op.ino].nblocks
    BY <1>4, <1>5
  <2>2. b' = T[At(op.ino, nlevels, op.offset)]
    BY <1>2, <1>4, <1>9 DEF At
  <2>3. nlevels <= Height(op.ino)'
    BY <1>2, <1>4, <1>7
  <2> QED BY <1>2, <1>4, <1>7, <2>1, <2>2, <2>3 DEF WalkInv
<1>14. Kept(T, Heads, Items)'
  BY <1>1, <1>2 DEF Layout, Kept
<1>15. Layout(T, top, e, F, Heads, Items)'
  BY <1>1, <1>2, <1>10, <1>11, <1>12, <1>13, <1>14 DEF Layout, Placed, Linked, Apart
<1> QED BY <1>6, <1>15 DEF TreeInv

LEMMA WriteDataTreeInv ==
  ASSUME TreeInv, WriteData
  PROVE  TreeInv'
<1> USE BlockFacts
<1>1. PICK T \in [Place -> MaybeBlock], top \in [Inodes -> Level],
           e \in [DataBlocks -> Contents], F \in MaybeBlock,
           Heads \in SUBSET DataBlocks, Items \in SUBSET DataBlocks :
             Layout(T, top, e, F, Heads, Items)
  BY DEF TreeInv
<1>2. /\ pc = "data" /\ pc' = "idle"
      /\ disk' = [disk EXCEPT ![b] = Filled(op.val)]
      /\ files' = [files EXCEPT ![op.ino][op.offset] = op.val]
      /\ UNCHANGED <<free_list, inodes, next_free, op, root, size, nlevels, nlevels_after,
                     b, parent_off, tib, index>>
  BY DEF WriteData, createVars, opVars
<1>3. /\ TreeTypeOK /\ op.ino \in Inodes /\ op.offset \in Offset /\ op.val \in Nat
      /\ files \in [Inodes -> [Offset -> Nat]] /\ disk \in [DataBlocks -> Contents]
  BY DEF TreeInv, TreeTypeOK
<1>4. /\ b \in DataBlocks /\ b = T[<<op.ino, 0, op.offset>>] /\ F \in {0, b}
      /\ <<op.ino, 0, op.offset>> \in Place
  <2>1. b # 0 /\ b = T[At(op.ino, 0, op.offset)] /\ F \in {0, b}
    BY <1>1, <1>2 DEF Layout, WalkInv
  <2>2. b \in MaybeBlock
    BY <1>3 DEF TreeTypeOK
  <2>3. op.offset \in Nat
    BY <1>3 DEF Offset
  <2> QED BY <1>3, <2>1, <2>2, <2>3, ShiftZero DEF At, MaybeBlock, Place
<1>5. Filled(op.val) \in Contents
  BY <1>3
<1>6. PICK g \in [DataBlocks -> Contents] : g = [e EXCEPT ![b] = Filled(op.val)]
  BY <1>5
<1>7. g[b] = Filled(op.val) /\ \A d \in DataBlocks : d # b => g[d] = e[d]
  BY <1>4, <1>6
<1>8. /\ disk' \in [DataBlocks -> Contents] /\ disk'[b] = Filled(op.val)
      /\ \A d \in DataBlocks : d # b => disk'[d] = disk[d]
  BY <1>2, <1>3, <1>4, <1>5
<1>9. /\ files' \in [Inodes -> [Offset -> Nat]]
      /\ \A i \in Inodes, o \in Offset :
           files'[i][o] = IF i = op.ino /\ o = op.offset THEN op.val ELSE files[i][o]
  BY <1>2, <1>3
<1>10. TreeTypeOK'
  BY <1>2, <1>3, <1>8, <1>9 DEF TreeTypeOK
<1>11. \A i : Height(i)' = Height(i)
  BY <1>2 DEF Height
<1>12. Rooted(T, top)'
  BY <1>1, <1>2, <1>11 DEF Layout, Rooted
<1>13. \A q \in Place : T[q] = b => q = <<op.ino, 0, op.offset>>
  BY <1>1, <1>4 DEF Layout, Placed
<1>14. Linked(T, top, g)
  <2> SUFFICES ASSUME NEW i \in Inodes, NEW n \in Offset, NEW c \in Nat,
                      NEW up, up = T[<<i, n + 1, c \div REFS_PER_BLOCK>>]
               PROVE  IF up # 0 THEN g[up][c % REFS_PER_BLOCK] = T[<<i, n, c>>]
                      ELSE n + 1 <= top[i] => T[<<i, n, c>>] = 0
    BY DEF Linked
  <2>1. IF up # 0 THEN e[up][c % REFS_PER_BLOCK] = T[<<i, n, c>>]
        ELSE n + 1 <= top[i] => T[<<i, n, c>>] = 0
    BY <1>1 DEF Layout, Linked
  <2>2. <<i, n + 1, c \div REFS_PER_BLOCK>> \in Place /\ n + 1 # 0
    BY Division DEF Place, Offset
  <2>3. up # b
    BY <1>13, <2>2
  <2>4. up \in MaybeBlock
    BY <2>2
  <2> QED BY <1>7, <2>1, <2>3, <2>4 DEF MaybeBlock
<1>15. Stored(T, g)'
  <2> SUFFICES ASSUME NEW i \in Inodes, NEW o \in Offset
               PROVE  IF T[<<i, 0, o>>] = 0 THEN files'[i][o] = 0
                      ELSE g[T[<<i, 0, o>>]] = Filled(files'[i][o])
    BY DEF Stored
  <2>1. IF T[<<i, 0, o>>] = 0 THEN files[i][o] = 0
        ELSE e[T[<<i, 0, o>>]] = Filled(files[i][o])
    BY <1>1 DEF Layout, Stored
  <2>2. <<i, 0, o>> \in Place
    BY DEF Place, Offset
  <2>3. CASE i = op.ino /\ o = op.offset
    BY <1>4, <1>7, <1>9, <2>3
  <2>4. CASE ~(i = op.ino /\ o = op.offset)
    <3>1. T[<<i, 0, o>>] # b
      BY <1>13, <2>2, <2>4
    <3>2. T[<<i, 0, o>>] \in MaybeBlock
      BY <2>2
    <3>3. files'[i][o] = files[i][o]
      BY <1>9, <2>4
    <3> QED BY <1>7, <2>1, <3>1, <3>2, <3>3 DEF MaybeBlock
  <2> QED BY <2>3, <2>4
<1>16. Chain(g, free_list, Heads, Items) /\ InOrder(g, free_list, Heads, Items)
  <2>1. b \notin Heads
    BY <1>1, <1>4 DEF Layout, Apart
  <2>2. \A h \in Heads : g[h] = e[h]
    BY <1>7, <2>1
  <2>3. Chain(e, free_list, Heads, Items) /\ InOrder(e, free_list, Heads, Items)
    BY <1>1 DEF Layout
  <2> QED BY <2>2, <2>3, ChainSame, InOrderSame
<1>17. Pending(T, g, 0)'
  <2>1. \A d \in DataBlocks : d # b => e[d] = disk[d]
    BY <1>1, <1>4 DEF Layout, Pending
  <2> QED BY <1>7, <1>8, <2>1 DEF Pending
<1>18. CreateInv(T, 0, Heads, Items)' /\ GrowInv(T, top)' /\ WalkInv(T, g, 0)'
  BY <1>1, <1>2, <1>11 DEF Layout, CreateInv, GrowInv, WalkInv
<1>19. Kept(T, Heads, Items)'
  BY <1>1, <1>2 DEF Layout, Kept
<1>20. Layout(T, top, g, 0, Heads, Items)'
  BY <1>1, <1>2, <1>12, <1>14, <1>15, <1>16, <1>17, <1>18, <1>19 DEF Layout, Placed, Apart
<1>21. 0 \in MaybeBlock
  BY DEF MaybeBlock
<1> QED BY <1>1, <1>10, <1>20, <1>21 DEF TreeInv

-----------------------------------------------------------------------------
(* The steps that take a block from the free list.                         *)

\* A block that is nowhere yet is put at a place.
LEMMA Attach ==
  ASSUME NEW T \in [Place -> MaybeBlock], Placed(T), NEW p \in Place, NEW no \in DataBlocks,
         \A q \in Place : T[q] # no
  PROVE  \E U \in [Place -> MaybeBlock] :
           Placed(U) /\ \A q \in Place : U[q] = IF q = p THEN no ELSE T[q]
<1>1. no \in MaybeBlock
  BY DEF MaybeBlock
<1>2. PICK U \in [Place -> MaybeBlock] : U = [T EXCEPT ![p] = no]
  BY <1>1
<1>3. \A q \in Place : U[q] = IF q = p THEN no ELSE T[q]
  BY <1>2
<1>4. Placed(U)
  BY <1>3 DEF Placed
<1> QED BY <1>3, <1>4

LEMMA GrowTreeInv ==
  ASSUME TreeInv, Grow, free_list # 0
  PROVE  TreeInv'
<1> USE BlockFacts
<1>1. PICK T \in [Place -> MaybeBlock], top \in [Inodes -> Level],
           e \in [DataBlocks -> Contents], F \in MaybeBlock,
           Heads \in SUBSET DataBlocks, Items \in SUBSET DataBlocks :
             Layout(T, top, e, F, Heads, Items)
  BY DEF TreeInv
<1> DEFINE a == treedisk_alloc_block
           block == [null_block EXCEPT ![0] = root]
<1>2. /\ pc = "grow" /\ nlevels < nlevels_after
      /\ disk' = [a.disk EXCEPT ![a.no] = block]
      /\ free_list' = a.list /\ root' = a.no /\ nlevels' = nlevels + 1
      /\ UNCHANGED <<pc, inodes, next_free, op, size, nlevels_after, b, parent_off, tib, index, files>>
  BY DEF Grow, createVars
<1>3. /\ TreeTypeOK /\ op.ino \in Inodes /\ root \in MaybeBlock
      /\ nlevels \in Level /\ nlevels_after \in Level
  BY DEF TreeInv, TreeTypeOK
<1>4. /\ F = 0 /\ top[op.ino] = nlevels /\ T[<<op.ino, nlevels, 0>>] = root
      /\ \A d \in DataBlocks : e[d] = disk[d]
      /\ Height(op.ino) <= nlevels /\ Height(op.ino) \in Level
  <2>1. F = 0
    BY <1>1, <1>2 DEF Layout, CreateInv
  <2>2. top[op.ino] = nlevels /\ T[<<op.ino, nlevels, 0>>] = root
    BY <1>1, <1>2, <1>3 DEF Layout, GrowInv
  <2>3. Height(op.ino) <= nlevels
    BY <1>1, <1>3, <2>2 DEF Layout, Rooted
  <2>4. inodes[op.ino].nblocks \in Level
    BY <1>3 DEF TreeTypeOK
  <2>5. Height(op.ino) \in Level
    BY <2>4, LevelsOfValue DEF Height
  <2>6. \A d \in DataBlocks : e[d] = disk[d]
    BY <1>1, <2>1 DEF Layout, Pending
  <2> QED BY <2>1, <2>2, <2>3, <2>5, <2>6
<1>5. nlevels \in Offset /\ nlevels + 1 \in Level
  BY <1>2, <1>3, TreeDiskAssumption DEF Level, Offset
<1>6. /\ a.no \in Heads \cup Items /\ a.no \in DataBlocks
      /\ a.list \in MaybeBlock /\ a.disk \in [DataBlocks -> Contents]
      /\ \A d \in DataBlocks \ Heads : a.disk[d] = disk[d]
      /\ \E H \in SUBSET Heads, I \in SUBSET Items :
           /\ a.no \notin H \cup I /\ Heads \cup Items \subseteq H \cup I \cup {a.no}
           /\ Chain(a.disk, a.list, H, I) /\ InOrder(a.disk, a.list, H, I)
  <2>1. Chain(disk, free_list, Heads, Items) /\ InOrder(disk, free_list, Heads, Items)
    <3>1. /\ Chain(e, free_list, Heads, Items) /\ InOrder(e, free_list, Heads, Items)
          /\ \A h \in Heads : disk[h] = e[h]
      BY <1>1, <1>4 DEF Layout
    <3> QED BY <3>1, ChainSame, InOrderSame
  <2> QED BY <1>3, <2>1, Allocate
<1> HIDE DEF a
<1>7. PICK no \in DataBlocks : no = a.no
  BY <1>6
<1>8. PICK H \in SUBSET Heads, I \in SUBSET Items :
        /\ no \notin H \cup I /\ Heads \cup Items \subseteq H \cup I \cup {no}
        /\ Chain(a.disk, a.list, H, I) /\ InOrder(a.disk, a.list, H, I)
  BY <1>6, <1>7
<1>9. /\ block \in Contents /\ block[0] = root
      /\ \A i \in Refs : i # 0 => block[i] = 0
  <2>1. root \in Nat
    BY <1>3
  <2> QED BY <2>1 DEF Contents
<1> HIDE DEF block
<1>10. PICK g \in [DataBlocks -> Contents] : g = disk'
  BY <1>2, <1>6, <1>9
<1>11. g[no] = block /\ \A d \in DataBlocks \ {no} : g[d] = a.disk[d]
  BY <1>2, <1>6, <1>7, <1>10
<1>12. PICK r : r = root
  OBVIOUS
<1>13. PICK x \in Offset : x = nlevels
  BY <1>5
<1>14. PICK ino \in Inodes : ino = op.ino
  BY <1>3
<1> DEFINE p == <<ino, x + 1, 0>>
<1>15. p \in Place /\ <<ino, x, 0>> \in Place
  BY <1>5 DEF Place
<1>16. \A q \in Place : T[q] \notin Heads \cup Items /\ T[q] # no
  BY <1>1, <1>6, <1>7 DEF Layout, Apart
<1>17. PICK U \in [Place -> MaybeBlock] :
         Placed(U) /\ \A q \in Place : U[q] = IF q = p THEN no ELSE T[q]
  <2>1. Placed(T) /\ p \in Place /\ \A q \in Place : T[q] # no
    BY <1>1, <1>15, <1>16 DEF Layout
  <2>2. \A y \in Place : \E U \in [Place -> MaybeBlock] :
          Placed(U) /\ \A q \in Place : U[q] = IF q = y THEN no ELSE T[q]
    BY <2>1, Attach
  <2> HIDE DEF p
  <2> QED BY <2>1, <2>2, Zenon
<1>18. PICK height \in [Inodes -> Level] :
         height = [top EXCEPT ![ino] = x + 1]
  BY <1>5
<1>19. \A i \in Inodes : height[i] = IF i = ino THEN x + 1 ELSE top[i]
  BY <1>18
<1>20. \A q \in Place : T[q] # 0 => g[T[q]] = e[T[q]]
  <2> SUFFICES ASSUME NEW q \in Place, T[q] # 0 PROVE g[T[q]] = e[T[q]]
    OBVIOUS
  <2>1. T[q] \in DataBlocks
    BY DEF MaybeBlock
  <2> QED BY <1>4, <1>6, <1>11, <1>16, <2>1
<1>21. \A i : Height(i)' = Height(i)
  BY <1>2 DEF Height
<1>22. /\ top[ino] = x /\ T[<<ino, x, 0>>] = r /\ Height(ino) <= x /\ Height(ino) \in Nat
       /\ \A n \in Level : /\ n >= x => \A c \in Nat \ {0} : T[<<ino, n, c>>] = 0
                           /\ n > x => T[<<ino, n, 0>>] = 0
  <2>1. top[ino] = x /\ T[<<ino, x, 0>>] = r /\ Height(ino) <= x /\ Height(ino) \in Nat
    BY <1>4, <1>12, <1>13, <1>14
  <2>2. \A n \in Level : n >= x => n >= Height(ino)
    BY <2>1
  <2>3. \A n \in Level : /\ n >= Height(ino) => \A c \in Nat \ {0} : T[<<ino, n, c>>] = 0
                         /\ n > x => T[<<ino, n, 0>>] = 0
    BY <1>1, <2>1 DEF Layout, Rooted
  <2> QED BY <2>1, <2>2, <2>3
<1>23. Rooted(U, height)'
  <2> SUFFICES ASSUME NEW i \in Inodes
               PROVE  /\ Height(i) <= height[i]
                      /\ U[<<i, Height(i), 0>>] = inodes[i].root
                      /\ \A n \in Level : /\ n >= Height(i) => \A c \in Nat \ {0} : U[<<i, n, c>>] = 0
                                          /\ n > height[i] => U[<<i, n, 0>>] = 0
    BY <1>2, <1>21 DEF Rooted
  <2>1. /\ Height(i) <= top[i] /\ T[<<i, Height(i), 0>>] = inodes[i].root
        /\ \A n \in Level : /\ n >= Height(i) => \A c \in Nat \ {0} : T[<<i, n, c>>] = 0
                            /\ n > top[i] => T[<<i, n, 0>>] = 0
    BY <1>1 DEF Layout, Rooted
  <2>2. Height(i) \in Level
    <3>1. inodes[i].nblocks \in Level
      BY <1>3 DEF TreeTypeOK
    <3> QED BY <3>1, LevelsOfValue DEF Height
  <2>3. \A n \in Level, c \in Nat : <<i, n, c>> \in Place
    BY DEF Place
  <2>4. CASE i # ino
    <3>1. \A n \in Level, c \in Nat : U[<<i, n, c>>] = T[<<i, n, c>>]
      BY <1>17, <2>3, <2>4
    <3>2. height[i] = top[i]
      BY <1>19, <2>4
    <3>3. U[<<i, Height(i), 0>>] = T[<<i, Height(i), 0>>]
      BY <2>2, <3>1
    <3>4. ASSUME NEW n \in Level
          PROVE  /\ n >= Height(i) => \A c \in Nat \ {0} : U[<<i, n, c>>] = 0
                 /\ n > height[i] => U[<<i, n, 0>>] = 0
      <4>1. U[<<i, n, 0>>] = T[<<i, n, 0>>] /\ \A c \in Nat \ {0} : U[<<i, n, c>>] = T[<<i, n, c>>]
        BY <3>1
      <4> QED BY <2>1, <3>2, <4>1
    <3> QED BY <2>1, <3>2, <3>3, <3>4
  <2>5. CASE i = ino
    <3>1. \A n \in Level, c \in Nat : n # x + 1 \/ c # 0 => U[<<i, n, c>>] = T[<<i, n, c>>]
      BY <1>17, <2>3, <2>5
    <3>2. Height(i) # x + 1 /\ Height(i) <= height[i] /\ height[i] = x + 1
      BY <1>19, <1>22, <2>5
    <3>3. U[<<i, Height(i), 0>>] = inodes[i].root
      BY <2>1, <2>2, <3>1, <3>2
    <3>4. \A n \in Level : n >= Height(i) => \A c \in Nat \ {0} : U[<<i, n, c>>] = 0
      <4> SUFFICES ASSUME NEW n \in Level, n >= Height(i), NEW c \in Nat \ {0}
                   PROVE  U[<<i, n, c>>] = 0
        OBVIOUS
      <4>1. U[<<i, n, c>>] = T[<<i, n, c>>]
        BY <3>1
      <4> QED BY <2>1, <4>1
    <3>5. \A n \in Level : n > height[i] => U[<<i, n, 0>>] = 0
      BY <1>22, <2>5, <3>1, <3>2
    <3> QED BY <3>2, <3>3, <3>4, <3>5
  <2> QED BY <2>4, <2>5
<1>24. Linked(U, height, g)
  <2> SUFFICES ASSUME NEW i \in Inodes, NEW n \in Offset, NEW c \in Nat, NEW d, NEW m,
                      d = c \div REFS_PER_BLOCK, m = c % REFS_PER_BLOCK
               PROVE  IF U[<<i, n + 1, d>>] # 0 THEN g[U[<<i, n + 1, d>>]][m] = U[<<i, n, c>>]
                      ELSE n + 1 <= height[i] => U[<<i, n, c>>] = 0
    BY DEF Linked
  <2>1. d \in Nat /\ m \in Refs /\ (c = 0 => d = 0) /\ (d = 0 /\ m = 0 => c = 0)
    <3>1. d \in Nat /\ m \in Refs /\ c = REFS_PER_BLOCK * d + m
      BY Division
    <3>2. c = 0 => d = 0
      <4>1. d <= c /\ d \in Nat
        BY DivisionShrinks, <3>1
      <4> QED BY <4>1
    <3>3. d = 0 /\ m = 0 => c = 0
      BY <3>1, TreeDiskAssumption
    <3> QED BY <3>1, <3>2, <3>3
  <2>2. <<i, n + 1, d>> \in Place /\ <<i, n, c>> \in Place /\ n \in Nat /\ x \in Nat /\ n + 1 # n
    BY <2>1 DEF Place
  <2>3. IF T[<<i, n + 1, d>>] # 0 THEN e[T[<<i, n + 1, d>>]][m] = T[<<i, n, c>>]
        ELSE n + 1 <= top[i] => T[<<i, n, c>>] = 0
    BY <1>1 DEF Layout, Linked
  <2>4. CASE <<i, n, c>> = p
    <3>1. i = ino /\ n = x + 1 /\ c = 0 /\ d = 0
      BY <2>1, <2>4
    <3>2. U[<<i, n + 1, d>>] = T[<<i, n + 1, d>>]
      BY <1>17, <2>2, <3>1
    <3>3. n + 1 > x /\ n + 1 \in Level
      BY <2>2, <3>1
    <3>4. T[<<i, n + 1, d>>] = 0
      BY <1>22, <3>1, <3>3
    <3>5. ~(n + 1 <= height[i])
      BY <1>19, <2>2, <3>1
    <3> QED BY <3>2, <3>4, <3>5
  <2>5. CASE <<i, n + 1, d>> = p
    <3>1. i = ino /\ n = x /\ d = 0
      BY <2>2, <2>5
    <3>2. U[<<i, n + 1, d>>] = no /\ U[<<i, n, c>>] = T[<<i, n, c>>] /\ no # 0
      BY <1>17, <2>2, <2>5, <3>1
    <3>3. CASE m = 0
      <4>1. c = 0
        BY <2>1, <3>1, <3>3
      <4> QED BY <1>9, <1>11, <1>12, <1>22, <3>1, <3>2, <3>3, <4>1
    <3>4. CASE m # 0
      <4>1. c # 0
        <5>1. c = 0 => c % REFS_PER_BLOCK = 0
          BY TreeDiskAssumption
        <5> QED BY <3>4, <5>1
      <4>2. T[<<i, n, c>>] = 0
        <5>1. n \in Level /\ n >= x /\ c \in Nat \ {0}
          BY <2>2, <3>1, <4>1
        <5> QED BY <1>22, <3>1, <5>1
      <4> QED BY <1>9, <1>11, <2>1, <3>2, <3>4, <4>2
    <3> QED BY <3>3, <3>4
  <2>6. CASE <<i, n, c>> # p /\ <<i, n + 1, d>> # p
    <3>1. U[<<i, n + 1, d>>] = T[<<i, n + 1, d>>] /\ U[<<i, n, c>>] = T[<<i, n, c>>]
      BY <1>17, <2>2, <2>6
    <3>2. CASE T[<<i, n + 1, d>>] # 0
      BY <1>20, <2>2, <2>3, <3>1, <3>2
    <3>3. CASE T[<<i, n + 1, d>>] = 0
      <4> SUFFICES ASSUME n + 1 <= height[i] PROVE T[<<i, n, c>>] = 0
        BY <3>1, <3>3
      <4> SUFFICES ASSUME ~(n + 1 <= top[i]) PROVE T[<<i, n, c>>] = 0
        BY <2>3, <3>3
      <4>1. i = ino /\ n = x
        <5>1. i = ino
          BY <1>19
        <5>2. ~(n + 1 <= x) /\ n + 1 <= x + 1
          BY <1>19, <1>22, <5>1
        <5> QED BY <2>2, <5>1, <5>2
      <4>2. d # 0
        BY <2>6, <4>1
      <4>3. c # 0
        BY <2>1, <4>2
      <4>4. n \in Level /\ n >= x /\ c \in Nat \ {0}
        BY <2>2, <4>1, <4>3
      <4> QED BY <1>22, <4>1, <4>4
    <3> QED BY <3>2, <3>3
  <2> QED BY <2>4, <2>5, <2>6, Zenon
<1>25. Stored(U, g)'
  <2> SUFFICES ASSUME NEW i \in Inodes, NEW o \in Offset
               PROVE  IF U[<<i, 0, o>>] = 0 THEN files[i][o] = 0
                      ELSE g[U[<<i, 0, o>>]] = Filled(files[i][o])
    BY <1>2 DEF Stored
  <2>1. IF T[<<i, 0, o>>] = 0 THEN files[i][o] = 0
        ELSE e[T[<<i, 0, o>>]] = Filled(files[i][o])
    BY <1>1 DEF Layout, Stored
  <2>2. <<i, 0, o>> \in Place /\ x + 1 # 0
    BY DEF Place, Offset
  <2>3. U[<<i, 0, o>>] = T[<<i, 0, o>>]
    BY <1>17, <2>2
  <2> QED BY <1>20, <2>1, <2>2, <2>3
<1>26. Chain(g, free_list', H, I) /\ InOrder(g, free_list', H, I)
  <2>1. \A h \in H : g[h] = a.disk[h]
    BY <1>8, <1>11
  <2> QED BY <1>2, <1>8, <2>1, ChainSame, InOrderSame
<1>27. Apart(U, H, I)
  BY <1>8, <1>16, <1>17 DEF Apart
<1>28. Pending(U, g, 0)'
  BY <1>10 DEF Pending
<1>29. CreateInv(U, 0, H, I)' /\ WalkInv(U, g, 0)'
  BY <1>2 DEF CreateInv, WalkInv
<1>30. GrowInv(U, height)'
  <2>1. \A i \in Inodes : height[i] = IF i = op'.ino THEN nlevels' ELSE Height(i)'
    BY <1>1, <1>2, <1>13, <1>14, <1>19, <1>21 DEF Layout, GrowInv
  <2>2. U[<<op'.ino, nlevels', 0>>] = root'
    BY <1>2, <1>7, <1>13, <1>14, <1>15, <1>17
  <2>3. nlevels' <= nlevels_after'
    BY <1>2, <1>3
  <2>4. /\ nlevels_after = LevelsOf(size)
        /\ op.offset < size /\ inodes[op.ino].nblocks <= size
    BY <1>1, <1>2 DEF Layout, GrowInv
  <2> QED BY <1>2, <2>1, <2>2, <2>3, <2>4 DEF GrowInv
<1>31. TreeTypeOK'
  <2>1. disk' \in [DataBlocks -> Contents] /\ free_list' \in MaybeBlock /\ root' \in MaybeBlock
    BY <1>2, <1>6, <1>10 DEF MaybeBlock
  <2>2. nlevels' \in Level
    BY <1>2, <1>5
  <2> QED BY <1>2, <1>3, <2>1, <2>2 DEF TreeTypeOK
<1>32. Kept(U, H, I)'
  <2>1. Kept(T, Heads, Items)
    BY <1>1 DEF Layout
  <2>2. T[p] = 0
    BY <1>5, <1>22
  <2> HIDE DEF p
  <2> QED BY <1>2, <1>8, <1>15, <1>17, <2>1, <2>2, KeptAttached
<1>33. Layout(U, height, g, 0, H, I)'
  BY <1>17, <1>23, <1>24, <1>25, <1>26, <1>27, <1>28, <1>29, <1>30, <1>32 DEF Layout
<1>34. 0 \in MaybeBlock /\ H \in SUBSET DataBlocks /\ I \in SUBSET DataBlocks
  BY DEF MaybeBlock
<1> QED BY <1>31, <1>33, <1>34 DEF TreeInv

\* Two levels of the way to an offset.
LEMMA AtBelow ==
  ASSUME NEW i \in Inodes, NEW n \in Offset, NEW o \in Offset
  PROVE  /\ At(i, n, o) \in Place /\ At(i, n + 1, o) \in Place
         /\ At(i, n + 1, o) = <<i, n + 1, log_shift_r[n][o] \div REFS_PER_BLOCK>>
         /\ log_shift_r[n][o] \in Nat
         /\ IndexAt(o, n) = log_shift_r[n][o] % REFS_PER_BLOCK /\ IndexAt(o, n) \in Refs
<1>1. n \in Level /\ n + 1 \in Level
  BY BlockFacts
<1>2. At(i, n, o) \in Place /\ At(i, n + 1, o) \in Place /\ log_shift_r[n][o] \in Nat
  BY <1>1, AtPlace
<1>3. At(i, n + 1, o) = <<i, n + 1, log_shift_r[n][o] \div REFS_PER_BLOCK>>
  BY ShiftNext DEF At
<1> QED BY <1>2, <1>3, Division DEF IndexAt

\* The tree along the way to an offset.
LEMMA LinkedAt ==
  ASSUME NEW T, NEW top, NEW e, Linked(T, top, e),
         NEW i \in Inodes, NEW n \in Offset, NEW o \in Offset
  PROVE  IF T[At(i, n + 1, o)] # 0 THEN e[T[At(i, n + 1, o)]][IndexAt(o, n)] = T[At(i, n, o)]
         ELSE n + 1 <= top[i] => T[At(i, n, o)] = 0
<1>1. /\ At(i, n + 1, o) = <<i, n + 1, log_shift_r[n][o] \div REFS_PER_BLOCK>>
      /\ log_shift_r[n][o] \in Nat
      /\ IndexAt(o, n) = log_shift_r[n][o] % REFS_PER_BLOCK
      /\ At(i, n, o) = <<i, n, log_shift_r[n][o]>>
  BY AtBelow DEF At
<1> QED BY <1>1 DEF Linked

LEMMA WalkDownTreeInv ==
  ASSUME TreeInv, Walk, b # 0
  PROVE  TreeInv'
<1> USE BlockFacts
<1>1. PICK T \in [Place -> MaybeBlock], top \in [Inodes -> Level],
           e \in [DataBlocks -> Contents], F \in MaybeBlock,
           Heads \in SUBSET DataBlocks, Items \in SUBSET DataBlocks :
             Layout(T, top, e, F, Heads, Items)
  BY DEF TreeInv
<1>2. /\ pc = "walk" /\ Descend(b, disk[b])
      /\ UNCHANGED <<disk, free_list, inodes, next_free, op, root, size, nlevels_after, files>>
  BY DEF Walk, createVars
<1>3. /\ TreeTypeOK /\ op.ino \in Inodes /\ op.offset \in Offset /\ nlevels \in Level
      /\ b \in DataBlocks /\ disk \in [DataBlocks -> Contents] /\ Height(op.ino) \in Level
  <2>1. inodes[op.ino].nblocks \in Level
    BY DEF TreeInv, TreeTypeOK
  <2> QED BY <2>1, LevelsOfValue DEF TreeInv, TreeTypeOK, MaybeBlock, Height
<1>4. /\ op.offset < inodes[op.ino].nblocks /\ nlevels <= Height(op.ino)
      /\ b = T[At(op.ino, nlevels, op.offset)]
      /\ F \in {0, parent_off}
      /\ IF parent_off = 0 THEN nlevels = Height(op.ino)
         ELSE /\ nlevels < Height(op.ino)
              /\ parent_off = T[At(op.ino, nlevels + 1, op.offset)]
              /\ tib = e[parent_off] /\ index = IndexAt(op.offset, nlevels)
  BY <1>1, <1>2 DEF Layout, WalkInv
<1>5. \A n \in Offset :
         IF T[At(op.ino, n + 1, op.offset)] # 0
         THEN e[T[At(op.ino, n + 1, op.offset)]][IndexAt(op.offset, n)] = T[At(op.ino, n, op.offset)]
         ELSE n + 1 <= top[op.ino] => T[At(op.ino, n, op.offset)] = 0
  <2>1. Linked(T, top, e)
    BY <1>1 DEF Layout
  <2>2. \A i \in Inodes, n \in Offset, o \in Offset :
          IF T[At(i, n + 1, o)] # 0 THEN e[T[At(i, n + 1, o)]][IndexAt(o, n)] = T[At(i, n, o)]
          ELSE n + 1 <= top[i] => T[At(i, n, o)] = 0
    BY <2>1, LinkedAt
  <2>3. op.ino \in Inodes /\ op.offset \in Offset
    BY <1>3
  <2>4. PICK i \in Inodes, o \in Offset : i = op.ino /\ o = op.offset
    BY <2>3
  <2>5. \A n \in Offset :
          IF T[At(i, n + 1, o)] # 0 THEN e[T[At(i, n + 1, o)]][IndexAt(o, n)] = T[At(i, n, o)]
          ELSE n + 1 <= top[i] => T[At(i, n, o)] = 0
    BY <2>2
  <2> QED BY <2>4, <2>5
<1>6. F = 0
  <2> SUFFICES ASSUME F # 0 PROVE FALSE
    OBVIOUS
  <2>1. parent_off # 0 /\ F = parent_off
    BY <1>4
  <2>2. nlevels \in Offset
    BY <1>3, <1>4, <2>1, TreeDiskAssumption DEF Level, Offset
  <2>3. e[parent_off][IndexAt(op.offset, nlevels)] = b
    BY <1>4, <1>5, <2>1, <2>2
  <2>4. e[parent_off] = null_block
    BY <1>1, <2>1 DEF Layout, Pending
  <2>5. IndexAt(op.offset, nlevels) \in Refs
    BY <1>3, <2>2, AtBelow
  <2> QED BY <2>3, <2>4, <2>5
<1>7. e[b] = disk[b]
  BY <1>1, <1>3, <1>6 DEF Layout, Pending
<1>8. UNCHANGED <<disk, free_list, inodes, files, op>>
  BY <1>2
<1>9. CreateInv(T, F, Heads, Items)' /\ GrowInv(T, top)'
  <2>1. pc' \in {"walk", "data"}
    BY <1>2 DEF Descend
  <2>2. \A i \in Inodes : top[i] = Height(i)'
    BY <1>1, <1>2, <1>8, LayoutSame DEF Layout, GrowInv
  <2> QED BY <2>1, <2>2 DEF CreateInv, GrowInv
<1>10. CASE nlevels = 0
  <2>1. pc' = "data" /\ b' = b /\ UNCHANGED <<nlevels, parent_off, tib, index>>
    BY <1>2, <1>10 DEF Descend
  <2>2. TreeTypeOK'
    BY <1>2, <1>3, <2>1 DEF TreeTypeOK
  <2>3. WalkInv(T, e, F)'
    BY <1>4, <1>6, <1>8, <1>10, <2>1, <1>3 DEF WalkInv
  <2>4. Layout(T, top, e, F, Heads, Items)'
    BY <1>1, <1>2, <1>6, <1>8, <1>9, <2>3, LayoutSame DEF Layout
  <2> QED BY <2>2, <2>4 DEF TreeInv
<1>11. CASE nlevels # 0
  <2>1. /\ pc' = "walk" /\ nlevels' = nlevels - 1 /\ index' = IndexAt(op.offset, nlevels - 1)
        /\ tib' = disk[b] /\ parent_off' = b /\ b' = disk[b][IndexAt(op.offset, nlevels - 1)]
    BY <1>2, <1>11 DEF Descend
  <2>2. nlevels - 1 \in Offset /\ (nlevels - 1) + 1 = nlevels /\ nlevels - 1 < Height(op.ino)
    BY <1>3, <1>4, <1>11, TreeDiskAssumption DEF Level, Offset
  <2>3. b' = T[At(op.ino, nlevels - 1, op.offset)]
    <3>1. T[At(op.ino, (nlevels - 1) + 1, op.offset)] = b /\ b # 0
      BY <1>3, <1>4, <2>2
    <3>2. e[T[At(op.ino, (nlevels - 1) + 1, op.offset)]][IndexAt(op.offset, nlevels - 1)]
            = T[At(op.ino, nlevels - 1, op.offset)]
      BY <1>5, <2>2, <3>1
    <3> QED BY <1>7, <2>1, <3>1, <3>2
  <2>4. /\ At(op.ino, nlevels - 1, op.offset) \in Place
        /\ IndexAt(op.offset, nlevels - 1) \in Refs
    BY <1>3, <2>2, AtBelow
  <2>5. TreeTypeOK'
    <3>1. b' \in MaybeBlock /\ parent_off' \in MaybeBlock /\ tib' \in Contents /\ index' \in Refs
      BY <1>3, <2>1, <2>3, <2>4 DEF MaybeBlock
    <3>2. nlevels' \in Level
      BY <2>1, <2>2
    <3> QED BY <1>2, <1>3, <2>1, <3>1, <3>2 DEF TreeTypeOK
  <2>6. WalkInv(T, e, F)'
    <3>1. Height(op.ino)' = Height(op.ino)
      BY <1>2 DEF Height
    <3>2. nlevels' < Height(op.ino)' /\ nlevels' <= Height(op.ino)'
      <4>1. nlevels - 1 <= Height(op.ino)
        <5>1. nlevels - 1 \in Int /\ Height(op.ino) \in Int
          <6>1. nlevels \in Level /\ Height(op.ino) \in Level
            BY <1>3
          <6>2. \A x \in Level : x \in Int /\ x - 1 \in Int
            BY DEF Level
          <6>3. nlevels - 1 \in Int
            BY <6>1, <6>2
          <6>4. Height(op.ino) \in Int
            BY <6>1, <6>2
          <6> QED BY <6>3, <6>4
        <5>2. nlevels - 1 < Height(op.ino)
          BY <2>2
        <5> QED BY <5>1, <5>2
      <4>2. nlevels' < Height(op.ino) /\ nlevels' <= Height(op.ino)
        BY <2>1, <2>2, <4>1, Zenon
      <4> QED BY <3>1, <4>2, Zenon
    <3>3. parent_off' = T[At(op.ino, nlevels' + 1, op.offset)] /\ parent_off' # 0
      BY <1>3, <1>4, <2>1, <2>2
    <3>4. tib' = e[parent_off'] /\ index' = IndexAt(op.offset, nlevels')
      BY <1>7, <2>1
    <3>5. op.offset < inodes'[op.ino].nblocks /\ b' = T[At(op.ino, nlevels', op.offset)]
      BY <1>4, <1>8, <2>1, <2>3
    <3> QED BY <1>2, <1>6, <2>1, <3>2, <3>3, <3>4, <3>5 DEF WalkInv
  <2>7. Layout(T, top, e, F, Heads, Items)'
    BY <1>1, <1>2, <1>6, <1>8, <1>9, <2>6, LayoutSame DEF Layout
  <2> QED BY <2>5, <2>7 DEF TreeInv
<1> QED BY <1>10, <1>11

LEMMA WalkTakeTreeInv ==
  ASSUME TreeInv, Walk, b = 0, free_list # 0
  PROVE  TreeInv'
<1> USE BlockFacts
<1>1. PICK T \in [Place -> MaybeBlock], top \in [Inodes -> Level],
           e \in [DataBlocks -> Contents], F \in MaybeBlock,
           Heads \in SUBSET DataBlocks, Items \in SUBSET DataBlocks :
             Layout(T, top, e, F, Heads, Items)
  BY DEF TreeInv
<1> DEFINE a == treedisk_alloc_block
<1>2. /\ pc = "walk" /\ SetParent(a.disk, a.no) /\ free_list' = a.list
      /\ Descend(a.no, null_block)
      /\ UNCHANGED <<next_free, op, root, size, nlevels_after, files>>
  BY DEF Walk, createVars
<1>3. /\ TreeTypeOK /\ op.ino \in Inodes /\ op.offset \in Offset /\ nlevels \in Level
      /\ disk \in [DataBlocks -> Contents] /\ parent_off \in MaybeBlock /\ tib \in Contents
      /\ inodes \in [Inodes -> [root : MaybeBlock, nblocks : Level]]
  BY DEF TreeInv, TreeTypeOK
<1>4. PICK ino \in Inodes, o \in Offset, x \in Level, up \in MaybeBlock :
        ino = op.ino /\ o = op.offset /\ x = nlevels /\ up = parent_off
  BY <1>3
<1>5. PICK h \in Level : h = Height(ino)
  <2>1. inodes[ino].nblocks \in Level
    BY <1>3
  <2> QED BY <2>1, LevelsOfValue DEF Height
<1>6. /\ o < inodes[ino].nblocks /\ x <= h
      /\ T[At(ino, x, o)] = 0
      /\ F \in {0, up}
      /\ up = 0 => x = h
      /\ up # 0 => /\ x < h /\ up = T[At(ino, x + 1, o)]
                   /\ tib = e[up] /\ index = IndexAt(o, x)
  BY <1>1, <1>2, <1>4, <1>5 DEF Layout, WalkInv
<1>7. log_shift_r[h][o] = 0 /\ top[ino] = h
  <2>1. inodes[ino].nblocks \in Level
    BY <1>3
  <2>2. log_shift_r[h][o] = 0
    BY <1>5, <1>6, <2>1, LevelsOfValue DEF Height
  <2>3. top[ino] = h
    BY <1>1, <1>2, <1>5 DEF Layout, GrowInv
  <2> QED BY <2>2, <2>3
<1>8. PICK s \in Nat : s = log_shift_r[x][o]
  BY AtPlace
<1>9. PICK p \in Place : p = <<ino, x, s>>
  BY DEF Place
<1>10. T[p] = 0 /\ At(ino, x, o) = p /\ (up = 0 => s = 0)
  BY <1>6, <1>7, <1>8, <1>9 DEF At
<1>11. up # 0 => /\ x \in Offset /\ x + 1 \in Level /\ s \div REFS_PER_BLOCK \in Nat
                 /\ up = T[<<ino, x + 1, s \div REFS_PER_BLOCK>>]
                 /\ <<ino, x + 1, s \div REFS_PER_BLOCK>> \in Place
                 /\ index = s % REFS_PER_BLOCK /\ index \in Refs
  <2> SUFFICES ASSUME up # 0
               PROVE  /\ x \in Offset /\ x + 1 \in Level /\ s \div REFS_PER_BLOCK \in Nat
                      /\ up = T[<<ino, x + 1, s \div REFS_PER_BLOCK>>]
                      /\ <<ino, x + 1, s \div REFS_PER_BLOCK>> \in Place
                      /\ index = s % REFS_PER_BLOCK /\ index \in Refs
    OBVIOUS
  <2>1. x \in Offset /\ x + 1 \in Level
    BY <1>6, TreeDiskAssumption DEF Level, Offset
  <2>2. /\ At(ino, x + 1, o) = <<ino, x + 1, s \div REFS_PER_BLOCK>>
        /\ At(ino, x + 1, o) \in Place
        /\ IndexAt(o, x) = s % REFS_PER_BLOCK /\ IndexAt(o, x) \in Refs
    BY <1>8, <2>1, AtBelow
  <2>3. s \div REFS_PER_BLOCK \in Nat
    BY Division
  <2> QED BY <1>6, <2>1, <2>2, <2>3
<1>12. /\ \A d \in DataBlocks : d # F => e[d] = disk[d]
       /\ F # 0 => F = up /\ \E q \in Place : F = T[q]
  <2>1. \A d \in DataBlocks : d # F => e[d] = disk[d]
    BY <1>1 DEF Layout, Pending
  <2> QED BY <1>6, <1>11, <2>1
<1>13. \A q \in Place : T[q] \notin Heads \cup Items
  BY <1>1 DEF Layout, Apart
<1>14. /\ a.no \in Heads \cup Items /\ a.no \in DataBlocks
       /\ a.list \in MaybeBlock /\ a.disk \in [DataBlocks -> Contents]
       /\ \A d \in DataBlocks \ Heads : a.disk[d] = disk[d]
       /\ \E H \in SUBSET Heads, I \in SUBSET Items :
            /\ a.no \notin H \cup I /\ Heads \cup Items \subseteq H \cup I \cup {a.no}
            /\ Chain(a.disk, a.list, H, I) /\ InOrder(a.disk, a.list, H, I)
  <2>1. \A d \in Heads : e[d] = disk[d]
    BY <1>12, <1>13
  <2>2. Chain(disk, free_list, Heads, Items) /\ InOrder(disk, free_list, Heads, Items)
    <3>1. Chain(e, free_list, Heads, Items) /\ InOrder(e, free_list, Heads, Items)
      BY <1>1 DEF Layout
    <3> QED BY <2>1, <3>1, ChainSame, InOrderSame
  <2>3. TreeTypeOK
    BY <1>3
  <2> QED BY <2>2, <2>3, Allocate
<1> HIDE DEF a
<1>15. PICK no \in DataBlocks : no = a.no
  BY <1>14
<1>16. PICK H \in SUBSET Heads, I \in SUBSET Items :
         /\ no \notin H \cup I /\ Heads \cup Items \subseteq H \cup I \cup {no}
         /\ Chain(a.disk, a.list, H, I) /\ InOrder(a.disk, a.list, H, I)
  BY <1>14, <1>15
<1>17. \A q \in Place : T[q] # no
  BY <1>13, <1>14, <1>15
<1>18. PICK U \in [Place -> MaybeBlock] :
         Placed(U) /\ \A q \in Place : U[q] = IF q = p THEN no ELSE T[q]
  <2>1. Placed(T)
    BY <1>1 DEF Layout
  <2> QED BY <1>17, <2>1, Attach
\* The disk and the inodes after the step.
<1>19. PICK link \in Contents :
         up # 0 => \A i \in Refs : link[i] = IF i = index THEN no ELSE tib[i]
  <2>1. PICK link : link = [tib EXCEPT ![index] = no]
    OBVIOUS
  <2>2. CASE up # 0
    <3>1. link \in Contents /\ \A i \in Refs : link[i] = IF i = index THEN no ELSE tib[i]
      BY <1>3, <1>11, <2>1, <2>2 DEF Contents
    <3> QED BY <3>1
  <2>3. CASE up = 0
    BY <2>3
  <2> QED BY <2>2, <2>3
<1>20. /\ disk' \in [DataBlocks -> Contents]
       /\ up # 0 => \A i \in Refs : disk'[up][i] = IF i = index THEN no ELSE tib[i]
       /\ \A d \in DataBlocks \ {up} : disk'[d] = a.disk[d]
  <2>1. CASE up = 0
    <3>1. disk' = a.disk
      BY <1>2, <1>4, <2>1 DEF SetParent
    <3> QED BY <1>14, <2>1, <3>1
  <2>2. CASE up # 0
    <3>1. disk' = [a.disk EXCEPT ![up] = [tib EXCEPT ![index] = no]]
      BY <1>2, <1>4, <1>15, <2>2 DEF SetParent
    <3>2. [tib EXCEPT ![index] = no] \in Contents
      BY <1>3 DEF Contents
    <3>3. \A i \in Refs : [tib EXCEPT ![index] = no][i] = IF i = index THEN no ELSE tib[i]
      BY <1>3, <1>11, <2>2 DEF Contents
    <3>4. up \in DataBlocks
      BY <2>2 DEF MaybeBlock
    <3>5. disk' \in [DataBlocks -> Contents] /\ disk'[up] = [tib EXCEPT ![index] = no]
          /\ \A d \in DataBlocks \ {up} : disk'[d] = a.disk[d]
      BY <1>14, <3>1, <3>2, <3>4
    <3> QED BY <3>3, <3>5
  <2> QED BY <2>1, <2>2
<1>21. /\ inodes' \in [Inodes -> [root : MaybeBlock, nblocks : Level]]
       /\ \A i \in Inodes : inodes'[i].nblocks = inodes[i].nblocks
       /\ \A i \in Inodes : inodes'[i].root = IF i = ino /\ up = 0 THEN no ELSE inodes[i].root
  <2>1. CASE up # 0
    BY <1>2, <1>3, <1>4, <2>1 DEF SetParent
  <2>2. CASE up = 0
    <3>1. inodes' = [inodes EXCEPT ![ino].root = no] /\ no \in MaybeBlock
      BY <1>2, <1>4, <1>15, <2>2 DEF SetParent, MaybeBlock
    <3> QED BY <1>3, <2>2, <3>1
  <2> QED BY <2>1, <2>2
<1>22. \A i \in Inodes : Height(i)' = Height(i)
  BY <1>21 DEF Height
\* What the disk counts as: the new block as zeros.
<1>23. PICK g \in [DataBlocks -> Contents] :
         g[no] = null_block /\ \A d \in DataBlocks \ {no} : g[d] = disk'[d]
  <2>1. PICK g : g = [d \in DataBlocks |-> IF d = no THEN null_block ELSE disk'[d]]
    OBVIOUS
  <2>2. g \in [DataBlocks -> Contents]
    BY <1>20, <2>1
  <2> QED BY <2>1, <2>2
<1>24. /\ \A q \in Place : T[q] # 0 /\ T[q] # up => g[T[q]] = e[T[q]]
       /\ up # 0 => \A i \in Refs : g[up][i] = IF i = index THEN no ELSE e[up][i]
  <2>1. ASSUME NEW q \in Place, T[q] # 0, T[q] # up PROVE g[T[q]] = e[T[q]]
    <3>1. PICK d \in DataBlocks : d = T[q]
      BY <2>1 DEF MaybeBlock
    <3>2. d # no /\ d \notin Heads /\ d # up
      BY <1>13, <1>17, <2>1, <3>1
    <3>3. g[d] = disk[d]
      BY <1>14, <1>20, <1>23, <3>2
    <3>4. e[d] = disk[d]
      BY <1>6, <1>12, <3>2
    <3> QED BY <3>1, <3>3, <3>4
  <2>2. CASE up # 0
    <3>1. up \in DataBlocks /\ up # no
      BY <1>11, <1>17, <2>2 DEF MaybeBlock
    <3>2. g[up] = disk'[up]
      BY <1>23, <3>1
    <3> QED BY <1>6, <1>20, <2>1, <2>2, <3>2
  <2> QED BY <2>1, <2>2
<1>25. Rooted(U, top)'
  <2> SUFFICES ASSUME NEW i \in Inodes
               PROVE  /\ Height(i) <= top[i]
                      /\ U[<<i, Height(i), 0>>] = inodes'[i].root
                      /\ \A n \in Level : /\ n >= Height(i) => \A c \in Nat \ {0} : U[<<i, n, c>>] = 0
                                          /\ n > top[i] => U[<<i, n, 0>>] = 0
    BY <1>22 DEF Rooted
  <2>1. /\ Height(i) <= top[i] /\ T[<<i, Height(i), 0>>] = inodes[i].root
        /\ \A n \in Level : /\ n >= Height(i) => \A c \in Nat \ {0} : T[<<i, n, c>>] = 0
                            /\ n > top[i] => T[<<i, n, 0>>] = 0
    BY <1>1 DEF Layout, Rooted
  <2>2. PICK k \in Level : k = Height(i)
    <3>1. inodes[i].nblocks \in Level
      BY <1>3
    <3> QED BY <3>1, LevelsOfValue DEF Height
  <2>3. \A n \in Level, c \in Nat :
          U[<<i, n, c>>] = IF i = ino /\ n = x /\ c = s THEN no ELSE T[<<i, n, c>>]
    <3>1. \A n \in Level, c \in Nat : <<i, n, c>> \in Place
      BY DEF Place
    <3> QED BY <1>9, <1>18, <3>1
  <2>4. i = ino => k = h /\ top[i] = h
    BY <1>5, <1>7, <2>2
  <2>5. U[<<i, k, 0>>] = inodes'[i].root
    <3>1. CASE i = ino /\ x = h /\ up = 0
      BY <1>10, <1>21, <2>3, <2>4, <3>1
    <3>2. CASE i = ino /\ up # 0
      <4>1. k # x
        BY <1>6, <2>4, <3>2
      <4> QED BY <1>21, <2>1, <2>2, <2>3, <3>2, <4>1
    <3>3. CASE i # ino
      BY <1>21, <2>1, <2>2, <2>3, <3>3
    <3> QED BY <1>6, <3>1, <3>2, <3>3
  <2>6. ASSUME NEW n \in Level, n >= k, NEW c \in Nat \ {0} PROVE U[<<i, n, c>>] = 0
    <3>1. ~(i = ino /\ n = x /\ c = s)
      <4> SUFFICES ASSUME i = ino, n = x PROVE s = 0
        BY <2>6
      <4>1. ~(x < h)
        BY <2>4, <2>6
      <4> QED BY <1>6, <1>10, <4>1
    <3>2. U[<<i, n, c>>] = T[<<i, n, c>>]
      BY <2>3, <3>1
    <3>3. T[<<i, n, c>>] = 0
      BY <2>1, <2>2, <2>6
    <3> QED BY <3>2, <3>3
  <2>7. ASSUME NEW n \in Level, n > top[i] PROVE U[<<i, n, 0>>] = 0
    <3>1. ~(i = ino /\ n = x)
      BY <1>6, <2>4, <2>7
    <3> QED BY <2>1, <2>3, <2>7, <3>1
  <2> QED BY <2>1, <2>2, <2>5, <2>6, <2>7
<1>26. Linked(U, top, g)
  <2> SUFFICES ASSUME NEW i \in Inodes, NEW n \in Offset, NEW c \in Nat, NEW d, NEW m,
                      d = c \div REFS_PER_BLOCK, m = c % REFS_PER_BLOCK
               PROVE  IF U[<<i, n + 1, d>>] # 0 THEN g[U[<<i, n + 1, d>>]][m] = U[<<i, n, c>>]
                      ELSE n + 1 <= top[i] => U[<<i, n, c>>] = 0
    BY DEF Linked
  <2>1. d \in Nat /\ m \in Refs
    BY Division
  <2>2. PICK above \in Place, below \in Place : above = <<i, n + 1, d>> /\ below = <<i, n, c>>
    BY <2>1 DEF Place
  <2>3. IF T[above] # 0 THEN e[T[above]][m] = T[below] ELSE n + 1 <= top[i] => T[below] = 0
    BY <1>1, <2>2 DEF Layout, Linked
  <2>4. n \in Nat /\ n + 1 # n /\ above # below
    BY <2>2
  <2> SUFFICES IF U[above] # 0 THEN g[U[above]][m] = U[below] ELSE n + 1 <= top[i] => U[below] = 0
    BY <2>2
  <2>5. CASE below = p
    <3>1. i = ino /\ n = x /\ c = s /\ U[below] = no /\ U[above] = T[above]
      BY <1>9, <1>18, <2>2, <2>4, <2>5
    <3>2. CASE up # 0
      <4>1. T[above] = up /\ m = index /\ m \in Refs
        BY <1>11, <2>1, <2>2, <3>1, <3>2
      <4> QED BY <1>24, <3>1, <3>2, <4>1
    <3>3. CASE up = 0
      <4>1. top[i] = n
        BY <1>6, <1>7, <3>1, <3>3
      <4>2. ~(n + 1 <= top[i])
        BY <2>4, <4>1
      <4>3. T[above] = 0
        <5>1. n + 1 \in Level /\ n + 1 > top[i] /\ n + 1 >= h
          BY <1>6, <2>4, <3>1, <3>3, <4>1
        <5>2. \A y \in Level : /\ y >= h => \A z \in Nat \ {0} : T[<<ino, y, z>>] = 0
                               /\ y > top[ino] => T[<<ino, y, 0>>] = 0
          BY <1>1, <1>5 DEF Layout, Rooted
        <5>3. CASE d = 0
          BY <2>2, <3>1, <5>1, <5>2, <5>3
        <5>4. CASE d # 0
          BY <2>1, <2>2, <3>1, <5>1, <5>2, <5>4
        <5> QED BY <5>3, <5>4
      <4> QED BY <3>1, <4>2, <4>3
    <3> QED BY <3>2, <3>3
  <2>6. CASE above = p
    <3>1. i = ino /\ n + 1 = x /\ U[above] = no /\ U[below] = T[below] /\ no # 0
      BY <1>9, <1>18, <2>2, <2>4, <2>6
    <3>2. T[below] = 0
      <4>1. n + 1 <= top[i] /\ T[above] = 0
        BY <1>6, <1>7, <1>10, <2>6, <3>1
      <4> QED BY <2>3, <4>1
    <3> QED BY <1>23, <2>1, <3>1, <3>2
  <2>7. CASE below # p /\ above # p
    <3>1. U[above] = T[above] /\ U[below] = T[below]
      BY <1>18, <2>7
    <3>2. CASE T[above] = 0
      BY <2>3, <3>1, <3>2
    <3>3. CASE T[above] # 0 /\ T[above] # up
      BY <1>24, <2>3, <3>1, <3>3
    <3>4. CASE T[above] # 0 /\ T[above] = up
      <4>1. PICK parent \in Place : parent = <<ino, x + 1, s \div REFS_PER_BLOCK>> /\ T[parent] = up
        BY <1>11, <3>4
      <4>2. above = parent
        <5>1. Placed(T)
          BY <1>1 DEF Layout
        <5> QED BY <3>4, <4>1, <5>1 DEF Placed
      <4>3. i = ino /\ n = x /\ d = s \div REFS_PER_BLOCK
        BY <2>2, <4>1, <4>2
      <4>4. m # index
        <5> SUFFICES ASSUME m = index PROVE FALSE
          OBVIOUS
        <5>1. c % REFS_PER_BLOCK = s % REFS_PER_BLOCK /\ c \div REFS_PER_BLOCK = s \div REFS_PER_BLOCK
          BY <1>11, <3>4, <4>3
        <5>2. c = s
          BY <5>1, DivisionUnique
        <5> QED BY <1>9, <2>2, <2>7, <4>3, <5>2
      <4>5. g[up][m] = e[up][m]
        BY <1>24, <2>1, <3>4, <4>4
      <4> QED BY <2>3, <3>1, <3>4, <4>5
    <3> QED BY <3>2, <3>3, <3>4
  <2> QED BY <2>5, <2>6, <2>7
<1>27. Stored(U, g)'
  <2> SUFFICES ASSUME NEW i \in Inodes, NEW n \in Offset
               PROVE  IF U[<<i, 0, n>>] = 0 THEN files[i][n] = 0
                      ELSE g[U[<<i, 0, n>>]] = Filled(files[i][n])
    BY <1>2 DEF Stored
  <2>1. PICK q \in Place : q = <<i, 0, n>>
    BY DEF Place, Offset
  <2> SUFFICES IF U[q] = 0 THEN files[i][n] = 0 ELSE g[U[q]] = Filled(files[i][n])
    BY <2>1
  <2>2. IF T[q] = 0 THEN files[i][n] = 0 ELSE e[T[q]] = Filled(files[i][n])
    BY <1>1, <2>1 DEF Layout, Stored
  <2>3. CASE q = p
    <3>1. U[q] = no /\ files[i][n] = 0 /\ no # 0
      BY <1>10, <1>18, <2>2, <2>3
    <3> QED BY <1>23, <3>1 DEF null_block
  <2>4. CASE q # p
    <3>1. U[q] = T[q]
      BY <1>18, <2>4
    <3>2. T[q] # 0 => T[q] # up
      <4> SUFFICES ASSUME T[q] # 0, T[q] = up PROVE FALSE
        OBVIOUS
      <4>1. PICK parent \in Place : parent = <<ino, x + 1, s \div REFS_PER_BLOCK>> /\ T[parent] = up
        BY <1>11
      <4>2. q = parent
        <5>1. Placed(T)
          BY <1>1 DEF Layout
        <5> QED BY <4>1, <5>1 DEF Placed
      <4>3. x + 1 # 0
        BY DEF Level
      <4> QED BY <2>1, <4>1, <4>2, <4>3
    <3> QED BY <1>24, <2>2, <3>1, <3>2
  <2> QED BY <2>3, <2>4
<1>28. Chain(g, free_list', H, I) /\ InOrder(g, free_list', H, I)
  <2>1. \A d \in H : g[d] = a.disk[d]
    <3>1. \A d \in H : d # no /\ d # up
      BY <1>11, <1>13, <1>16
    <3> QED BY <1>20, <1>23, <3>1
  <2> QED BY <1>2, <1>16, <2>1, ChainSame, InOrderSame
<1>29. Apart(U, H, I)
  BY <1>13, <1>16, <1>18 DEF Apart
<1>30. U[At(ino, x, o)] = no
  BY <1>10, <1>18
<1>31. Pending(U, g, no)'
  <2>1. op' = op
    BY <1>2
  <2>2. \E m \in Level : no = U[At(ino, m, o)]
    BY <1>30
  <2>3. \E m \in Level : no = U[At(op'.ino, m, op'.offset)]
    BY <1>4, <2>1, <2>2
  <2> QED BY <1>23, <2>3 DEF Pending
<1>32. pc' \in {"walk", "data"}
  BY <1>2 DEF Descend
<1>33. CreateInv(U, no, H, I)' /\ GrowInv(U, top)' /\ Kept(U, H, I)'
  <2>1. \A i \in Inodes : top[i] = Height(i)
    BY <1>1, <1>2 DEF Layout, GrowInv
  <2>2. \A i \in Inodes : top[i] = Height(i)'
    BY <1>22, <2>1
  <2>3. CreateInv(U, no, H, I)'
    BY <1>32 DEF CreateInv
  <2>4. GrowInv(U, top)'
    BY <1>32, <2>2 DEF GrowInv
  <2>5. Kept(U, H, I)'
    <3>1. Kept(T, Heads, Items)
      BY <1>1 DEF Layout
    <3> QED BY <1>2, <1>10, <1>16, <1>18, <3>1, KeptAttached
  <2> QED BY <2>3, <2>4, <2>5
<1>34. a.list \in MaybeBlock /\ no \in MaybeBlock /\ 0 \in MaybeBlock
  BY <1>14 DEF MaybeBlock
<1>35. H \in SUBSET DataBlocks /\ I \in SUBSET DataBlocks
  OBVIOUS
<1>36. CASE x = 0
  <2>1. pc' = "data" /\ b' = no /\ UNCHANGED <<nlevels, parent_off, tib, index>>
    BY <1>2, <1>4, <1>15, <1>36 DEF Descend
  <2>2. TreeTypeOK'
    BY <1>2, <1>3, <1>20, <1>21, <1>34, <2>1 DEF TreeTypeOK
  <2>3. WalkInv(U, g, no)'
    <3>1. no = U[At(op'.ino, 0, op'.offset)]
      BY <1>2, <1>4, <1>30, <1>36
    <3> QED BY <2>1, <3>1 DEF WalkInv
  <2>4. Layout(U, top, g, no, H, I)'
    BY <1>18, <1>25, <1>26, <1>27, <1>28, <1>29, <1>31, <1>33, <2>3 DEF Layout
  <2> QED BY <1>34, <1>35, <2>2, <2>4 DEF TreeInv
<1>37. CASE x # 0
  <2>1. PICK y \in Offset : y = x - 1
    BY <1>37, TreeDiskAssumption DEF Level, Offset
  <2>2. y + 1 = x /\ y \in Level /\ y < h /\ y <= h
    BY <1>6, <2>1
  <2>3. /\ pc' = "walk" /\ nlevels' = y /\ index' = IndexAt(o, y)
        /\ tib' = null_block /\ parent_off' = no /\ b' = null_block[IndexAt(o, y)]
    BY <1>2, <1>4, <1>15, <1>37, <2>1 DEF Descend
  <2>4. At(ino, y, o) \in Place /\ IndexAt(o, y) \in Refs
    BY AtBelow
  <2>5. b' = 0
    BY <2>3, <2>4
  <2>6. U[At(ino, y, o)] = 0
    <3>1. Linked(T, top, e)
      BY <1>1 DEF Layout
    <3>2. T[At(ino, y + 1, o)] = 0 /\ y + 1 <= top[ino]
      BY <1>6, <1>7, <1>10, <2>2
    <3>3. T[At(ino, y, o)] = 0
      BY <3>1, <3>2, LinkedAt
    <3>4. At(ino, y, o) # p
      <4>1. y # x
        BY <2>2
      <4> QED BY <1>9, <4>1 DEF At
    <3> QED BY <1>18, <2>4, <3>3, <3>4
  <2>7. TreeTypeOK'
    BY <1>2, <1>3, <1>20, <1>21, <1>34, <2>2, <2>3, <2>4, <2>5 DEF TreeTypeOK
  <2>8. WalkInv(U, g, no)'
    <3>1. op'.ino = ino /\ op'.offset = o
      BY <1>2, <1>4
    <3>2. Height(ino)' = h /\ inodes'[ino].nblocks = inodes[ino].nblocks
      BY <1>5, <1>21, <1>22
    <3>3. no # 0 /\ no = U[At(ino, y + 1, o)]
      BY <1>30, <2>2
    <3>4. PICK j : j = op'.ino
      OBVIOUS
    <3>5. o < inodes'[ino].nblocks /\ y < Height(ino)' /\ y <= Height(ino)'
      BY <1>6, <2>2, <3>2
    <3>6. Height(op.ino)' = Height(ino)'
      BY <3>1 DEF Height
    <3> QED BY <1>23, <2>3, <2>5, <2>6, <3>1, <3>3, <3>5, <3>6 DEF WalkInv
  <2>9. Layout(U, top, g, no, H, I)'
    BY <1>18, <1>25, <1>26, <1>27, <1>28, <1>29, <1>31, <1>33, <2>8 DEF Layout
  <2> QED BY <1>34, <1>35, <2>7, <2>9 DEF TreeInv
<1> QED BY <1>36, <1>37

\* Every step keeps the invariant.
LEMMA StepTreeInv ==
  TreeInv /\ [TreeNext]_tdVars => TreeInv'
<1> SUFFICES ASSUME TreeInv, [TreeNext]_tdVars PROVE TreeInv'
  OBVIOUS
<1>1. CASE treedisk_create
  BY <1>1, CreateTreeInv
<1>2. CASE setup_freelist
  <2>1. CASE next_free < nblocks
    BY <1>2, <2>1, FreelistTreeInv
  <2>2. CASE ~(next_free < nblocks)
    BY <1>2, <2>2, CreateEndTreeInv
  <2> QED BY <2>1, <2>2
<1>3. CASE Grow
  <2>1. CASE free_list = 0
    <3>1. Panic
      BY <1>3, <2>1 DEF Grow
    <3> QED BY <3>1, PanicTreeInv
  <2>2. CASE free_list # 0
    BY <1>3, <2>2, GrowTreeInv
  <2> QED BY <2>1, <2>2
<1>4. CASE GrowEnd
  BY <1>4, GrowEndTreeInv
<1>5. CASE Walk
  <2>1. CASE b # 0
    BY <1>5, <2>1, WalkDownTreeInv
  <2>2. CASE b = 0 /\ free_list # 0
    BY <1>5, <2>2, WalkTakeTreeInv
  <2>3. CASE b = 0 /\ free_list = 0
    <3>1. Panic
      BY <1>5, <2>3 DEF Walk
    <3> QED BY <3>1, PanicTreeInv
  <2> QED BY <2>1, <2>2, <2>3
<1>6. CASE WriteData
  BY <1>6, WriteDataTreeInv
<1>7. ASSUME NEW ino \in Inodes, NEW offset \in 0..MaxOffset, NEW v \in Values,
             WriteBegin(ino, offset, v)
      PROVE  TreeInv'
  BY <1>7, BeginTreeInv DEF Offset
<1>8. CASE UNCHANGED tdVars
  <2>1. PICK T \in [Place -> MaybeBlock], top \in [Inodes -> Level],
             e \in [DataBlocks -> Contents], F \in MaybeBlock,
             Heads \in SUBSET DataBlocks, Items \in SUBSET DataBlocks :
               Layout(T, top, e, F, Heads, Items)
    BY DEF TreeInv
  <2>2. UNCHANGED <<disk, free_list, inodes, files>>
    BY <1>8 DEF tdVars
  <2>3. Pending(T, e, F)'
    BY <1>8, <2>1 DEF Layout, Pending, tdVars, opVars
  <2>4. CreateInv(T, F, Heads, Items)' /\ GrowInv(T, top)' /\ WalkInv(T, e, F)'
    BY <1>8, <2>1, <2>2, LayoutSame
       DEF Layout, CreateInv, GrowInv, WalkInv, tdVars, createVars, opVars
  <2>5. Kept(T, Heads, Items)'
    BY <1>8, <2>1 DEF Layout, Kept, tdVars, createVars
  <2>6. Layout(T, top, e, F, Heads, Items)'
    BY <2>1, <2>2, <2>3, <2>4, <2>5, LayoutSame DEF Layout
  <2>7. TreeTypeOK'
    BY <1>8 DEF TreeInv, TreeTypeOK, tdVars, createVars, opVars
  <2> QED BY <2>6, <2>7 DEF TreeInv
<1> QED BY <1>1, <1>2, <1>3, <1>4, <1>5, <1>6, <1>7, <1>8 DEF TreeNext, Step, Panicked

-----------------------------------------------------------------------------
(* Reading.                                                                *)

\* A read comes down the places on the way to its offset, and finds the data block or a hole.
LEMMA ReadsTree ==
  ASSUME NEW T \in [Place -> MaybeBlock], NEW top, NEW e, Linked(T, top, e),
         NEW i \in Inodes, NEW o \in Offset, NEW h \in Level, h <= top[i], top[i] \in Nat,
         \A n \in 0..h : T[At(i, n, o)] # 0 => disk[T[At(i, n, o)]] = e[T[At(i, n, o)]]
  PROVE  ReadFrom(o)[h][T[At(i, h, o)]]
           = IF T[At(i, 0, o)] = 0 THEN null_block ELSE disk[T[At(i, 0, o)]]
<1> DEFINE V(n) == T[At(i, n, o)]
           found == IF V(0) = 0 THEN null_block ELSE disk[V(0)]
           S == {n \in 0..h : ReadFrom(o)[n][V(n)] = found}
<1>1. 0..h \subseteq Level /\ h \in Nat /\ \A n \in 0..h : n < h => n \in Offset /\ n + 1 \in Level
  BY TreeDiskAssumption DEF Level, Offset
<1>2. \A n \in 0..h : V(n) \in MaybeBlock
  BY <1>1, AtPlace
<1>3. \A n \in Level : \A x \in MaybeBlock : ReadFrom(o)[n][x] = ReadStep(o, n, x, ReadFrom(o))
  <2>1. ReadFrom(o) = [n \in Level |-> [x \in MaybeBlock |-> ReadStep(o, n, x, ReadFrom(o))]]
    BY ReadDef
  <2> QED BY <2>1
<1>4. 0 \in S
  BY <1>1, <1>2, <1>3 DEF ReadStep
<1>5. ASSUME NEW n \in 0..h, n \in S, n < h PROVE n + 1 \in S
  <2>1. n \in Offset /\ n + 1 \in Level /\ n \in Level /\ n + 1 \in 0..h
    BY <1>1, <1>5
  <2>2. /\ V(n + 1) # 0 => e[V(n + 1)][IndexAt(o, n)] = V(n)
        /\ V(n + 1) = 0 => V(n) = 0
    <3>1. n + 1 <= top[i]
      BY <1>1, <1>5
    <3>2. IF T[At(i, n + 1, o)] # 0 THEN e[T[At(i, n + 1, o)]][IndexAt(o, n)] = T[At(i, n, o)]
          ELSE n + 1 <= top[i] => T[At(i, n, o)] = 0
      BY <2>1, LinkedAt
    <3> QED BY <3>1, <3>2
  <2>3. V(n + 1) # 0 => disk[V(n + 1)] = e[V(n + 1)]
    BY <2>1
  <2>4. V(n) \in MaybeBlock /\ V(n + 1) \in MaybeBlock
    BY <1>2, <2>1
  <2>5. ReadFrom(o)[n + 1][V(n + 1)] = ReadStep(o, n + 1, V(n + 1), ReadFrom(o))
    BY <1>3, <2>1, <2>4
  <2>6. ReadFrom(o)[n][V(n)] = found
    BY <1>5
  <2>7. ReadFrom(o)[n][0] = null_block
    BY <1>3, <2>1 DEF ReadStep, MaybeBlock
  <2>8. n + 1 # 0 /\ (n + 1) - 1 = n
    BY <1>1
  <2> HIDE DEF V, found
  <2>9. CASE V(n + 1) = 0
    BY <2>1, <2>2, <2>5, <2>6, <2>7, <2>9 DEF ReadStep
  <2>10. CASE V(n + 1) # 0
    <3>1. ReadFrom(o)[n + 1][V(n + 1)] = ReadFrom(o)[n][disk[V(n + 1)][IndexAt(o, n)]]
      BY <2>5, <2>8, <2>10 DEF ReadStep
    <3> QED BY <2>1, <2>2, <2>3, <2>6, <2>10, <3>1
  <2> QED BY <2>9, <2>10
<1>6. 0..h \subseteq S
  <2> HIDE DEF S
  <2> QED BY <1>1, <1>4, <1>5, UpTo
<1> QED BY <1>1, <1>6

\* Below a hole there are only holes.
LEMMA HolesBelow ==
  ASSUME NEW T, NEW top, NEW e, Linked(T, top, e),
         NEW i \in Inodes, NEW o \in Offset, NEW h \in Level, h <= top[i], top[i] \in Nat,
         T[At(i, 0, o)] # 0
  PROVE  \A n \in 0..h : T[At(i, n, o)] # 0
<1> DEFINE S == {n \in 0..h : T[At(i, n, o)] # 0}
<1>1. h \in Nat /\ \A n \in 0..h : n < h => n \in Offset
  BY TreeDiskAssumption DEF Level, Offset
<1>2. 0 \in S
  BY <1>1
<1>3. ASSUME NEW n \in 0..h, n \in S, n < h PROVE n + 1 \in S
  <2>1. n \in Offset /\ n + 1 \in 0..h /\ n + 1 <= top[i]
    BY <1>1, <1>3
  <2>2. IF T[At(i, n + 1, o)] # 0 THEN e[T[At(i, n + 1, o)]][IndexAt(o, n)] = T[At(i, n, o)]
        ELSE n + 1 <= top[i] => T[At(i, n, o)] = 0
    BY <2>1, LinkedAt
  <2> QED BY <1>3, <2>1, <2>2
<1>4. 0..h \subseteq S
  <2> HIDE DEF S
  <2> QED BY <1>1, <1>2, <1>3, UpTo
<1> QED BY <1>4

LEMMA InvReads == TreeInv => ReadsBack
<1> SUFFICES ASSUME TreeInv, NEW i \in Inodes, NEW o \in 0..(inodes[i].nblocks - 1),
                    ~(pc # "idle" /\ op.ino = i /\ (op.offset = o \/ files[i][o] = 0))
             PROVE  treedisk_read(i, o) = Filled(files[i][o])
  BY DEF ReadsBack
<1> USE BlockFacts
<1>1. PICK T \in [Place -> MaybeBlock], top \in [Inodes -> Level],
           e \in [DataBlocks -> Contents], F \in MaybeBlock,
           Heads \in SUBSET DataBlocks, Items \in SUBSET DataBlocks :
             Layout(T, top, e, F, Heads, Items)
  BY DEF TreeInv
<1>2. PICK size0 \in Level : size0 = inodes[i].nblocks
  BY DEF TreeInv, TreeTypeOK
<1>3. o \in Offset /\ o < size0
  BY <1>2, TreeDiskAssumption DEF Level, Offset
<1>4. PICK h \in Level : h = Height(i)
  BY <1>2, LevelsOfValue DEF Height
<1>5. log_shift_r[h][o] = 0
  BY <1>2, <1>3, <1>4, LevelsOfValue DEF Height
<1>6. T[At(i, h, o)] = inodes[i].root /\ h <= top[i] /\ top[i] \in Nat
  BY <1>1, <1>4, <1>5 DEF Layout, Rooted, At
<1>7. Linked(T, top, e) /\ Placed(T)
  BY <1>1 DEF Layout
<1>8. \A n \in 0..h : At(i, n, o) \in Place /\ n \in Level
  <2>1. \A n \in 0..h : n \in Level
    BY TreeDiskAssumption DEF Level
  <2> QED BY <1>3, <2>1, AtPlace
<1>9. At(i, 0, o) = <<i, 0, o>>
  BY <1>3, ShiftZero DEF At
<1>10. IF T[At(i, 0, o)] = 0 THEN files[i][o] = 0 ELSE e[T[At(i, 0, o)]] = Filled(files[i][o])
  BY <1>1, <1>3, <1>9 DEF Layout, Stored
\* The block that was just taken is not on the way.
<1>11. ASSUME NEW n \in 0..h, T[At(i, n, o)] # 0, T[At(i, n, o)] = F PROVE FALSE
  <2>1. PICK ino \in Inodes, offset \in Offset : ino = op.ino /\ offset = op.offset
    BY DEF TreeInv, TreeTypeOK
  <2>2. e[F] = null_block /\ \E m \in Level : F = T[At(ino, m, offset)]
    BY <1>1, <1>11, <2>1 DEF Layout, Pending
  <2>3. PICK m \in Level : F = T[At(ino, m, offset)]
    BY <2>2
  <2>4. At(ino, m, offset) \in Place /\ At(i, n, o) \in Place
    BY <1>8, AtPlace
  <2>5. At(i, n, o) = At(ino, m, offset)
    BY <1>7, <1>11, <2>3, <2>4 DEF Placed
  <2>6. i = ino /\ n = m /\ log_shift_r[n][o] = log_shift_r[m][offset]
    BY <2>5 DEF At
  <2>7. pc # "idle"
    BY <1>1, <1>11 DEF Layout, CreateInv
  <2>8. o # offset /\ files[i][o] # 0
    BY <2>1, <2>6, <2>7
  <2>9. n # 0
    BY <1>3, <2>6, <2>8, ShiftZero
  <2>10. PICK k \in Offset : k + 1 = n /\ k \in 0..h
    <3>1. n - 1 \in Offset /\ (n - 1) + 1 = n /\ n - 1 \in 0..h
      BY <2>9, TreeDiskAssumption DEF Level, Offset
    <3> QED BY <3>1
  <2>11. T[At(i, k, o)] = 0
    <3>1. e[F][IndexAt(o, k)] = T[At(i, k, o)]
      <4>1. IF T[At(i, k + 1, o)] # 0 THEN e[T[At(i, k + 1, o)]][IndexAt(o, k)] = T[At(i, k, o)]
            ELSE k + 1 <= top[i] => T[At(i, k, o)] = 0
        BY <1>3, <1>7, LinkedAt
      <4> QED BY <1>11, <2>10, <4>1
    <3>2. IndexAt(o, k) \in Refs
      BY <1>3, AtBelow
    <3> QED BY <2>2, <3>1, <3>2
  <2>12. T[At(i, 0, o)] # 0
    BY <1>10, <2>8
  <2> QED BY <1>3, <1>6, <1>7, <2>10, <2>11, <2>12, HolesBelow
<1>12. \A n \in 0..h : T[At(i, n, o)] # 0 => disk[T[At(i, n, o)]] = e[T[At(i, n, o)]]
  <2> SUFFICES ASSUME NEW n \in 0..h, T[At(i, n, o)] # 0
               PROVE  disk[T[At(i, n, o)]] = e[T[At(i, n, o)]]
    OBVIOUS
  <2>1. T[At(i, n, o)] \in DataBlocks
    BY <1>8 DEF MaybeBlock
  <2>2. T[At(i, n, o)] # F
    BY <1>11
  <2> QED BY <1>1, <2>1, <2>2 DEF Layout, Pending
<1>13. ReadFrom(o)[h][T[At(i, h, o)]]
         = IF T[At(i, 0, o)] = 0 THEN null_block ELSE disk[T[At(i, 0, o)]]
  BY <1>3, <1>6, <1>7, <1>12, ReadsTree
<1>14. treedisk_read(i, o) = ReadFrom(o)[h][T[At(i, h, o)]]
  BY <1>4, <1>6 DEF treedisk_read, Height
<1>15. T[At(i, 0, o)] # 0 => disk[T[At(i, 0, o)]] = e[T[At(i, 0, o)]]
  <2>1. 0 \in 0..h
    BY DEF Level
  <2> QED BY <1>12, <2>1
<1>16. null_block = Filled(0)
  BY DEF null_block
<1> QED BY <1>10, <1>13, <1>14, <1>15, <1>16

-----------------------------------------------------------------------------
(* What is on the free list and in the trees, as NothingLostOrShared walks *)
(* them.                                                                   *)

ListStep(n, x, f) == IF x = 0 \/ n = 0 THEN {} ELSE {x} \cup f[n - 1][disk[x][0]]

\* What ListFrom computes for n blocks depends on what it does for n - 1.
LEMMA ListDef ==
  ListFrom = [n \in 0..nblocks |-> [x \in MaybeBlock |-> ListStep(n, x, ListFrom)]]
<1> DEFINE Eq(f, h) == f = [n \in 0..h |-> [x \in MaybeBlock |-> ListStep(n, x, f)]]
           S == {h \in Nat : \E f : Eq(f, h)}
<1>1. 0 \in S
  <2> DEFINE f == [n \in 0..0 |-> [x \in MaybeBlock |-> {}]]
  <2>1. \A x : ListStep(0, x, f) = {}
    BY DEF ListStep
  <2>2. \A n \in 0..0 : n = 0
    OBVIOUS
  <2>3. Eq(f, 0)
    BY <2>1, <2>2
  <2> HIDE DEF Eq, f
  <2> QED BY <2>3
<1>2. ASSUME NEW h \in Nat, h \in S PROVE h + 1 \in S
  <2>1. PICK f : Eq(f, h)
    BY <1>2
  <2> DEFINE g == [n \in 0..(h + 1) |-> [x \in MaybeBlock |-> ListStep(n, x, f)]]
  <2>2. \A n \in 0..h : g[n] = f[n]
    <3>1. \A n \in 0..h : n \in 0..(h + 1)
      OBVIOUS
    <3>2. \A n \in 0..h : f[n] = [x \in MaybeBlock |-> ListStep(n, x, f)]
      BY <2>1, Zenon
    <3>3. \A n \in 0..(h + 1) : g[n] = [x \in MaybeBlock |-> ListStep(n, x, f)]
      BY Zenon
    <3> QED BY <3>1, <3>2, <3>3, Zenon
  <2>3. \A n \in 0..(h + 1) : n # 0 => n - 1 \in 0..h
    OBVIOUS
  <2>4. Eq(g, h + 1)
    <3>1. \A n \in 0..(h + 1) : \A x : ListStep(n, x, g) = ListStep(n, x, f)
      <4> HIDE DEF g
      <4> QED BY <2>2, <2>3 DEF ListStep
    <3> HIDE DEF ListStep
    <3>2. \A n \in 0..(h + 1) : g[n] = [x \in MaybeBlock |-> ListStep(n, x, g)]
      BY <3>1
    <3> QED BY <3>2, Zenon
  <2> HIDE DEF Eq, g
  <2> QED BY <2>4
<1>3. nblocks \in Nat
  BY TreeDiskAssumption
<1>4. 0..nblocks \subseteq S
  <2> HIDE DEF S
  <2> QED BY <1>1, <1>2, <1>3, UpTo
<1>5. PICK f : Eq(f, nblocks)
  BY <1>3, <1>4
<1> QED BY <1>5 DEF ListFrom, ListStep, MaybeBlock

TreeStep(n, x, f) ==
  IF x = 0 THEN {}
  ELSE {<<n, x>>} \cup IF n = 0 THEN {} ELSE UNION {f[n - 1][disk[x][i]] : i \in Refs}

\* What TreeFrom computes at a level depends on the level below only.
LEMMA TreeDef ==
  TreeFrom = [n \in Level |-> [x \in MaybeBlock |-> TreeStep(n, x, TreeFrom)]]
<1> DEFINE Eq(f, h) == f = [n \in 0..h |-> [x \in MaybeBlock |-> TreeStep(n, x, f)]]
           S == {h \in Nat : \E f : Eq(f, h)}
<1>1. 0 \in S
  <2> DEFINE f == [n \in 0..0 |-> [x \in MaybeBlock |-> IF x = 0 THEN {} ELSE {<<0, x>>}]]
  <2>1. \A x : TreeStep(0, x, f) = IF x = 0 THEN {} ELSE {<<0, x>>}
    BY DEF TreeStep
  <2>2. \A n \in 0..0 : n = 0
    OBVIOUS
  <2>3. Eq(f, 0)
    BY <2>1, <2>2
  <2> HIDE DEF Eq, f
  <2> QED BY <2>3
<1>2. ASSUME NEW h \in Nat, h \in S PROVE h + 1 \in S
  <2>1. PICK f : Eq(f, h)
    BY <1>2
  <2> DEFINE g == [n \in 0..(h + 1) |-> [x \in MaybeBlock |-> TreeStep(n, x, f)]]
  <2>2. \A n \in 0..h : g[n] = f[n]
    <3>1. \A n \in 0..h : n \in 0..(h + 1)
      OBVIOUS
    <3>2. \A n \in 0..h : f[n] = [x \in MaybeBlock |-> TreeStep(n, x, f)]
      BY <2>1, Zenon
    <3>3. \A n \in 0..(h + 1) : g[n] = [x \in MaybeBlock |-> TreeStep(n, x, f)]
      BY Zenon
    <3> QED BY <3>1, <3>2, <3>3, Zenon
  <2>3. \A n \in 0..(h + 1) : n # 0 => n - 1 \in 0..h
    OBVIOUS
  <2>4. Eq(g, h + 1)
    <3>1. \A n \in 0..(h + 1) : \A x : TreeStep(n, x, g) = TreeStep(n, x, f)
      <4> HIDE DEF g
      <4> QED BY <2>2, <2>3 DEF TreeStep
    <3> HIDE DEF TreeStep
    <3>2. \A n \in 0..(h + 1) : g[n] = [x \in MaybeBlock |-> TreeStep(n, x, g)]
      BY <3>1
    <3> QED BY <3>2, Zenon
  <2> HIDE DEF Eq, g
  <2> QED BY <2>4
<1>3. MaxOffset + 1 \in Nat
  BY TreeDiskAssumption
<1>4. 0..(MaxOffset + 1) \subseteq S
  <2> HIDE DEF S
  <2> QED BY <1>1, <1>2, <1>3, UpTo
<1>5. PICK f : Eq(f, MaxOffset + 1)
  BY <1>3, <1>4
<1> QED BY <1>5 DEF TreeFrom, TreeStep, Level, MaybeBlock

\* The list is followed over all blocks that hold it.
LEMMA ListIsHeads ==
  ASSUME NEW Heads \in SUBSET DataBlocks, NEW Items \in SUBSET DataBlocks,
         Chain(disk, free_list, Heads, Items), InOrder(disk, free_list, Heads, Items)
  PROVE  ListBlocks = Heads /\ Free = Heads \cup Items
<1> USE BlockFacts
<1> DEFINE Upto(x) == {h \in Heads : h <= x}
           S == {n \in 0..nblocks : \A x \in Heads \cup {0} : x <= n => ListFrom[n][x] = Upto(x)}
<1>1. \A n \in 0..nblocks, x \in MaybeBlock : ListFrom[n][x] = ListStep(n, x, ListFrom)
  <2>1. PICK f : f = ListFrom
    OBVIOUS
  <2>2. f = [n \in 0..nblocks |-> [x \in MaybeBlock |-> ListStep(n, x, f)]]
    BY <2>1, ListDef
  <2> HIDE DEF ListStep
  <2>3. \A n \in 0..nblocks : f[n] = [x \in MaybeBlock |-> ListStep(n, x, f)]
    <3>1. PICK u : u = [n \in 0..nblocks |-> [x \in MaybeBlock |-> ListStep(n, x, f)]]
      OBVIOUS
    <3>2. \A n \in 0..nblocks : u[n] = [x \in MaybeBlock |-> ListStep(n, x, f)]
      BY <3>1, Zenon
    <3> QED BY <2>2, <3>1, <3>2, Zenon
  <2>4. \A n \in 0..nblocks : \A x \in MaybeBlock : f[n][x] = ListStep(n, x, f)
    <3> TAKE n \in 0..nblocks
    <3> TAKE x \in MaybeBlock
    <3>1. PICK u : u = [y \in MaybeBlock |-> ListStep(n, y, f)]
      OBVIOUS
    <3>2. u[x] = ListStep(n, x, f)
      BY <3>1, Zenon
    <3> QED BY <2>3, <3>1, <3>2, Zenon
  <2> QED BY <2>1, <2>4, Zenon
<1>2. /\ nblocks \in Nat /\ Heads \cup {0} \subseteq MaybeBlock
      /\ \A h \in Heads : h \in Nat /\ h # 0 /\ h <= nblocks
  BY TreeDiskAssumption DEF MaybeBlock, DataBlocks
<1>3. Upto(0) = {} /\ \A n \in 0..nblocks : ListFrom[n][0] = {}
  <2>1. Upto(0) = {}
    <3>1. \A h \in Heads : ~(h <= 0)
      BY <1>2
    <3> QED BY <3>1
  <2>2. \A n \in 0..nblocks : ListFrom[n][0] = {}
    BY <1>1, <1>2 DEF ListStep
  <2> QED BY <2>1, <2>2
<1>4. 0 \in S
  <2> SUFFICES ASSUME NEW x \in Heads \cup {0}, x <= 0 PROVE ListFrom[0][x] = Upto(x)
    BY <1>2
  <2>1. x = 0 /\ 0 \in 0..nblocks
    BY <1>2
  <2> HIDE DEF Upto
  <2>2. ListFrom[0][0] = Upto(0)
    BY <1>3, <2>1
  <2> QED BY <2>1, <2>2
<1>5. ASSUME NEW n \in 0..nblocks, n \in S, n < nblocks PROVE n + 1 \in S
  <2>1. n + 1 \in 0..nblocks /\ n + 1 # 0 /\ (n + 1) - 1 = n
    BY <1>2, <1>5
  <2> SUFFICES ASSUME NEW x \in Heads \cup {0}, x <= n + 1 PROVE ListFrom[n + 1][x] = Upto(x)
    BY <2>1
  <2>2. CASE x = 0
    BY <1>3, <2>1, <2>2
  <2>3. CASE x \in Heads
    <3>1. ListFrom[n + 1][x] = {x} \cup ListFrom[n][disk[x][0]]
      <4>1. x \in MaybeBlock /\ x # 0
        BY <1>2, <2>3
      <4>2. ListFrom[n + 1][x] = ListStep(n + 1, x, ListFrom)
        BY <1>1, <2>1, <4>1
      <4>3. ListStep(n + 1, x, ListFrom) = {x} \cup ListFrom[(n + 1) - 1][disk[x][0]]
        BY <2>1, <4>1 DEF ListStep
      <4> QED BY <2>1, <4>2, <4>3
    <3>2. PICK y \in Heads \cup {0} : y = disk[x][0]
      BY <2>3 DEF Chain
    <3>3. y < x /\ \A k \in Heads : k < x => k <= y
      BY <2>3, <3>2 DEF InOrder
    <3>4. x \in Nat /\ y \in Nat /\ y <= n
      BY <1>2, <2>3, <3>3
    <3>5. ListFrom[n][y] = Upto(y)
      BY <1>5, <3>4
    <3>6. Upto(x) = {x} \cup Upto(y)
      <4>1. \A k \in Heads : k <= x <=> k = x \/ k <= y
        BY <1>2, <3>3, <3>4
      <4> QED BY <2>3, <4>1
    <3> HIDE DEF Upto
    <3> QED BY <3>1, <3>2, <3>5, <3>6
  <2> QED BY <2>2, <2>3
<1>6. nblocks \in S
  <2>1. 0..nblocks \subseteq S
    <3> HIDE DEF S
    <3> QED BY <1>2, <1>4, <1>5, UpTo
  <2> QED BY <1>2, <2>1
<1>7. ListBlocks = Heads
  <2>1. free_list \in Heads \cup {0} /\ free_list <= nblocks
    BY <1>2 DEF Chain
  <2>2. ListFrom[nblocks][free_list] = Upto(free_list)
    BY <1>6, <2>1
  <2>3. Upto(free_list) = Heads
    BY DEF InOrder
  <2> QED BY <2>2, <2>3 DEF ListBlocks
<1>8. {disk[h][i] : h \in Heads, i \in Refs \ {0}} \ {0} = Items
  <2>1. \A h \in Heads : \A i \in Refs \ {0} : disk[h][i] \in Items \cup {0}
    BY DEF Chain
  <2>2. \A x \in Items : x # 0 /\ \E h \in Heads : \E i \in Refs \ {0} : disk[h][i] = x
    BY DEF InOrder
  <2> DEFINE listed == {disk[h][i] : h \in Heads, i \in Refs \ {0}}
  <2>3. \A x : x \in listed <=> \E h \in Heads : \E i \in Refs \ {0} : x = disk[h][i]
    OBVIOUS
  <2> HIDE DEF listed
  <2>4. \A x \in listed : x \in Items \cup {0}
    BY <2>1, <2>3
  <2>5. \A x \in Items : x \in listed /\ x # 0
    BY <2>2, <2>3
  <2>6. listed \ {0} = Items
    BY <2>4, <2>5
  <2> QED BY <2>6 DEF listed
<1> QED BY <1>7, <1>8 DEF Free

\* The tree walked from block x, at level n of file i, has blocks of the file only, and with
\* a block those it refers to.
Below(T, i, n, x) ==
  /\ <<n, x>> \in TreeFrom[n][x]
  /\ \A t \in TreeFrom[n][x] :
       \E m \in 0..n, k \in Nat : T[<<i, m, k>>] # 0 /\ t = <<m, T[<<i, m, k>>]>>
  /\ \A m \in 0..(n - 1), k \in Nat :
       /\ T[<<i, m, k>>] # 0
       /\ <<m + 1, T[<<i, m + 1, k \div REFS_PER_BLOCK>>]>> \in TreeFrom[n][x]
       => <<m, T[<<i, m, k>>]>> \in TreeFrom[n][x]

LEMMA TreeBelow ==
  ASSUME NEW T \in [Place -> MaybeBlock], NEW top, Linked(T, top, disk), Placed(T),
         NEW i \in Inodes, NEW h \in Level
  PROVE  \A n \in 0..h : \A c \in Nat : T[<<i, n, c>>] # 0 => Below(T, i, n, T[<<i, n, c>>])
<1> USE BlockFacts
<1> DEFINE S == {n \in 0..h : \A c \in Nat : T[<<i, n, c>>] # 0 => Below(T, i, n, T[<<i, n, c>>])}
<1>1. 0..h \subseteq Level /\ h \in Nat /\ \A n \in 0..h : n < h => n \in Offset /\ n + 1 \in Level
  BY TreeDiskAssumption DEF Level, Offset
<1>2. \A n \in Level : \A x \in MaybeBlock : TreeFrom[n][x] = TreeStep(n, x, TreeFrom)
  <2>1. PICK f : f = TreeFrom
    OBVIOUS
  <2>2. f = [n \in Level |-> [x \in MaybeBlock |-> TreeStep(n, x, f)]]
    BY <2>1, TreeDef
  <2> HIDE DEF TreeStep
  <2>3. \A n \in Level : f[n] = [x \in MaybeBlock |-> TreeStep(n, x, f)]
    <3>1. PICK u : u = [n \in Level |-> [x \in MaybeBlock |-> TreeStep(n, x, f)]]
      OBVIOUS
    <3>2. \A n \in Level : u[n] = [x \in MaybeBlock |-> TreeStep(n, x, f)]
      BY <3>1, Zenon
    <3> QED BY <2>2, <3>1, <3>2, Zenon
  <2>4. \A n \in Level : \A x \in MaybeBlock : f[n][x] = TreeStep(n, x, f)
    <3> TAKE n \in Level
    <3> TAKE x \in MaybeBlock
    <3>1. PICK u : u = [y \in MaybeBlock |-> TreeStep(n, y, f)]
      OBVIOUS
    <3>2. u[x] = TreeStep(n, x, f)
      BY <3>1, Zenon
    <3> QED BY <2>3, <3>1, <3>2, Zenon
  <2> QED BY <2>1, <2>4, Zenon
<1>3. \A n \in Level, c \in Nat : <<i, n, c>> \in Place /\ T[<<i, n, c>>] \in MaybeBlock
  BY DEF Place
<1>4. 0 \in S
  <2> SUFFICES ASSUME NEW c \in Nat, T[<<i, 0, c>>] # 0 PROVE Below(T, i, 0, T[<<i, 0, c>>])
    BY <1>1
  <2>1. PICK x \in MaybeBlock : x = T[<<i, 0, c>>]
    BY <1>3
  <2>2. TreeFrom[0][x] = {<<0, x>>}
    <3>1. TreeFrom[0][x] = TreeStep(0, x, TreeFrom) /\ x # 0
      BY <1>2, <2>1
    <3>2. TreeStep(0, x, TreeFrom) = {<<0, x>>} \cup {}
      BY <3>1, Zenon DEF TreeStep
    <3> QED BY <3>1, <3>2
  <2>3. 0 \in 0..0 /\ \A m \in 0..(0 - 1) : FALSE
    OBVIOUS
  <2> QED BY <2>1, <2>2, <2>3 DEF Below
<1>5. ASSUME NEW n \in 0..h, n \in S, n < h PROVE n + 1 \in S
  <2>1. n \in Offset /\ n \in Level /\ n + 1 \in Level /\ n + 1 \in 0..h /\ n \in Nat
    BY <1>1, <1>5
  <2> SUFFICES ASSUME NEW c \in Nat, T[<<i, n + 1, c>>] # 0
               PROVE  Below(T, i, n + 1, T[<<i, n + 1, c>>])
    BY <2>1
  <2>2. PICK x \in DataBlocks : x = T[<<i, n + 1, c>>]
    BY <1>3, <2>1 DEF MaybeBlock
  <2>3. PICK num \in [Refs -> Nat] :
          \A k \in Refs : num[k] \div REFS_PER_BLOCK = c /\ num[k] % REFS_PER_BLOCK = k
    <3>1. PICK num : num = [k \in Refs |-> REFS_PER_BLOCK * c + k]
      OBVIOUS
    <3>2. \A k \in Refs : REFS_PER_BLOCK * c + k \in Nat /\ num[k] = REFS_PER_BLOCK * c + k
      BY <3>1, DivisionOf
    <3>3. num \in [Refs -> Nat]
      BY <3>1, <3>2
    <3>4. \A k \in Refs : num[k] \div REFS_PER_BLOCK = c /\ num[k] % REFS_PER_BLOCK = k
      BY <3>2, DivisionOf
    <3> QED BY <3>3, <3>4
  <2>4. PICK child \in [Refs -> MaybeBlock] : \A k \in Refs : child[k] = T[<<i, n, num[k]>>]
    <3>1. PICK child : child = [k \in Refs |-> T[<<i, n, num[k]>>]]
      OBVIOUS
    <3>2. \A k \in Refs : T[<<i, n, num[k]>>] \in MaybeBlock
      <4>1. \A k \in Refs : num[k] \in Nat
        OBVIOUS
      <4> QED BY <1>3, <2>1, <4>1, Zenon
    <3>3. child \in [Refs -> MaybeBlock]
      BY <3>1, <3>2, Zenon
    <3>4. \A k \in Refs : child[k] = T[<<i, n, num[k]>>]
      BY <3>1, Zenon
    <3> QED BY <3>3, <3>4, Zenon
  <2>5. \A k \in Refs : disk[x][k] = child[k]
    <3> TAKE k \in Refs
    <3>1. PICK y \in Nat : y = num[k] /\ y \div REFS_PER_BLOCK = c /\ y % REFS_PER_BLOCK = k
      BY <2>3
    <3>2. IF T[<<i, n + 1, c>>] # 0 THEN disk[T[<<i, n + 1, c>>]][k] = T[<<i, n, y>>]
          ELSE n + 1 <= top[i] => T[<<i, n, y>>] = 0
      BY <2>1, <3>1 DEF Linked
    <3> QED BY <2>2, <2>4, <3>1, <3>2
  <2>6. PICK A : A = TreeFrom[n + 1][x]
    OBVIOUS
  <2>7. PICK B : B = [k \in Refs |-> IF child[k] = 0 THEN {} ELSE TreeFrom[n][child[k]]]
    OBVIOUS
  <2>8. \A t : t \in A <=> t = <<n + 1, x>> \/ \E k \in Refs : t \in B[k]
    <3>1. TreeFrom[n][0] = {}
      BY <1>2, <2>1 DEF TreeStep, MaybeBlock
    <3>2. \A k \in Refs : TreeFrom[n][disk[x][k]] = B[k]
      BY <2>5, <2>7, <3>1
    <3>3. A = {<<n + 1, x>>} \cup UNION {TreeFrom[n][disk[x][k]] : k \in Refs}
      <4>1. A = TreeStep(n + 1, x, TreeFrom) /\ x # 0
        BY <1>2, <2>1, <2>6 DEF MaybeBlock
      <4>2. n + 1 # 0 /\ (n + 1) - 1 = n
        BY <2>1
      <4> QED BY <4>1, <4>2 DEF TreeStep
    <3> QED BY <3>2, <3>3
  <2>9. ASSUME NEW k \in Refs, NEW t \in B[k]
        PROVE  child[k] # 0 /\ t \in TreeFrom[n][child[k]] /\ Below(T, i, n, child[k])
    <3>1. child[k] # 0 /\ t \in TreeFrom[n][child[k]]
      BY <2>7, <2>9
    <3> QED BY <1>5, <2>3, <2>4, <3>1
  <2>10. ASSUME NEW t \in A
         PROVE  \E m \in 0..(n + 1), k \in Nat : T[<<i, m, k>>] # 0 /\ t = <<m, T[<<i, m, k>>]>>
    <3>1. CASE t = <<n + 1, x>>
      <4>1. n + 1 \in 0..(n + 1)
        BY <2>1
      <4> QED BY <2>2, <3>1, <4>1
    <3>2. ASSUME NEW k \in Refs, t \in B[k]
          PROVE  \E m \in 0..n, l \in Nat : T[<<i, m, l>>] # 0 /\ t = <<m, T[<<i, m, l>>]>>
      <4>1. t \in TreeFrom[n][child[k]] /\ Below(T, i, n, child[k])
        BY <2>9, <3>2
      <4> QED BY <4>1, Zenon DEF Below
    <3>3. 0..n \subseteq 0..(n + 1)
      BY <2>1
    <3> QED BY <2>8, <2>10, <3>1, <3>2, <3>3
  <2>11. ASSUME NEW m \in 0..n, NEW l \in Nat, T[<<i, m, l>>] # 0,
                <<m + 1, T[<<i, m + 1, l \div REFS_PER_BLOCK>>]>> \in A
         PROVE  <<m, T[<<i, m, l>>]>> \in A
    <3>1. PICK d \in Nat, k \in Refs : d = l \div REFS_PER_BLOCK /\ k = l % REFS_PER_BLOCK
      BY Division
    <3>2. PICK up : up = T[<<i, m + 1, d>>]
      OBVIOUS
    <3>3. m \in Level /\ m + 1 \in Level /\ m \in Nat /\ m <= n
      BY <1>1, <2>1, TreeDiskAssumption DEF Level, Offset
    <3>4. CASE m = n
      <4>1. <<n + 1, up>> = <<n + 1, x>>
        <5> SUFFICES ASSUME NEW j \in Refs, <<n + 1, up>> \in B[j] PROVE FALSE
          BY <2>8, <2>11, <3>1, <3>2, <3>4
        <5>1. \E q \in 0..n, z \in Nat : <<n + 1, up>> = <<q, T[<<i, q, z>>]>>
          <6>1. <<n + 1, up>> \in TreeFrom[n][child[j]] /\ Below(T, i, n, child[j])
            BY <2>9
          <6> QED BY <6>1, Zenon DEF Below
        <5>2. n + 1 \in 0..n
          BY <5>1
        <5> QED BY <2>1, <5>2
      <4>2. d = c
        <5>1. T[<<i, n + 1, d>>] = T[<<i, n + 1, c>>] /\ T[<<i, n + 1, c>>] # 0
          BY <2>2, <3>2, <3>4, <4>1
        <5>2. <<i, n + 1, d>> = <<i, n + 1, c>>
          BY <1>3, <2>1, <5>1 DEF Placed
        <5> QED BY <5>2
      <4>3. l = num[k]
        <5>1. PICK y \in Nat : y = num[k] /\ y \div REFS_PER_BLOCK = c /\ y % REFS_PER_BLOCK = k
          BY <2>3
        <5> QED BY <3>1, <4>2, <5>1, DivisionUnique
      <4>4. child[k] = T[<<i, m, l>>] /\ child[k] # 0
        BY <2>4, <2>11, <3>4, <4>3
      <4>5. Below(T, i, n, child[k])
        BY <1>5, <2>3, <2>4, <4>4
      <4>6. <<n, child[k]>> \in B[k]
        BY <2>7, <4>4, <4>5 DEF Below
      <4> QED BY <2>8, <3>4, <4>4, <4>6
    <3>5. CASE m # n
      <4>1. m \in 0..(n - 1) /\ m + 1 # n + 1
        BY <2>1, <3>3, <3>5
      <4>2. PICK j \in Refs : <<m + 1, up>> \in B[j]
        <5>1. <<m + 1, up>> # <<n + 1, x>>
          BY <4>1
        <5> QED BY <2>8, <2>11, <3>1, <3>2, <5>1
      <4>3. <<m + 1, up>> \in TreeFrom[n][child[j]] /\ Below(T, i, n, child[j])
        BY <2>9, <4>2
      <4>4. <<m, T[<<i, m, l>>]>> \in TreeFrom[n][child[j]]
        BY <2>11, <3>1, <3>2, <4>1, <4>3 DEF Below
      <4>5. <<m, T[<<i, m, l>>]>> \in B[j]
        BY <2>7, <2>9, <4>2, <4>4
      <4> QED BY <2>8, <4>5
    <3> QED BY <3>4, <3>5
  <2>12. <<n + 1, x>> \in A /\ (n + 1) - 1 = n
    BY <2>1, <2>8
  <2> QED BY <2>2, <2>6, <2>10, <2>11, <2>12 DEF Below
<1>6. 0..h \subseteq S
  <2> HIDE DEF S
  <2> QED BY <1>1, <1>4, <1>5, UpTo
<1> QED BY <1>6

\* The tree of a file is what is at its places.
LEMMA TreeIsPlaces ==
  ASSUME NEW T \in [Place -> MaybeBlock], NEW top, Linked(T, top, disk), Placed(T), Rooted(T, top),
         NEW i \in Inodes, NEW h \in Level, h = Height(i), top[i] = h
  PROVE  /\ \A t \in Tree(i) : \E m \in 0..h, k \in Nat :
              T[<<i, m, k>>] # 0 /\ t = <<m, T[<<i, m, k>>]>>
         /\ \A m \in 0..h, k \in Nat : T[<<i, m, k>>] # 0 => <<m, T[<<i, m, k>>]>> \in Tree(i)
<1> USE BlockFacts
<1>1. PICK x \in MaybeBlock : x = T[<<i, h, 0>>] /\ x = inodes[i].root
  <2>1. T[<<i, h, 0>>] = inodes[i].root
    BY DEF Rooted
  <2>2. <<i, h, 0>> \in Place
    BY DEF Place
  <2> QED BY <2>1, <2>2
<1>2. Tree(i) = TreeFrom[h][x]
  BY <1>1 DEF Tree, Height
<1>3. h \in Nat /\ h \in 0..h /\ \A m \in 0..h : m \in Level
  BY TreeDiskAssumption DEF Level
<1>4. x # 0 => Below(T, i, h, x)
  BY <1>1, <1>3, TreeBelow
<1>5. TreeFrom[h][0] = {}
  <2>1. PICK f : f = TreeFrom
    OBVIOUS
  <2>2. f = [n \in Level |-> [y \in MaybeBlock |-> TreeStep(n, y, f)]]
    BY <2>1, TreeDef
  <2> HIDE DEF TreeStep
  <2>3. PICK u : u = [y \in MaybeBlock |-> TreeStep(h, y, f)]
    OBVIOUS
  <2>4. f[h] = u
    <3>1. PICK w : w = [n \in Level |-> [y \in MaybeBlock |-> TreeStep(n, y, f)]]
      OBVIOUS
    <3>2. w[h] = [y \in MaybeBlock |-> TreeStep(h, y, f)]
      BY <3>1, Zenon
    <3> QED BY <2>2, <2>3, <3>1, <3>2, Zenon
  <2>5. u[0] = TreeStep(h, 0, f)
    <3>1. 0 \in MaybeBlock
      BY DEF MaybeBlock
    <3> QED BY <2>3, <3>1, Zenon
  <2>6. TreeStep(h, 0, f) = {}
    BY DEF TreeStep
  <2> QED BY <2>1, <2>4, <2>5, <2>6, Zenon
<1>6. ASSUME NEW t \in Tree(i)
      PROVE  \E m \in 0..h, k \in Nat : T[<<i, m, k>>] # 0 /\ t = <<m, T[<<i, m, k>>]>>
  <2>1. x # 0
    BY <1>2, <1>5, <1>6
  <2>2. Below(T, i, h, x) /\ t \in TreeFrom[h][x]
    BY <1>2, <1>4, <1>6, <2>1
  <2> QED BY <2>2, Zenon DEF Below
<1> DEFINE InTree(m) == \A k \in Nat : T[<<i, m, k>>] # 0 => <<m, T[<<i, m, k>>]>> \in Tree(i)
           S == {j \in 0..h : InTree(h - j)}
<1>7. 0 \in S
  <2> SUFFICES ASSUME NEW k \in Nat, T[<<i, h, k>>] # 0 PROVE <<h, T[<<i, h, k>>]>> \in Tree(i)
    BY <1>3
  <2>1. k = 0
    <3>1. h >= h
      BY <1>3
    <3> QED BY <3>1 DEF Rooted
  <2>2. x # 0 /\ T[<<i, h, k>>] = x
    BY <1>1, <2>1
  <2>3. Below(T, i, h, x)
    BY <1>4, <2>2
  <2>4. <<h, x>> \in TreeFrom[h][x]
    BY <2>3, Zenon DEF Below
  <2> QED BY <1>2, <2>2, <2>4
<1>8. ASSUME NEW j \in 0..h, j \in S, j < h PROVE j + 1 \in S
  <2>1. PICK m \in 0..(h - 1) : m = h - (j + 1) /\ m + 1 = h - j
    <3>1. h - (j + 1) \in 0..(h - 1) /\ (h - (j + 1)) + 1 = h - j
      BY <1>3, <1>8
    <3> QED BY <3>1
  <2>2. InTree(m + 1) /\ j + 1 \in 0..h
    BY <1>3, <1>8, <2>1
  <2>3. m \in Offset /\ m + 1 <= top[i] /\ m \in 0..h
    <3>1. m \in Nat /\ m + 1 <= h
      BY <1>3, <2>1
    <3> QED BY <1>3, <3>1, TreeDiskAssumption DEF Level, Offset
  <2> SUFFICES ASSUME NEW k \in Nat, T[<<i, m, k>>] # 0 PROVE <<m, T[<<i, m, k>>]>> \in Tree(i)
    BY <2>1, <2>2
  <2>4. PICK d \in Nat : d = k \div REFS_PER_BLOCK
    BY Division
  <2>5. T[<<i, m + 1, d>>] # 0
    <3>1. IF T[<<i, m + 1, d>>] # 0 THEN disk[T[<<i, m + 1, d>>]][k % REFS_PER_BLOCK] = T[<<i, m, k>>]
          ELSE m + 1 <= top[i] => T[<<i, m, k>>] = 0
      BY <2>3, <2>4 DEF Linked
    <3> QED BY <2>3, <3>1
  <2>6. <<m + 1, T[<<i, m + 1, d>>]>> \in Tree(i)
    BY <2>2, <2>5
  <2>7. x # 0
    BY <1>2, <1>5, <2>6
  <2>8. Below(T, i, h, x) /\ <<m + 1, T[<<i, m + 1, k \div REFS_PER_BLOCK>>]>> \in TreeFrom[h][x]
    BY <1>2, <1>4, <2>4, <2>6, <2>7
  <2>9. <<m, T[<<i, m, k>>]>> \in TreeFrom[h][x]
    BY <2>8, Zenon DEF Below
  <2> QED BY <1>2, <2>9
<1>9. 0..h \subseteq S
  <2> HIDE DEF S
  <2> QED BY <1>3, <1>7, <1>8, UpTo
<1>10. ASSUME NEW m \in 0..h PROVE InTree(m)
  <2>1. PICK j \in 0..h : j = h - m /\ h - j = m
    <3>1. h - m \in 0..h /\ h - (h - m) = m
      BY <1>3
    <3> QED BY <3>1
  <2>2. InTree(h - j)
    BY <1>9, <2>1
  <2> HIDE DEF InTree
  <2> QED BY <2>1, <2>2
<1> QED BY <1>6, <1>10

\* The one reference to the block at a place: the root of the inode, or one in the block above.
RefTo(T, i, m, k) ==
  IF m = Height(i) THEN <<T[<<i, m, k>>], 1, i>>
  ELSE <<T[<<i, m, k>>], T[<<i, m + 1, k \div REFS_PER_BLOCK>>], k % REFS_PER_BLOCK>>

LEMMA PlaceIs == \A p \in Place : \E i \in Inodes, m \in Level, k \in Nat : p = <<i, m, k>>
BY DEF Place

LEMMA InvNothingLost == TreeInv => NothingLostOrShared
<1> SUFFICES ASSUME TreeInv, pc = "idle"
             PROVE  /\ Free \cup UNION {Used(ino) : ino \in Inodes} = DataBlocks
                    /\ \A r, s \in References : r[1] = s[1] /\ r[1] # 0 => r = s
  BY DEF NothingLostOrShared
<1> USE BlockFacts
<1>1. PICK T \in [Place -> MaybeBlock], top \in [Inodes -> Level],
           e \in [DataBlocks -> Contents], F \in MaybeBlock,
           Heads \in SUBSET DataBlocks, Items \in SUBSET DataBlocks :
             Layout(T, top, e, F, Heads, Items)
  BY DEF TreeInv
<1>2. e = disk
  <2>1. \A d \in DataBlocks : e[d] = disk[d]
    BY <1>1 DEF Layout, CreateInv, Pending
  <2>2. disk \in [DataBlocks -> Contents]
    BY DEF TreeInv, TreeTypeOK
  <2>3. e = [d \in DataBlocks |-> e[d]] /\ disk = [d \in DataBlocks |-> disk[d]]
    BY <2>2, Zenon
  <2>4. [d \in DataBlocks |-> e[d]] = [d \in DataBlocks |-> disk[d]]
    BY <2>1, Zenon
  <2> QED BY <2>3, <2>4, Zenon
<1>3. /\ Linked(T, top, disk) /\ Placed(T) /\ Rooted(T, top) /\ Apart(T, Heads, Items)
      /\ Chain(disk, free_list, Heads, Items) /\ InOrder(disk, free_list, Heads, Items)
  BY <1>1, <1>2 DEF Layout
<1>4. ListBlocks = Heads /\ Free = Heads \cup Items
  BY <1>3, ListIsHeads
<1>5. \A i \in Inodes : Height(i) \in Level /\ top[i] = Height(i)
  <2> TAKE i \in Inodes
  <2>1. inodes[i].nblocks \in Level
    BY DEF TreeInv, TreeTypeOK
  <2>2. top[i] = Height(i)
    BY <1>1 DEF Layout, GrowInv
  <2> QED BY <2>1, <2>2, LevelsOfValue DEF Height
<1>6. \A n \in Level, i \in Inodes, c \in Nat : <<i, n, c>> \in Place /\ T[<<i, n, c>>] \in MaybeBlock
  BY DEF Place
<1>7. ASSUME NEW i \in Inodes
      PROVE  /\ 0..Height(i) \subseteq Level /\ Height(i) \in Nat
             /\ \A t \in Tree(i) : \E m \in 0..Height(i), k \in Nat :
                  T[<<i, m, k>>] # 0 /\ t = <<m, T[<<i, m, k>>]>>
             /\ \A m \in 0..Height(i), k \in Nat :
                  T[<<i, m, k>>] # 0 => <<m, T[<<i, m, k>>]>> \in Tree(i)
  <2>1. PICK h \in Level : h = Height(i) /\ top[i] = h
    BY <1>5
  <2>2. 0..h \subseteq Level /\ h \in Nat
    BY TreeDiskAssumption DEF Level
  <2>3. /\ \A t \in Tree(i) : \E m \in 0..h, k \in Nat :
             T[<<i, m, k>>] # 0 /\ t = <<m, T[<<i, m, k>>]>>
        /\ \A m \in 0..h, k \in Nat : T[<<i, m, k>>] # 0 => <<m, T[<<i, m, k>>]>> \in Tree(i)
    BY <1>3, <2>1, TreeIsPlaces
  <2> QED BY <2>1, <2>2, <2>3
\* Nothing is lost.
<1>8. ASSUME NEW d, d \in Free \cup UNION {Used(ino) : ino \in Inodes} PROVE d \in DataBlocks
  <2>1. CASE d \in Free
    BY <1>4, <2>1
  <2>2. ASSUME NEW i \in Inodes, d \in Used(i) PROVE d \in DataBlocks
    <3>1. PICK t \in Tree(i) : d = t[2]
      BY <2>2 DEF Used
    <3>2. PICK m \in 0..Height(i), k \in Nat : T[<<i, m, k>>] # 0 /\ t = <<m, T[<<i, m, k>>]>>
      BY <1>7, <3>1
    <3>3. d = T[<<i, m, k>>] /\ m \in Level
      BY <1>7, <3>1, <3>2
    <3> QED BY <1>6, <3>2, <3>3 DEF MaybeBlock
  <2> QED BY <1>8, <2>1, <2>2
<1>9. ASSUME NEW d \in DataBlocks PROVE d \in Free \cup UNION {Used(ino) : ino \in Inodes}
  <2>1. d < next_free
    <3>1. next_free >= nblocks /\ next_free \in Nat
      BY <1>1 DEF Layout, Kept, TreeInv, TreeTypeOK
    <3> QED BY <3>1, TreeDiskAssumption DEF DataBlocks
  <2>2. d \in Heads \cup Items \/ \E p \in Place : T[p] = d
    BY <1>1, <2>1 DEF Layout, Kept
  <2>3. ASSUME NEW p \in Place, T[p] = d PROVE \E i \in Inodes : d \in Used(i)
    <3>1. PICK i \in Inodes, m \in Level, k \in Nat : p = <<i, m, k>>
      BY PlaceIs
    <3>2. m \in 0..Height(i)
      <4>1. PICK h \in Level : h = Height(i) /\ top[i] = h
        BY <1>5
      <4>2. /\ m >= h => \A c \in Nat \ {0} : T[<<i, m, c>>] = 0
            /\ m > h => T[<<i, m, 0>>] = 0
        <5>1. /\ m >= Height(i) => \A c \in Nat \ {0} : T[<<i, m, c>>] = 0
              /\ m > top[i] => T[<<i, m, 0>>] = 0
          BY <1>3 DEF Rooted
        <5> QED BY <4>1, <5>1, Zenon
      <4>3. m \in Nat /\ h \in Nat /\ T[<<i, m, k>>] # 0
        BY <2>3, <3>1
      <4>4. ~(m > h)
        BY <4>2, <4>3
      <4> QED BY <4>1, <4>3, <4>4
    <3>3. <<m, d>> \in Tree(i)
      BY <1>7, <2>3, <3>1, <3>2
    <3> QED BY <3>3 DEF Used
  <2> QED BY <1>4, <2>2, <2>3
<1>10. Free \cup UNION {Used(ino) : ino \in Inodes} = DataBlocks
  BY <1>8, <1>9
\* Where each reference is.
<1>11. ASSUME NEW r \in References, r[1] # 0
       PROVE  \/ /\ r[1] \in Heads \cup Items
                 /\ r = <<free_list, 0, 0>> \/ \E h \in Heads, j \in Refs : r = <<disk[h][j], h, j>>
              \/ \E i \in Inodes, m \in Level, k \in Nat : r = RefTo(T, i, m, k)
  <2>1. CASE r = <<free_list, 0, 0>>
    <3>1. free_list \in Heads
      BY <1>3, <1>11, <2>1 DEF Chain
    <3> QED BY <2>1, <3>1
  <2>2. ASSUME NEW i \in Inodes, r = <<inodes[i].root, 1, i>>
        PROVE  \E m \in Level, k \in Nat : r = RefTo(T, i, m, k)
    <3>1. PICK m \in Level : m = Height(i)
      BY <1>5
    <3>2. T[<<i, m, 0>>] = inodes[i].root
      BY <1>3, <3>1 DEF Rooted
    <3>3. r = RefTo(T, i, m, 0)
      BY <2>2, <3>1, <3>2 DEF RefTo
    <3> QED BY <3>3
  <2>3. ASSUME NEW h \in Heads, NEW j \in Refs, r = <<disk[h][j], h, j>>
        PROVE  r[1] \in Heads \cup Items
    <3>1. disk[h][j] \in Heads \cup Items \cup {0}
      BY <1>3 DEF Chain
    <3> QED BY <1>11, <2>3, <3>1
  <2>4. ASSUME NEW i \in Inodes, NEW d \in IndirBlocks(i), NEW j \in Refs, r = <<disk[d][j], d, j>>
        PROVE  \E m \in Level, k \in Nat : r = RefTo(T, i, m, k)
    <3>1. PICK t \in Tree(i) : d = t[2] /\ t[1] > 0
      BY <2>4 DEF IndirBlocks
    <3>2. PICK m \in 0..Height(i), k \in Nat : T[<<i, m, k>>] # 0 /\ t = <<m, T[<<i, m, k>>]>>
      BY <1>7, <3>1
    <3>3. d = T[<<i, m, k>>] /\ m > 0
      BY <3>1, <3>2
    <3>4. PICK n \in Offset : n + 1 = m /\ n # Height(i)
      <4>1. m \in Nat /\ m <= Height(i) /\ Height(i) \in Level /\ Height(i) \in Nat
        BY <1>5, <1>7
      <4>2. m - 1 \in Offset /\ (m - 1) + 1 = m /\ m - 1 # Height(i)
        BY <3>3, <4>1, TreeDiskAssumption DEF Level, Offset
      <4> QED BY <4>2
    <3>5. PICK l \in Nat : l \div REFS_PER_BLOCK = k /\ l % REFS_PER_BLOCK = j
      BY DivisionOf
    <3>6. disk[d][j] = T[<<i, n, l>>]
      <4>1. IF T[<<i, n + 1, k>>] # 0 THEN disk[T[<<i, n + 1, k>>]][j] = T[<<i, n, l>>]
            ELSE n + 1 <= top[i] => T[<<i, n, l>>] = 0
        BY <1>3, <3>5 DEF Linked
      <4> QED BY <3>2, <3>3, <3>4, <4>1
    <3>7. r = RefTo(T, i, n, l)
      BY <2>4, <3>3, <3>4, <3>5, <3>6 DEF RefTo
    <3> QED BY <3>4, <3>7
  <2>5. \/ r = <<free_list, 0, 0>>
        \/ \E i \in Inodes : r = <<inodes[i].root, 1, i>>
        \/ \E h \in Heads, j \in Refs : r = <<disk[h][j], h, j>>
        \/ \E i \in Inodes : \E d \in IndirBlocks(i) : \E j \in Refs : r = <<disk[d][j], d, j>>
    BY <1>4, <1>11 DEF References
  <2> QED BY <2>1, <2>2, <2>3, <2>4, <2>5
<1>12. ASSUME NEW r \in References, NEW s \in References, r[1] = s[1], r[1] # 0 PROVE r = s
  <2> DEFINE Listed(x) == /\ x[1] \in Heads \cup Items
                          /\ \/ x = <<free_list, 0, 0>>
                             \/ \E h \in Heads, j \in Refs : x = <<disk[h][j], h, j>>
             InTree(x) == \E i \in Inodes, m \in Level, k \in Nat : x = RefTo(T, i, m, k)
  <2>1. (Listed(r) \/ InTree(r)) /\ (Listed(s) \/ InTree(s))
    BY <1>11, <1>12
  <2>2. \A x : InTree(x) => \E p \in Place : x[1] = T[p]
    <3> TAKE x
    <3> SUFFICES ASSUME InTree(x) PROVE \E p \in Place : x[1] = T[p]
      OBVIOUS
    <3>1. PICK i \in Inodes, m \in Level, k \in Nat : x = RefTo(T, i, m, k)
      OBVIOUS
    <3>2. x[1] = T[<<i, m, k>>] /\ <<i, m, k>> \in Place
      BY <1>6, <3>1 DEF RefTo
    <3> QED BY <3>2
  <2>3. \A x : InTree(x) => x[1] \notin Heads \cup Items
    BY <1>3, <2>2 DEF Apart
  <2>4. CASE InTree(r) /\ InTree(s)
    <3>1. PICK i \in Inodes, m \in Level, k \in Nat : r = RefTo(T, i, m, k)
      BY <2>4
    <3>2. PICK j \in Inodes, n \in Level, l \in Nat : s = RefTo(T, j, n, l)
      BY <2>4
    <3>3. T[<<i, m, k>>] = T[<<j, n, l>>] /\ T[<<i, m, k>>] # 0
      <4>1. r[1] = T[<<i, m, k>>]
        BY <3>1 DEF RefTo
      <4>2. s[1] = T[<<j, n, l>>]
        BY <3>2 DEF RefTo
      <4> QED BY <1>12, <4>1, <4>2
    <3>4. <<i, m, k>> = <<j, n, l>>
      BY <1>3, <1>6, <3>3 DEF Placed
    <3>5. i = j /\ m = n /\ k = l
      BY <3>4
    <3> QED BY <3>1, <3>2, <3>5
  <2>5. CASE Listed(r) /\ Listed(s)
    <3>1. \A h \in Heads, j \in Refs : disk[h][j] # 0 => disk[h][j] # free_list
      <4> SUFFICES ASSUME NEW h \in Heads, NEW j \in Refs, disk[h][j] # 0, disk[h][j] = free_list
                   PROVE  FALSE
        OBVIOUS
      <4>1. CASE j = 0
        BY <1>3, <4>1 DEF Chain
      <4>2. CASE j # 0
        <5>1. disk[h][j] \in Items /\ free_list \in Heads /\ Heads \cap Items = {}
          BY <1>3, <4>2 DEF Chain
        <5> QED BY <5>1
      <4> QED BY <4>1, <4>2
    <3>2. CASE r = <<free_list, 0, 0>>
      BY <1>12, <2>5, <3>1, <3>2
    <3>3. ASSUME NEW h \in Heads, NEW j \in Refs, r = <<disk[h][j], h, j>> PROVE r = s
      <4>1. PICK k \in Heads, l \in Refs : s = <<disk[k][l], k, l>>
        BY <1>12, <2>5, <3>1, <3>3
      <4>2. disk[h][j] = disk[k][l] /\ disk[h][j] # 0
        BY <1>12, <3>3, <4>1
      <4>3. h = k /\ j = l
        BY <1>3, <4>2 DEF Chain
      <4> QED BY <3>3, <4>1, <4>3
    <3> QED BY <2>5, <3>2, <3>3
  <2> QED BY <1>12, <2>1, <2>3, <2>4, <2>5
<1> QED BY <1>10, <1>12

-----------------------------------------------------------------------------
(* The theorems.                                                           *)

\* The disk always has a layout: every block is at one place of one file or once on the
\* free list, references lead where the places are, and only the block that the write has
\* just taken is not yet what it counts as, whatever was written and wherever it stopped.
THEOREM TreeDiskInvariant == TreeSpec => []TreeInv
<1>1. TreeInit => TreeInv
  BY InitTreeInv
<1>2. TreeInv /\ [TreeNext]_tdVars => TreeInv'
  BY StepTreeInv
<1> QED BY <1>1, <1>2, PTL DEF TreeSpec

\* treedisk_read returns what treedisk_write wrote last, or zeros, for every block of every
\* file, while trees grow and holes are filled.  A write in progress, or one that stopped
\* because the disk is full, leaves only its own block and the holes of its file undefined.
THEOREM FilesReadBack == TreeSpec => []ReadsBack
<1>1. TreeInv => ReadsBack
  BY InvReads
<1> QED BY <1>1, TreeDiskInvariant, PTL

\* Between two writes every data block is on the free list or in a file, and there is one
\* reference to it: treedisk_alloc_block hands out each block once, treedisk_write links
\* what it was given, and setup_freelist leaves no block out.
THEOREM NoBlockLostOrShared == TreeSpec => []NothingLostOrShared
<1>1. TreeInv => NothingLostOrShared
  BY InvNothingLost
<1> QED BY <1>1, TreeDiskInvariant, PTL

=============================================================================
