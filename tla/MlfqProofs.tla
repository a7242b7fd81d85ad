----------------------------- MODULE MlfqProofs -----------------------------
(***************************************************************************)
(* Theorems about Mlfq, for every number of processes and levels, every    *)
(* reset period, quota and slice, and every width of the time fields; and  *)
(* about MTimer, the clock that Mlfq's time comes from, for every size of  *)
(* a word and every quantum that fits in one.                              *)
(***************************************************************************)
EXTENDS Mlfq, MTimer, WellFoundedInduction, TLAPS

-----------------------------------------------------------------------------
(* Facts about the operators.                                              *)

\* A nonempty set of naturals has a smallest element.
LEMMA LeastElement ==
  ASSUME NEW S \in SUBSET Nat, S # {}
  PROVE  \E m \in S : \A n \in S : m <= n
<1> DEFINE R == OpToRel(<, Nat)
<1>1. IsWellFoundedOn(R, Nat)
  BY NatLessThanWellFounded
<1>2. \A m, n \in S : n < m => <<n, m>> \in R
  BY DEF OpToRel
<1> HIDE DEF R
<1>3. PICK m \in S : \A n \in S : ~(<<n, m>> \in R)
  BY <1>1, WFMin
<1>4. \A n \in S : ~(n < m)
  BY <1>2, <1>3, Zenon
<1>5. \A n \in S : m \in Nat /\ n \in Nat
  OBVIOUS
<1> QED BY <1>4, <1>5

\* The ring distance wraps around at most once.
LEMMA DistanceValue ==
  ASSUME curr \in Procs, NEW k \in Procs
  PROVE  /\ Distance(k) = IF k > curr THEN k - curr - 1 ELSE k - curr - 1 + MAX_NPROCESS
         /\ Distance(k) \in Nat
BY MlfqAssumption DEF Procs, Distance

\* Pick returns a candidate of the best level, and of those the next one in the ring.
LEMMA PickIsBest ==
  ASSUME curr \in Procs, NEW lv \in [Procs -> Nat], NEW C \in SUBSET Procs, C # {}
  PROVE  /\ Pick(lv, C) \in C
         /\ \A j \in C : \/ lv[Pick(lv, C)] < lv[j]
                         \/ lv[Pick(lv, C)] = lv[j] /\ Distance(Pick(lv, C)) <= Distance(j)
<1> DEFINE L == {lv[k] : k \in C}
<1>1. L \in SUBSET Nat /\ L # {}
  OBVIOUS
<1>2. PICK l \in L : \A n \in L : l <= n
  BY <1>1, LeastElement
<1> DEFINE B == {k \in C : lv[k] = l}
           D == {Distance(k) : k \in B}
<1>3. D \in SUBSET Nat /\ D # {}
  BY DistanceValue
<1>4. PICK d \in D : \A n \in D : d <= n
  BY <1>3, LeastElement
<1>5. PICK b \in B : d = Distance(b)
  OBVIOUS
<1>6. ASSUME NEW j \in C
      PROVE  lv[b] < lv[j] \/ (lv[b] = lv[j] /\ Distance(b) <= Distance(j))
  <2>1. lv[j] \in L /\ lv[j] \in Nat /\ lv[b] = l /\ l \in Nat
    BY <1>5
  <2>2. CASE lv[j] = l
    <3>1. Distance(j) \in D
      BY <2>2
    <3> QED BY <3>1, <2>1, <2>2, <1>4, <1>5
  <2>3. CASE lv[j] # l
    BY <2>1, <2>3, <1>2
  <2> QED BY <2>2, <2>3
<1>7. b \in C
  OBVIOUS
<1> QED BY <1>6, <1>7 DEF Pick

\* The quota of every level is a value of its field.
LEMMA LevelRuntime ==
  ASSUME NEW l \in 0..(MLFQ_NLEVELS - 1)
  PROVE  MLFQ_LEVEL_RUNTIME(l) \in 0..(Width - 1)
<1>1. MLFQ_NLEVELS - (l + 1) \in Nat /\ LevelUnit \in Nat /\ l + 1 \in Nat
  BY MlfqAssumption
<1>2. (MLFQ_NLEVELS - (l + 1)) * LevelUnit >= 0 /\ (l + 1) * LevelUnit >= 0
  BY <1>1
<1>3. (MLFQ_NLEVELS - (l + 1)) * LevelUnit = MLFQ_NLEVELS * LevelUnit - (l + 1) * LevelUnit
  BY <1>1, MlfqAssumption
<1>4. (l + 1) * LevelUnit \in Int /\ MLFQ_NLEVELS * LevelUnit \in Int
  BY <1>1, MlfqAssumption
<1> QED BY <1>2, <1>3, <1>4, MlfqAssumption DEF MLFQ_LEVEL_RUNTIME

\* Within one width of zero the modulus of the unsigned fields wraps once.
LEMMA WrapOnce ==
  ASSUME NEW x \in Int, -Width <= x, x < Width + Width
  PROVE  /\ x % Width = IF x < 0 THEN x + Width ELSE IF x < Width THEN x ELSE x - Width
         /\ x % Width \in 0..(Width - 1)
BY MlfqAssumption

LEMMA SumWraps ==
  ASSUME NEW a \in 0..(Width - 1), NEW b \in 0..(Width - 1)
  PROVE  (a + b) % Width = IF a + b < Width THEN a + b ELSE a + b - Width
BY WrapOnce, MlfqAssumption, SMTT(30)

-----------------------------------------------------------------------------
(* The inductive invariant behind BoundedWait.                             *)

\* The slots strictly between the current process and k, in the order of the ring.
Ahead(k) == IF k > curr THEN k - curr - 1 ELSE k - curr + MAX_NPROCESS - 2

\* The longest wait when the slots ahead have all run: until a reset that comes at the
\* end of a slice, and one slice more for the processes that the ring then visits.
WaitLimit == MLFQ_RESET_PERIOD - 1 + (MAX_NPROCESS - 2) * MaxSlice

\* Only processes that could run wait.  One of them either waits for the next reset, or
\* is on the best level already, and then every slice brings it nearer in the ring.
WaitInv ==
  /\ \A k \in Procs : k \notin Runnable \/ k = curr => waited[k] = 0
  /\ since_reset = Unset => \A k \in Procs : waited[k] = 0
  /\ \A k \in Runnable \ {curr} :
       \/ waited[k] <= since_reset + MaxSlice
       \/ mlfq_level[k] = 0 /\ waited[k] + Ahead(k) * MaxSlice <= WaitLimit

MlfqInv == MlfqTypeOK /\ QuotaBooks /\ WaitInv

-----------------------------------------------------------------------------
(* The steps.                                                              *)

\* mlfq_update_level keeps the books of the current process: a level that exists, and a
\* rest and a use that add up to the quota of that level or of a lower one.
LEMMA UpdateLevel ==
  ASSUME MlfqTypeOK, QuotaBooks, NEW dt \in 1..MaxSlice
  PROVE  LET upd == mlfq_update_level(dt)
         IN  /\ upd.level \in 0..(MLFQ_NLEVELS - 1)
             /\ upd.left \in 0..(Width - 1)
             /\ upd.used \in 0..(Width - 1)
             /\ \E l \in upd.level..(MLFQ_NLEVELS - 1) :
                  (upd.left + upd.used) % Width = MLFQ_LEVEL_RUNTIME(l)
<1> DEFINE upd == mlfq_update_level(dt)
           r == remainingt_onlevel[curr]
           u == current_level_runtime[curr]
           v == mlfq_level[curr]
<1>1. /\ curr \in Procs /\ state[curr] # "unused"
      /\ r \in 0..(Width - 1) /\ u \in 0..(Width - 1) /\ v \in 0..(MLFQ_NLEVELS - 1)
      /\ dt \in Nat /\ dt < Width /\ Width \in Nat /\ MLFQ_NLEVELS \in Nat
  BY MlfqAssumption DEF MlfqTypeOK, Runnable
<1>2. PICK l \in v..(MLFQ_NLEVELS - 1) : (r + u) % Width = MLFQ_LEVEL_RUNTIME(l)
  BY <1>1 DEF QuotaBooks
<1>3. CASE ~timed[curr]
  <2>1. upd = [level |-> v, left |-> r, used |-> u]
    BY <1>3 DEF mlfq_update_level
  <2> HIDE DEF upd
  <2> QED BY <2>1, <1>1, <1>2 DEF upd
<1>4. CASE timed[curr] /\ TimeOver(dt)
  <2>1. /\ NextLevel \in 0..(MLFQ_NLEVELS - 1)
        /\ upd = [level |-> NextLevel, left |-> MLFQ_LEVEL_RUNTIME(NextLevel), used |-> 0]
    BY <1>1, <1>4 DEF mlfq_update_level, NextLevel
  <2>2. MLFQ_LEVEL_RUNTIME(NextLevel) \in 0..(Width - 1)
    BY <2>1, LevelRuntime
  <2>3. (MLFQ_LEVEL_RUNTIME(NextLevel) + 0) % Width = MLFQ_LEVEL_RUNTIME(NextLevel)
    BY <2>2, <1>1, WrapOnce
  <2>4. NextLevel \in NextLevel..(MLFQ_NLEVELS - 1) /\ 0 \in 0..(Width - 1)
    BY <2>1, <1>1
  <2> HIDE DEF upd
  <2> QED BY <2>1, <2>2, <2>3, <2>4 DEF upd
<1>5. CASE timed[curr] /\ ~TimeOver(dt)
  <2> DEFINE left == (r - dt) % Width
             used == (u + dt) % Width
  <2>1. upd = [level |-> v, left |-> left, used |-> used]
    BY <1>5 DEF mlfq_update_level, Left
  <2>2. /\ left = IF r - dt < 0 THEN r - dt + Width ELSE r - dt
        /\ left \in 0..(Width - 1)
    BY <1>1, WrapOnce
  <2>3. /\ used = IF u + dt < Width THEN u + dt ELSE u + dt - Width
        /\ used \in 0..(Width - 1)
    BY <1>1, WrapOnce
  <2> HIDE DEF left, used
  <2>4. (left + used) % Width = (r + u) % Width
    <3>1. (left + used) % Width = IF left + used < Width THEN left + used
                                  ELSE left + used - Width
      BY <2>2, <2>3, SumWraps
    <3>2. (r + u) % Width = IF r + u < Width THEN r + u ELSE r + u - Width
      BY <1>1, SumWraps, Zenon
    <3> QED BY <3>1, <3>2, <2>2, <2>3, <1>1
  <2> HIDE DEF upd
  <2> QED BY <2>1, <2>2, <2>3, <2>4, <1>1, <1>2 DEF upd
<1> QED BY <1>3, <1>4, <1>5

\* The invariant holds when the kernel starts its first process.
LEMMA MlfqInitial == MlfqInit => MlfqInv
<1> SUFFICES ASSUME MlfqInit PROVE MlfqInv
  OBVIOUS
<1>0. ProcessSlot \in Procs /\ Runnable = {ProcessSlot}
  <2>1. ProcessSlot \in Procs
    BY MlfqAssumption DEF ProcessSlot, Procs
  <2>2. \A k \in Procs : state[k] = "runnable" <=> k = ProcessSlot
    BY DEF MlfqInit
  <2> QED BY <2>1, <2>2 DEF Runnable
<1>1. MLFQ_LEVEL_RUNTIME(0) = LevelUnit /\ LevelUnit \in 0..(Width - 1)
  <2>1. 0 \in 0..(MLFQ_NLEVELS - 1)
    BY MlfqAssumption
  <2>2. MLFQ_LEVEL_RUNTIME(0) = LevelUnit
    BY MlfqAssumption DEF MLFQ_LEVEL_RUNTIME
  <2> QED BY <2>1, <2>2, LevelRuntime
<1>2. MlfqTypeOK
  BY <1>0, <1>1, MlfqAssumption DEF MlfqInit, MlfqTypeOK, Unset
<1>3. QuotaBooks
  <2>1. ASSUME NEW k \in Procs, state[k] # "unused" PROVE k = ProcessSlot
    BY <2>1 DEF MlfqInit
  <2>2. (LevelUnit + 0) % Width = MLFQ_LEVEL_RUNTIME(0)
    BY <1>1, WrapOnce, MlfqAssumption
  <2>3. /\ remainingt_onlevel[ProcessSlot] = LevelUnit
        /\ current_level_runtime[ProcessSlot] = 0
        /\ mlfq_level[ProcessSlot] = 0 /\ 0 \in 0..(MLFQ_NLEVELS - 1)
    BY <1>0, MlfqAssumption DEF MlfqInit
  <2> QED BY <2>1, <2>2, <2>3 DEF QuotaBooks
<1>4. WaitInv
  BY <1>0 DEF MlfqInit, WaitInv
<1> QED BY <1>2, <1>3, <1>4 DEF MlfqInv

\* A new process starts with the quota of the first level and has not waited.
LEMMA AllocKeeps == MlfqInv /\ Alloc => MlfqInv'
<1> SUFFICES ASSUME MlfqInv, Alloc PROVE MlfqInv'
  OBVIOUS
<1> DEFINE k == CHOOSE k \in FreeSlots : \A j \in FreeSlots : k <= j
<1>1. k \in FreeSlots
  <2>1. FreeSlots \in SUBSET Nat /\ FreeSlots # {}
    BY DEF Alloc, FreeSlots, Procs
  <2>2. \E m \in FreeSlots : \A j \in FreeSlots : m <= j
    BY <2>1, LeastElement
  <2> QED BY <2>2
<1>2. /\ state' = [state EXCEPT ![k] = "runnable"]
      /\ mlfq_level' = [mlfq_level EXCEPT ![k] = 0]
      /\ remainingt_onlevel' = [remainingt_onlevel EXCEPT ![k] = MLFQ_LEVEL_RUNTIME(0)]
      /\ current_level_runtime' = [current_level_runtime EXCEPT ![k] = 0]
      /\ timed' = [timed EXCEPT ![k] = FALSE]
      /\ waited' = [waited EXCEPT ![k] = 0]
      /\ UNCHANGED <<curr, since_reset>>
  BY DEF Alloc
<1> HIDE DEF k
<1>3. k \in Procs /\ state[k] = "unused" /\ 0 \in 0..(MLFQ_NLEVELS - 1)
  BY <1>1, MlfqAssumption DEF FreeSlots
<1>4. MLFQ_LEVEL_RUNTIME(0) \in 0..(Width - 1) /\ 0 \in 0..(Width - 1)
  BY <1>3, LevelRuntime, MlfqAssumption
<1>5. Runnable' = Runnable \cup {k} /\ curr' = curr /\ curr \in Runnable /\ k # curr
  BY <1>2, <1>3 DEF MlfqInv, MlfqTypeOK, Runnable
<1>6. MlfqTypeOK'
  BY <1>2, <1>3, <1>4, <1>5 DEF MlfqInv, MlfqTypeOK
<1>7. QuotaBooks'
  <2>1. ASSUME NEW j \in Procs, state'[j] # "unused"
        PROVE  \E l \in mlfq_level'[j]..(MLFQ_NLEVELS - 1) :
          (remainingt_onlevel'[j] + current_level_runtime'[j]) % Width = MLFQ_LEVEL_RUNTIME(l)
    <3>1. CASE j # k
      BY <3>1, <2>1, <1>2, <1>3 DEF MlfqInv, MlfqTypeOK, QuotaBooks
    <3>2. CASE j = k
      <4>1. (MLFQ_LEVEL_RUNTIME(0) + 0) % Width = MLFQ_LEVEL_RUNTIME(0)
        BY <1>4, WrapOnce, MlfqAssumption
      <4>2. /\ mlfq_level'[k] = 0 /\ remainingt_onlevel'[k] = MLFQ_LEVEL_RUNTIME(0)
            /\ current_level_runtime'[k] = 0
        BY <1>2, <1>3 DEF MlfqInv, MlfqTypeOK
      <4> QED BY <3>2, <4>1, <4>2, <1>3
    <3> QED BY <3>1, <3>2
  <2> QED BY <2>1 DEF QuotaBooks, MLFQ_LEVEL_RUNTIME
<1>8. WaitInv'
  <2>1. \A j \in Procs : waited'[j] = IF j = k THEN 0 ELSE waited[j]
    BY <1>2 DEF MlfqInv, MlfqTypeOK
  <2>2. \A j \in Procs \ {k} : mlfq_level'[j] = mlfq_level[j]
    BY <1>2 DEF MlfqInv, MlfqTypeOK
  <2>3. 0 <= since_reset + MaxSlice /\ since_reset' = since_reset
    BY <1>2, MlfqAssumption DEF MlfqInv, MlfqTypeOK, Unset
  <2>4. ASSUME NEW j \in Runnable' \ {curr'}
        PROVE  \/ waited'[j] <= since_reset' + MaxSlice
               \/ mlfq_level'[j] = 0 /\ waited'[j] + Ahead(j)' * MaxSlice <= WaitLimit
    <3>1. CASE j = k
      BY <3>1, <2>1, <2>3, <1>3
    <3>2. CASE j # k
      <4>1. j \in Runnable \ {curr} /\ j \in Procs /\ Ahead(j)' = Ahead(j)
        BY <3>2, <2>4, <1>5 DEF Runnable, Ahead
      <4>2. waited'[j] = waited[j] /\ mlfq_level'[j] = mlfq_level[j]
        BY <4>1, <3>2, <2>1, <2>2
      <4> QED BY <4>1, <4>2, <2>3 DEF MlfqInv, WaitInv
    <3> QED BY <3>1, <3>2
  <2>5. ASSUME NEW j \in Procs, j \notin Runnable' \/ j = curr' PROVE waited'[j] = 0
    BY <2>5, <2>1, <1>5 DEF MlfqInv, WaitInv
  <2>6. ASSUME since_reset' = Unset, NEW j \in Procs PROVE waited'[j] = 0
    BY <2>6, <2>1, <2>3 DEF MlfqInv, WaitInv
  <2>7. WaitLimit' = WaitLimit
    BY DEF WaitLimit
  <2> QED BY <2>4, <2>5, <2>6, <2>7 DEF WaitInv, Procs, Unset
<1> QED BY <1>6, <1>7, <1>8 DEF MlfqInv

\* Freeing a process leaves the books and the waits of the others alone.
LEMMA FreeKeeps == ASSUME MlfqInv, NEW k \in Procs, Free(k) PROVE MlfqInv'
<1>1. /\ state' = [state EXCEPT ![k] = "unused"]
      /\ waited' = [waited EXCEPT ![k] = 0]
      /\ UNCHANGED <<mlfq_level, remainingt_onlevel, current_level_runtime, timed, curr,
                     since_reset>>
  BY DEF Free
<1>2. k # curr
  BY MlfqAssumption DEF Free, ProcessSlot
<1>3. Runnable' = Runnable \ {k} /\ curr' = curr /\ curr \in Runnable
  BY <1>1, <1>2 DEF MlfqInv, MlfqTypeOK, Runnable
<1>4. MlfqTypeOK'
  BY <1>1, <1>2, <1>3 DEF MlfqInv, MlfqTypeOK
<1>5. QuotaBooks'
  BY <1>1 DEF MlfqInv, MlfqTypeOK, QuotaBooks, MLFQ_LEVEL_RUNTIME
<1>6. WaitInv'
  <2>1. \A j \in Procs : waited'[j] = IF j = k THEN 0 ELSE waited[j]
    BY <1>1 DEF MlfqInv, MlfqTypeOK
  <2>2. \A j \in Runnable' \ {curr'} : j \in Runnable \ {curr} /\ j # k /\ j \in Procs
    BY <1>3 DEF Runnable
  <2>3. \A j \in Procs : Ahead(j)' = Ahead(j)
    BY <1>1 DEF Ahead
  <2> QED BY <2>1, <2>2, <2>3, <1>1, <1>3 DEF MlfqInv, WaitInv, WaitLimit, Procs, Unset
<1> QED BY <1>4, <1>5, <1>6 DEF MlfqInv

\* proc_yield picks somebody who can run, keeps the books, and lets nobody wait longer
\* than the ring and the reset period allow.
LEMMA YieldKeeps ==
  ASSUME MlfqInv, NEW dt \in 1..MaxSlice, NEW blocks \in BOOLEAN, NEW key \in BOOLEAN,
         NEW woken \in SUBSET Asleep, NEW late \in SUBSET Asleep,
         Yield(dt, blocks, woken, late, key)
  PROVE  MlfqInv'
<1> DEFINE upd == mlfq_update_level(dt)
           lv == mlfq_reset_level([mlfq_level EXCEPT ![curr] = upd.level], dt, key)
           ready == (IF blocks THEN Runnable \ {curr} ELSE Runnable) \cup woken
           next == Pick(lv, ready)
<1>1. /\ ready # {}
      /\ state' = [k \in Procs |-> IF state[k] = "unused" THEN "unused"
                                   ELSE IF k \in ready \cup late THEN "runnable" ELSE "blocked"]
      /\ mlfq_level' = lv
      /\ remainingt_onlevel' = [remainingt_onlevel EXCEPT ![curr] = upd.left]
      /\ current_level_runtime' = [current_level_runtime EXCEPT ![curr] = upd.used]
      /\ timed' = [timed EXCEPT ![next] = TRUE]
      /\ curr' = next
      /\ since_reset' = IF PeriodOver(dt) THEN 0 ELSE SinceReset(dt)
      /\ waited' = [k \in Procs |-> IF k \in Runnable \ {curr, next} THEN waited[k] + dt ELSE 0]
  BY DEF Yield
<1>2. /\ upd.level \in 0..(MLFQ_NLEVELS - 1)
      /\ upd.left \in 0..(Width - 1)
      /\ upd.used \in 0..(Width - 1)
      /\ \E l \in upd.level..(MLFQ_NLEVELS - 1) :
           (upd.left + upd.used) % Width = MLFQ_LEVEL_RUNTIME(l)
  BY UpdateLevel DEF MlfqInv
<1> HIDE DEF upd
<1>3. curr \in Procs /\ curr \in Runnable /\ dt \in Nat /\ dt <= MaxSlice /\ dt >= 1
  BY MlfqAssumption DEF MlfqInv, MlfqTypeOK, Runnable
<1>4. /\ lv \in [Procs -> 0..(MLFQ_NLEVELS - 1)]
      /\ \A k \in Procs : lv[k] = 0 \/ lv[k] = (IF k = curr THEN upd.level ELSE mlfq_level[k])
      /\ PeriodOver(dt) => \A k \in Procs : state[k] # "unused" => lv[k] = 0
  <2>1. 0 \in 0..(MLFQ_NLEVELS - 1)
    BY MlfqAssumption
  <2>2. [mlfq_level EXCEPT ![curr] = upd.level] \in [Procs -> 0..(MLFQ_NLEVELS - 1)]
    BY <1>2, <1>3 DEF MlfqInv, MlfqTypeOK
  <2>3. \A k \in Procs : [mlfq_level EXCEPT ![curr] = upd.level][k]
                           = IF k = curr THEN upd.level ELSE mlfq_level[k]
    BY <1>3 DEF MlfqInv, MlfqTypeOK
  <2> QED BY <2>1, <2>2, <2>3 DEF mlfq_reset_level
<1> HIDE DEF lv
<1>5. /\ ready \subseteq Procs
      /\ \A k \in ready : state[k] # "unused"
      /\ Runnable \ {curr} \subseteq ready
      /\ \A k \in Runnable : k \in Procs
  BY DEF Runnable, Asleep
<1> HIDE DEF ready
<1>6. /\ next \in ready
      /\ \A j \in ready : \/ lv[next] < lv[j]
                          \/ lv[next] = lv[j] /\ Distance(next) <= Distance(j)
  <2>1. lv \in [Procs -> Nat]
    BY <1>4, MlfqAssumption
  <2> QED BY <2>1, <1>1, <1>3, <1>5, PickIsBest
<1> HIDE DEF next
<1>7. next \in Procs /\ next \in Runnable'
  BY <1>1, <1>5, <1>6 DEF Runnable
<1>8. SinceReset(dt) \in Nat
  BY <1>3 DEF SinceReset, MlfqInv, MlfqTypeOK, Unset
<1>9. /\ since_reset' \in 0..(MLFQ_RESET_PERIOD - 1)
      /\ ~PeriodOver(dt) => since_reset' = SinceReset(dt)
  BY <1>1, <1>8, MlfqAssumption DEF PeriodOver
<1>10. waited' \in [Procs -> Nat]
  BY <1>1, <1>3 DEF MlfqInv, MlfqTypeOK
<1>11. MlfqTypeOK'
  <2>1. state' \in [Procs -> {"unused", "blocked", "runnable"}]
    BY <1>1
  <2>2. timed' \in [Procs -> BOOLEAN]
    BY <1>1 DEF MlfqInv, MlfqTypeOK
  <2>3. /\ remainingt_onlevel' \in [Procs -> 0..(Width - 1)]
        /\ current_level_runtime' \in [Procs -> 0..(Width - 1)]
    BY <1>1, <1>2 DEF MlfqInv, MlfqTypeOK
  <2>4. mlfq_level' \in [Procs -> 0..(MLFQ_NLEVELS - 1)] /\ curr' \in Runnable'
    BY <1>1, <1>4, <1>7
  <2> QED BY <2>1, <2>2, <2>3, <2>4, <1>9, <1>10 DEF MlfqTypeOK
<1>12. QuotaBooks'
  <2>1. ASSUME NEW k \in Procs, state'[k] # "unused"
        PROVE  \E l \in mlfq_level'[k]..(MLFQ_NLEVELS - 1) :
          (remainingt_onlevel'[k] + current_level_runtime'[k]) % Width = MLFQ_LEVEL_RUNTIME(l)
    <3>0. state[k] # "unused" /\ mlfq_level'[k] = lv[k]
      BY <2>1, <1>1
    <3>1. CASE k = curr
      <4>1. remainingt_onlevel'[k] = upd.left /\ current_level_runtime'[k] = upd.used
        BY <3>1, <1>1, <1>3 DEF MlfqInv, MlfqTypeOK
      <4>2. PICK l \in upd.level..(MLFQ_NLEVELS - 1) :
              (upd.left + upd.used) % Width = MLFQ_LEVEL_RUNTIME(l)
        BY <1>2
      <4>3. l \in lv[k]..(MLFQ_NLEVELS - 1)
        BY <3>1, <1>2, <1>4, MlfqAssumption
      <4> QED BY <4>1, <4>2, <4>3, <3>0
    <3>2. CASE k # curr
      <4>1. /\ remainingt_onlevel'[k] = remainingt_onlevel[k]
            /\ current_level_runtime'[k] = current_level_runtime[k]
        BY <3>2, <1>1 DEF MlfqInv, MlfqTypeOK
      <4>2. PICK l \in mlfq_level[k]..(MLFQ_NLEVELS - 1) :
              (remainingt_onlevel[k] + current_level_runtime[k]) % Width = MLFQ_LEVEL_RUNTIME(l)
        BY <3>0 DEF MlfqInv, QuotaBooks
      <4>3. mlfq_level[k] \in 0..(MLFQ_NLEVELS - 1)
        BY DEF MlfqInv, MlfqTypeOK
      <4>4. l \in lv[k]..(MLFQ_NLEVELS - 1)
        BY <3>2, <4>3, <1>4, MlfqAssumption
      <4> QED BY <4>1, <4>2, <4>4, <3>0
    <3> QED BY <3>1, <3>2
  <2> QED BY <2>1 DEF QuotaBooks, MLFQ_LEVEL_RUNTIME
<1>13. WaitInv'
  <2>1. ASSUME NEW k \in Procs, k \notin Runnable' \/ k = curr' PROVE waited'[k] = 0
    <3>1. k \in Runnable \ {curr, next} => k \in Runnable' /\ k # curr'
      BY <1>1, <1>5 DEF Runnable
    <3> QED BY <3>1, <2>1, <1>1
  <2>2. since_reset' # Unset
    BY <1>9, MlfqAssumption DEF Unset
  <2>3. ASSUME NEW k \in Runnable' \ {curr'}
        PROVE  \/ waited'[k] <= since_reset' + MaxSlice
               \/ mlfq_level'[k] = 0 /\ waited'[k] + Ahead(k)' * MaxSlice <= WaitLimit
    <3>0. k \in Procs /\ k # next
      BY <2>3, <1>1 DEF Runnable
    <3>1. CASE k \notin Runnable \ {curr, next}
      <4>1. waited'[k] = 0
        BY <3>0, <3>1, <1>1
      <4> QED BY <4>1, <1>9, MlfqAssumption
    <3>2. CASE k \in Runnable \ {curr}
      <4>1. waited'[k] = waited[k] + dt /\ waited[k] \in Nat /\ MaxSlice \in Nat
        BY <3>0, <3>2, <1>1, MlfqAssumption DEF MlfqInv, MlfqTypeOK
      <4>2. k \in ready /\ state[k] # "unused" /\ mlfq_level'[k] = lv[k]
        BY <3>2, <1>1, <1>5
      <4>3. ASSUME lv[k] = 0
            PROVE  Ahead(k) \in Nat /\ Ahead(k)' \in Nat /\ Ahead(k)' + 1 <= Ahead(k)
                   /\ Ahead(k) <= MAX_NPROCESS - 3
        <5>1. lv[next] \in Nat
          BY <1>4, <1>7
        <5>2. Distance(next) <= Distance(k)
          BY <5>1, <4>2, <4>3, <1>6
        <5>3. /\ Ahead(k)' = IF k > next THEN k - next - 1 ELSE k - next + MAX_NPROCESS - 2
              /\ k \in Procs /\ next \in Procs /\ curr \in Procs /\ k # next /\ k # curr
          BY <1>1, <1>3, <1>7, <3>0, <3>2 DEF Ahead
        <5>4. /\ Distance(k) = IF k > curr THEN k - curr - 1 ELSE k - curr - 1 + MAX_NPROCESS
              /\ Distance(next) = IF next > curr THEN next - curr - 1
                                  ELSE next - curr - 1 + MAX_NPROCESS
          BY <5>3, DistanceValue
        <5> QED BY <5>2, <5>3, <5>4, MlfqAssumption DEF Ahead, Procs
      <4>4. CASE waited[k] <= since_reset + MaxSlice /\ ~PeriodOver(dt)
        <5>1. CASE since_reset = Unset
          <6>1. waited[k] = 0
            BY <5>1, <3>0 DEF MlfqInv, WaitInv
          <6>2. since_reset' \in Nat
            BY <1>9, MlfqAssumption
          <6>3. \A x \in Nat : dt <= x + MaxSlice
            BY <4>1, <1>3
          <6>4. 0 + dt = dt
            BY <1>3
          <6>5. waited'[k] = dt
            BY <6>1, <6>4, <4>1, Zenon
          <6> QED BY <6>2, <6>3, <6>5, Zenon
        <5>2. CASE since_reset # Unset
          <6>1. since_reset' = since_reset + dt /\ since_reset \in Nat
            BY <5>2, <4>4, <1>9 DEF SinceReset, MlfqInv, MlfqTypeOK
          <6> QED BY <6>1, <4>1, <4>4, <1>3
        <5> QED BY <5>1, <5>2
      <4>5. CASE waited[k] <= since_reset + MaxSlice /\ PeriodOver(dt)
        <5>1. lv[k] = 0
          BY <4>5, <4>2, <1>4, <3>0
        <5>2. waited[k] <= MLFQ_RESET_PERIOD - 1 + MaxSlice
          BY <4>1, <4>5, MlfqAssumption DEF MlfqInv, MlfqTypeOK, Unset
        <5>3. Ahead(k)' \in Nat /\ Ahead(k)' <= MAX_NPROCESS - 4
          BY <5>1, <4>3, MlfqAssumption
        <5> DEFINE a == Ahead(k)'
        <5> HIDE DEF a
        <5>4. a * MaxSlice <= (MAX_NPROCESS - 4) * MaxSlice
          <6>1. (MAX_NPROCESS - 4 - a) \in Nat
            BY <5>3, MlfqAssumption DEF a
          <6>2. (MAX_NPROCESS - 4 - a) * MaxSlice >= 0
            BY <6>1, <4>1
          <6>3. a \in Int /\ MAX_NPROCESS \in Int
            BY <5>3, MlfqAssumption DEF a
          <6> HIDE DEF a
          <6> QED BY <6>2, <6>3, <4>1
        <5>5. a * MaxSlice \in Int /\ (MAX_NPROCESS - 4) * MaxSlice \in Int
          BY <5>3, <4>1, MlfqAssumption DEF a
        <5>6. WaitLimit = MLFQ_RESET_PERIOD - 1 + (MAX_NPROCESS - 4) * MaxSlice + MaxSlice + MaxSlice
          BY <4>1, MlfqAssumption DEF WaitLimit
        <5>7. waited'[k] + a * MaxSlice <= WaitLimit
          BY <5>2, <5>4, <5>5, <5>6, <4>1, <1>3, MlfqAssumption
        <5> QED BY <5>1, <5>7, <4>2 DEF a
      <4>6. CASE mlfq_level[k] = 0 /\ waited[k] + Ahead(k) * MaxSlice <= WaitLimit
        <5>1. lv[k] = 0
          BY <4>6, <1>4, <3>0, <3>2
        <5> DEFINE a == Ahead(k)
                   b == Ahead(k)'
        <5>2. a \in Nat /\ b \in Nat /\ a - 1 - b \in Nat
          BY <5>1, <4>3
        <5> HIDE DEF a, b
        <5>3. (a - 1 - b) * MaxSlice >= 0
          BY <5>2, <4>1
        <5>4. b * MaxSlice <= a * MaxSlice - MaxSlice
          BY <5>3, <5>2, <4>1
        <5>5. a * MaxSlice \in Int /\ b * MaxSlice \in Int /\ WaitLimit \in Int
          BY <5>2, <4>1, MlfqAssumption DEF WaitLimit
        <5>6. waited[k] + a * MaxSlice <= WaitLimit
          BY <4>6 DEF a
        <5>7. waited'[k] + b * MaxSlice <= WaitLimit
          BY <5>4, <5>5, <5>6, <4>1, <1>3
        <5> QED BY <5>1, <5>7, <4>2 DEF b
      <4> QED BY <4>4, <4>5, <4>6, <3>2 DEF MlfqInv, WaitInv
    <3> QED BY <3>1, <3>2, <3>0
  <2>4. WaitLimit' = WaitLimit
    BY DEF WaitLimit
  <2> QED BY <2>1, <2>2, <2>3, <2>4 DEF WaitInv, Procs, Unset
<1> QED BY <1>11, <1>12, <1>13 DEF MlfqInv

\* Every step of the queue keeps the invariant.
LEMMA MlfqStep == MlfqInv /\ [MlfqNext]_mlfqVars => MlfqInv'
<1> SUFFICES ASSUME MlfqInv, [MlfqNext]_mlfqVars PROVE MlfqInv'
  OBVIOUS
<1>1. CASE Alloc
  BY <1>1, AllocKeeps
<1>2. ASSUME NEW k \in Procs, Free(k) PROVE MlfqInv'
  BY <1>2, FreeKeeps
<1>3. CASE AnyYield
  <2>1. PICK dt \in 1..MaxSlice, blocks \in BOOLEAN, key \in BOOLEAN, woken \in SUBSET Asleep :
          \E late \in {{}} \cup {{k} : k \in Asleep \ woken} : Yield(dt, blocks, woken, late, key)
    BY <1>3 DEF AnyYield
  <2>2. PICK late \in {{}} \cup {{k} : k \in Asleep \ woken} : Yield(dt, blocks, woken, late, key)
    BY <2>1
  <2>3. late \in SUBSET Asleep
    OBVIOUS
  <2> QED BY <2>2, <2>3, YieldKeeps
<1>4. CASE UNCHANGED mlfqVars
  BY <1>4 DEF mlfqVars, MlfqInv, MlfqTypeOK, QuotaBooks, WaitInv, Runnable, Ahead, WaitLimit,
              MLFQ_LEVEL_RUNTIME, Procs, Unset
<1> QED BY <1>1, <1>2, <1>3, <1>4 DEF MlfqNext

LEMMA MlfqInvariant == MlfqSpec => []MlfqInv
BY MlfqInitial, MlfqStep, PTL DEF MlfqSpec

-----------------------------------------------------------------------------
(* The theorems.                                                           *)

\* Type correctness of the queue: in particular the process that proc_yield picks can
\* always run, and no level leaves its range (process.c:146-158, kernel.c:127-137).
THEOREM MlfqTypeCorrect == MlfqSpec => []MlfqTypeOK
BY MlfqInvariant, PTL DEF MlfqInv

\* The unsigned accounting of mlfq_update_level always adds up to the quota of a level,
\* also after the rest has wrapped around (process.c:146-158).
THEOREM BooksBalance == MlfqSpec => []QuotaBooks
BY MlfqInvariant, PTL DEF MlfqInv

\* No process starves: whoever can run does so before the reset period and a slice of
\* each of the other processes have gone by (process.c:194, kernel.c:122-137).
THEOREM WaitIsBounded == MlfqSpec => []BoundedWait
<1>1. ASSUME MlfqInv PROVE BoundedWait
  <2> SUFFICES ASSUME NEW k \in Procs
               PROVE  waited[k] < MLFQ_RESET_PERIOD + (MAX_NPROCESS - 2) * MaxSlice
    BY DEF BoundedWait
  <2>1. /\ (MAX_NPROCESS - 2) * MaxSlice \in Int /\ (MAX_NPROCESS - 2) * MaxSlice >= MaxSlice
        /\ MaxSlice \in Nat
    <3>1. MAX_NPROCESS - 3 \in Nat /\ MaxSlice \in Nat
      BY MlfqAssumption
    <3>2. (MAX_NPROCESS - 3) * MaxSlice >= 0
      BY <3>1
    <3> QED BY <3>1, <3>2, MlfqAssumption
  <2>2. waited[k] \in Nat /\ since_reset \in Int /\ since_reset <= MLFQ_RESET_PERIOD - 1
    BY <1>1, MlfqAssumption DEF MlfqInv, MlfqTypeOK, Unset
  <2>3. CASE k \notin Runnable \/ k = curr
    BY <2>3, <2>1, <1>1, MlfqAssumption DEF MlfqInv, WaitInv
  <2>4. CASE k \in Runnable \ {curr}
    <3>1. CASE waited[k] <= since_reset + MaxSlice
      BY <3>1, <2>1, <2>2, MlfqAssumption
    <3>2. CASE waited[k] + Ahead(k) * MaxSlice <= WaitLimit
      <4>1. Ahead(k) \in Nat
        <5>1. curr \in Procs /\ k # curr
          BY <1>1, <2>4 DEF MlfqInv, MlfqTypeOK, Runnable
        <5> QED BY <5>1, MlfqAssumption DEF Procs, Ahead
      <4>2. Ahead(k) * MaxSlice >= 0 /\ Ahead(k) * MaxSlice \in Int
        BY <4>1, <2>1
      <4> QED BY <3>2, <4>2, <2>1, <2>2, MlfqAssumption DEF WaitLimit
    <3> QED BY <3>1, <3>2, <2>4, <1>1 DEF MlfqInv, WaitInv
  <2> QED BY <2>3, <2>4
<1> QED BY <1>1, MlfqInvariant, PTL

-----------------------------------------------------------------------------
(* The clock is read, and its compare register written, in halves.         *)

Clock == [hi : 0..(Word - 2), lo : Words]

TimerTypeOK ==
  /\ mtime \in Clock /\ mtimecmp \in Time
  /\ pc \in {"call", "high", "low", "again", "mask", "store_low", "store_high"}
  /\ high \in 0..(Word - 2) /\ low \in Words
  /\ time \in Time /\ now \in Clock /\ entry \in Clock
  /\ armed \in BOOLEAN

\* What was read so far: the upper word is not ahead of the clock and not behind the
\* call, and if it is still the clock's then the pair is a time that was seen.
ReadSoFar ==
  /\ pc \in {"low", "again"} => entry.hi <= high /\ high <= mtime.hi
  /\ pc = "again" /\ high = mtime.hi =>
       /\ NotAfter(entry, [hi |-> high, lo |-> low])
       /\ low <= mtime.lo

\* What mtimecmp_set was called with, and how far it got.
Stored ==
  /\ armed /\ pc \in {"mask", "store_low", "store_high", "call"} =>
       NotAfter(entry, now) /\ time = Plus(now, QUANTUM)
  /\ pc \in {"store_low", "store_high"} => mtimecmp.hi = Word - 1
  /\ pc = "store_high" => mtimecmp.lo = time.lo
  /\ pc = "call" => mtimecmp = time

\* The inductive invariant.
TInv ==
  /\ TimerTypeOK
  /\ NotAfter(entry, mtime) /\ NotAfter(now, mtime)
  /\ ReadSoFar
  /\ Stored

-----------------------------------------------------------------------------
(* Times.                                                                  *)

\* The sum does not overflow as long as the clock's upper word is not at its maximum.
LEMMA PlusIsTime ==
  ASSUME ClockAssumption, NEW t \in Clock
  PROVE  /\ Plus(t, QUANTUM) \in Time
         /\ t.lo + QUANTUM >= Word =>
              Plus(t, QUANTUM) = [hi |-> t.hi + 1, lo |-> t.lo + QUANTUM - Word]
<1>1. t.hi \in 0..(Word - 2) /\ t.lo \in 0..(Word - 1)
  BY DEF Clock, Words
<1>2. (t.hi + 1) % Word = t.hi + 1
  BY <1>1 DEF ClockAssumption
<1> QED
  BY <1>1, <1>2 DEF Plus, Time, Words, ClockAssumption

\* A later time plus the quantum is later.
LEMMA PlusMonotone ==
  ASSUME ClockAssumption, NEW s \in Clock, NEW t \in Clock, NotAfter(s, t)
  PROVE  NotAfter(Plus(s, QUANTUM), Plus(t, QUANTUM))
<1>1. /\ s.hi \in 0..(Word - 2) /\ s.lo \in 0..(Word - 1)
      /\ t.hi \in 0..(Word - 2) /\ t.lo \in 0..(Word - 1)
  BY DEF Clock, Words
<1>2. QUANTUM \in 0..(Word - 1) /\ Word \in Nat
  BY DEF ClockAssumption, Words
<1>3. /\ s.lo + QUANTUM >= Word =>
           Plus(s, QUANTUM) = [hi |-> s.hi + 1, lo |-> s.lo + QUANTUM - Word]
      /\ s.lo + QUANTUM < Word => Plus(s, QUANTUM) = [hi |-> s.hi, lo |-> s.lo + QUANTUM]
  BY PlusIsTime DEF Plus
<1>4. /\ t.lo + QUANTUM >= Word =>
           Plus(t, QUANTUM) = [hi |-> t.hi + 1, lo |-> t.lo + QUANTUM - Word]
      /\ t.lo + QUANTUM < Word => Plus(t, QUANTUM) = [hi |-> t.hi, lo |-> t.lo + QUANTUM]
  BY PlusIsTime DEF Plus
<1> QED
  BY <1>1, <1>2, <1>3, <1>4 DEF NotAfter

LEMMA NotAfterTransitive ==
  ASSUME ClockAssumption, NEW s \in Time, NEW t \in Time, NEW u \in Time,
         NotAfter(s, t), NotAfter(t, u)
  PROVE  NotAfter(s, u)
BY DEF NotAfter, Time, Words, ClockAssumption

-----------------------------------------------------------------------------
(* The invariant.                                                          *)

LEMMA TimerInitial ==
  ASSUME ClockAssumption, TimerInit
  PROVE  TInv
<1>1. Never \in Time /\ 0 \in Words /\ 0 \in 0..(Word - 2)
  BY DEF ClockAssumption, Words
<1>2. TimerTypeOK
  BY <1>1 DEF TimerInit, TimerTypeOK, Clock
<1>3. NotAfter(mtime, mtime)
  BY <1>2 DEF TimerTypeOK, Clock, Words, ClockAssumption, NotAfter
<1>4. ReadSoFar /\ Stored
  BY DEF TimerInit, ReadSoFar, Stored
<1> QED
  BY <1>2, <1>3, <1>4 DEF TimerInit, TInv

LEMMA TickKeeps ==
  ASSUME ClockAssumption, TInv, Tick
  PROVE  TInv'
<1> USE DEF ClockAssumption, Words, Clock, Time
<1>1. TimerTypeOK'
  BY DEF TInv, TimerTypeOK, Tick
<1>2. NotAfter(entry, mtime)' /\ NotAfter(now, mtime)'
  BY DEF TInv, TimerTypeOK, Tick, NotAfter
<1>3. ReadSoFar'
  BY DEF TInv, TimerTypeOK, ReadSoFar, Tick, NotAfter
<1>4. Stored'
  BY DEF TInv, Stored, Tick
<1> QED
  BY <1>1, <1>2, <1>3, <1>4 DEF TInv

LEMMA ReadKeeps ==
  ASSUME ClockAssumption, TInv, timer_reset \/ ReadHigh \/ ReadLow \/ ReadAgain
  PROVE  TInv'
<1> USE DEF ClockAssumption, Words, Clock, Time
<1>1. CASE timer_reset
  BY <1>1 DEF timer_reset, TInv, TimerTypeOK, ReadSoFar, Stored, NotAfter
<1>2. CASE ReadHigh
  BY <1>2 DEF ReadHigh, TInv, TimerTypeOK, ReadSoFar, Stored, NotAfter
<1>3. CASE ReadLow
  BY <1>3 DEF ReadLow, TInv, TimerTypeOK, ReadSoFar, Stored, NotAfter
<1>4. CASE ReadAgain /\ mtime.hi # high
  BY <1>4 DEF ReadAgain, TInv, TimerTypeOK, ReadSoFar, Stored, NotAfter
<1>5. CASE ReadAgain /\ mtime.hi = high
  <2>1. /\ now' = [hi |-> high, lo |-> low] /\ now' \in Clock
        /\ NotAfter(entry, now') /\ NotAfter(now', mtime)
    BY <1>5 DEF ReadAgain, TInv, TimerTypeOK, ReadSoFar, NotAfter
  <2>2. time' = Plus(now', QUANTUM) /\ time' \in Time
    BY <1>5, <2>1, PlusIsTime DEF ReadAgain
  <2> QED
    BY <1>5, <2>1, <2>2 DEF ReadAgain, TInv, TimerTypeOK, ReadSoFar, Stored
<1> QED
  BY <1>1, <1>2, <1>3, <1>4, <1>5

LEMMA StoreKeeps ==
  ASSUME ClockAssumption, TInv, StoreMask \/ StoreLow \/ StoreHigh
  PROVE  TInv'
<1> USE DEF ClockAssumption, Words, Time
<1>1. CASE StoreMask
  BY <1>1 DEF StoreMask, TInv, TimerTypeOK, ReadSoFar, Stored
<1>2. CASE StoreLow
  BY <1>2 DEF StoreLow, TInv, TimerTypeOK, ReadSoFar, Stored
<1>3. CASE StoreHigh
  BY <1>3 DEF StoreHigh, TInv, TimerTypeOK, ReadSoFar, Stored
<1> QED
  BY <1>1, <1>2, <1>3

LEMMA TimerInvariant == ClockAssumption => (TimerSpec => []TInv)
<1> SUFFICES ASSUME ClockAssumption PROVE TimerSpec => []TInv
  OBVIOUS
<1>1. TimerInit => TInv
  BY TimerInitial
<1>2. TInv /\ [TimerNext]_timerVars => TInv'
  <2>1. ASSUME TInv, UNCHANGED timerVars PROVE TInv'
    BY <2>1 DEF TInv, TimerTypeOK, ReadSoFar, Stored, timerVars
  <2> QED
    BY <2>1, TickKeeps, ReadKeeps, StoreKeeps DEF TimerNext
<1> QED
  BY <1>1, <1>2, PTL DEF TimerSpec

-----------------------------------------------------------------------------
(* The theorems.                                                           *)

\* mtime_get (cpu_intr.c:15-23): what it returns is a time the clock showed between the
\* call and the return, wherever the low word wraps, for every width of a word.
THEOREM ClockReadIsAtomic == ClockAssumption => (TimerSpec => []ReadInWindow)
<1> SUFFICES ASSUME ClockAssumption PROVE TimerSpec => []ReadInWindow
  OBVIOUS
<1>1. TInv => ReadInWindow
  BY DEF TInv, Stored, ReadInWindow
<1> QED
  BY <1>1, TimerInvariant, PTL

\* mtimecmp_set and timer_reset (cpu_intr.c:25-33): no interrupt while the compare
\* register is half written, and none before the process had its full quantum.
THEOREM QuantumIsWhole == ClockAssumption => (TimerSpec => []NeverEarly)
<1> SUFFICES ASSUME ClockAssumption PROVE TimerSpec => []NeverEarly
  OBVIOUS
<1>1. ASSUME TInv PROVE NeverEarly
  <2>1. pc \in {"store_low", "store_high"} => ~Expired
    BY <1>1 DEF TInv, TimerTypeOK, Stored, Expired, NotAfter, Clock, Time, Words, ClockAssumption
  <2>2. ASSUME armed, pc = "call", Expired PROVE NotAfter(Plus(entry, QUANTUM), mtime)
    <3>1. mtimecmp = Plus(now, QUANTUM) /\ NotAfter(entry, now)
      BY <1>1, <2>2 DEF TInv, Stored
    <3>2. NotAfter(Plus(entry, QUANTUM), Plus(now, QUANTUM))
      BY <1>1, <3>1, PlusMonotone DEF TInv, TimerTypeOK
    <3>3. /\ Plus(entry, QUANTUM) \in Time /\ Plus(now, QUANTUM) \in Time
          /\ mtime \in Time
      BY <1>1, PlusIsTime DEF TInv, TimerTypeOK, Clock, Time, Words, ClockAssumption
    <3> QED
      BY <2>2, <3>1, <3>2, <3>3, NotAfterTransitive DEF Expired
  <2> QED
    BY <2>1, <2>2 DEF NeverEarly
<1> QED
  BY <1>1, TimerInvariant, PTL
=============================================================================
