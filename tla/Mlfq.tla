-------------------------------- MODULE Mlfq --------------------------------
(***************************************************************************)
(* The multilevel feedback queue of egos-2000 with its clock: the          *)
(* accounting of mlfq_update_level, the two resets of mlfq_reset_level and *)
(* the choice of proc_yield.  Grass leaves the outcome of the accounting   *)
(* open; here it is computed, and system calls are reduced to who is       *)
(* blocked when proc_yield looks.                                          *)
(*                                                                         *)
(* Only differences of mtime are kept: a step of Yield says how long the   *)
(* current process ran.  The runtime fields are unsigned: they are kept    *)
(* modulo 2^64, here modulo Width.                                         *)
(***************************************************************************)
EXTENDS Integers

CONSTANTS MAX_NPROCESS,
          MLFQ_NLEVELS,
          MLFQ_RESET_PERIOD,
          LevelUnit,       \* MLFQ_LEVEL_RUNTIME(0), 100 ms
          MaxSlice,        \* QUANTUM plus the interrupt's latency
          ShellSlot,       \* where GPID_SHELL lives
          Width            \* 2^64: the number of values of a ulonglong

ASSUME MlfqAssumption ==
  /\ MAX_NPROCESS \in Nat /\ MAX_NPROCESS >= 3
  /\ MLFQ_NLEVELS \in Nat /\ MLFQ_NLEVELS >= 1
  /\ MLFQ_RESET_PERIOD \in Nat \ {0}
  /\ LevelUnit \in Nat \ {0} /\ MaxSlice \in Nat \ {0}
  /\ ShellSlot \in 2..(MAX_NPROCESS - 1)
  /\ Width \in Nat /\ Width > MLFQ_NLEVELS * LevelUnit /\ Width > MaxSlice

VARIABLES
  state,                  \* "unused", "blocked" or "runnable" (RUNNING included)
  mlfq_level,
  remainingt_onlevel,
  current_level_runtime,
  timed,                  \* time_last_scheduled # 0
  curr,                   \* curr_proc_idx
  since_reset,            \* mtime - MLFQ_last_reset_time, or Unset
  waited                  \* history: for how long a runnable process has not run

mlfqVars == <<state, mlfq_level, remainingt_onlevel, current_level_runtime, timed, curr,
              since_reset, waited>>

Procs == 1..(MAX_NPROCESS - 1)
ProcessSlot == 1                      \* GPID_PROCESS
Unset == -1                           \* MLFQ_last_reset_time = 0
Runnable == {k \in Procs : state[k] = "runnable"}

MLFQ_LEVEL_RUNTIME(x) == (x + 1) * LevelUnit

MlfqInit ==
  /\ state = [k \in Procs |-> IF k = ProcessSlot THEN "runnable" ELSE "unused"]
  /\ mlfq_level = [k \in Procs |-> 0]
  /\ remainingt_onlevel = [k \in Procs |-> IF k = ProcessSlot THEN LevelUnit ELSE 0]
  /\ current_level_runtime = [k \in Procs |-> 0]
  /\ timed = [k \in Procs |-> FALSE]
  /\ curr = ProcessSlot
  /\ since_reset = Unset
  /\ waited = [k \in Procs |-> 0]

-----------------------------------------------------------------------------
(* proc_alloc and proc_free, as far as the queue is concerned.             *)

FreeSlots == {k \in Procs : state[k] = "unused"}

\* Mutant: a new process keeps what is left of the quota of the slot's last process.
AllocStaleQuota ==
  /\ curr = ProcessSlot /\ FreeSlots # {}
  /\ LET k == CHOOSE k \in FreeSlots : \A j \in FreeSlots : k <= j
     IN  /\ state' = [state EXCEPT ![k] = "runnable"]
         /\ mlfq_level' = [mlfq_level EXCEPT ![k] = 0]
         /\ current_level_runtime' = [current_level_runtime EXCEPT ![k] = 0]
         /\ timed' = [timed EXCEPT ![k] = FALSE]
         /\ waited' = [waited EXCEPT ![k] = 0]
  /\ UNCHANGED <<remainingt_onlevel, curr, since_reset>>

Alloc ==
  /\ curr = ProcessSlot /\ FreeSlots # {}
  /\ LET k == CHOOSE k \in FreeSlots : \A j \in FreeSlots : k <= j
     IN  /\ state' = [state EXCEPT ![k] = "runnable"]
         /\ mlfq_level' = [mlfq_level EXCEPT ![k] = 0]
         /\ remainingt_onlevel' = [remainingt_onlevel EXCEPT ![k] = MLFQ_LEVEL_RUNTIME(0)]
         /\ current_level_runtime' = [current_level_runtime EXCEPT ![k] = 0]
         /\ timed' = [timed EXCEPT ![k] = FALSE]
         /\ waited' = [waited EXCEPT ![k] = 0]
  /\ UNCHANGED <<curr, since_reset>>

Free(k) ==
  /\ curr = ProcessSlot /\ k > ShellSlot /\ state[k] # "unused"
  /\ state' = [state EXCEPT ![k] = "unused"]
  /\ waited' = [waited EXCEPT ![k] = 0]
  /\ UNCHANGED <<mlfq_level, remainingt_onlevel, current_level_runtime, timed, curr, since_reset>>

-----------------------------------------------------------------------------
(* proc_yield.                                                             *)

\* mlfq_update_level: what is left of the quota after another dt; the test of the
\* code, remainingt_onlevel <= 0, is a test for 0.
Left(dt) == (remainingt_onlevel[curr] - dt) % Width
TimeOver(dt) == Left(dt) <= 0
\* Mutant: the lowest level is not the last.
NextLevelUncapped == mlfq_level[curr] + 1
NextLevel == IF mlfq_level[curr] < MLFQ_NLEVELS - 1 THEN mlfq_level[curr] + 1 ELSE mlfq_level[curr]

mlfq_update_level(dt) ==
  IF timed[curr]
  THEN IF TimeOver(dt)
       THEN [level |-> NextLevel, left |-> MLFQ_LEVEL_RUNTIME(NextLevel), used |-> 0]
       ELSE [level |-> mlfq_level[curr], left |-> Left(dt),
             used |-> (current_level_runtime[curr] + dt) % Width]
  ELSE [level |-> mlfq_level[curr], left |-> remainingt_onlevel[curr],
        used |-> current_level_runtime[curr]]

\* mlfq_reset_level: the shell when a key is waiting, everyone when the period is over.
SinceReset(dt) == IF since_reset = Unset THEN 0 ELSE since_reset + dt
PeriodOver(dt) == SinceReset(dt) >= MLFQ_RESET_PERIOD
mlfq_reset_level(lv, dt, key) ==
  [k \in Procs |->
     IF \/ key /\ k = ShellSlot /\ state[k] # "unused"
        \/ PeriodOver(dt) /\ state[k] # "unused"
     THEN 0 ELSE lv[k]]

\* The loop's choice among the candidates: the best level and, within it, the first
\* after the current process.
Distance(k) == (k - curr - 1) % MAX_NPROCESS
\* Mutant: ties go to the first slot of the table, not to the next one in the ring.
PickFirstSlot(lv, candidates) ==
  CHOOSE k \in candidates :
    \A j \in candidates : lv[k] < lv[j] \/ (lv[k] = lv[j] /\ k <= j)
Pick(lv, candidates) ==
  CHOOSE k \in candidates :
    \A j \in candidates : lv[k] < lv[j] \/ (lv[k] = lv[j] /\ Distance(k) <= Distance(j))

\* The current process has run for dt; it blocks or not; the processes in "woken"
\* complete a system call, the ones in "late" after the loop has passed them.
Yield(dt, blocks, woken, late, key) ==
  LET upd == mlfq_update_level(dt)
      lv == mlfq_reset_level([mlfq_level EXCEPT ![curr] = upd.level], dt, key)
      ready == (IF blocks THEN Runnable \ {curr} ELSE Runnable) \cup woken
      next == Pick(lv, ready)
  IN  /\ ready # {}
      /\ state' = [k \in Procs |-> IF state[k] = "unused" THEN "unused"
                                   ELSE IF k \in ready \cup late THEN "runnable" ELSE "blocked"]
      /\ mlfq_level' = lv
      /\ remainingt_onlevel' = [remainingt_onlevel EXCEPT ![curr] = upd.left]
      /\ current_level_runtime' = [current_level_runtime EXCEPT ![curr] = upd.used]
      /\ timed' = [timed EXCEPT ![next] = TRUE]
      /\ curr' = next
      /\ since_reset' = IF PeriodOver(dt) THEN 0 ELSE SinceReset(dt)
      /\ waited' = [k \in Procs |-> IF k \in Runnable \ {curr, next} THEN waited[k] + dt ELSE 0]

Asleep == {k \in Procs : state[k] = "blocked"}
AnyYield ==
  \E dt \in 1..MaxSlice, blocks, key \in BOOLEAN, woken \in SUBSET Asleep :
    \E late \in {{}} \cup {{k} : k \in Asleep \ woken} : Yield(dt, blocks, woken, late, key)

MlfqNext == Alloc \/ (\E k \in Procs : Free(k)) \/ AnyYield

MlfqSpec == MlfqInit /\ [][MlfqNext]_mlfqVars

-----------------------------------------------------------------------------
(* Properties.                                                             *)

\* Every variable keeps its type, the current process is runnable.
MlfqTypeOK ==
  /\ state \in [Procs -> {"unused", "blocked", "runnable"}]
  /\ mlfq_level \in [Procs -> 0..(MLFQ_NLEVELS - 1)]
  /\ remainingt_onlevel \in [Procs -> 0..(Width - 1)]
  /\ current_level_runtime \in [Procs -> 0..(Width - 1)]
  /\ timed \in [Procs -> BOOLEAN]
  /\ curr \in Runnable
  /\ since_reset \in {Unset} \cup 0..(MLFQ_RESET_PERIOD - 1)
  /\ waited \in [Procs -> Nat]

\* What a process used and what it has left add up to the quota of its level, or of a
\* lower one if it was reset since: no reset, demotion or reuse of the slot breaks the
\* books (process.c:146-158, 175, 200).
QuotaBooks ==
  \A k \in Procs : state[k] # "unused" =>
    \E l \in mlfq_level[k]..(MLFQ_NLEVELS - 1) :
      (remainingt_onlevel[k] + current_level_runtime[k]) % Width = MLFQ_LEVEL_RUNTIME(l)

\* A process that could run waits at most until the next reset (process.c:194) and then
\* for one round of the others, whatever the levels and whoever blocks and wakes.
BoundedWait ==
  \A k \in Procs : waited[k] < MLFQ_RESET_PERIOD + (MAX_NPROCESS - 2) * MaxSlice

\* What the comment of mlfq_update_level says (process.c:151, "time over for this
\* level"): above the lowest level, a process that has used up the quota of a level does
\* not stay on it.
QuotaEnforced ==
  \A k \in Procs :
    state[k] # "unused" /\ mlfq_level[k] < MLFQ_NLEVELS - 1 =>
      current_level_runtime[k] < MLFQ_LEVEL_RUNTIME(MLFQ_NLEVELS - 1)

=============================================================================
