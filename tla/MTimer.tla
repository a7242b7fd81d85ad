------------------------------- MODULE MTimer -------------------------------
(***************************************************************************)
(* The timer of egos-2000 (earth/cpu_intr.c).  The clock and its compare   *)
(* register are 64 bits wide and are read and written in two halves, by a  *)
(* 32-bit processor, while the clock runs on.  The quantum of the process  *)
(* that the kernel is about to run depends on both.                        *)
(*                                                                         *)
(* A time is its two words.  Between two accesses any time may pass: in    *)
(* the kernel, because the bus is slow; in proc_alloc and proc_free, which *)
(* also call mtime_get, because the timer may interrupt GPID_PROCESS.      *)
(***************************************************************************)
EXTENDS Integers

CONSTANTS Word,      \* 2^32: the number of values of a register
          QUANTUM,
          Never      \* what intr_init stores, 0x0FFFFFFFFFFFFFFF

Words == 0..(Word - 1)
Time == [hi : Words, lo : Words]

ClockAssumption ==
  /\ Word \in Nat /\ Word > 2
  /\ QUANTUM \in Words
  /\ Never \in Time

VARIABLES
  mtime, mtimecmp,   \* the registers
  pc,                \* what is done next: "call", "high", "low", "again", "mask",
                     \* "store_low", "store_high"
  high, low,         \* locals of mtime_get
  time,              \* argument of mtimecmp_set
  now,               \* history: what mtime_get returned last
  entry,             \* history: the clock when timer_reset was called last
  armed              \* history: timer_reset has been called since boot

timerVars == <<mtime, mtimecmp, pc, high, low, time, now, entry, armed>>

NotAfter(s, t) == s.hi < t.hi \/ (s.hi = t.hi /\ s.lo <= t.lo)

\* The sum of two ulonglongs, of which the second fits in a word.
Plus(t, n) ==
  IF t.lo + n < Word THEN [hi |-> t.hi, lo |-> t.lo + n]
                     ELSE [hi |-> (t.hi + 1) % Word, lo |-> t.lo + n - Word]

\* intr_init: mtimecmp_set(Never), from whatever the registers hold after reset.
TimerInit ==
  /\ mtime \in [hi : 0..(Word - 2), lo : Words] /\ mtimecmp \in Time
  /\ pc = "mask" /\ time = Never
  /\ high = 0 /\ low = 0
  /\ now = mtime /\ entry = mtime /\ armed = FALSE

\* The clock goes on.  Bound: the upper word stays below its maximum; the clock counts
\* microseconds and gets there after 500,000 years.
Tick ==
  /\ mtime' \in [hi : 0..(Word - 2), lo : Words]
  /\ NotAfter(mtime, mtime')
  /\ UNCHANGED <<mtimecmp, pc, high, low, time, now, entry, armed>>

\* proc_yield calls timer_reset for the process it has chosen.
timer_reset ==
  /\ pc = "call" /\ pc' = "high"
  /\ entry' = mtime
  /\ UNCHANGED <<mtime, mtimecmp, high, low, time, now, armed>>

ReadHigh ==
  /\ pc = "high" /\ pc' = "low"
  /\ high' = mtime.hi
  /\ UNCHANGED <<mtime, mtimecmp, low, time, now, entry, armed>>

ReadLow ==
  /\ pc = "low" /\ pc' = "again"
  /\ low' = mtime.lo
  /\ UNCHANGED <<mtime, mtimecmp, high, time, now, entry, armed>>

ReadAgain ==
  /\ pc = "again"
  /\ IF mtime.hi # high
     THEN pc' = "high" /\ UNCHANGED <<now, time, armed>>
     ELSE /\ now' = [hi |-> high, lo |-> low]
          /\ time' = Plus(now', QUANTUM)
          /\ pc' = "mask" /\ armed' = TRUE
  /\ UNCHANGED <<mtime, mtimecmp, high, low, entry>>

\* mtimecmp_set.
StoreMask ==
  /\ pc = "mask" /\ pc' = "store_low"
  /\ mtimecmp' = [mtimecmp EXCEPT !.hi = Word - 1]
  /\ UNCHANGED <<mtime, high, low, time, now, entry, armed>>

StoreLow ==
  /\ pc = "store_low" /\ pc' = "store_high"
  /\ mtimecmp' = [mtimecmp EXCEPT !.lo = time.lo]
  /\ UNCHANGED <<mtime, high, low, time, now, entry, armed>>

StoreHigh ==
  /\ pc = "store_high" /\ pc' = "call"
  /\ mtimecmp' = [mtimecmp EXCEPT !.hi = time.hi]
  /\ UNCHANGED <<mtime, high, low, time, now, entry, armed>>

TimerNext ==
  \/ Tick \/ timer_reset \/ ReadHigh \/ ReadLow \/ ReadAgain
  \/ StoreMask \/ StoreLow \/ StoreHigh

TimerSpec == TimerInit /\ [][TimerNext]_timerVars

-----------------------------------------------------------------------------
(* Properties.                                                             *)

\* The device raises the timer interrupt.
Expired == NotAfter(mtimecmp, mtime)

\* What mtime_get returns is a time the clock showed during the call, although the two
\* halves are read at different times and the low word may wrap in between.
ReadInWindow ==
  armed /\ pc \in {"mask", "store_low", "store_high"} =>
    NotAfter(entry, now) /\ NotAfter(now, mtime)

\* The timer never expires early: not on a half-written compare register, and not before
\* a full quantum has passed since the kernel asked for one.
NeverEarly ==
  /\ pc \in {"store_low", "store_high"} => ~Expired
  /\ armed /\ pc = "call" /\ Expired => NotAfter(Plus(entry, QUANTUM), mtime)

=============================================================================
