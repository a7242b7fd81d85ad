----------------------------- MODULE GrassProofs -----------------------------
(***************************************************************************)
(* Theorems about Grass, for every size of the process table, number of    *)
(* levels, set of pids and set of messages; the last is that Grass         *)
(* implements SyncIPC: every step of the kernel is one step of synchronous *)
(* message passing or is invisible to the callers.                         *)
(***************************************************************************)
EXTENDS GrassRefinement, WellFoundedInduction, TLAPS

-----------------------------------------------------------------------------
(* The inductive invariant behind the properties of Grass.                 *)

\* Pids name processes: no two slots share one, and none is from the future.
PidInv ==
  /\ \A j, k \in Slots : pid[j] = pid[k] /\ pid[j] # GPID_UNUSED => j = k
  /\ \A k \in Slots : pid[k] <= last_pid
  /\ \A k \in Slots : Live(k) => pid[k] # GPID_UNUSED

\* A process that is being killed is not GPID_PROCESS itself.
CallInv == call.op = "killing" => pid[call.arg] # GPID_PROCESS

\* A process the loop of proc_yield has still to visit.
Ahead(k) == \E n \in i..MAX_NPROCESS : Nth(n) = k

\* In the loop, every exchange that is possible, and every message that was handed
\* over, is completed by an iteration still to come; a handed-over message is the
\* one its sender is blocked on.
ScanInv ==
  kpc = "scan" =>
    /\ \A k \in Slots : status[k] # "RUNNING"
    /\ next_idx < MAX_NPROCESS => status[next_idx] \in {"READY", "RUNNABLE"}
    /\ \A s, r \in Scanned : Rendezvous(s, r) => r = curr /\ Ahead(s)
    /\ \A r \in Slots : Blocked(r) /\ Received(syscall, r) =>
         /\ r \in Scanned /\ Ahead(r)
         /\ \E s \in Scanned : /\ Sending(s, r)
                               /\ pid[s] = syscall[r].sender
                               /\ syscall[s].content = syscall[r].content

UserInv == NoMissedRendezvous /\ NoStrandedMessage /\ OneRunning

IInv == TypeOK /\ PidInv /\ CallInv /\ ScanInv /\ UserInv

Candidates == {"READY", "RUNNABLE"}
Started == {"READY", "RUNNING", "RUNNABLE", "PENDING_SYSCALL"}

\* In the loop: the best level is the candidate's; a message handed over to another than
\* the current process is the current one's; a visited process that is a better candidate
\* has just been woken, with the current process, by the last iteration.
SearchInv ==
  kpc = "scan" =>
    /\ next_idx < MAX_NPROCESS => lowest_level = mlfq_level[next_idx]
    /\ next_idx = MAX_NPROCESS => lowest_level = MLFQ_NLEVELS
    /\ \A r \in Slots : Blocked(r) /\ Received(syscall, r) /\ r # curr =>
         syscall[r].sender = pid[curr]
    /\ \A k \in Scanned :
         ~Ahead(k) /\ status[k] \in Candidates /\ mlfq_level[k] < lowest_level =>
           /\ i > MAX_NPROCESS /\ status[curr] = "RUNNABLE"
           /\ Received(syscall, curr) /\ syscall[curr].sender = pid[k] /\ k # curr

\* The process that GPID_PROCESS is loading waits for it, and has its pages in the end.
LoadInv ==
  /\ call.op \in {"loading", "loaded"} =>
       \A k \in Slots : pid[k] = call.arg => status[k] = "LOADING"
  /\ call.op = "loaded" => call.arg \in mapped

LifeInv == SearchInv /\ LoadInv /\ UnmappedOnlyWhileFreed /\ IdleOnlyWhenAllBlocked

-----------------------------------------------------------------------------
(* Facts about the operators.                                              *)

\* A loop over a nonempty set of slots stops at one of them, the smallest.
LEMMA FirstIsIn ==
  ASSUME NEW S \in SUBSET Nat, S # {}
  PROVE  First(S) \in S /\ \A j \in S : First(S) <= j
<1> DEFINE R == OpToRel(<, Nat)
<1>1. \E x \in S : \A y \in S : ~ (<<y, x>> \in R)
  <2>1. IsWellFoundedOn(R, Nat)
    BY NatLessThanWellFounded
  <2> HIDE DEF R
  <2> QED
    BY <2>1, WFMin
<1>2. PICK x \in S : \A y \in S : ~ (<<y, x>> \in R)
  BY <1>1
<1>3. ASSUME NEW y \in S, y < x PROVE <<y, x>> \in R
  BY <1>3 DEF OpToRel
<1> HIDE DEF R
<1>4. \A y \in S : ~(y < x)
  BY <1>2, <1>3, Zenon
<1>5. x \in Nat /\ S \subseteq Nat
  OBVIOUS
<1>6. \A y \in S : x <= y
  BY <1>4, <1>5
<1> QED
  BY <1>6 DEF First

\* The modulus in the loop of proc_yield only wraps around once.
LEMMA NthValue ==
  ASSUME curr \in Scanned, NEW n \in 1..MAX_NPROCESS
  PROVE  /\ Nth(n) = IF curr + n < MAX_NPROCESS THEN curr + n ELSE curr + n - MAX_NPROCESS
         /\ Nth(n) \in Scanned
BY GrassAssumption DEF Scanned, Nth

\* The loop meets every slot exactly once, and the current one last.
LEMMA NthCovers ==
  ASSUME curr \in Scanned
  PROVE  /\ \A k \in Scanned : \E n \in 1..MAX_NPROCESS : Nth(n) = k
         /\ \A m, n \in 1..MAX_NPROCESS : Nth(m) = Nth(n) => m = n
         /\ Nth(MAX_NPROCESS) = curr
<1>1. ASSUME NEW k \in Scanned PROVE \E n \in 1..MAX_NPROCESS : Nth(n) = k
  <2>1. CASE k > curr
    <3>1. k - curr \in 1..MAX_NPROCESS
      BY <2>1, GrassAssumption DEF Scanned
    <3>2. Nth(k - curr) = k
      BY <2>1, <3>1, NthValue, GrassAssumption DEF Scanned
    <3> QED BY <3>1, <3>2
  <2>2. CASE k <= curr
    <3>1. k - curr + MAX_NPROCESS \in 1..MAX_NPROCESS
      BY <2>2, GrassAssumption DEF Scanned
    <3>2. Nth(k - curr + MAX_NPROCESS) = k
      BY <2>2, <3>1, NthValue, GrassAssumption DEF Scanned
    <3> QED BY <3>1, <3>2
  <2> QED BY <2>1, <2>2, GrassAssumption DEF Scanned
<1>2. ASSUME NEW m \in 1..MAX_NPROCESS, NEW n \in 1..MAX_NPROCESS, Nth(m) = Nth(n)
      PROVE  m = n
  BY <1>2, NthValue, GrassAssumption DEF Scanned
<1>3. Nth(MAX_NPROCESS) = curr
  BY NthValue, GrassAssumption DEF Scanned
<1> QED BY <1>1, <1>2, <1>3

-----------------------------------------------------------------------------
(* Type correctness.                                                       *)

\* proc_set_status returns a table of statuses.
LEMMA SetStatusType ==
  ASSUME NEW st \in [Slots -> Statuses], NEW p, NEW s \in Statuses
  PROVE  proc_set_status(st, p, s) \in [Slots -> Statuses]
BY DEF proc_set_status

\* What proc_try_recv leaves is well typed: it wakes processes and clears the system call.
LEMMA TryRecvType ==
  ASSUME NEW st \in [Slots -> Statuses], NEW sc, NEW k \in Slots
  PROVE  TrySyscallStatus(st, sc, k) \in [Slots -> Statuses]
<1>1. "RUNNABLE" \in Statuses
  BY DEF Statuses
<1> QED
  BY <1>1, SetStatusType DEF TrySyscallStatus, proc_try_recv

\* What proc_try_send leaves is well typed: it only writes the receiver's system call.
LEMMA TrySendType ==
  ASSUME NEW st, NEW sc \in [Slots -> SyscallRecord], NEW k \in Slots,
         pid \in [Slots -> Pids]
  PROVE  TrySyscallTable(st, sc, k) \in [Slots -> SyscallRecord]
<1>1. ASSUME NEW d \in Slots
      PROVE  [sc[d] EXCEPT !.status = "DONE", !.sender = pid[k], !.content = sc[k].content]
               \in SyscallRecord
  BY DEF SyscallRecord
<1> QED
  BY <1>1 DEF TrySyscallTable, proc_try_send

\* What proc_try_recv copies to a user is a message.
LEMMA CopyToUserType ==
  ASSUME NEW sc \in [Slots -> SyscallRecord], NEW us \in [Slots -> Inbox], NEW k \in Slots
  PROVE  TrySyscallUser(sc, us, k) \in [Slots -> Inbox]
<1>1. [sender |-> sc[k].sender, content |-> sc[k].content] \in Inbox
  BY DEF SyscallRecord, Inbox
<1> QED
  BY <1>1 DEF TrySyscallUser, CopyToUser

\* proc_yield up to its loop, applied to well-typed tables.
LEMMA YieldType ==
  ASSUME TypeOK, NEW st \in [Slots -> Statuses], NEW sc \in [Slots -> SyscallRecord],
         NEW us \in [Slots -> Inbox], proc_yield(st, sc, us)
  PROVE  TypeOK'
<1> USE GrassAssumption
<1> DEFINE st1 == IF st[curr] = "RUNNING" THEN proc_set_status(st, pid[curr], "RUNNABLE") ELSE st
<1>1. st1 \in [Slots -> Statuses]
  BY SetStatusType DEF Statuses
<1>2. mlfq_level' \in [Slots -> 0..(MLFQ_NLEVELS - 1)]
  <2> DEFINE Levels == 0..(MLFQ_NLEVELS - 1)
  <2>1. PICK expired, key, period \in BOOLEAN :
          mlfq_level' = mlfq_reset_level(st1,
                          mlfq_update_level(mlfq_level, expired /\ st1[curr] # "UNUSED"),
                          key, period)
    BY Zenon DEF proc_yield
  <2> HIDE DEF st1
  <2>2. \A e : mlfq_update_level(mlfq_level, e) \in [Slots -> Levels]
    BY DEF mlfq_update_level, TypeOK, Scanned, Slots
  <2>3. \A lv \in [Slots -> Levels] :
          mlfq_reset_level(st1, lv, key, period) \in [Slots -> Levels]
    BY DEF mlfq_reset_level
  <2> QED BY <2>1, <2>2, <2>3
<1>3. status' = st1 /\ syscall' = sc /\ usr' = us
  BY DEF proc_yield
<1>4. kpc' = "scan" /\ i' = 1 /\ lowest_level' = MLFQ_NLEVELS /\ next_idx' = MAX_NPROCESS
  BY DEF proc_yield
<1>5. UNCHANGED <<pid, terminated, curr, last_pid, mapped, call>>
  BY DEF proc_yield
<1> HIDE DEF st1
<1> QED
  BY <1>1, <1>2, <1>3, <1>4, <1>5 DEF TypeOK, Slots

\* A system call, fatal or not, leaves well-typed tables.
LEMMA EcallType ==
  ASSUME TypeOK, NEW req \in SyscallRecord, Ecall(req)
  PROVE  TypeOK'
<1> USE GrassAssumption
<1> DEFINE sc == [syscall EXCEPT ![curr] = req]
           st == proc_set_status(status, pid[curr], "PENDING_SYSCALL")
           us == [usr EXCEPT ![curr] = NoMsg]
<1>1. curr \in Slots
  BY DEF TypeOK, Slots, Scanned
<1>2. sc \in [Slots -> SyscallRecord] /\ us \in [Slots -> Inbox] /\ pid \in [Slots -> Pids]
  <2>1. NoMsg \in Inbox
    BY DEF NoMsg, Inbox, GPID_UNUSED, Pids
  <2> QED BY <1>1, <2>1 DEF TypeOK
<1>3. st \in [Slots -> Statuses]
  BY SetStatusType DEF TypeOK, Statuses
<1>4. CASE SyscallFatal(st, sc, curr) # "none"
  <2>1. SyscallFatal(st, sc, curr) \in Fatals
    BY <1>4 DEF SyscallFatal, Fatals
  <2>2. Panic(SyscallFatal(st, sc, curr))
    BY <1>4 DEF Ecall
  <2> HIDE DEF st, sc, us
  <2> QED
    BY <2>1, <2>2 DEF Panic, TypeOK, procVars, loopVars
<1>5. CASE SyscallFatal(st, sc, curr) = "none"
  <2>1. proc_yield(TrySyscallStatus(st, sc, curr), TrySyscallTable(st, sc, curr),
                   TrySyscallUser(sc, us, curr))
    BY <1>5 DEF Ecall
  <2> HIDE DEF st, sc, us
  <2>2. /\ TrySyscallStatus(st, sc, curr) \in [Slots -> Statuses]
        /\ TrySyscallTable(st, sc, curr) \in [Slots -> SyscallRecord]
        /\ TrySyscallUser(sc, us, curr) \in [Slots -> Inbox]
    BY <1>1, <1>2, <1>3, TryRecvType, TrySendType, CopyToUserType
  <2> QED
    BY <2>1, <2>2, YieldType
<1> QED
  BY <1>4, <1>5

\* An iteration of the loop of proc_yield leaves well-typed tables.
LEMMA ScanType ==
  ASSUME TypeOK, ScanStep
  PROVE  TypeOK'
<1> USE GrassAssumption
<1> DEFINE j == Nth(i)
           tries == status[j] = "PENDING_SYSCALL"
           st == IF tries THEN TrySyscallStatus(status, syscall, j) ELSE status
           sc == IF tries THEN TrySyscallTable(status, syscall, j) ELSE syscall
           us == IF tries THEN TrySyscallUser(syscall, usr, j) ELSE usr
           better == st[j] \in {"READY", "RUNNABLE"} /\ mlfq_level[j] < lowest_level
<1>1. j \in Scanned /\ j \in Slots
  <2>1. i \in 1..MAX_NPROCESS /\ curr \in Scanned
    BY DEF ScanStep, TypeOK
  <2>2. Nth(i) \in Scanned
    BY ONLY <2>1, NthValue
  <2> QED BY ONLY <2>2, GrassAssumption DEF Scanned, Slots
<1>2. st \in [Slots -> Statuses] /\ sc \in [Slots -> SyscallRecord] /\ us \in [Slots -> Inbox]
  <2> HIDE DEF j
  <2> QED BY <1>1, TryRecvType, TrySendType, CopyToUserType DEF TypeOK
<1>3. CASE tries /\ SyscallFatal(status, syscall, j) # "none"
  <2>1. SyscallFatal(status, syscall, j) \in Fatals
    BY <1>3 DEF SyscallFatal, Fatals
  <2>2. Panic(SyscallFatal(status, syscall, j))
    BY <1>3 DEF ScanStep
  <2> QED
    BY <2>1, <2>2 DEF Panic, TypeOK, procVars, loopVars
<1>4. CASE ~(tries /\ SyscallFatal(status, syscall, j) # "none")
  <2>1. /\ status' = st /\ syscall' = sc /\ usr' = us
        /\ lowest_level' = IF better THEN mlfq_level[j] ELSE lowest_level
        /\ next_idx' = IF better THEN j ELSE next_idx
        /\ i' = i + 1 /\ i <= MAX_NPROCESS
        /\ UNCHANGED <<pid, mlfq_level, terminated, curr, last_pid, mapped, call, kpc>>
    BY <1>4 DEF ScanStep
  <2> HIDE DEF j, st, sc, us, better
  <2>2. lowest_level' \in 0..MLFQ_NLEVELS /\ next_idx' \in Slots /\ i' \in 1..(MAX_NPROCESS + 1)
    BY <2>1, <1>1 DEF TypeOK
  <2> QED
    BY <2>1, <2>2, <1>2 DEF TypeOK
<1> QED
  BY <1>3, <1>4

\* The type invariant is preserved by every step.
LEMMA TypeStep ==
  ASSUME TypeOK, [Next]_vars
  PROVE  TypeOK'
<1> USE GrassAssumption
<1>1. CASE Send
  <2>1. PICK p \in 1..MaxPid, c \in Contents : Ecall(SendTo(p, c))
    BY <1>1 DEF Send
  <2>2. SendTo(p, c) \in SyscallRecord
    BY DEF SendTo, SyscallRecord, Pids, GPID_UNUSED
  <2> QED BY <2>1, <2>2, EcallType
<1>2. CASE Recv
  <2>1. PICK p \in 1..MaxPid \cup {GPID_ALL} : Ecall(RecvFrom(p))
    BY <1>2 DEF Recv
  <2>2. RecvFrom(p) \in SyscallRecord
    BY DEF RecvFrom, SyscallRecord, Pids, GPID_UNUSED
  <2> QED BY <2>1, <2>2, EcallType
<1>3. CASE Timer
  BY <1>3, YieldType DEF Timer, TypeOK
<1>4. CASE Fault
  BY <1>4 DEF Fault, Panic, TypeOK, Fatals, procVars, loopVars
<1>5. CASE ScanStep
  BY <1>5, ScanType
<1>6. CASE Dispatch
  <2>1. CASE next_idx < MAX_NPROCESS
    <3>1. status' \in [Slots -> Statuses]
      BY <1>6, <2>1, SetStatusType DEF Dispatch, TypeOK, Statuses
    <3> QED
      BY <1>6, <2>1, <3>1 DEF Dispatch, TypeOK, Slots, Scanned
  <2>2. CASE ~(next_idx < MAX_NPROCESS)
    BY <1>6, <2>2 DEF Dispatch, Panic, TypeOK, Fatals, procVars, loopVars
  <2> QED BY <2>1, <2>2
<1>7. CASE proc_alloc
  <2>1. CASE FreeSlots = {}
    BY <1>7, <2>1 DEF proc_alloc, Panic, TypeOK, Fatals, procVars, loopVars
  <2>2. CASE FreeSlots # {}
    <3> DEFINE k == First(FreeSlots)
    <3>1. k \in Slots
      BY <2>2, FirstIsIn DEF FreeSlots, Slots
    <3>2. last_pid + 1 \in Pids /\ last_pid + 1 \in 1..MaxPid
      BY <1>7 DEF proc_alloc, TypeOK, Pids
    <3>3. call' \in Calls
      BY <1>7, <2>2, <3>2 DEF proc_alloc, Calls, GPID_PROCESS, TypeOK
    <3>4. /\ pid' = [pid EXCEPT ![k] = last_pid + 1]
          /\ status' = [status EXCEPT ![k] = "LOADING"]
          /\ mlfq_level' = [mlfq_level EXCEPT ![k] = 0]
          /\ terminated' = [terminated EXCEPT ![k] = FALSE]
          /\ last_pid' = last_pid + 1
          /\ UNCHANGED <<syscall, usr, curr, mapped, kpc, i, lowest_level, next_idx>>
      BY <1>7, <2>2 DEF proc_alloc, loopVars
    <3> HIDE DEF k
    <3>5. terminated' \in [Slots -> BOOLEAN]
      BY <3>1, <3>4 DEF TypeOK
    <3> QED
      BY <3>1, <3>2, <3>3, <3>4, <3>5 DEF TypeOK, Statuses
  <2> QED BY <2>1, <2>2
<1>8. CASE elf_load
  <2>1. call.op = "loading" /\ call.arg \in Pids
    BY <1>8 DEF elf_load, InProcess, TypeOK, Calls, Pids, GPID_PROCESS
  <2>2. call' \in Calls
    BY <1>8, <2>1 DEF elf_load, TypeOK, Calls
  <2>3. NoMsg \in Inbox
    BY DEF NoMsg, Inbox, GPID_UNUSED, Pids
  <2> QED
    BY <1>8, <2>1, <2>2, <2>3 DEF elf_load, TypeOK, loopVars
<1>9. CASE proc_set_ready
  <2>1. status' \in [Slots -> Statuses]
    BY <1>9, SetStatusType DEF proc_set_ready, TypeOK, Statuses
  <2> QED
    BY <1>9, <2>1 DEF proc_set_ready, TypeOK, Calls, NoCall, loopVars
<1>10. ASSUME NEW p \in UserPids, proc_free(p) PROVE TypeOK'
  <2>1. First(UserSlots(0)) \in Slots
    BY <1>10, FirstIsIn DEF proc_free, UserSlots, Slots
  <2>2. terminated' \in [Slots -> BOOLEAN]
    BY <1>10, <2>1 DEF proc_free, TypeOK
  <2>3. p \in (GPID_PROCESS + 1)..MaxPid
    BY DEF UserPids, UserSlots, UserAlive, TypeOK, Slots, Pids, GPID_PROCESS
  <2>4. call' \in Calls
    BY <1>10, <2>3 DEF proc_free, Calls
  <2> QED
    BY <1>10, <2>2, <2>4 DEF proc_free, TypeOK, loopVars
<1>11. CASE ProcFreeEnd
  <2>1. status' \in [Slots -> Statuses]
    BY <1>11, SetStatusType DEF ProcFreeEnd, TypeOK, Statuses
  <2> QED
    BY <1>11, <2>1 DEF ProcFreeEnd, TypeOK, Calls, NoCall, loopVars
<1>12. CASE KillAll
  <2>1. call' \in Calls
    BY <1>12 DEF KillAll, Calls, Slots
  <2> QED
    BY <1>12, <2>1 DEF KillAll, TypeOK, procVars, loopVars
<1>13. CASE KillAllUnmap
  <2>1. UserSlots(call.arg) \in SUBSET Nat /\ UserSlots(call.arg) # {}
    BY <1>13, SMTT(30) DEF KillAllUnmap, InProcess, UserSlots, TypeOK, Calls, Slots
  <2>2. First(UserSlots(call.arg)) \in Scanned
    <3>1. call.arg \in Slots
      BY <1>13 DEF KillAllUnmap, InProcess, TypeOK, Calls
    <3>2. First(UserSlots(call.arg)) \in UserSlots(call.arg)
      BY <2>1, FirstIsIn
    <3> QED
      BY <3>1, <3>2 DEF UserSlots, Slots, Scanned
  <2>3. call' \in Calls
    BY <1>13, <2>2 DEF KillAllUnmap, Calls
  <2>4. terminated' \in [Slots -> BOOLEAN]
    BY <1>13, <2>2 DEF KillAllUnmap, TypeOK, Slots, Scanned
  <2> QED
    BY <1>13, <2>3, <2>4 DEF KillAllUnmap, TypeOK, loopVars
<1>14. CASE KillAllMark
  <2>1. call.arg \in Scanned
    BY <1>14 DEF KillAllMark, InProcess, TypeOK, Calls
  <2>2. call' \in Calls
    BY <1>14, <2>1 DEF KillAllMark, Calls, Slots, Scanned
  <2> QED
    BY <1>14, <2>1, <2>2 DEF KillAllMark, TypeOK, Statuses, Slots, Scanned, loopVars
<1>15. CASE KillAllEnd
  BY <1>15 DEF KillAllEnd, TypeOK, Calls, NoCall, procVars, loopVars
<1>16. CASE Halted \/ UNCHANGED vars
  BY <1>16 DEF Halted, TypeOK, vars, procVars, loopVars
<1> QED
  BY <1>1, <1>2, <1>3, <1>4, <1>5, <1>6, <1>7, <1>8, <1>9, <1>10, <1>11, <1>12,
     <1>13, <1>14, <1>15, <1>16 DEF Next

-----------------------------------------------------------------------------
(* The rendezvous invariant.                                               *)

\* With unique pids, proc_set_status changes the one slot of the pid.
LEMMA SetStatusOne ==
  ASSUME TypeOK, PidInv, NEW st \in [Slots -> Statuses], NEW k \in Scanned,
         pid[k] # GPID_UNUSED, NEW s
  PROVE  proc_set_status(st, pid[k], s) = [st EXCEPT ![k] = s]
<1>1. \A j \in Slots : (j < MAX_NPROCESS /\ pid[j] = pid[k]) <=> j = k
  BY GrassAssumption DEF PidInv, TypeOK, Slots, Scanned
<1> QED
  BY <1>1 DEF proc_set_status, Slots, Scanned

\* With unique pids, proc_try_send acts on the slot of the receiver.
LEMMA ReceiverIsUnique ==
  ASSUME PidInv, NEW st, NEW p, p # GPID_UNUSED, NEW d \in Receivers(st, p)
  PROVE  First(Receivers(st, p)) = d
<1>1. Receivers(st, p) = {d}
  <2>1. Scanned \subseteq Slots
    BY GrassAssumption DEF Scanned, Slots
  <2> QED BY <2>1 DEF Receivers, PidInv
<1>2. d \in Int
  BY GrassAssumption DEF Receivers, Scanned
<1> QED
  BY <1>1, <1>2 DEF First

\* Entering the loop of proc_yield: everything is still ahead.
LEMMA EnterScan ==
  ASSUME IInv, TypeOK', kpc' = "scan", i' = 1, next_idx' = MAX_NPROCESS,
         UNCHANGED <<pid, curr, last_pid, call>>,
         \A k \in Slots : status'[k] # "UNUSED" => status[k] # "UNUSED",
         \A k \in Slots : status'[k] # "RUNNING",
         \A s, r \in Scanned : Rendezvous(s, r)' => r = curr,
         \A r \in Slots : Blocked(r)' /\ Received(syscall, r)' =>
           /\ r \in Scanned
           /\ \E s \in Scanned : /\ Sending(s, r)'
                                 /\ pid[s] = syscall'[r].sender
                                 /\ syscall'[s].content = syscall'[r].content
  PROVE  IInv'
<1>1. PidInv'
  BY DEF IInv, PidInv, Live
<1>2. CallInv'
  BY DEF IInv, CallInv
<1>3. UserInv'
  BY DEF UserInv, NoMissedRendezvous, NoStrandedMessage, OneRunning
<1>4. \A k \in Scanned : Ahead(k)'
  <2>1. \A n \in 1..MAX_NPROCESS : Nth(n)' = Nth(n)
    BY DEF Nth
  <2> QED
    BY <2>1, NthCovers DEF IInv, TypeOK, Ahead
<1>5. ScanInv'
  <2>1. \A s, r \in Scanned : Rendezvous(s, r)' => r = curr' /\ Ahead(s)'
    BY <1>4
  <2>2. ~(next_idx' < MAX_NPROCESS)
    BY GrassAssumption
  <2> QED BY <1>4, <2>1, <2>2 DEF ScanInv
<1> QED
  BY <1>1, <1>2, <1>3, <1>5 DEF IInv

\* What the handlers of a system call leave before proc_yield, in user mode.
LEMMA UserFacts ==
  ASSUME IInv, kpc = "user"
  PROVE  /\ curr \in Scanned /\ curr \in Slots /\ Scanned \subseteq Slots
         /\ status \in [Slots -> Statuses] /\ syscall \in [Slots -> SyscallRecord]
         /\ status[curr] = "RUNNING" /\ pid[curr] # GPID_UNUSED
         /\ \A k \in Slots : status[k] = "RUNNING" => k = curr
         /\ \A s, r \in Scanned : ~Rendezvous(s, r)
         /\ \A r \in Slots : Blocked(r) => ~Received(syscall, r)
<1>1. curr \in Scanned /\ curr \in Slots /\ Scanned \subseteq Slots
  BY GrassAssumption DEF IInv, TypeOK, Scanned, Slots
<1>2. status[curr] = "RUNNING"
  BY <1>1 DEF IInv, UserInv, OneRunning
<1>3. pid[curr] # GPID_UNUSED
  BY <1>1, <1>2 DEF IInv, PidInv, Live
<1> QED
  BY <1>1, <1>2, <1>3 DEF IInv, TypeOK, UserInv, OneRunning, NoMissedRendezvous, NoStrandedMessage

\* sys_recv keeps the invariant: the receiver blocks, and what it may receive is ahead.
LEMMA RecvInv ==
  ASSUME IInv, TypeOK', NEW p \in 1..MaxPid \cup {GPID_ALL}, Ecall(RecvFrom(p))
  PROVE  IInv'
<1> DEFINE sc == [syscall EXCEPT ![curr] = RecvFrom(p)]
           st == proc_set_status(status, pid[curr], "PENDING_SYSCALL")
           us == [usr EXCEPT ![curr] = NoMsg]
<1>1. kpc = "user"
  BY DEF Ecall
<1>2. st = [status EXCEPT ![curr] = "PENDING_SYSCALL"]
  BY <1>1, UserFacts, SetStatusOne DEF IInv
<1>3. sc[curr] = RecvFrom(p) /\ sc[curr].type = "RECV" /\ sc[curr].status = "PENDING"
  BY <1>1, UserFacts DEF RecvFrom
<1>4. SyscallFatal(st, sc, curr) = "none"
  <2> HIDE DEF st, sc
  <2> QED BY <1>3 DEF SyscallFatal
<1>5. proc_yield(TrySyscallStatus(st, sc, curr), TrySyscallTable(st, sc, curr),
                 TrySyscallUser(sc, us, curr))
  BY <1>4 DEF Ecall
<1>6. TrySyscallStatus(st, sc, curr) = st /\ TrySyscallTable(st, sc, curr) = sc
  <2> HIDE DEF st, sc
  <2> QED BY <1>3 DEF TrySyscallStatus, TrySyscallTable, proc_try_recv, Received
<1>7. st[curr] # "RUNNING"
  BY <1>1, <1>2, UserFacts
<1>8. /\ status' = [status EXCEPT ![curr] = "PENDING_SYSCALL"]
      /\ syscall' = [syscall EXCEPT ![curr] = RecvFrom(p)]
      /\ kpc' = "scan" /\ i' = 1 /\ next_idx' = MAX_NPROCESS
      /\ UNCHANGED <<pid, curr, last_pid, call>>
  BY <1>2, <1>5, <1>6, <1>7 DEF proc_yield
<1> HIDE DEF st, sc, us
<1>9. syscall'[curr].type = "RECV" /\ syscall'[curr].status = "PENDING"
  BY <1>1, <1>8, UserFacts DEF RecvFrom
<1>10. \A k \in Slots \ {curr} : status'[k] = status[k] /\ syscall'[k] = syscall[k]
  BY <1>1, <1>8, UserFacts
<1>11. ASSUME NEW s \in Scanned, NEW r \in Scanned, Rendezvous(s, r)' PROVE r = curr
  <2>1. s # curr
    BY <1>11, <1>9 DEF Rendezvous, Sending
  <2>2. r # curr => Rendezvous(s, r)
    BY <1>11, <2>1, <1>1, <1>8, <1>10, UserFacts DEF Rendezvous, Sending, Blocked, Accepts
  <2> QED BY <2>2, <1>1, UserFacts
<1>12. \A r \in Slots : Blocked(r)' => ~Received(syscall, r)'
  BY <1>1, <1>9, <1>10, UserFacts DEF Blocked, Received
<1>13. \A k \in Slots : status'[k] # "RUNNING"
  BY <1>1, <1>8, <1>10, UserFacts
<1>14. \A k \in Slots : status'[k] # "UNUSED" => status[k] # "UNUSED"
  BY <1>1, <1>10, UserFacts
<1> QED
  BY <1>8, <1>11, <1>12, <1>13, <1>14, EnterScan

\* A FATAL leaves the process table alone.
LEMMA PanicInv ==
  ASSUME IInv, TypeOK', NEW why \in Fatals, Panic(why)
  PROVE  IInv'
<1>1. kpc' # "scan" /\ kpc' # "user"
  BY DEF Panic, Fatals
<1>2. UNCHANGED <<pid, status, last_pid, call>>
  BY DEF Panic, procVars
<1> QED
  BY <1>1, <1>2 DEF IInv, PidInv, Live, CallInv, ScanInv, UserInv, NoMissedRendezvous,
                    NoStrandedMessage, OneRunning

\* sys_send keeps the invariant: what is handed over at once is ahead in the loop.
LEMMA SendInv ==
  ASSUME IInv, TypeOK', NEW p \in 1..MaxPid, NEW c \in Contents, Ecall(SendTo(p, c))
  PROVE  IInv'
<1> DEFINE sc == [syscall EXCEPT ![curr] = SendTo(p, c)]
           st == proc_set_status(status, pid[curr], "PENDING_SYSCALL")
           us == [usr EXCEPT ![curr] = NoMsg]
           d == First(Receivers(st, p))
           sc2 == TrySyscallTable(st, sc, curr)
<1>1. kpc = "user"
  BY DEF Ecall
<1>2. st = [status EXCEPT ![curr] = "PENDING_SYSCALL"]
  BY <1>1, UserFacts, SetStatusOne DEF IInv
<1>3. /\ sc[curr].type = "SEND" /\ sc[curr].receiver = p /\ sc[curr].content = c
      /\ \A k \in Slots \ {curr} : sc[k] = syscall[k]
      /\ sc \in [Slots -> SyscallRecord]
  <2>1. SendTo(p, c) \in SyscallRecord
    BY GrassAssumption DEF SendTo, SyscallRecord, Pids, GPID_UNUSED
  <2> QED BY <2>1, <1>1, UserFacts DEF SendTo
<1>4. CASE SyscallFatal(st, sc, curr) # "none"
  <2>1. SyscallFatal(st, sc, curr) \in Fatals
    BY <1>4 DEF SyscallFatal, Fatals
  <2>2. Panic(SyscallFatal(st, sc, curr))
    BY <1>4 DEF Ecall
  <2> HIDE DEF st, sc, us
  <2> QED BY <2>1, <2>2, PanicInv
<1>5. CASE SyscallFatal(st, sc, curr) = "none"
  <2>1. proc_yield(TrySyscallStatus(st, sc, curr), sc2, TrySyscallUser(sc, us, curr))
    BY <1>5 DEF Ecall
  <2> HIDE DEF st, sc, us
  <2>2. Receivers(st, p) # {}
    BY <1>5, <1>3 DEF SyscallFatal
  <2>3. TrySyscallStatus(st, sc, curr) = st
    BY <1>3 DEF TrySyscallStatus
  <2>4. st[curr] # "RUNNING"
    BY <1>1, <1>2, UserFacts
  <2>5. /\ status' = st /\ syscall' = sc2
        /\ kpc' = "scan" /\ i' = 1 /\ next_idx' = MAX_NPROCESS
        /\ UNCHANGED <<pid, curr, last_pid, call>>
    BY <2>1, <2>3, <2>4 DEF proc_yield
  <2>6. d \in Receivers(st, p) /\ d \in Scanned /\ d \in Slots
    <3>1. Receivers(st, p) \in SUBSET Nat
      BY GrassAssumption DEF Receivers, Scanned
    <3>2. d \in Receivers(st, p)
      BY <2>2, <3>1, FirstIsIn
    <3> QED BY <3>2, <1>1, UserFacts DEF Receivers
  <2>7. \A r \in Slots : pid[r] = p => r = d
    BY <2>6, <1>1, UserFacts DEF Receivers, IInv, PidInv, GPID_UNUSED
  <2> HIDE DEF d
  <2>8. sc2 = IF Accepts(sc, d, curr)
              THEN [sc EXCEPT ![d] = [@ EXCEPT !.status = "DONE", !.sender = pid[curr],
                                               !.content = c]]
              ELSE sc
    BY <2>2, <1>3 DEF d, TrySyscallTable, proc_try_send
  <2> HIDE DEF sc2
  <2>9. /\ \A k \in Slots \ {d} : syscall'[k] = sc[k]
        /\ syscall'[d].type = sc[d].type
        /\ d = curr => syscall'[d] = sc[d]
        /\ Accepts(sc, d, curr) => /\ syscall'[d].status = "DONE"
                                   /\ syscall'[d].sender = pid[curr]
                                   /\ syscall'[d].content = c
        /\ ~Accepts(sc, d, curr) => syscall'[d] = sc[d]
    BY <2>5, <2>6, <2>8, <1>3 DEF Accepts, SyscallRecord
  <2>10. \A k \in Slots \ {curr} : status'[k] = status[k]
    BY <2>5, <1>1, <1>2, UserFacts
  <2>11. status'[curr] = "PENDING_SYSCALL"
    BY <2>5, <1>1, <1>2, UserFacts
  <2>12. ASSUME NEW s \in Scanned, NEW r \in Scanned, Rendezvous(s, r)' PROVE FALSE
    <3>1. /\ syscall'[r].type = "RECV" /\ syscall'[r].status = "PENDING"
          /\ syscall'[r].sender \in {GPID_ALL, pid[s]}
          /\ r # curr /\ pid[r] = syscall'[s].receiver
      <4>1. r # curr
        BY <2>12, <2>9, <1>3, <1>1, UserFacts DEF Rendezvous, Accepts
      <4> QED BY <4>1, <2>12, <2>5 DEF Rendezvous, Sending, Accepts
    <3>2. CASE s = curr
      <4>1. syscall'[s].receiver = p
        BY <3>2, <2>9, <1>3, <1>1, UserFacts
      <4>2. r = d
        BY <4>1, <3>1, <2>7, <1>1, UserFacts
      <4>3. ~Accepts(sc, d, curr)
        BY <4>2, <3>1, <2>9
      <4>4. syscall'[d] = sc[d]
        BY <4>3, <2>9
      <4> QED BY <4>2, <4>3, <4>4, <3>1, <3>2, <2>5 DEF Accepts
    <3>3. CASE s # curr
      <4>1. r # d \/ ~Accepts(sc, d, curr)
        BY <3>1, <2>9
      <4>2. syscall'[r] = syscall[r]
        BY <4>1, <3>1, <2>9, <1>3, <1>1, UserFacts
      <4>3. syscall'[s].type = "SEND"
        BY <2>12 DEF Rendezvous, Sending
      <4>4. s # d \/ ~Accepts(sc, d, curr)
        BY <4>3, <2>9 DEF Accepts
      <4>5. syscall'[s] = syscall[s]
        BY <4>4, <3>3, <2>9, <1>3, <1>1, UserFacts
      <4>6. Rendezvous(s, r)
        BY <2>12, <3>1, <3>3, <4>2, <4>5, <2>5, <2>10, <1>1, UserFacts
           DEF Rendezvous, Sending, Blocked, Accepts
      <4> QED BY <4>6, <1>1, UserFacts
    <3> QED BY <3>2, <3>3
  <2>13. ASSUME NEW r \in Slots, Blocked(r)', Received(syscall, r)'
         PROVE  /\ r \in Scanned
                /\ \E s \in Scanned : /\ Sending(s, r)'
                                      /\ pid[s] = syscall'[r].sender
                                      /\ syscall'[s].content = syscall'[r].content
    <3>1. r # curr
      BY <2>13, <2>9, <1>3, <1>1, UserFacts DEF Received
    <3>2. r = d /\ Accepts(sc, d, curr)
      <4>1. CASE syscall'[r] = sc[r]
        BY <4>1, <3>1, <2>13, <2>10, <1>3, <1>1, UserFacts DEF Blocked, Received
      <4> QED BY <4>1, <2>9
    <3>3. d # curr
      BY <3>1, <3>2
    <3>4. syscall'[curr] = sc[curr]
      BY <3>3, <2>9, <1>1, UserFacts
    <3>5. Sending(curr, r)' /\ pid[curr] = syscall'[r].sender
          /\ syscall'[curr].content = syscall'[r].content
      BY <3>2, <3>4, <2>5, <2>6, <2>9, <2>11, <1>3 DEF Sending, Blocked, Receivers
    <3>6. r \in Scanned /\ curr \in Scanned
      BY <3>2, <2>6, <1>1, UserFacts
    <3> QED BY <3>5, <3>6, <2>5 DEF Sending, Blocked
  <2>14. \A k \in Slots : status'[k] # "RUNNING"
    BY <2>10, <2>11, <1>1, UserFacts
  <2>15. \A k \in Slots : status'[k] # "UNUSED" => status[k] # "UNUSED"
    BY <2>10, <1>1, UserFacts
  <2> QED
    BY <2>5, <2>12, <2>13, <2>14, <2>15, EnterScan
<1> QED
  BY <1>4, <1>5

\* The timer interrupt keeps the invariant: it blocks nobody.
LEMMA TimerInv ==
  ASSUME IInv, TypeOK', Timer
  PROVE  IInv'
<1>1. kpc = "user"
  BY DEF Timer
<1>2. status' = [status EXCEPT ![curr] = "RUNNABLE"]
  <2>1. proc_set_status(status, pid[curr], "RUNNABLE") = [status EXCEPT ![curr] = "RUNNABLE"]
    BY <1>1, UserFacts, SetStatusOne DEF IInv
  <2> QED BY <1>1, <2>1, UserFacts DEF Timer, proc_yield
<1>3. /\ syscall' = syscall /\ kpc' = "scan" /\ i' = 1 /\ next_idx' = MAX_NPROCESS
      /\ UNCHANGED <<pid, curr, last_pid, call>>
  BY DEF Timer, proc_yield
<1>4. ASSUME NEW k \in Slots
      PROVE  /\ Blocked(k)' => Blocked(k)
             /\ status'[k] # "RUNNING"
             /\ status'[k] # "UNUSED" => status[k] # "UNUSED"
  BY <1>1, <1>2, UserFacts DEF Blocked
<1>5. ASSUME NEW s \in Scanned, NEW r \in Scanned, Rendezvous(s, r)' PROVE FALSE
  <2>1. Rendezvous(s, r)
    BY <1>1, <1>3, <1>4, <1>5, UserFacts DEF Rendezvous, Sending, Accepts
  <2> QED BY <2>1, <1>1, UserFacts
<1>6. \A r \in Slots : Blocked(r)' => ~Received(syscall, r)'
  BY <1>1, <1>3, <1>4, UserFacts DEF Received
<1> QED
  BY <1>3, <1>4, <1>5, <1>6, EnterScan

\* In the loop, the slot of iteration i is the only one that stops being ahead.
LEMMA AheadStep ==
  ASSUME TypeOK, kpc = "scan", i <= MAX_NPROCESS, i' = i + 1, curr' = curr
  PROVE  /\ Nth(i) \in Scanned
         /\ \A k \in Scanned : Ahead(k) /\ k # Nth(i) => Ahead(k)'
         /\ Nth(i) # curr => Ahead(curr)'
<1> USE GrassAssumption
<1>1. i \in 1..MAX_NPROCESS /\ curr \in Scanned
  BY DEF TypeOK
<1>2. \A n \in 1..MAX_NPROCESS : Nth(n)' = Nth(n)
  BY DEF Nth
<1>3. ASSUME NEW k \in Scanned, Ahead(k), k # Nth(i) PROVE Ahead(k)'
  <2>1. PICK n \in i..MAX_NPROCESS : Nth(n) = k
    BY <1>3 DEF Ahead
  <2>2. n \in i'..MAX_NPROCESS /\ n \in 1..MAX_NPROCESS
    BY <1>1, <1>3, <2>1
  <2> QED BY <1>2, <2>1, <2>2 DEF Ahead
<1>4. Nth(MAX_NPROCESS) = curr
  BY <1>1, NthCovers
<1>5. Ahead(curr)
  BY <1>1, <1>4 DEF Ahead
<1> QED
  BY <1>1, <1>3, <1>5, NthValue

\* An iteration that ends no process, keeps the candidates, and leaves every
\* possible exchange and every handed-over message ahead, keeps the invariant.
LEMMA KeepScan ==
  ASSUME IInv, TypeOK', kpc = "scan", kpc' = "scan", UNCHANGED <<pid, curr, last_pid, call>>,
         \A k \in Slots : status'[k] = status[k] \/ (Live(k) /\ status'[k] = "RUNNABLE"),
         next_idx' < MAX_NPROCESS => next_idx' = next_idx \/ status'[next_idx'] \in {"READY", "RUNNABLE"},
         \A s, r \in Scanned : Rendezvous(s, r)' => r = curr /\ Ahead(s)',
         \A r \in Slots : Blocked(r)' /\ Received(syscall, r)' =>
           /\ r \in Scanned /\ Ahead(r)'
           /\ \E s \in Scanned : /\ Sending(s, r)'
                                 /\ pid[s] = syscall'[r].sender
                                 /\ syscall'[s].content = syscall'[r].content
  PROVE  IInv'
<1>1. PidInv'
  BY DEF IInv, PidInv, Live
<1>2. CallInv'
  BY DEF IInv, CallInv
<1>3. UserInv'
  BY DEF UserInv, NoMissedRendezvous, NoStrandedMessage, OneRunning
<1>4. \A k \in Slots : status'[k] # "RUNNING"
  BY DEF IInv, ScanInv
<1>5. next_idx' < MAX_NPROCESS => status'[next_idx'] \in {"READY", "RUNNABLE"}
  <2>1. next_idx \in Slots
    BY DEF IInv, TypeOK
  <2>2. next_idx < MAX_NPROCESS => status[next_idx] \in {"READY", "RUNNABLE"}
    BY DEF IInv, ScanInv
  <2> QED BY <2>1, <2>2
<1>6. ScanInv'
  <2>1. \A s, r \in Scanned : Rendezvous(s, r)' => r = curr' /\ Ahead(s)'
    OBVIOUS
  <2> QED BY <1>4, <1>5, <2>1 DEF ScanInv
<1> QED
  BY <1>1, <1>2, <1>3, <1>6 DEF IInv

\* What the invariant says in the middle of the loop.
LEMMA ScanFacts ==
  ASSUME IInv, kpc = "scan"
  PROVE  /\ curr \in Scanned /\ Scanned \subseteq Slots
         /\ status \in [Slots -> Statuses] /\ syscall \in [Slots -> SyscallRecord]
         /\ pid \in [Slots -> Pids]
         /\ \A k \in Slots : Blocked(k) => pid[k] # GPID_UNUSED
         /\ \A s, r \in Scanned : Rendezvous(s, r) => r = curr /\ Ahead(s)
         /\ \A r \in Slots : Blocked(r) /\ Received(syscall, r) =>
              /\ r \in Scanned /\ Ahead(r)
              /\ \E s \in Scanned : /\ Sending(s, r)
                                    /\ pid[s] = syscall[r].sender
                                    /\ syscall[s].content = syscall[r].content
<1>1. curr \in Scanned /\ Scanned \subseteq Slots
  BY GrassAssumption DEF IInv, TypeOK, Scanned, Slots
<1>2. \A k \in Slots : Blocked(k) => pid[k] # GPID_UNUSED
  BY DEF IInv, PidInv, Live, Blocked
<1> QED
  BY <1>1, <1>2 DEF IInv, TypeOK, ScanInv

\* An iteration that meets a process with nothing to complete.
LEMMA ScanIdle ==
  ASSUME IInv, TypeOK', kpc = "scan", kpc' = "scan", i <= MAX_NPROCESS, i' = i + 1,
         UNCHANGED <<pid, status, syscall, curr, last_pid, call>>,
         next_idx' < MAX_NPROCESS => next_idx' = next_idx \/ status'[next_idx'] \in {"READY", "RUNNABLE"},
         ~Blocked(Nth(i)) \/ (syscall[Nth(i)].type = "RECV" /\ syscall[Nth(i)].status = "PENDING")
  PROVE  IInv'
<1>1. ASSUME NEW s \in Scanned, NEW r \in Scanned, Rendezvous(s, r)' PROVE r = curr /\ Ahead(s)'
  <2>1. Rendezvous(s, r)
    BY <1>1 DEF Rendezvous, Sending, Blocked, Accepts
  <2>2. s # Nth(i)
    BY <2>1 DEF Rendezvous, Sending
  <2> QED BY <2>1, <2>2, ScanFacts, AheadStep DEF IInv
<1>2. ASSUME NEW r \in Slots, Blocked(r)', Received(syscall, r)'
      PROVE  /\ r \in Scanned /\ Ahead(r)'
             /\ \E s \in Scanned : /\ Sending(s, r)'
                                   /\ pid[s] = syscall'[r].sender
                                   /\ syscall'[s].content = syscall'[r].content
  <2>1. Blocked(r) /\ Received(syscall, r)
    BY <1>2 DEF Blocked, Received
  <2>2. r # Nth(i)
    BY <2>1 DEF Received
  <2>3. r \in Scanned /\ Ahead(r)'
    BY <2>1, <2>2, ScanFacts, AheadStep DEF IInv
  <2>4. PICK s \in Scanned : /\ Sending(s, r)
                             /\ pid[s] = syscall[r].sender
                             /\ syscall[s].content = syscall[r].content
    BY <2>1, ScanFacts
  <2>5. Sending(s, r)'
    BY <2>4 DEF Sending, Blocked
  <2> QED BY <2>3, <2>4, <2>5
<1> QED
  BY <1>1, <1>2, KeepScan

\* An iteration that meets a blocked sender: if its receiver waits for it, the
\* receiver is the current process, which the loop visits last.
LEMMA ScanSend ==
  ASSUME IInv, TypeOK', kpc = "scan", kpc' = "scan", i <= MAX_NPROCESS, i' = i + 1,
         UNCHANGED <<pid, status, curr, last_pid, call>>,
         next_idx' < MAX_NPROCESS => next_idx' = next_idx \/ status'[next_idx'] \in {"READY", "RUNNABLE"},
         Blocked(Nth(i)), syscall[Nth(i)].type = "SEND",
         Receivers(status, syscall[Nth(i)].receiver) # {},
         syscall' = proc_try_send(status, syscall, Nth(i))
  PROVE  IInv'
<1> DEFINE j == Nth(i)
           p == syscall[j].receiver
           d == First(Receivers(status, p))
<1>1. j \in Scanned /\ j \in Slots /\ Blocked(j) /\ syscall[j].type = "SEND"
  BY AheadStep, ScanFacts DEF IInv
<1>2. d \in Receivers(status, p) /\ d \in Scanned /\ d \in Slots /\ pid[d] = p /\ Live(d)
  <2>1. Receivers(status, p) \in SUBSET Nat
    BY GrassAssumption DEF Receivers, Scanned
  <2>2. d \in Receivers(status, p)
    BY <2>1, FirstIsIn
  <2> QED BY <2>2, ScanFacts DEF Receivers, Live
<1>3. \A r \in Slots : pid[r] = p => r = d
  BY <1>2 DEF IInv, PidInv
<1>4. syscall' = IF Accepts(syscall, d, j)
                 THEN [syscall EXCEPT ![d] = [@ EXCEPT !.status = "DONE", !.sender = pid[j],
                                                       !.content = syscall[j].content]]
                 ELSE syscall
  BY DEF proc_try_send
<1> HIDE DEF d, p, j
<1>5. /\ \A k \in Slots \ {d} : syscall'[k] = syscall[k]
      /\ syscall'[d].type = syscall[d].type
      /\ Accepts(syscall, d, j) => /\ syscall'[d].status = "DONE"
                                   /\ syscall'[d].sender = pid[j]
                                   /\ syscall'[d].content = syscall[j].content
                                   /\ syscall[d].type = "RECV"
      /\ ~Accepts(syscall, d, j) => syscall'[d] = syscall[d]
  BY <1>2, <1>4, ScanFacts DEF Accepts, SyscallRecord
<1>6. syscall'[j] = syscall[j]
  BY <1>1, <1>5
<1>7. ASSUME NEW s \in Scanned, NEW r \in Scanned, Rendezvous(s, r)' PROVE r = curr /\ Ahead(s)'
  <2>1. /\ syscall'[r].type = "RECV" /\ syscall'[r].status = "PENDING"
        /\ syscall'[r].sender \in {GPID_ALL, pid[s]}
        /\ Blocked(r) /\ Blocked(s) /\ syscall'[s].type = "SEND" /\ syscall'[s].receiver = pid[r]
    BY <1>7 DEF Rendezvous, Sending, Blocked, Accepts
  <2>2. syscall'[r] = syscall[r] /\ syscall'[s] = syscall[s]
    BY <2>1, <1>5, ScanFacts
  <2>3. Rendezvous(s, r)
    BY <2>1, <2>2 DEF Rendezvous, Sending, Accepts
  <2>4. s # j
    <3>1. SUFFICES ASSUME s = j PROVE FALSE
      OBVIOUS
    <3>2. pid[r] = p
      BY <2>1, <1>6, <3>1 DEF p
    <3>3. r = d
      BY <3>2, <1>3, ScanFacts
    <3>4. Accepts(syscall, d, j)
      BY <2>3, <3>1, <3>3 DEF Rendezvous
    <3> QED BY <3>3, <3>4, <2>1, <1>5
  <2> QED BY <2>3, <2>4, ScanFacts, AheadStep DEF IInv, j
<1>8. ASSUME NEW r \in Slots, Blocked(r)', Received(syscall, r)'
      PROVE  /\ r \in Scanned /\ Ahead(r)'
             /\ \E s \in Scanned : /\ Sending(s, r)'
                                   /\ pid[s] = syscall'[r].sender
                                   /\ syscall'[s].content = syscall'[r].content
  <2>1. Blocked(r)
    BY <1>8 DEF Blocked
  <2>2. CASE syscall'[r] = syscall[r]
    <3>1. Received(syscall, r)
      BY <1>8, <2>2 DEF Received
    <3>2. r # j
      BY <3>1, <1>1 DEF Received
    <3>3. r \in Scanned /\ Ahead(r)'
      BY <2>1, <3>1, <3>2, ScanFacts, AheadStep DEF IInv, j
    <3>4. PICK s \in Scanned : /\ Sending(s, r)
                               /\ pid[s] = syscall[r].sender
                               /\ syscall[s].content = syscall[r].content
      BY <2>1, <3>1, ScanFacts
    <3>5. syscall'[s] = syscall[s]
      BY <3>4, <1>5, ScanFacts DEF Sending
    <3>6. Sending(s, r)'
      BY <3>4, <3>5 DEF Sending, Blocked
    <3> QED BY <2>2, <3>3, <3>4, <3>5, <3>6
  <2>3. CASE syscall'[r] # syscall[r]
    <3>1. r = d /\ Accepts(syscall, d, j)
      BY <2>3, <1>5
    <3>2. Rendezvous(j, r)
      BY <3>1, <2>1, <1>1, <1>2 DEF Rendezvous, Sending, p
    <3>3. r = curr
      BY <3>1, <3>2, <1>1, <1>2, ScanFacts
    <3>4. j # curr
      BY <3>1, <3>3, <1>1, <1>5
    <3>5. Ahead(curr)'
      BY <3>4, AheadStep DEF IInv, j
    <3>6. Ahead(r)'
      BY <3>3, <3>5 DEF Ahead, Nth
    <3>7. \E s \in Scanned : /\ Sending(s, r)'
                             /\ pid[s] = syscall'[r].sender
                             /\ syscall'[s].content = syscall'[r].content
      <4>1. /\ status'[j] = "PENDING_SYSCALL" /\ syscall'[j].type = "SEND"
            /\ syscall'[j].receiver = pid'[r]
            /\ pid[j] = syscall'[r].sender /\ syscall'[j].content = syscall'[r].content
        BY <1>1, <1>2, <1>5, <1>6, <3>1 DEF Blocked, p
      <4> QED BY <4>1, <1>1 DEF Sending, Blocked
    <3> QED BY <3>1, <3>6, <3>7, <1>2
  <2> QED BY <2>2, <2>3
<1> QED
  BY <1>7, <1>8, KeepScan

\* An iteration that meets a receiver whose message was handed over: it and its
\* sender, which no other receiver holds a message of, become RUNNABLE.
LEMMA ScanRecv ==
  ASSUME IInv, TypeOK', kpc = "scan", kpc' = "scan", i <= MAX_NPROCESS, i' = i + 1,
         UNCHANGED <<pid, syscall, curr, last_pid, call>>,
         next_idx' < MAX_NPROCESS => next_idx' = next_idx \/ status'[next_idx'] \in {"READY", "RUNNABLE"},
         Blocked(Nth(i)), Received(syscall, Nth(i)),
         status' = proc_try_recv(status, syscall, Nth(i))
  PROVE  /\ IInv'
         /\ \E s \in Scanned \ {Nth(i)} :
              /\ Sending(s, Nth(i))
              /\ pid[s] = syscall[Nth(i)].sender
              /\ syscall[s].content = syscall[Nth(i)].content
              /\ status' = [status EXCEPT ![Nth(i)] = "RUNNABLE", ![s] = "RUNNABLE"]
<1> DEFINE j == Nth(i)
<1>1. j \in Scanned /\ j \in Slots /\ Blocked(j) /\ Received(syscall, j) /\ pid[j] # GPID_UNUSED
  BY AheadStep, ScanFacts DEF IInv
<1>2. PICK s0 \in Scanned : /\ Sending(s0, j)
                            /\ pid[s0] = syscall[j].sender
                            /\ syscall[s0].content = syscall[j].content
  <2> HIDE DEF j
  <2> QED BY <1>1, ScanFacts
<1>3. status' = [status EXCEPT ![j] = "RUNNABLE", ![s0] = "RUNNABLE"]
  <2>1. status' = proc_set_status(proc_set_status(status, pid[j], "RUNNABLE"), pid[s0], "RUNNABLE")
    BY <1>1, <1>2 DEF proc_try_recv
  <2> HIDE DEF j
  <2>2. pid[s0] # GPID_UNUSED
    BY <1>2, ScanFacts DEF Sending
  <2>3. proc_set_status(status, pid[j], "RUNNABLE") = [status EXCEPT ![j] = "RUNNABLE"]
    <3>1. status \in [Slots -> Statuses] /\ TypeOK /\ PidInv
      BY DEF IInv, TypeOK
    <3> QED BY <1>1, <3>1, SetStatusOne
  <2>4. [status EXCEPT ![j] = "RUNNABLE"] \in [Slots -> Statuses]
    BY <1>1, ScanFacts DEF Statuses
  <2>5. proc_set_status([status EXCEPT ![j] = "RUNNABLE"], pid[s0], "RUNNABLE")
          = [[status EXCEPT ![j] = "RUNNABLE"] EXCEPT ![s0] = "RUNNABLE"]
    BY <2>2, <2>4, <1>2, SetStatusOne, ZenonT(30) DEF IInv
  <2> QED BY <2>1, <2>3, <2>5
<1>4. j # s0
  BY <1>1, <1>2 DEF Sending, Received
<1> HIDE DEF j
<1>5. /\ status'[j] = "RUNNABLE" /\ status'[s0] = "RUNNABLE"
      /\ \A k \in Slots \ {j, s0} : status'[k] = status[k]
  BY <1>1, <1>3, ScanFacts
<1>6. Live(j) /\ Live(s0)
  BY <1>1, <1>2 DEF Live, Blocked, Sending
<1>7. ASSUME NEW s \in Scanned, NEW r \in Scanned, Rendezvous(s, r)' PROVE r = curr /\ Ahead(s)'
  <2>1. Blocked(s) /\ Blocked(r) /\ s # j
    BY <1>5, <1>7, ScanFacts DEF Rendezvous, Sending, Blocked
  <2>2. Rendezvous(s, r)
    BY <1>7, <2>1 DEF Rendezvous, Sending, Accepts
  <2> QED BY <2>1, <2>2, ScanFacts, AheadStep DEF IInv, j
<1>8. ASSUME NEW r \in Slots, Blocked(r)', Received(syscall, r)'
      PROVE  /\ r \in Scanned /\ Ahead(r)'
             /\ \E s \in Scanned : /\ Sending(s, r)'
                                   /\ pid[s] = syscall'[r].sender
                                   /\ syscall'[s].content = syscall'[r].content
  <2>1. Blocked(r) /\ Received(syscall, r) /\ r # j
    BY <1>5, <1>8, ScanFacts DEF Blocked, Received
  <2>2. r \in Scanned /\ Ahead(r)'
    BY <2>1, ScanFacts, AheadStep DEF IInv, j
  <2>3. PICK s \in Scanned : /\ Sending(s, r)
                             /\ pid[s] = syscall[r].sender
                             /\ syscall[s].content = syscall[r].content
    BY <2>1, ScanFacts
  <2>4. s # s0
    <3>1. s = s0 => pid[r] = pid[j]
      BY <1>2, <2>3 DEF Sending
    <3> QED BY <3>1, <2>1, <1>1 DEF IInv, PidInv
  <2>5. s # j
    BY <2>3, <1>1 DEF Sending, Received
  <2>6. Sending(s, r)'
    BY <2>3, <2>4, <2>5, <1>5, ScanFacts DEF Sending, Blocked
  <2> QED BY <2>2, <2>3, <2>6
<1>9. \A k \in Slots : status'[k] = status[k] \/ (Live(k) /\ status'[k] = "RUNNABLE")
  BY <1>5, <1>6
<1>10. IInv'
  BY <1>7, <1>8, <1>9, KeepScan
<1> QED
  BY <1>2, <1>3, <1>4, <1>10 DEF j

\* Every iteration of the loop keeps the invariant, whatever process it meets.
LEMMA ScanStepInv ==
  ASSUME IInv, TypeOK', ScanStep
  PROVE  IInv'
<1> DEFINE j == Nth(i)
           tries == status[j] = "PENDING_SYSCALL"
           fatal == SyscallFatal(status, syscall, j)
<1>1. kpc = "scan" /\ i <= MAX_NPROCESS
  BY DEF ScanStep
<1>2. CASE tries /\ fatal # "none"
  <2>1. fatal \in Fatals
    BY <1>2 DEF SyscallFatal, Fatals
  <2>2. Panic(fatal)
    BY <1>2 DEF ScanStep
  <2> HIDE DEF fatal
  <2> QED BY <2>1, <2>2, PanicInv
<1>3. CASE ~(tries /\ fatal # "none")
  <2>1. /\ status' = IF tries THEN TrySyscallStatus(status, syscall, j) ELSE status
        /\ syscall' = IF tries THEN TrySyscallTable(status, syscall, j) ELSE syscall
        /\ next_idx' = next_idx \/ (next_idx' = j /\ status'[j] \in {"READY", "RUNNABLE"})
        /\ i' = i + 1 /\ kpc' = "scan"
        /\ UNCHANGED <<pid, curr, last_pid, call>>
    BY <1>1, <1>3, Zenon DEF ScanStep
  <2>2. next_idx' < MAX_NPROCESS => next_idx' = next_idx \/ status'[next_idx'] \in {"READY", "RUNNABLE"}
    BY <2>1
  <2>3. CASE ~tries
    <3>1. ~Blocked(Nth(i)) /\ status' = status /\ syscall' = syscall
      BY <2>1, <2>3 DEF Blocked
    <3> HIDE DEF tries, j, fatal
    <3> QED BY <1>1, <2>1, <2>2, <3>1, ScanIdle
  <2>4. CASE tries /\ syscall[j].type = "SEND"
    <3>1. Receivers(status, syscall[j].receiver) # {}
      BY <1>3, <2>4 DEF SyscallFatal
    <3>2. status' = status /\ syscall' = proc_try_send(status, syscall, j)
      BY <2>1, <2>4 DEF TrySyscallStatus, TrySyscallTable
    <3>3. Blocked(Nth(i)) /\ syscall[Nth(i)].type = "SEND"
      BY <2>4 DEF Blocked
    <3> QED BY <1>1, <2>1, <2>2, <3>1, <3>2, <3>3, ScanSend
  <2>5. CASE tries /\ syscall[j].type = "RECV"
    <3>1. status' = proc_try_recv(status, syscall, j) /\ syscall' = syscall
      BY <2>1, <2>5 DEF TrySyscallStatus, TrySyscallTable
    <3>2. Blocked(Nth(i)) /\ syscall[Nth(i)].type = "RECV"
      BY <2>5 DEF Blocked
    <3>3. CASE Received(syscall, j)
      BY <1>1, <2>1, <2>2, <3>1, <3>2, <3>3, ScanRecv
    <3>4. CASE ~Received(syscall, j)
      <4>1. status' = status
        BY <3>1, <3>4 DEF proc_try_recv
      <4>2. j \in Slots /\ syscall[j] \in SyscallRecord
        BY <1>1, <2>1, AheadStep, ScanFacts DEF IInv
      <4>3. syscall[Nth(i)].status = "PENDING"
        BY <3>2, <3>4, <4>2 DEF Received, SyscallRecord
      <4> QED BY <1>1, <2>1, <2>2, <3>1, <3>2, <4>1, <4>3, ScanIdle
    <3> QED BY <3>3, <3>4
  <2>6. tries => syscall[j].type \in {"SEND", "RECV"}
    BY <1>3 DEF SyscallFatal
  <2> QED BY <2>3, <2>4, <2>5, <2>6
<1> QED
  BY <1>2, <1>3

\* Leaving the loop: nothing is ahead any more.
LEMMA DispatchInv ==
  ASSUME IInv, TypeOK', Dispatch
  PROVE  IInv'
<1>1. kpc = "scan" /\ i > MAX_NPROCESS
  BY DEF Dispatch
<1>2. CASE next_idx < MAX_NPROCESS
  <2>1. next_idx \in Scanned /\ next_idx \in Slots
    BY <1>2, GrassAssumption DEF IInv, TypeOK, Slots, Scanned
  <2>2. status[next_idx] \in {"READY", "RUNNABLE"} /\ pid[next_idx] # GPID_UNUSED
    BY <1>1, <1>2, <2>1 DEF IInv, ScanInv, PidInv, Live
  <2>3. status' = [status EXCEPT ![next_idx] = "RUNNING"]
    <3>1. status \in [Slots -> Statuses] /\ TypeOK /\ PidInv
      BY DEF IInv, TypeOK
    <3>2. proc_set_status(status, pid[next_idx], "RUNNING") = [status EXCEPT ![next_idx] = "RUNNING"]
      BY <2>1, <2>2, <3>1, SetStatusOne
    <3> QED BY <1>2, <3>2 DEF Dispatch
  <2>4. /\ kpc' = "user" /\ curr' = next_idx /\ syscall' = syscall
        /\ UNCHANGED <<pid, last_pid, call>>
    BY <1>2 DEF Dispatch
  <2>5. \A k : ~Ahead(k)
    BY <1>1, GrassAssumption DEF IInv, TypeOK, Ahead
  <2>6. /\ status'[next_idx] = "RUNNING"
        /\ \A k \in Slots \ {next_idx} : status'[k] = status[k] /\ status[k] # "RUNNING"
    BY <1>1, <2>1, <2>3, ScanFacts DEF IInv, ScanInv
  <2>7. PidInv'
    BY <2>2, <2>4, <2>6 DEF IInv, PidInv, Live
  <2>8. \A k \in Slots : Blocked(k)' => Blocked(k)
    BY <2>6 DEF Blocked
  <2>9. NoMissedRendezvous'
    <3>1. ASSUME NEW s \in Scanned, NEW r \in Scanned, Rendezvous(s, r)' PROVE FALSE
      <4>1. Rendezvous(s, r)
        BY <1>1, <2>4, <2>8, <3>1, ScanFacts DEF Rendezvous, Sending, Accepts
      <4> QED BY <1>1, <2>5, <4>1, ScanFacts
    <3> QED BY <3>1 DEF NoMissedRendezvous
  <2>10. NoStrandedMessage'
    BY <1>1, <2>4, <2>5, <2>8, ScanFacts DEF NoStrandedMessage, Received
  <2>11. OneRunning'
    BY <2>1, <2>4, <2>6 DEF OneRunning
  <2>12. CallInv' /\ ScanInv'
    BY <2>4 DEF IInv, CallInv, ScanInv
  <2> QED
    BY <2>7, <2>9, <2>10, <2>11, <2>12 DEF IInv, UserInv
<1>3. CASE ~(next_idx < MAX_NPROCESS)
  BY <1>3, PanicInv DEF Dispatch, Fatals
<1> QED
  BY <1>2, <1>3

\* A step of GPID_PROCESS in the grass interface blocks nobody, and runs nobody.
LEMMA KeepUser ==
  ASSUME IInv, TypeOK', kpc = "user", kpc' = "user", UNCHANGED <<curr, syscall>>,
         PidInv', CallInv',
         \A k \in Slots : status'[k] = "RUNNING" <=> k = curr,
         \A k \in Slots : Blocked(k)' => Blocked(k) /\ pid'[k] = pid[k]
  PROVE  IInv'
<1>1. ASSUME NEW s \in Scanned, NEW r \in Scanned, Rendezvous(s, r)' PROVE FALSE
  <2>1. Rendezvous(s, r)
    BY <1>1, UserFacts DEF Rendezvous, Sending, Accepts
  <2> QED BY <2>1, UserFacts
<1>2. \A r \in Slots : Blocked(r)' => ~Received(syscall, r)'
  BY UserFacts DEF Received
<1>3. UserInv'
  BY <1>1, <1>2 DEF UserInv, NoMissedRendezvous, NoStrandedMessage, OneRunning
<1> QED
  BY <1>3 DEF IInv, ScanInv

\* proc_alloc keeps the invariant: its pid is new, and the slot's old system call is dead.
LEMMA AllocInv ==
  ASSUME IInv, TypeOK', proc_alloc
  PROVE  IInv'
<1>1. CASE FreeSlots = {}
  BY <1>1, PanicInv DEF proc_alloc, Fatals
<1>2. CASE FreeSlots # {}
  <2> DEFINE k0 == First(FreeSlots)
  <2>1. k0 \in Slots /\ status[k0] = "UNUSED"
    BY <1>2, FirstIsIn DEF FreeSlots, Slots
  <2>2. /\ pid' = [pid EXCEPT ![k0] = last_pid + 1]
        /\ status' = [status EXCEPT ![k0] = "LOADING"]
        /\ last_pid' = last_pid + 1
        /\ call' = [op |-> "loading", arg |-> last_pid + 1]
        /\ kpc = "user" /\ UNCHANGED <<kpc, curr, syscall>>
    BY <1>2 DEF proc_alloc, InProcess
  <2> HIDE DEF k0
  <2>3. last_pid \in Nat /\ pid \in [Slots -> Nat]
    BY GrassAssumption DEF IInv, TypeOK, Pids
  <2>4. /\ pid'[k0] = last_pid + 1 /\ \A k \in Slots \ {k0} : pid'[k] = pid[k]
        /\ status'[k0] = "LOADING" /\ \A k \in Slots \ {k0} : status'[k] = status[k]
    BY <2>1, <2>2, UserFacts DEF IInv, TypeOK
  <2>5. PidInv'
    <3>1. \A k \in Slots : pid[k] <= last_pid
      BY DEF IInv, PidInv
    <3>2. \A j, k \in Slots : pid'[j] = pid'[k] /\ pid'[j] # GPID_UNUSED => j = k
      BY <2>3, <2>4, <3>1 DEF IInv, PidInv
    <3>3. \A k \in Slots : pid'[k] <= last_pid'
      BY <2>2, <2>3, <2>4, <3>1
    <3>4. \A k \in Slots : Live(k)' => pid'[k] # GPID_UNUSED
      BY <2>3, <2>4 DEF IInv, PidInv, Live, GPID_UNUSED
    <3> QED BY <3>2, <3>3, <3>4 DEF PidInv
  <2>6. CallInv'
    BY <2>2 DEF CallInv
  <2>7. \A k \in Slots : status'[k] = "RUNNING" <=> k = curr
    BY <2>1, <2>2, <2>4, UserFacts
  <2>8. \A k \in Slots : Blocked(k)' => Blocked(k) /\ pid'[k] = pid[k]
    BY <2>4 DEF Blocked
  <2> QED
    BY <2>2, <2>5, <2>6, <2>7, <2>8, KeepUser
<1> QED
  BY <1>1, <1>2

\* proc_set_ready and the ends of proc_free change one process, never GPID_PROCESS.
LEMMA SetOther ==
  ASSUME IInv, TypeOK', kpc = "user", UNCHANGED <<kpc, curr, syscall, pid, last_pid>>,
         NEW p \in Nat, p # pid[curr], NEW s \in {"READY", "UNUSED"},
         p # GPID_UNUSED, call'.op \in {"none", "killall"},
         \/ status' = proc_set_status(status, p, s)
         \/ s = "UNUSED" /\ \E k0 \in Slots : pid[k0] = p /\ status' = [status EXCEPT ![k0] = s]
  PROVE  IInv'
<1>1. \A k \in Slots : status'[k] = status[k] \/ (status'[k] = s /\ pid[k] = p)
  <2>1. CASE status' = proc_set_status(status, p, s)
    BY <2>1 DEF proc_set_status
  <2>2. CASE \E k0 \in Slots : pid[k0] = p /\ status' = [status EXCEPT ![k0] = s]
    BY <2>2 DEF IInv, TypeOK
  <2> QED BY <2>1, <2>2
<1>2. PidInv'
  BY <1>1 DEF IInv, PidInv, Live
<1>3. CallInv'
  BY DEF CallInv
<1>4. \A k \in Slots : status'[k] = "RUNNING" <=> k = curr
  BY <1>1, UserFacts
<1>5. \A k \in Slots : Blocked(k)' => Blocked(k) /\ pid'[k] = pid[k]
  BY <1>1 DEF Blocked
<1> QED
  BY <1>2, <1>3, <1>4, <1>5, KeepUser

\* Steps that leave the status of every process and every pid alone.
LEMMA CallOnly ==
  ASSUME IInv, TypeOK', UNCHANGED <<kpc, curr, syscall, pid, status, last_pid>>, kpc = "user",
         CallInv'
  PROVE  IInv'
<1>1. PidInv'
  BY DEF IInv, PidInv, Live
<1>2. \A k \in Slots : status'[k] = "RUNNING" <=> k = curr
  BY UserFacts
<1>3. \A k \in Slots : Blocked(k)' => Blocked(k) /\ pid'[k] = pid[k]
  BY DEF Blocked
<1> QED
  BY <1>1, <1>2, <1>3, KeepUser

\* The kernel starts in the invariant, with GPID_PROCESS running alone.
LEMMA InitInv == Init => IInv
<1> SUFFICES ASSUME Init PROVE IInv
  OBVIOUS
<1> USE GrassAssumption DEF Init
<1>1. TypeOK
  <2>1. NoSyscall \in SyscallRecord /\ NoMsg \in Inbox
    BY DEF NoSyscall, SyscallRecord, NoMsg, Inbox, Pids, GPID_UNUSED
  <2>2. call \in Calls
    BY DEF NoCall, Calls
  <2> QED
    BY <2>1, <2>2 DEF TypeOK, Slots, Scanned, Pids, Statuses, GPID_PROCESS, GPID_UNUSED
<1>2. PidInv
  BY DEF PidInv, Live, GPID_PROCESS, GPID_UNUSED
<1>3. CallInv /\ ScanInv
  BY DEF CallInv, ScanInv, NoCall
<1>4. \A k \in Slots : ~Blocked(k) /\ (status[k] = "RUNNING" <=> k = curr)
  BY DEF Blocked, Slots
<1>5. UserInv
  BY <1>4 DEF UserInv, NoMissedRendezvous, NoStrandedMessage, OneRunning, Rendezvous, Scanned, Slots
<1> QED
  BY <1>1, <1>2, <1>3, <1>5 DEF IInv

\* Every step of the kernel and of the calls into it keeps the invariant.
LEMMA InvStep ==
  ASSUME IInv, [Next]_vars
  PROVE  IInv'
<1> USE GrassAssumption
<1>0. TypeOK /\ TypeOK'
  BY TypeStep DEF IInv
<1>1. CASE Send
  BY <1>0, <1>1, SendInv DEF Send
<1>2. CASE Recv
  BY <1>0, <1>2, RecvInv DEF Recv
<1>3. CASE Timer
  BY <1>0, <1>3, TimerInv
<1>4. CASE Fault
  BY <1>0, <1>4, PanicInv DEF Fault, Fatals
<1>5. CASE ScanStep
  BY <1>0, <1>5, ScanStepInv
<1>6. CASE Dispatch
  BY <1>0, <1>6, DispatchInv
<1>7. CASE proc_alloc
  BY <1>0, <1>7, AllocInv
<1>8. CASE elf_load
  <2>1. CallInv'
    BY <1>8, <1>0 DEF elf_load, CallInv, Calls, TypeOK
  <2> QED BY <1>0, <1>8, <2>1, CallOnly DEF elf_load, InProcess
<1>9. CASE proc_set_ready
  <2>1. call.arg \in Nat /\ call.arg # pid[curr] /\ call.arg # GPID_UNUSED /\ kpc = "user"
    BY <1>0, <1>9 DEF proc_set_ready, InProcess, TypeOK, Calls, GPID_PROCESS, GPID_UNUSED
  <2>2. /\ status' = proc_set_status(status, call.arg, "READY") /\ call'.op = "none"
        /\ UNCHANGED <<kpc, curr, syscall, pid, last_pid>>
    BY <1>9 DEF proc_set_ready, NoCall
  <2> QED BY <1>0, <2>1, <2>2, SetOther
<1>10. ASSUME NEW p \in UserPids, proc_free(p) PROVE IInv'
  <2>1. CallInv'
    BY <1>10 DEF proc_free, CallInv
  <2> QED BY <1>0, <1>10, <2>1, CallOnly DEF proc_free, InProcess
<1>11. CASE ProcFreeEnd
  <2>1. call.arg \in Nat /\ call.arg # pid[curr] /\ call.arg # GPID_UNUSED /\ kpc = "user"
    BY <1>0, <1>11 DEF ProcFreeEnd, InProcess, TypeOK, Calls, GPID_PROCESS, GPID_UNUSED
  <2>2. /\ status' = proc_set_status(status, call.arg, "UNUSED") /\ call'.op = "none"
        /\ UNCHANGED <<kpc, curr, syscall, pid, last_pid>>
    BY <1>11 DEF ProcFreeEnd, NoCall
  <2> QED BY <1>0, <2>1, <2>2, SetOther
<1>12. CASE KillAll
  <2>1. CallInv'
    BY <1>12 DEF KillAll, CallInv
  <2> QED BY <1>0, <1>12, <2>1, CallOnly DEF KillAll, InProcess, procVars
<1>13. CASE KillAllUnmap
  <2> DEFINE k == First(UserSlots(call.arg))
  <2>1. k \in Slots /\ pid[k] >= GPID_USER_START
    <3>1. call.arg \in Slots
      BY <1>0, <1>13 DEF KillAllUnmap, InProcess, TypeOK, Calls
    <3>2. UserSlots(call.arg) \in SUBSET Nat /\ UserSlots(call.arg) # {}
      BY <1>13, <3>1 DEF KillAllUnmap, UserSlots, Slots
    <3>3. k \in UserSlots(call.arg)
      BY <3>2, FirstIsIn
    <3> QED BY <3>1, <3>3 DEF UserSlots, UserAlive, Slots
  <2>2. call' = [op |-> "killing", arg |-> k] /\ pid' = pid
    BY <1>13 DEF KillAllUnmap
  <2> HIDE DEF k
  <2>3. CallInv'
    BY <1>0, <2>1, <2>2 DEF CallInv, TypeOK, GPID_PROCESS, Pids
  <2> QED BY <1>0, <1>13, <2>3, CallOnly DEF KillAllUnmap, InProcess
<1>14. CASE KillAllMark
  <2>1. /\ call.op = "killing" /\ kpc = "user" /\ pid[curr] = GPID_PROCESS /\ call'.op = "killall"
        /\ status' = [status EXCEPT ![call.arg] = "UNUSED"]
        /\ UNCHANGED <<kpc, curr, syscall, pid, last_pid>>
    BY <1>14 DEF KillAllMark, InProcess
  <2>2. call.arg \in Slots /\ pid[call.arg] \in Nat /\ pid[call.arg] # pid[curr]
    <3>1. call.arg \in Scanned
      BY <1>0, <2>1 DEF TypeOK, Calls
    <3>2. call.arg \in Slots
      BY <3>1 DEF Slots, Scanned
    <3>3. pid[call.arg] \in Nat
      BY <1>0, <3>2 DEF TypeOK, Pids
    <3> QED BY <2>1, <3>2, <3>3 DEF IInv, CallInv
  <2>3. CASE pid[call.arg] = GPID_UNUSED
    <3>1. status[call.arg] = "UNUSED"
      BY <2>2, <2>3 DEF IInv, PidInv, Live
    <3>2. status' = status
      BY <2>1, <2>2, <3>1, <1>0 DEF TypeOK
    <3>3. CallInv'
      BY <2>1 DEF CallInv
    <3> QED BY <1>0, <2>1, <3>2, <3>3, CallOnly
  <2>4. CASE pid[call.arg] # GPID_UNUSED
    BY <1>0, <2>1, <2>2, <2>4, SetOther
  <2> QED BY <2>3, <2>4
<1>15. CASE KillAllEnd
  <2>1. CallInv'
    BY <1>15 DEF KillAllEnd, CallInv, NoCall
  <2> QED BY <1>0, <1>15, <2>1, CallOnly DEF KillAllEnd, InProcess, procVars
<1>16. CASE Halted \/ UNCHANGED vars
  <2>1. UNCHANGED <<pid, status, syscall, curr, last_pid, call, kpc, i, next_idx>>
    BY <1>16 DEF Halted, vars, procVars, loopVars
  <2>2. PidInv' /\ CallInv'
    BY <2>1 DEF IInv, PidInv, CallInv, Live
  <2>3. UserInv' /\ ScanInv'
    BY <2>1 DEF IInv, UserInv, ScanInv, NoMissedRendezvous, NoStrandedMessage, OneRunning,
                Rendezvous, Sending, Blocked, Accepts, Received, Ahead, Nth
  <2> QED BY <1>0, <2>2, <2>3 DEF IInv
<1> QED
  BY <1>1, <1>2, <1>3, <1>4, <1>5, <1>6, <1>7, <1>8, <1>9, <1>10, <1>11, <1>12,
     <1>13, <1>14, <1>15, <1>16 DEF Next

\* The inductive invariant holds in every reachable state of the grass layer.
THEOREM GrassInvariant == Spec => []IInv
<1>1. Init => IInv
  BY InitInv
<1>2. IInv /\ [Next]_vars => IInv'
  BY InvStep
<1> QED
  BY <1>1, <1>2, PTL DEF Spec

\* Type correctness of the process table, the scheduling loop and the grass calls.
THEOREM GrassTypeCorrect == Spec => []TypeOK
<1>1. IInv => TypeOK
  BY DEF IInv
<1> QED
  BY <1>1, GrassInvariant, PTL

\* Whenever a process runs, no sender and receiver that match are left blocked,
\* whatever the size of the table and the order the loop visits it in.
THEOREM RendezvousNeverMissed == Spec => []NoMissedRendezvous
<1>1. IInv => NoMissedRendezvous
  BY DEF IInv, UserInv
<1> QED
  BY <1>1, GrassInvariant, PTL

\* Whenever a process runs, no message handed over by proc_try_send is left behind.
THEOREM MessageNeverStranded == Spec => []NoStrandedMessage
<1>1. IInv => NoStrandedMessage
  BY DEF IInv, UserInv
<1> QED
  BY <1>1, GrassInvariant, PTL

\* In user mode the RUNNING process is the one of the core, and it is the only one.
THEOREM RunningIsCurrent == Spec => []OneRunning
<1>1. IInv => OneRunning
  BY DEF IInv, UserInv
<1> QED
  BY <1>1, GrassInvariant, PTL

-----------------------------------------------------------------------------
(* What a receiver is woken with.                                          *)

\* No step in user mode makes a blocked process RUNNABLE.
LEMMA UserModeWakesNobody ==
  ASSUME IInv, Next, kpc = "user", NEW r \in Slots, Blocked(r)
  PROVE  status'[r] # "RUNNABLE"
<1> USE GrassAssumption
<1>1. r # curr /\ status \in [Slots -> Statuses] /\ status[r] = "PENDING_SYSCALL"
  BY UserFacts DEF Blocked
<1>3. ASSUME NEW req, Ecall(req), req \in SyscallRecord, req.status = "PENDING"
      PROVE  status'[r] # "RUNNABLE"
  <2> DEFINE sc == [syscall EXCEPT ![curr] = req]
             st == proc_set_status(status, pid[curr], "PENDING_SYSCALL")
             us == [usr EXCEPT ![curr] = NoMsg]
  <2>1. st = [status EXCEPT ![curr] = "PENDING_SYSCALL"]
    BY UserFacts, SetStatusOne DEF IInv
  <2>2. sc[curr].status = "PENDING"
    BY <1>3, UserFacts
  <2>3. TrySyscallStatus(st, sc, curr) = st
    <3> HIDE DEF sc, st
    <3> QED BY <2>2 DEF TrySyscallStatus, proc_try_recv, Received
  <2>4. CASE SyscallFatal(st, sc, curr) # "none"
    <3>1. status' = status
      BY <1>3, <2>4 DEF Ecall, Panic, procVars
    <3> QED BY <1>1, <3>1
  <2>5. CASE SyscallFatal(st, sc, curr) = "none"
    <3>1. proc_yield(TrySyscallStatus(st, sc, curr), TrySyscallTable(st, sc, curr),
                     TrySyscallUser(sc, us, curr))
      BY <1>3, <2>5 DEF Ecall
    <3>2. st[curr] # "RUNNING" /\ st[r] = "PENDING_SYSCALL"
      BY <1>1, <2>1, UserFacts
    <3>3. status' = st
      BY <2>3, <3>1, <3>2 DEF proc_yield
    <3> QED BY <3>2, <3>3
  <2> QED BY <2>4, <2>5
<1>4. CASE Send
  <2>1. PICK p \in 1..MaxPid, c \in Contents : Ecall(SendTo(p, c))
    BY <1>4 DEF Send
  <2>2. SendTo(p, c) \in SyscallRecord /\ SendTo(p, c).status = "PENDING"
    BY DEF SendTo, SyscallRecord, Pids, GPID_UNUSED
  <2> QED BY <1>3, <2>1, <2>2
<1>5. CASE Recv
  <2>1. PICK p \in 1..MaxPid \cup {GPID_ALL} : Ecall(RecvFrom(p))
    BY <1>5 DEF Recv
  <2>2. RecvFrom(p) \in SyscallRecord /\ RecvFrom(p).status = "PENDING"
    BY DEF RecvFrom, SyscallRecord, Pids, GPID_UNUSED
  <2> QED BY <1>3, <2>1, <2>2
<1>6. CASE Timer
  <2>1. proc_set_status(status, pid[curr], "RUNNABLE") = [status EXCEPT ![curr] = "RUNNABLE"]
    BY UserFacts, SetStatusOne DEF IInv
  <2> QED BY <1>1, <1>6, <2>1, UserFacts DEF Timer, proc_yield
<1>7. CASE Fault
  BY <1>1, <1>7 DEF Fault, Panic, procVars
<1>8. CASE proc_alloc
  BY <1>1, <1>8 DEF proc_alloc, Panic, procVars
<1>9. CASE elf_load \/ (\E p \in UserPids : proc_free(p)) \/ KillAll \/ KillAllUnmap \/ KillAllEnd
  BY <1>1, <1>9 DEF elf_load, proc_free, KillAll, KillAllUnmap, KillAllEnd, procVars
<1>10. CASE proc_set_ready \/ ProcFreeEnd \/ KillAllMark
  BY <1>1, <1>10 DEF proc_set_ready, ProcFreeEnd, KillAllMark, proc_set_status
<1>11. ~ScanStep /\ ~Dispatch /\ ~Halted
  BY DEF ScanStep, Dispatch, Halted, Fatals
<1> QED
  BY <1>4, <1>5, <1>6, <1>7, <1>8, <1>9, <1>10, <1>11 DEF Next

\* In the loop, a receiver is woken by proc_try_recv alone, together with its sender.
LEMMA DeliveryStep ==
  ASSUME IInv, Next, NEW r \in Slots, Blocked(r), syscall[r].type = "RECV",
         status'[r] = "RUNNABLE"
  PROVE  \E s \in Scanned \ {r} :
           /\ Sending(s, r)
           /\ usr'[r] = [sender |-> pid[s], content |-> syscall[s].content]
           /\ status' = [status EXCEPT ![r] = "RUNNABLE", ![s] = "RUNNABLE"]
<1> USE GrassAssumption
<1>1. kpc # "user"
  BY UserModeWakesNobody
<1>2. ~Halted
  BY DEF Halted, vars, procVars, Blocked
<1>3. ~Dispatch
  <2>1. SUFFICES ASSUME Dispatch PROVE FALSE
    OBVIOUS
  <2>2. status'[r] \in {status[r], "RUNNING"}
    BY <2>1 DEF Dispatch, Panic, procVars, proc_set_status
  <2> QED BY <2>2 DEF Blocked
<1>4. ScanStep
  BY <1>1, <1>2, <1>3 DEF Next, Send, Recv, Ecall, Timer, Fault, proc_alloc, elf_load,
       proc_set_ready, proc_free, ProcFreeEnd, KillAll, KillAllUnmap, KillAllMark, KillAllEnd,
       InProcess
<1> DEFINE j == Nth(i)
           tries == status[j] = "PENDING_SYSCALL"
           fatal == SyscallFatal(status, syscall, j)
<1>5. ~(tries /\ fatal # "none")
  <2>1. SUFFICES ASSUME tries /\ fatal # "none" PROVE FALSE
    OBVIOUS
  <2>2. status' = status
    BY <1>4, <2>1 DEF ScanStep, Panic, procVars
  <2> QED BY <2>2 DEF Blocked
<1>6. /\ status' = IF tries THEN TrySyscallStatus(status, syscall, j) ELSE status
      /\ syscall' = IF tries THEN TrySyscallTable(status, syscall, j) ELSE syscall
      /\ usr' = IF tries THEN TrySyscallUser(syscall, usr, j) ELSE usr
      /\ next_idx' = next_idx \/ (next_idx' = j /\ status'[j] \in {"READY", "RUNNABLE"})
      /\ i' = i + 1 /\ kpc' = "scan" /\ kpc = "scan" /\ i <= MAX_NPROCESS
      /\ UNCHANGED <<pid, curr, last_pid, call>>
  BY <1>4, <1>5, Zenon DEF ScanStep
<1>7. tries /\ syscall[j].type = "RECV" /\ Received(syscall, j)
  <2>1. status' # status
    BY DEF Blocked
  <2> QED BY <1>6, <2>1 DEF TrySyscallStatus, proc_try_recv
<1>8. status' = proc_try_recv(status, syscall, j) /\ syscall' = syscall
  BY <1>6, <1>7 DEF TrySyscallStatus, TrySyscallTable
<1>9. next_idx' < MAX_NPROCESS => next_idx' = next_idx \/ status'[next_idx'] \in {"READY", "RUNNABLE"}
  BY <1>6
<1>10. Blocked(Nth(i)) /\ Received(syscall, Nth(i)) /\ TypeOK'
  BY <1>4, <1>7, TypeStep DEF Blocked, IInv
<1>11. PICK s \in Scanned \ {j} :
         /\ Sending(s, j) /\ pid[s] = syscall[j].sender
         /\ syscall[s].content = syscall[j].content
         /\ status' = [status EXCEPT ![j] = "RUNNABLE", ![s] = "RUNNABLE"]
  BY <1>6, <1>8, <1>9, <1>10, ScanRecv
<1>12. r = j
  <2>1. r # s
    BY <1>11 DEF Sending
  <2>2. r \notin {j, s} => status'[r] = status[r]
    BY <1>11 DEF IInv, TypeOK
  <2> QED BY <2>1, <2>2 DEF Blocked
<1>13. usr'[j] = [sender |-> pid[s], content |-> syscall[s].content]
  <2>1. usr' = [usr EXCEPT ![j] = [sender |-> syscall[j].sender, content |-> syscall[j].content]]
    BY <1>6, <1>7 DEF TrySyscallUser, CopyToUser
  <2>2. j \in Slots /\ usr \in [Slots -> Inbox]
    BY <1>12 DEF IInv, TypeOK
  <2> QED BY <2>1, <2>2, <1>11
<1> QED
  BY <1>11, <1>12, <1>13

\* Every step that wakes a receiver hands it the message of the one process that
\* was blocked sending it, and wakes these two and nobody else.
THEOREM DeliveryFaithful == Spec => DeliveryIsFaithful
<1> DEFINE Faithful ==
      \A r \in Slots :
        Blocked(r) /\ syscall[r].type = "RECV" /\ status'[r] = "RUNNABLE" =>
          \E s \in Scanned \ {r} :
            /\ Sending(s, r)
            /\ usr'[r] = [sender |-> pid[s], content |-> syscall[s].content]
            /\ status' = [status EXCEPT ![r] = "RUNNABLE", ![s] = "RUNNABLE"]
<1>1. IInv /\ [Next]_vars => [Faithful]_vars
  BY DeliveryStep
<1>2. [][Faithful]_vars <=> DeliveryIsFaithful
  BY DEF DeliveryIsFaithful
<1> HIDE DEF Faithful
<1> QED
  BY <1>1, <1>2, GrassInvariant, PTL DEF Spec

-----------------------------------------------------------------------------
(* The life cycle of a process, and the search for the next one.           *)

\* A system call in user mode ends in a FATAL, or blocks the caller and enters the loop.
\* Only a receiver that the caller's own message was handed to is blocked and served.
LEMMA EcallEffect ==
  ASSUME IInv, NEW req \in SyscallRecord, req.status = "PENDING", req.type \in {"SEND", "RECV"},
         Ecall(req)
  PROVE  /\ kpc = "user" /\ UNCHANGED <<pid, curr, last_pid, mapped, call>>
         /\ \/ kpc' \in Fatals \ {"no_process"} /\ status' = status
            \/ /\ kpc' = "scan" /\ i' = 1
               /\ lowest_level' = MLFQ_NLEVELS /\ next_idx' = MAX_NPROCESS
               /\ status' = [status EXCEPT ![curr] = "PENDING_SYSCALL"]
               /\ \A r \in Slots : Blocked(r)' /\ Received(syscall, r)' /\ r # curr =>
                    syscall'[r].sender = pid[curr]
<1> DEFINE sc == [syscall EXCEPT ![curr] = req]
           st == proc_set_status(status, pid[curr], "PENDING_SYSCALL")
           us == [usr EXCEPT ![curr] = NoMsg]
<1>1. kpc = "user"
  BY DEF Ecall
<1>2. st = [status EXCEPT ![curr] = "PENDING_SYSCALL"]
  BY <1>1, UserFacts, SetStatusOne DEF IInv
<1>3. sc[curr] = req /\ \A k \in Slots : k # curr => sc[k] = syscall[k]
  BY <1>1, UserFacts
<1>4. st[curr] = "PENDING_SYSCALL"
  BY <1>1, <1>2, UserFacts
<1>5. CASE SyscallFatal(st, sc, curr) # "none"
  <2>1. SyscallFatal(st, sc, curr) \in Fatals \ {"no_process"}
    BY <1>5 DEF SyscallFatal, Fatals
  <2>2. Panic(SyscallFatal(st, sc, curr))
    BY <1>5 DEF Ecall
  <2> HIDE DEF sc, st
  <2> QED BY <1>1, <2>1, <2>2 DEF Panic, procVars
<1>6. CASE SyscallFatal(st, sc, curr) = "none"
  <2>1. proc_yield(TrySyscallStatus(st, sc, curr), TrySyscallTable(st, sc, curr),
                   TrySyscallUser(sc, us, curr))
    BY <1>6 DEF Ecall
  <2> HIDE DEF st, sc, us
  <2>2. TrySyscallStatus(st, sc, curr) = st
    BY <1>3 DEF TrySyscallStatus, proc_try_recv, Received
  <2>3. /\ kpc' = "scan" /\ i' = 1 /\ lowest_level' = MLFQ_NLEVELS /\ next_idx' = MAX_NPROCESS
        /\ syscall' = TrySyscallTable(st, sc, curr) /\ status' = st
        /\ UNCHANGED <<pid, curr, last_pid, mapped, call>>
    BY <2>1, <2>2, <1>4 DEF proc_yield
  <2>4. ASSUME NEW r \in Slots, Blocked(r)', Received(syscall, r)', r # curr
        PROVE  syscall'[r].sender = pid[curr]
    <3>1. Blocked(r) /\ ~Received(sc, r)
      BY <2>3, <2>4, <1>1, <1>2, <1>3, UserFacts DEF Blocked, Received
    <3>2. syscall'[r] # sc[r]
      BY <3>1, <2>4 DEF Received
    <3> DEFINE d == First(Receivers(st, sc[curr].receiver))
    <3>3. syscall' = [sc EXCEPT ![d] = [@ EXCEPT !.status = "DONE", !.sender = pid[curr],
                                               !.content = sc[curr].content]]
      BY <3>2, <2>3 DEF TrySyscallTable, proc_try_send
    <3> HIDE DEF d
    <3>4. sc \in [Slots -> SyscallRecord]
      BY <1>1, UserFacts DEF sc
    <3> QED BY <3>2, <3>3, <3>4 DEF SyscallRecord
  <2> QED BY <1>1, <1>2, <2>3, <2>4 DEF st
<1> QED BY <1>5, <1>6

\* An iteration of the loop ends in a FATAL, or visits one process: at most it hands a
\* message to the current process, or wakes the visited process and its sender.
LEMMA ScanEffect ==
  ASSUME IInv, ScanStep
  PROVE  /\ kpc = "scan" /\ i <= MAX_NPROCESS /\ Nth(i) \in Scanned
         /\ UNCHANGED <<pid, mlfq_level, curr, last_pid, mapped, call>>
         /\ \/ kpc' \in Fatals \ {"no_process"} /\ status' = status
            \/ /\ kpc' = "scan" /\ i' = i + 1
               /\ \/ /\ status'[Nth(i)] \in Candidates /\ mlfq_level[Nth(i)] < lowest_level
                     /\ lowest_level' = mlfq_level[Nth(i)] /\ next_idx' = Nth(i)
                  \/ /\ ~(status'[Nth(i)] \in Candidates /\ mlfq_level[Nth(i)] < lowest_level)
                     /\ lowest_level' = lowest_level /\ next_idx' = next_idx
               /\ \/ /\ status' = status
                     /\ \A r \in Slots : Blocked(r) /\ Received(syscall, r)' /\ r # curr =>
                          Received(syscall, r) /\ syscall'[r] = syscall[r]
                  \/ /\ Blocked(Nth(i)) /\ Received(syscall, Nth(i)) /\ syscall' = syscall
                     /\ \E s \in Scanned \ {Nth(i)} :
                          /\ Blocked(s) /\ pid[s] = syscall[Nth(i)].sender
                          /\ status' = [status EXCEPT ![Nth(i)] = "RUNNABLE", ![s] = "RUNNABLE"]
<1> DEFINE j == Nth(i)
           tries == status[j] = "PENDING_SYSCALL"
           fatal == SyscallFatal(status, syscall, j)
<1>1. kpc = "scan" /\ i <= MAX_NPROCESS
  BY DEF ScanStep
<1>2. i \in 1..MAX_NPROCESS /\ j \in Scanned /\ j \in Slots
  <2>1. i \in 1..MAX_NPROCESS /\ curr \in Scanned
    BY <1>1, GrassAssumption DEF IInv, TypeOK
  <2>2. j \in Scanned
    BY <2>1, NthValue
  <2> QED BY <2>1, <2>2, GrassAssumption DEF Scanned, Slots
<1>3. CASE tries /\ fatal # "none"
  <2>1. fatal \in Fatals \ {"no_process"}
    BY <1>3 DEF SyscallFatal, Fatals
  <2>2. Panic(fatal)
    BY <1>3 DEF ScanStep
  <2> HIDE DEF fatal
  <2> QED BY <1>1, <1>2, <2>1, <2>2 DEF Panic, procVars
<1>4. CASE ~(tries /\ fatal # "none")
  <2> DEFINE better == status'[j] \in Candidates /\ mlfq_level[j] < lowest_level
  <2>1. /\ status' = IF tries THEN TrySyscallStatus(status, syscall, j) ELSE status
        /\ syscall' = IF tries THEN TrySyscallTable(status, syscall, j) ELSE syscall
        /\ lowest_level' = IF better THEN mlfq_level[j] ELSE lowest_level
        /\ next_idx' = IF better THEN j ELSE next_idx
        /\ i' = i + 1 /\ kpc' = "scan"
        /\ UNCHANGED <<pid, mlfq_level, curr, last_pid, mapped, call>>
    BY <1>1, <1>4, Zenon DEF ScanStep, Candidates
  <2>2. \/ /\ better
           /\ lowest_level' = mlfq_level[j] /\ next_idx' = j
        \/ ~better /\ lowest_level' = lowest_level /\ next_idx' = next_idx
    BY <2>1
  <2> HIDE DEF better
  <2>3. next_idx' < MAX_NPROCESS => next_idx' = next_idx \/ status'[next_idx'] \in {"READY", "RUNNABLE"}
    BY <2>2 DEF better, Candidates
  <2>4. CASE tries /\ syscall[j].type = "RECV" /\ Received(syscall, j)
    <3>1. status' = proc_try_recv(status, syscall, j) /\ syscall' = syscall
      BY <2>1, <2>4 DEF TrySyscallStatus, TrySyscallTable
    <3>2. Blocked(j) /\ TypeOK'
      BY <2>4, TypeStep DEF Blocked, IInv, Next
    <3>3. PICK s \in Scanned \ {j} :
            /\ Sending(s, j) /\ pid[s] = syscall[j].sender
            /\ status' = [status EXCEPT ![j] = "RUNNABLE", ![s] = "RUNNABLE"]
      BY <1>1, <2>1, <2>3, <2>4, <3>1, <3>2, ScanRecv
    <3>4. Blocked(s)
      BY <3>3 DEF Sending
    <3>5. \E x \in Scanned \ {j} :
            /\ Blocked(x) /\ pid[x] = syscall[j].sender
            /\ status' = [status EXCEPT ![j] = "RUNNABLE", ![x] = "RUNNABLE"]
      BY <3>3, <3>4
    <3> QED BY <1>1, <1>2, <2>1, <2>2, <2>4, <3>1, <3>2, <3>5 DEF better
  <2>5. CASE ~(tries /\ syscall[j].type = "RECV" /\ Received(syscall, j))
    <3>1. status' = status
      BY <2>1, <2>5 DEF TrySyscallStatus, proc_try_recv
    <3>2. ASSUME NEW r \in Slots, Blocked(r), Received(syscall, r)', r # curr
          PROVE  Received(syscall, r) /\ syscall'[r] = syscall[r]
      <4>1. CASE syscall'[r] = syscall[r]
        BY <3>2, <4>1 DEF Received
      <4>2. CASE syscall'[r] # syscall[r]
        <5> DEFINE p == syscall[j].receiver
                   d == First(Receivers(status, p))
        <5>1. /\ tries /\ syscall[j].type = "SEND" /\ Receivers(status, p) # {}
              /\ Accepts(syscall, d, j)
              /\ syscall' = [syscall EXCEPT ![d] = [@ EXCEPT !.status = "DONE", !.sender = pid[j],
                                                             !.content = syscall[j].content]]
          BY <4>2, <2>1 DEF TrySyscallTable, proc_try_send
        <5>2. d \in Receivers(status, p)
          <6>1. Receivers(status, p) \in SUBSET Nat
            BY DEF Receivers, Scanned
          <6> QED BY <6>1, <5>1, FirstIsIn
        <5>3. r = d
          BY <4>2, <5>1, <1>1, ScanFacts
        <5>4. Rendezvous(j, d)
          BY <3>2, <5>1, <5>2, <5>3 DEF Rendezvous, Sending, Blocked, Receivers
        <5>5. d = curr
          <6>1. d \in Scanned
            BY <5>2 DEF Receivers
          <6> HIDE DEF j, d
          <6> QED BY <6>1, <5>4, <1>1, <1>2, ScanFacts
        <5> QED BY <5>3, <5>5, <3>2
      <4> QED BY <4>1, <4>2
    <3> QED BY <1>1, <1>2, <2>1, <2>2, <3>1, <3>2 DEF better
  <2> QED BY <2>4, <2>5
<1> QED BY <1>3, <1>4

\* The statuses that a step of the kernel itself may change, and to what.
KernelMoves ==
  {<<"READY", "RUNNING">>, <<"RUNNING", "RUNNABLE">>, <<"RUNNING", "PENDING_SYSCALL">>,
   <<"PENDING_SYSCALL", "RUNNABLE">>, <<"RUNNABLE", "RUNNING">>}
KernelOwnStep == Send \/ Recv \/ Timer \/ Fault \/ ScanStep \/ Dispatch \/ Halted

LEMMA RequestsAreCalls ==
  /\ \A p \in 1..MaxPid, c \in Contents :
       /\ SendTo(p, c) \in SyscallRecord
       /\ SendTo(p, c).status = "PENDING" /\ SendTo(p, c).type = "SEND"
  /\ \A p \in 1..MaxPid \cup {GPID_ALL} :
       /\ RecvFrom(p) \in SyscallRecord
       /\ RecvFrom(p).status = "PENDING" /\ RecvFrom(p).type = "RECV"
<1> QED BY GrassAssumption DEF SendTo, RecvFrom, SyscallRecord, Pids, GPID_UNUSED

LEMMA TimerEffect ==
  ASSUME IInv, Timer
  PROVE  /\ kpc = "user" /\ UNCHANGED <<pid, syscall, curr, last_pid, mapped, call>>
         /\ kpc' = "scan" /\ i' = 1 /\ lowest_level' = MLFQ_NLEVELS /\ next_idx' = MAX_NPROCESS
         /\ status' = [status EXCEPT ![curr] = "RUNNABLE"]
<1>1. kpc = "user"
  BY DEF Timer
<1>2. proc_set_status(status, pid[curr], "RUNNABLE") = [status EXCEPT ![curr] = "RUNNABLE"]
  BY <1>1, UserFacts, SetStatusOne DEF IInv
<1> QED BY <1>1, <1>2, UserFacts DEF Timer, proc_yield

LEMMA DispatchEffect ==
  ASSUME IInv, Dispatch
  PROVE  /\ kpc = "scan" /\ i > MAX_NPROCESS /\ UNCHANGED <<pid, mapped, call, last_pid>>
         /\ \/ /\ next_idx < MAX_NPROCESS /\ kpc' = "user" /\ next_idx \in Slots
               /\ status[next_idx] \in Candidates
               /\ status' = [status EXCEPT ![next_idx] = "RUNNING"]
            \/ next_idx = MAX_NPROCESS /\ kpc' = "no_process" /\ status' = status
<1>1. kpc = "scan" /\ i > MAX_NPROCESS
  BY DEF Dispatch
<1>2. CASE next_idx < MAX_NPROCESS
  <2>1. next_idx \in Scanned /\ next_idx \in Slots
    BY <1>2, GrassAssumption DEF IInv, TypeOK, Slots, Scanned
  <2>2. status[next_idx] \in Candidates /\ pid[next_idx] # GPID_UNUSED
    BY <1>1, <1>2, <2>1 DEF IInv, ScanInv, PidInv, Live, Candidates
  <2>3. status \in [Slots -> Statuses] /\ TypeOK /\ PidInv
    BY DEF IInv, TypeOK
  <2>4. proc_set_status(status, pid[next_idx], "RUNNING") = [status EXCEPT ![next_idx] = "RUNNING"]
    BY <2>1, <2>2, <2>3, SetStatusOne
  <2> QED BY <1>1, <1>2, <2>1, <2>2, <2>4 DEF Dispatch
<1>3. CASE ~(next_idx < MAX_NPROCESS)
  <2>1. next_idx = MAX_NPROCESS
    BY <1>3, GrassAssumption DEF IInv, TypeOK, Slots
  <2> QED BY <1>1, <1>3, <2>1 DEF Dispatch, Panic, procVars
<1> QED BY <1>2, <1>3

\* The kernel's own steps touch neither pids nor pages nor the calls of GPID_PROCESS,
\* and move only processes that have started.
LEMMA KernelEffect ==
  ASSUME IInv, KernelOwnStep
  PROVE  /\ UNCHANGED <<pid, last_pid, mapped, call>>
         /\ \A k \in Slots : status'[k] # status[k] => <<status[k], status'[k]>> \in KernelMoves
<1>0. status \in [Slots -> Statuses]
  BY DEF IInv, TypeOK
<1>1. ASSUME NEW k \in Slots, NEW s, status[k] = "RUNNING", <<"RUNNING", s>> \in KernelMoves,
             status' = [status EXCEPT ![k] = s]
      PROVE  \A x \in Slots : status'[x] # status[x] => <<status[x], status'[x]>> \in KernelMoves
  BY <1>0, <1>1
<1>2. ASSUME NEW req \in SyscallRecord, req.status = "PENDING", req.type \in {"SEND", "RECV"},
             Ecall(req)
      PROVE  /\ UNCHANGED <<pid, last_pid, mapped, call>>
             /\ \A k \in Slots : status'[k] # status[k] => <<status[k], status'[k]>> \in KernelMoves
  <2>1. /\ kpc = "user" /\ UNCHANGED <<pid, last_pid, mapped, call>>
        /\ status' = status \/ status' = [status EXCEPT ![curr] = "PENDING_SYSCALL"]
    BY <1>2, EcallEffect
  <2>2. <<"RUNNING", "PENDING_SYSCALL">> \in KernelMoves
    BY DEF KernelMoves
  <2> QED BY <2>1, <2>2, <1>1, UserFacts
<1>3. CASE Send \/ Recv
  BY <1>2, <1>3, RequestsAreCalls DEF Send, Recv
<1>4. CASE Timer
  <2>1. <<"RUNNING", "RUNNABLE">> \in KernelMoves
    BY DEF KernelMoves
  <2> QED BY <1>4, <2>1, <1>1, TimerEffect, UserFacts
<1>5. CASE Fault
  BY <1>5 DEF Fault, Panic, procVars
<1>6. CASE ScanStep
  <2>1. UNCHANGED <<pid, last_pid, mapped, call>> /\ Nth(i) \in Scanned /\ kpc = "scan"
    BY <1>6, ScanEffect
  <2>2. CASE status' = status
    BY <2>1, <2>2
  <2>3. CASE status' # status
    <3>1. PICK s \in Scanned \ {Nth(i)} :
            /\ Blocked(s) /\ Blocked(Nth(i))
            /\ status' = [status EXCEPT ![Nth(i)] = "RUNNABLE", ![s] = "RUNNABLE"]
      BY <1>6, <2>3, ScanEffect
    <3>2. <<"PENDING_SYSCALL", "RUNNABLE">> \in KernelMoves
      BY DEF KernelMoves
    <3>3. \A x \in Slots : \/ status'[x] = status[x]
                           \/ status[x] = "PENDING_SYSCALL" /\ status'[x] = "RUNNABLE"
      BY <3>1, <1>0 DEF Blocked
    <3> QED BY <2>1, <3>2, <3>3
  <2> QED BY <2>2, <2>3
<1>7. CASE Dispatch
  <2>1. <<"READY", "RUNNING">> \in KernelMoves /\ <<"RUNNABLE", "RUNNING">> \in KernelMoves
    BY DEF KernelMoves
  <2>2. UNCHANGED <<pid, last_pid, mapped, call>>
    BY <1>7, DispatchEffect
  <2>3. \A x \in Slots : \/ status'[x] = status[x]
                         \/ status[x] \in Candidates /\ status'[x] = "RUNNING"
    BY <1>0, <1>7, DispatchEffect
  <2> QED BY <2>1, <2>2, <2>3 DEF Candidates
<1>8. CASE Halted
  BY <1>8 DEF Halted, vars, procVars
<1> QED BY <1>3, <1>4, <1>5, <1>6, <1>7, <1>8 DEF KernelOwnStep

\* In the calls of GPID_PROCESS a process is loaded, made ready, or ended, and never
\* the running one.
LEMMA InterfaceMoves ==
  ASSUME IInv, LoadInv, Next, ~KernelOwnStep, NEW k \in Slots, status'[k] # status[k]
  PROVE  <<status[k], status'[k]>> \in
           {<<"UNUSED", "LOADING">>, <<"LOADING", "READY">>, <<"LOADING", "UNUSED">>,
            <<"READY", "UNUSED">>, <<"RUNNABLE", "UNUSED">>, <<"PENDING_SYSCALL", "UNUSED">>}
<1> USE GrassAssumption
<1>0. status \in [Slots -> Statuses] /\ call \in Calls /\ pid \in [Slots -> Pids]
  BY DEF IInv, TypeOK
<1>1. CASE proc_alloc
  <2>1. CASE FreeSlots = {}
    BY <1>1, <2>1 DEF proc_alloc, Panic, procVars
  <2>2. CASE FreeSlots # {}
    <3>1. FreeSlots \in SUBSET Nat
      BY DEF FreeSlots, Slots
    <3>2. First(FreeSlots) \in Slots /\ status[First(FreeSlots)] = "UNUSED"
      BY <3>1, <2>2, FirstIsIn DEF FreeSlots
    <3>3. status' = [status EXCEPT ![First(FreeSlots)] = "LOADING"]
      BY <1>1, <2>2 DEF proc_alloc
    <3> QED BY <3>2, <3>3, <1>0
  <2> QED BY <2>1, <2>2
<1>2. CASE proc_set_ready
  <2>1. status'[k] = "READY" /\ pid[k] = call.arg /\ call.op = "loaded"
    BY <1>2 DEF proc_set_ready, proc_set_status, InProcess
  <2>2. status[k] = "LOADING"
    BY <2>1 DEF LoadInv
  <2> QED BY <2>1, <2>2
<1>3. CASE ProcFreeEnd
  <2>1. status'[k] = "UNUSED" /\ pid[k] = call.arg /\ call.op = "freeing" /\ kpc = "user"
        /\ pid[curr] = GPID_PROCESS
    BY <1>3 DEF ProcFreeEnd, proc_set_status, InProcess
  <2>2. k # curr
    BY <2>1, <1>0 DEF Calls, GPID_PROCESS
  <2>3. status[k] # "RUNNING"
    BY <2>1, <2>2, UserFacts
  <2> QED BY <2>1, <2>3, <1>0 DEF Statuses
<1>4. CASE KillAllMark
  <2>1. k = call.arg /\ status'[k] = "UNUSED" /\ call.op = "killing" /\ kpc = "user"
        /\ pid[curr] = GPID_PROCESS
    BY <1>4, <1>0 DEF KillAllMark, InProcess
  <2>2. k # curr
    BY <2>1 DEF IInv, CallInv
  <2>3. status[k] # "RUNNING"
    BY <2>1, <2>2, UserFacts
  <2> QED BY <2>1, <2>3, <1>0 DEF Statuses
<1>5. ~(elf_load \/ (\E p \in UserPids : proc_free(p)) \/ KillAll \/ KillAllUnmap \/ KillAllEnd)
  BY DEF elf_load, proc_free, KillAll, KillAllUnmap, KillAllEnd, procVars
<1> QED BY <1>1, <1>2, <1>3, <1>4, <1>5 DEF Next, KernelOwnStep

LEMMA LoadStep == ASSUME IInv, LoadInv, [Next]_vars PROVE LoadInv'
<1> USE GrassAssumption
<1>0. call \in Calls /\ pid \in [Slots -> Pids] /\ status \in [Slots -> Statuses]
  BY DEF IInv, TypeOK
<1>1. CASE KernelOwnStep
  <2>1. \A k \in Slots : status[k] = "LOADING" => status'[k] = "LOADING"
    BY <1>1, KernelEffect DEF KernelMoves
  <2> QED BY <1>1, <2>1, KernelEffect DEF LoadInv
<1>2. CASE proc_alloc
  <2>1. CASE FreeSlots = {}
    BY <1>2, <2>1 DEF proc_alloc, Panic, procVars, InProcess, LoadInv
  <2>2. CASE FreeSlots # {}
    <3> DEFINE f == First(FreeSlots)
    <3>1. FreeSlots \in SUBSET Nat
      BY DEF FreeSlots, Slots
    <3>2. f \in Slots
      BY <3>1, <2>2, FirstIsIn DEF FreeSlots
    <3>3. /\ pid' = [pid EXCEPT ![f] = last_pid + 1]
          /\ status' = [status EXCEPT ![f] = "LOADING"]
          /\ call' = [op |-> "loading", arg |-> last_pid + 1]
      BY <1>2, <2>2 DEF proc_alloc
    <3> HIDE DEF f
    <3>4. \A k \in Slots : pid[k] # last_pid + 1
      <4>1. \A k \in Slots : pid[k] <= last_pid /\ pid[k] \in Int
        BY <1>0 DEF IInv, PidInv, Pids
      <4>2. last_pid \in Int
        BY DEF IInv, TypeOK
      <4> QED BY <4>1, <4>2
    <3> QED BY <3>2, <3>3, <3>4, <1>0 DEF LoadInv
  <2> QED BY <2>1, <2>2
<1>3. CASE elf_load
  <2>1. call.op = "loading" /\ call' = [call EXCEPT !.op = "loaded"]
        /\ mapped' = mapped \cup {call.arg} /\ UNCHANGED <<pid, status>>
    BY <1>3 DEF elf_load, InProcess
  <2>2. call'.arg = call.arg
    BY <2>1, <1>0 DEF Calls
  <2> QED BY <2>1, <2>2 DEF LoadInv
<1>4. CASE proc_set_ready \/ ProcFreeEnd \/ KillAllMark \/ KillAllEnd \/ KillAll \/ KillAllUnmap
  <2>1. call'.op \notin {"loading", "loaded"}
    BY <1>4 DEF proc_set_ready, ProcFreeEnd, KillAllMark, KillAllEnd, KillAll, KillAllUnmap, NoCall
  <2> QED BY <2>1 DEF LoadInv
<1>5. CASE \E p \in UserPids : proc_free(p)
  <2>1. call'.op = "freeing"
    BY <1>5 DEF proc_free
  <2> QED BY <2>1 DEF LoadInv
<1>6. CASE UNCHANGED vars
  BY <1>6 DEF vars, procVars, LoadInv
<1> QED BY <1>1, <1>2, <1>3, <1>4, <1>5, <1>6 DEF Next, KernelOwnStep

\* Pages are taken from a process only when it is being freed, and a process starts only
\* with its pages.
LEMMA MappedStep ==
  ASSUME IInv, LoadInv, UnmappedOnlyWhileFreed, [Next]_vars
  PROVE  UnmappedOnlyWhileFreed'
<1> USE GrassAssumption
<1>0. call \in Calls /\ pid \in [Slots -> Pids] /\ status \in [Slots -> Statuses]
      /\ Scanned \subseteq Slots
  BY DEF IInv, TypeOK, Scanned, Slots
<1>00. ASSUME NEW k \in Scanned, status[k] \in Started, pid[k] \notin mapped
       PROVE  \/ call = [op |-> "freeing", arg |-> pid[k]]
              \/ call = [op |-> "killing", arg |-> k]
  BY <1>00 DEF UnmappedOnlyWhileFreed, Started
<1> SUFFICES ASSUME NEW k \in Scanned, status'[k] \in Started, pid'[k] \notin mapped'
             PROVE  \/ call' = [op |-> "freeing", arg |-> pid'[k]]
                    \/ call' = [op |-> "killing", arg |-> k]
  BY DEF UnmappedOnlyWhileFreed, Started
<1>1. CASE KernelOwnStep
  <2>1. status[k] \in Started
    BY <1>0, <1>1, KernelEffect DEF KernelMoves, Started
  <2> QED BY <2>1, <1>00, <1>1, KernelEffect
<1>2. CASE proc_alloc
  <2>1. CASE FreeSlots = {}
    BY <1>00, <1>2, <2>1 DEF proc_alloc, Panic, procVars
  <2>2. CASE FreeSlots # {}
    <3> DEFINE f == First(FreeSlots)
    <3>1. FreeSlots \in SUBSET Nat
      BY DEF FreeSlots, Slots
    <3>2. f \in Slots
      BY <3>1, <2>2, FirstIsIn DEF FreeSlots
    <3>3. /\ pid' = [pid EXCEPT ![f] = last_pid + 1]
          /\ status' = [status EXCEPT ![f] = "LOADING"]
          /\ call.op = "none" /\ mapped' = mapped
      BY <1>2, <2>2 DEF proc_alloc, InProcess
    <3> HIDE DEF f
    <3>4. k # f /\ status[k] \in Started /\ pid[k] \notin mapped
      BY <3>2, <3>3, <1>0 DEF Started
    <3> QED BY <3>3, <3>4, <1>00
  <2> QED BY <2>1, <2>2
<1>3. CASE elf_load
  BY <1>00, <1>3 DEF elf_load, InProcess
<1>4. CASE proc_set_ready
  <2>1. /\ call.op = "loaded" /\ call.arg \in mapped /\ UNCHANGED <<pid, mapped>>
        /\ status' = proc_set_status(status, call.arg, "READY")
    BY <1>4 DEF proc_set_ready, InProcess, LoadInv
  <2>2. status'[k] = status[k]
    BY <2>1, <1>0 DEF proc_set_status
  <2> QED BY <2>1, <2>2, <1>00
<1>5. ASSUME NEW p \in UserPids, proc_free(p)
      PROVE  call' = [op |-> "freeing", arg |-> pid'[k]]
  <2>1. /\ call.op = "none" /\ mapped' = mapped \ {p} /\ UNCHANGED <<pid, status>>
        /\ call' = [op |-> "freeing", arg |-> p]
    BY <1>5 DEF proc_free, InProcess
  <2> QED BY <2>1, <1>00
<1>6. CASE ProcFreeEnd
  <2>1. /\ call.op = "freeing" /\ UNCHANGED <<pid, mapped>>
        /\ status' = proc_set_status(status, call.arg, "UNUSED")
    BY <1>6 DEF ProcFreeEnd, InProcess
  <2>2. pid[k] # call.arg /\ status'[k] = status[k]
    BY <2>1, <1>0 DEF proc_set_status, Scanned, Started
  <2> QED BY <2>1, <2>2, <1>00
<1>7. CASE KillAll \/ KillAllEnd
  <2>1. call.op \in {"none", "killall"} /\ UNCHANGED <<pid, mapped, status>>
    BY <1>7 DEF KillAll, KillAllEnd, InProcess, procVars
  <2> QED BY <2>1, <1>00
<1>8. CASE KillAllUnmap
  <2> DEFINE f == First(UserSlots(call.arg))
  <2>1. f \in Slots /\ pid[f] # GPID_UNUSED
    <3>1. call.arg \in Slots
      BY <1>0, <1>8 DEF KillAllUnmap, InProcess, Calls
    <3>2. UserSlots(call.arg) \in SUBSET Nat /\ UserSlots(call.arg) # {}
      BY <1>8, <3>1 DEF KillAllUnmap, UserSlots, Slots
    <3>3. f \in UserSlots(call.arg)
      BY <3>2, FirstIsIn
    <3>4. f \in Slots /\ pid[f] >= GPID_USER_START
      BY <3>1, <3>3 DEF UserSlots, UserAlive, Slots
    <3> QED BY <3>4, <1>0 DEF GPID_UNUSED, GPID_PROCESS, Pids
  <2>2. /\ call.op = "killall" /\ mapped' = mapped \ {pid[f]} /\ UNCHANGED <<pid, status>>
        /\ call' = [op |-> "killing", arg |-> f]
    BY <1>8 DEF KillAllUnmap, InProcess
  <2> HIDE DEF f
  <2>3. pid[k] = pid[f]
    BY <2>2, <1>00
  <2>4. k = f
    BY <2>1, <2>3, <1>0 DEF IInv, PidInv
  <2> QED BY <2>2, <2>4
<1>9. CASE KillAllMark
  <2>1. /\ call.op = "killing" /\ UNCHANGED <<pid, mapped>>
        /\ status' = [status EXCEPT ![call.arg] = "UNUSED"]
    BY <1>9 DEF KillAllMark, InProcess
  <2>2. k # call.arg /\ status'[k] = status[k]
    BY <2>1, <1>0 DEF Started
  <2> QED BY <2>1, <2>2, <1>00
<1>10. CASE UNCHANGED vars
  BY <1>00, <1>10 DEF vars, procVars
<1> QED BY <1>1, <1>2, <1>3, <1>4, <1>5, <1>6, <1>7, <1>8, <1>9, <1>10 DEF Next, KernelOwnStep

\* The loop overlooks no candidate but one it has just woken.
LEMMA SearchStep == ASSUME IInv, SearchInv, [Next]_vars PROVE SearchInv'
<1> USE GrassAssumption
<1>0. TypeOK /\ TypeOK' /\ Scanned \subseteq Slots
  BY TypeStep DEF IInv, Scanned, Slots
<1>1. ASSUME i' = 1, lowest_level' = MLFQ_NLEVELS, next_idx' = MAX_NPROCESS, curr' = curr,
             \A r \in Slots : Blocked(r)' /\ Received(syscall, r)' /\ r # curr' =>
               syscall'[r].sender = pid'[curr']
      PROVE  SearchInv'
  <2>1. ASSUME NEW k \in Scanned PROVE Ahead(k)'
    <3>1. \A n \in 1..MAX_NPROCESS : Nth(n)' = Nth(n)
      BY <1>1 DEF Nth
    <3> QED BY <3>1, <1>0, <1>1, NthCovers DEF TypeOK, Ahead
  <2>2. ~(next_idx' < MAX_NPROCESS)
    BY <1>1
  <2> QED BY <1>1, <2>1, <2>2 DEF SearchInv
<1>2. ASSUME NEW req \in SyscallRecord, req.status = "PENDING", req.type \in {"SEND", "RECV"},
             Ecall(req)
      PROVE  SearchInv'
  <2>1. CASE kpc' = "scan"
    BY <1>1, <1>2, <2>1, EcallEffect DEF Fatals
  <2>2. CASE kpc' # "scan"
    BY <2>2 DEF SearchInv
  <2> QED BY <2>1, <2>2
<1>3. CASE Send \/ Recv
  BY <1>2, <1>3, RequestsAreCalls DEF Send, Recv
<1>4. CASE Timer
  <2>1. \A r \in Slots : Blocked(r)' => ~Received(syscall, r)'
    BY <1>4, TimerEffect, UserFacts DEF Blocked, Received
  <2> QED BY <2>1, <1>1, <1>4, TimerEffect
<1>5. CASE ScanStep
  <2> DEFINE j == Nth(i)
  <2>1. CASE kpc' # "scan"
    BY <2>1 DEF SearchInv
  <2>2. CASE kpc' = "scan"
    <3>1. /\ kpc = "scan" /\ i <= MAX_NPROCESS /\ j \in Scanned /\ j \in Slots /\ i' = i + 1
          /\ UNCHANGED <<pid, mlfq_level, curr>>
          /\ \/ /\ status'[j] \in Candidates /\ mlfq_level[j] < lowest_level
                /\ lowest_level' = mlfq_level[j] /\ next_idx' = j
             \/ /\ ~(status'[j] \in Candidates /\ mlfq_level[j] < lowest_level)
                /\ lowest_level' = lowest_level /\ next_idx' = next_idx
      BY <1>0, <1>5, <2>2, ScanEffect DEF Fatals
    <3>2. \/ /\ status' = status
             /\ \A r \in Slots : Blocked(r) /\ Received(syscall, r)' /\ r # curr =>
                  Received(syscall, r) /\ syscall'[r] = syscall[r]
          \/ /\ Blocked(j) /\ Received(syscall, j) /\ syscall' = syscall
             /\ \E s \in Scanned \ {j} :
                  /\ Blocked(s) /\ pid[s] = syscall[j].sender
                  /\ status' = [status EXCEPT ![j] = "RUNNABLE", ![s] = "RUNNABLE"]
      BY <1>5, <2>2, ScanEffect DEF Fatals
    <3> HIDE DEF j
    <3>3. /\ next_idx' < MAX_NPROCESS => lowest_level' = mlfq_level'[next_idx']
          /\ next_idx' = MAX_NPROCESS => lowest_level' = MLFQ_NLEVELS
      <4>1. j < MAX_NPROCESS /\ j \in Nat
        BY <3>1 DEF Scanned
      <4>2. /\ next_idx < MAX_NPROCESS => lowest_level = mlfq_level[next_idx]
            /\ next_idx = MAX_NPROCESS => lowest_level = MLFQ_NLEVELS
        BY <3>1 DEF SearchInv
      <4>3. j # MAX_NPROCESS
        BY <4>1
      <4> QED BY <3>1, <4>2, <4>3
    <3>4. ASSUME NEW r \in Slots, Blocked(r)', Received(syscall, r)', r # curr'
          PROVE  syscall'[r].sender = pid'[curr']
      <4>1. Blocked(r)
        BY <3>2, <3>4, <1>0 DEF Blocked, TypeOK
      <4>2. Received(syscall, r) /\ syscall'[r] = syscall[r]
        BY <3>1, <3>2, <3>4, <4>1 DEF Received
      <4>3. syscall[r].sender = pid[curr]
        BY <3>1, <3>4, <4>1, <4>2 DEF SearchInv
      <4> QED BY <3>1, <4>2, <4>3
    <3>5. ASSUME NEW k \in Scanned, ~Ahead(k)', status'[k] \in Candidates,
                 mlfq_level'[k] < lowest_level'
          PROVE  /\ i' > MAX_NPROCESS /\ status'[curr'] = "RUNNABLE"
                 /\ Received(syscall, curr)' /\ syscall'[curr'].sender = pid'[k] /\ k # curr'
      <4>1. /\ mlfq_level[k] \in Int /\ mlfq_level[j] \in Int /\ lowest_level \in Int
            /\ i \in 1..MAX_NPROCESS
        BY <1>0, <3>1 DEF TypeOK
      <4>2. mlfq_level[k] < lowest_level
        BY <3>1, <3>5, <4>1
      <4>3. k # j
        <5>1. k = j => mlfq_level[j] < lowest_level'
          BY <3>1, <3>5
        <5> QED BY <5>1, <3>1, <3>5, <4>1
      <4>4. ~Ahead(k)
        BY <3>1, <3>5, <4>3, <1>0, AheadStep DEF j
      <4>5. status'[k] # status[k]
        <5> SUFFICES ASSUME status'[k] = status[k] PROVE FALSE
          OBVIOUS
        <5>1. i > MAX_NPROCESS
          BY <3>1, <3>5, <4>2, <4>4 DEF SearchInv
        <5> QED BY <5>1, <3>1, <4>1
      <4>6. /\ Blocked(j) /\ Received(syscall, j) /\ syscall' = syscall
            /\ Blocked(k) /\ pid[k] = syscall[j].sender
            /\ status'[j] = "RUNNABLE"
        BY <3>1, <3>2, <4>3, <4>5, <1>0 DEF TypeOK
      <4>7. j = curr
        <5> SUFFICES ASSUME j # curr PROVE FALSE
          OBVIOUS
        <5>1. pid[k] = pid[curr]
          BY <3>1, <4>6 DEF SearchInv
        <5>2. k = curr
          BY <5>1, <4>6, <1>0, <3>1 DEF IInv, PidInv, Blocked, Live, TypeOK
        <5>3. Ahead(curr)'
          BY <1>0, <3>1, AheadStep DEF j
        <5>4. curr' = curr
          BY <3>1
        <5> QED BY <5>2, <5>3, <5>4, <3>5 DEF Ahead, Nth
      <4>8. i = MAX_NPROCESS
        <5>1. Nth(MAX_NPROCESS) = Nth(i)
          BY <4>7, <1>0, NthCovers DEF j, TypeOK
        <5> QED BY <5>1, <4>1, <1>0, NthCovers DEF TypeOK
      <4>9. i' > MAX_NPROCESS
        BY <3>1, <4>8
      <4>10. Received(syscall, curr)'
        BY <3>1, <4>6, <4>7 DEF Received
      <4> QED BY <3>1, <4>3, <4>6, <4>7, <4>9, <4>10
    <3> QED BY <3>3, <3>4, <3>5 DEF SearchInv
  <2> QED BY <2>1, <2>2
<1>6. CASE UNCHANGED vars
  BY <1>6 DEF vars, procVars, loopVars, SearchInv, Ahead, Nth, Blocked, Received
<1>7. CASE ~(Send \/ Recv \/ Timer \/ ScanStep \/ UNCHANGED vars)
  <2>1. kpc' # "scan"
    BY <1>7 DEF Next, Fault, Dispatch, Panic, proc_alloc, elf_load, proc_set_ready, proc_free,
       ProcFreeEnd, KillAll, KillAllUnmap, KillAllMark, KillAllEnd, Halted, InProcess
  <2> QED BY <2>1 DEF SearchInv
<1> QED BY <1>3, <1>4, <1>5, <1>6, <1>7

\* The kernel stops with "no process to run" after a search that found nobody.
LEMMA IdleStep ==
  ASSUME IInv, SearchInv, IdleOnlyWhenAllBlocked, [Next]_vars
  PROVE  IdleOnlyWhenAllBlocked'
<1> USE GrassAssumption
<1> SUFFICES ASSUME kpc' = "no_process", NEW k \in Scanned
             PROVE  status'[k] \notin {"READY", "RUNNABLE", "RUNNING"}
  BY DEF IdleOnlyWhenAllBlocked
<1>0. TypeOK /\ Scanned \subseteq Slots /\ curr \in Scanned
  BY DEF IInv, TypeOK, Scanned, Slots
<1>1. CASE Dispatch
  <2>1. kpc = "scan" /\ i > MAX_NPROCESS /\ next_idx = MAX_NPROCESS /\ status' = status
    BY <1>1, DispatchEffect
  <2>2. \A x \in Scanned : ~Ahead(x) /\ mlfq_level[x] < MLFQ_NLEVELS
    BY <1>0, <2>1 DEF TypeOK, Ahead
  <2>3. lowest_level = MLFQ_NLEVELS
    BY <2>1 DEF SearchInv
  <2>4. ASSUME NEW x \in Scanned, status[x] \in Candidates
        PROVE  status[curr] = "RUNNABLE" /\ x # curr
    BY <2>1, <2>2, <2>3, <2>4 DEF SearchInv
  <2>5. status[curr] \notin Candidates
    BY <2>4, <1>0
  <2>6. status[k] \notin Candidates
    BY <2>4, <2>5 DEF Candidates
  <2>7. status[k] # "RUNNING"
    BY <2>1, <1>0 DEF IInv, ScanInv
  <2> QED BY <2>1, <2>6, <2>7 DEF Candidates
<1>2. CASE Halted \/ UNCHANGED vars
  BY <1>2 DEF Halted, vars, procVars, IdleOnlyWhenAllBlocked
<1>3. ASSUME NEW req \in SyscallRecord, req.status = "PENDING", req.type \in {"SEND", "RECV"},
             Ecall(req)
      PROVE  FALSE
  BY <1>3, EcallEffect
<1>4. ~Send /\ ~Recv
  BY <1>3, RequestsAreCalls DEF Send, Recv
<1>5. ~ScanStep
  BY ScanEffect
<1>6. ~(Timer \/ Fault \/ proc_alloc \/ elf_load \/ proc_set_ready \/ (\E p \in UserPids : proc_free(p))
        \/ ProcFreeEnd \/ KillAll \/ KillAllUnmap \/ KillAllMark \/ KillAllEnd)
  BY DEF Timer, proc_yield, Fault, Panic, proc_alloc, elf_load, proc_set_ready, proc_free,
     ProcFreeEnd, KillAll, KillAllUnmap, KillAllMark, KillAllEnd, InProcess
<1> QED BY <1>1, <1>2, <1>4, <1>5, <1>6 DEF Next

LEMMA LifeInvariant == Spec => [](IInv /\ LifeInv)
<1>1. Init => IInv /\ LifeInv
  <2> SUFFICES ASSUME Init PROVE LifeInv
    BY InitInv
  <2>1. SearchInv /\ LoadInv /\ IdleOnlyWhenAllBlocked
    BY DEF Init, SearchInv, LoadInv, IdleOnlyWhenAllBlocked, NoCall
  <2>2. UnmappedOnlyWhileFreed
    BY GrassAssumption DEF Init, UnmappedOnlyWhileFreed, Scanned, Slots
  <2> QED BY <2>1, <2>2 DEF LifeInv
<1>2. IInv /\ LifeInv /\ [Next]_vars => IInv' /\ LifeInv'
  BY InvStep, SearchStep, LoadStep, MappedStep, IdleStep DEF LifeInv
<1> QED BY <1>1, <1>2, PTL DEF Spec

\* "No process to run" is reported only when every process is blocked or still loading:
\* the search by levels overlooks nobody, whatever woke up while it went on
\* (kernel.c:117-164).
THEOREM IdleIsHonest == Spec => []IdleOnlyWhenAllBlocked
<1>1. LifeInv => IdleOnlyWhenAllBlocked
  BY DEF LifeInv
<1> QED BY <1>1, LifeInvariant, PTL

\* The search finds the best level among all candidates, except that it may miss the
\* sender of the message that the current process received in the last iteration
\* (kernel.c:122-137).
THEOREM BestLevelPicked == Spec => []PicksBestLevel
<1>1. IInv /\ LifeInv => PicksBestLevel
  <2> SUFFICES ASSUME IInv, SearchInv, kpc = "scan", i > MAX_NPROCESS, NEW k \in Scanned,
                      status[k] \in {"READY", "RUNNABLE"}, mlfq_level[k] < lowest_level
               PROVE  Received(syscall, curr) /\ syscall[curr].sender = pid[k] /\ k # curr
    BY DEF PicksBestLevel, LifeInv
  <2>1. ~Ahead(k)
    BY GrassAssumption DEF Ahead, IInv, TypeOK
  <2> QED BY <2>1 DEF SearchInv, Candidates
<1> QED BY <1>1, LifeInvariant, PTL

\* A process that has started has its pages, except between mmu_free and UNUSED in
\* proc_free (process.c:96, 129).
THEOREM PagesUntilFreed == Spec => []UnmappedOnlyWhileFreed
<1>1. LifeInv => UnmappedOnlyWhileFreed
  BY DEF LifeInv
<1> QED BY <1>1, LifeInvariant, PTL

\* Every process goes through the life cycle of process.h, whatever pid or system call
\* its slot still holds from the last one.
THEOREM LifeCycleKept == Spec => LifeCycle
<1> DEFINE Moves ==
      {<<"UNUSED", "LOADING">>, <<"LOADING", "READY">>, <<"READY", "RUNNING">>,
       <<"RUNNING", "RUNNABLE">>, <<"RUNNING", "PENDING_SYSCALL">>,
       <<"PENDING_SYSCALL", "RUNNABLE">>, <<"RUNNABLE", "RUNNING">>,
       <<"LOADING", "UNUSED">>, <<"READY", "UNUSED">>, <<"RUNNABLE", "UNUSED">>,
       <<"PENDING_SYSCALL", "UNUSED">>}
           Cycle == \A k \in Slots : status'[k] # status[k] => <<status[k], status'[k]>> \in Moves
<1>1. IInv /\ LifeInv /\ [Next]_vars => [Cycle]_vars
  <2>1. ASSUME IInv, LoadInv, Next, NEW k \in Slots, status'[k] # status[k]
        PROVE  <<status[k], status'[k]>> \in Moves
    <3>1. CASE KernelOwnStep
      BY <2>1, <3>1, KernelEffect DEF KernelMoves
    <3>2. CASE ~KernelOwnStep
      BY <2>1, <3>2, InterfaceMoves
    <3> QED BY <3>1, <3>2
  <2> HIDE DEF Moves
  <2> QED BY <2>1 DEF LifeInv
<1>2. [][Cycle]_vars <=> LifeCycle
  BY DEF LifeCycle
<1> HIDE DEF Cycle
<1> QED BY <1>1, <1>2, LifeInvariant, PTL DEF Spec

-----------------------------------------------------------------------------
(* What the mapping needs besides the invariants of Grass.                 *)

\* The slot that the loops do not see never starts; a blocked process is in one of the two
\* system calls; a loaded process has received nothing.
MapInv ==
  /\ status[MAX_NPROCESS] \in {"UNUSED", "LOADING"}
  /\ \A k \in Slots : Blocked(k) => syscall[k].type \in {"SEND", "RECV"}
  /\ call.op = "loaded" => \A k \in Slots : pid[k] = call.arg => usr[k] = NoMsg

AllInv == IInv /\ LoadInv /\ MapInv

\* A user's inbox changes when the user makes a system call, or is woken from one, or is
\* loaded.
LEMMA KernelInboxes ==
  ASSUME IInv, KernelOwnStep, NEW k \in Slots, status[k] = "LOADING"
  PROVE  usr'[k] = usr[k]
<1>1. usr \in [Slots -> Inbox]
  BY DEF IInv, TypeOK
<1>2. ASSUME NEW req \in SyscallRecord, req.status = "PENDING", Ecall(req) PROVE usr'[k] = usr[k]
  <2> DEFINE sc == [syscall EXCEPT ![curr] = req]
             st == proc_set_status(status, pid[curr], "PENDING_SYSCALL")
             us == [usr EXCEPT ![curr] = NoMsg]
  <2>1. kpc = "user"
    BY <1>2 DEF Ecall
  <2>2. k # curr /\ curr \in Slots /\ sc[curr] = req
    BY <2>1, UserFacts
  <2>3. TrySyscallUser(sc, us, curr) = us
    <3> HIDE DEF sc, us
    <3> QED BY <1>2, <2>2 DEF TrySyscallUser, CopyToUser, Received
  <2>4. usr' = usr \/ usr' = us
    BY <1>2, <2>3 DEF Ecall, Panic, proc_yield, procVars
  <2> QED BY <2>2, <2>4, <1>1
<1>3. CASE Send \/ Recv
  BY <1>2, <1>3, RequestsAreCalls DEF Send, Recv
<1>4. CASE Timer
  BY <1>4 DEF Timer, proc_yield
<1>5. CASE Fault \/ Dispatch \/ Halted
  BY <1>5 DEF Fault, Dispatch, Halted, Panic, procVars, vars
<1>6. CASE ScanStep
  <2>1. \/ usr' = usr
        \/ status[Nth(i)] = "PENDING_SYSCALL" /\ usr' = TrySyscallUser(syscall, usr, Nth(i))
    BY <1>6 DEF ScanStep, Panic, procVars
  <2> QED BY <2>1, <1>1 DEF TrySyscallUser, CopyToUser
<1> QED BY <1>3, <1>4, <1>5, <1>6 DEF KernelOwnStep

\* The types of the system calls that somebody is blocked in.
LEMMA BlockedTypes ==
  ASSUME IInv, MapInv, [Next]_vars, NEW k \in Slots, Blocked(k)'
  PROVE  syscall'[k].type \in {"SEND", "RECV"}
<1>0. syscall \in [Slots -> SyscallRecord] /\ status \in [Slots -> Statuses]
  BY DEF IInv, TypeOK
<1>1. ASSUME NEW st, NEW sc \in [Slots -> SyscallRecord], NEW s \in Slots
      PROVE  TrySyscallTable(st, sc, s)[k].type = sc[k].type
  <2> DEFINE d == First(Receivers(st, sc[s].receiver))
  <2>1. \/ TrySyscallTable(st, sc, s) = sc
        \/ TrySyscallTable(st, sc, s) = [sc EXCEPT ![d] = [@ EXCEPT !.status = "DONE", !.sender = pid[s],
                                                              !.content = sc[s].content]]
    BY DEF TrySyscallTable, proc_try_send
  <2> HIDE DEF d
  <2>2. sc[k] \in SyscallRecord
    OBVIOUS
  <2>3. CASE TrySyscallTable(st, sc, s) = sc
    BY <2>3
  <2>4. CASE TrySyscallTable(st, sc, s) = [sc EXCEPT ![d] = [@ EXCEPT !.status = "DONE", !.sender = pid[s],
                                                              !.content = sc[s].content]]
    <3>1. CASE k = d
      <4>1. TrySyscallTable(st, sc, s)[k] =
              [sc[k] EXCEPT !.status = "DONE", !.sender = pid[s], !.content = sc[s].content]
        BY <2>4, <3>1
      <4> QED BY <2>2, <4>1 DEF SyscallRecord
    <3>2. CASE k # d
      BY <2>4, <3>2
    <3> QED BY <3>1, <3>2
  <2> QED BY <2>1, <2>3, <2>4
<1>2. ASSUME NEW req \in SyscallRecord, req.status = "PENDING", req.type \in {"SEND", "RECV"},
             Ecall(req)
      PROVE  syscall'[k].type \in {"SEND", "RECV"}
  <2> DEFINE sc == [syscall EXCEPT ![curr] = req]
             st == proc_set_status(status, pid[curr], "PENDING_SYSCALL")
  <2>1. kpc = "user" /\ curr \in Slots
    BY <1>2, UserFacts DEF Ecall
  <2>2. \/ kpc' \in Fatals \ {"no_process"} /\ status' = status
        \/ kpc' = "scan" /\ status' = [status EXCEPT ![curr] = "PENDING_SYSCALL"]
    BY <1>2, EcallEffect
  <2>3. (syscall' = syscall /\ status' = status) \/ syscall' = TrySyscallTable(st, sc, curr)
    BY <1>2 DEF Ecall, Panic, proc_yield, procVars
  <2>4. sc \in [Slots -> SyscallRecord] /\ sc[curr] = req /\ \A x \in Slots : x # curr => sc[x] = syscall[x]
    BY <1>0, <1>2, <2>1
  <2>5. k # curr => Blocked(k)
    BY <2>1, <2>2, <1>0 DEF Blocked
  <2>6. sc[k].type \in {"SEND", "RECV"}
    BY <2>4, <2>5, <1>2 DEF MapInv
  <2>7. CASE syscall' = TrySyscallTable(st, sc, curr)
    <3> HIDE DEF sc, st
    <3>1. TrySyscallTable(st, sc, curr)[k].type = sc[k].type
      BY <2>1, <2>4, <1>1
    <3> QED BY <3>1, <2>6, <2>7
  <2>8. CASE syscall' = syscall /\ status' = status
    BY <2>8 DEF MapInv, Blocked
  <2> QED BY <2>3, <2>7, <2>8
<1>3. CASE Send \/ Recv
  BY <1>2, <1>3, RequestsAreCalls DEF Send, Recv
<1>4. CASE Timer
  BY <1>0, <1>4, TimerEffect DEF MapInv, Blocked
<1>5. CASE ScanStep
  <2>1. Blocked(k) /\ Nth(i) \in Slots
    <3>1. Nth(i) \in Scanned
      BY <1>5, ScanEffect
    <3>2. Nth(i) \in Slots
      BY <3>1, GrassAssumption DEF Scanned, Slots
    <3> QED BY <3>2, <1>0, <1>5, ScanEffect DEF Blocked
  <2>2. syscall' = syscall \/ syscall' = TrySyscallTable(status, syscall, Nth(i))
    BY <1>5 DEF ScanStep, Panic, procVars
  <2> QED BY <2>1, <2>2, <1>0, <1>1 DEF MapInv
<1>6. CASE ~(Send \/ Recv \/ Timer \/ ScanStep)
  <2>1. syscall' = syscall
    BY <1>6 DEF Next, Fault, Dispatch, Panic, proc_alloc, elf_load, proc_set_ready, proc_free,
       ProcFreeEnd, KillAll, KillAllUnmap, KillAllMark, KillAllEnd, Halted, vars, procVars
  <2>2. Blocked(k)
    <3>1. CASE Fault \/ Halted \/ UNCHANGED vars \/ elf_load \/ (\E p \in UserPids : proc_free(p))
               \/ KillAll \/ KillAllUnmap \/ KillAllEnd
      BY <3>1 DEF Fault, Panic, Halted, vars, procVars, elf_load, proc_free, KillAll, KillAllUnmap,
         KillAllEnd, Blocked
    <3>2. CASE Dispatch
      BY <3>2, <1>0, DispatchEffect DEF Blocked
    <3>3. CASE proc_set_ready \/ ProcFreeEnd \/ KillAllMark
      BY <3>3, <1>0 DEF proc_set_ready, ProcFreeEnd, KillAllMark, proc_set_status, Blocked
    <3>4. CASE proc_alloc
      BY <3>4, <1>0 DEF proc_alloc, Panic, procVars, Blocked
    <3> QED BY <3>1, <3>2, <3>3, <3>4, <1>6 DEF Next
  <2> QED BY <2>1, <2>2 DEF MapInv
<1> QED BY <1>3, <1>4, <1>5, <1>6

LEMMA MapStep == ASSUME AllInv, [Next]_vars PROVE AllInv'
<1> USE GrassAssumption
<1>0. IInv' /\ LoadInv' /\ IInv /\ LoadInv /\ MapInv
  BY InvStep, LoadStep DEF AllInv
<1>1. status \in [Slots -> Statuses] /\ call \in Calls /\ MAX_NPROCESS \in Slots
      /\ usr \in [Slots -> Inbox] /\ pid \in [Slots -> Pids]
  BY <1>0 DEF IInv, TypeOK, Slots
<1>2. \A k \in Slots : Blocked(k)' => syscall'[k].type \in {"SEND", "RECV"}
  BY <1>0, BlockedTypes
<1>3. status'[MAX_NPROCESS] \in {"UNUSED", "LOADING"}
  <2>1. CASE KernelOwnStep
    BY <2>1, <1>0, <1>1, KernelEffect DEF MapInv, KernelMoves
  <2>2. CASE ~KernelOwnStep
    <3>1. CASE proc_set_ready
      BY <3>1, <1>0, <1>1 DEF proc_set_ready, proc_set_status, MapInv
    <3>2. CASE ~proc_set_ready
      <4>1. status'[MAX_NPROCESS] \in {status[MAX_NPROCESS], "UNUSED", "LOADING"}
        BY <3>2, <2>2, <1>1 DEF Next, KernelOwnStep, proc_alloc, elf_load, proc_free, ProcFreeEnd,
           KillAll, KillAllUnmap, KillAllMark, KillAllEnd, vars, procVars, proc_set_status, Panic
      <4> QED BY <4>1, <1>0 DEF MapInv
    <3> QED BY <3>1, <3>2
  <2> QED BY <2>1, <2>2
<1>4. ASSUME call'.op = "loaded", NEW k \in Slots, pid'[k] = call'.arg PROVE usr'[k] = NoMsg
  <2>1. CASE elf_load
    <3>1. call'.arg = call.arg /\ pid' = pid
      BY <2>1, <1>1 DEF elf_load, Calls
    <3> QED BY <3>1, <2>1, <1>4 DEF elf_load
  <2>2. CASE KernelOwnStep
    <3>1. UNCHANGED <<pid, call>>
      BY <2>2, <1>0, KernelEffect
    <3>2. status[k] = "LOADING" /\ usr[k] = NoMsg
      BY <3>1, <1>0, <1>4 DEF LoadInv, MapInv
    <3> QED BY <3>2, <2>2, <1>0, KernelInboxes
  <2>3. CASE UNCHANGED vars
    BY <2>3, <1>0, <1>4 DEF vars, procVars, MapInv
  <2>4. CASE proc_alloc
    <3>1. call'.op # "loaded"
      BY <2>4 DEF proc_alloc, InProcess, Panic
    <3> QED BY <3>1, <1>4
  <2>5. ~(proc_set_ready \/ ProcFreeEnd \/ KillAllMark \/ KillAllEnd \/ KillAll \/ KillAllUnmap
          \/ \E p \in UserPids : proc_free(p))
    BY <1>4 DEF proc_set_ready, ProcFreeEnd, KillAllMark, KillAllEnd, KillAll, KillAllUnmap, NoCall,
       proc_free
  <2> QED BY <2>1, <2>2, <2>3, <2>4, <2>5 DEF Next, KernelOwnStep
<1> QED BY <1>0, <1>2, <1>3, <1>4 DEF AllInv, MapInv

LEMMA AllInit == Init => AllInv
<1> SUFFICES ASSUME Init PROVE LoadInv /\ MapInv
  BY InitInv DEF AllInv
<1> QED BY GrassAssumption DEF Init, LoadInv, MapInv, NoCall, Blocked, Slots

LEMMA MapInvariant == Spec => []AllInv
<1>1. AllInv /\ [Next]_vars => AllInv'
  BY MapStep
<1> QED BY <1>1, AllInit, PTL DEF Spec

-----------------------------------------------------------------------------
(* The mapping, slot by slot.                                              *)

\* The message for k is in the kernel's copy of its system call.
Handed(k) == Blocked(k) /\ Received(syscall, k)
\* k's message is in the kernel's copy of the receiver's system call.
Passed(k) == \E r \in Slots : Handed(r) /\ Sending(k, r) /\ syscall[r].sender = pid[k]

Doing(k) ==
  IF ~Live(k) THEN "absent" ELSE
  IF ~Blocked(k) THEN "idle" ELSE
  IF syscall[k].type = "SEND" THEN IF Passed(k) THEN "idle" ELSE "sending"
                              ELSE IF Handed(k) THEN "idle" ELSE "receiving"
Asking(k) ==
  IF Doing(k) = "sending" THEN [peer |-> syscall[k].receiver, content |-> syscall[k].content] ELSE
  IF Doing(k) = "receiving" THEN [peer |-> syscall[k].sender] ELSE NoCall
Holding(k) ==
  IF status[k] \in {"UNUSED", "LOADING"} THEN NoMsg ELSE
  IF Handed(k) THEN [sender |-> syscall[k].sender, content |-> syscall[k].content] ELSE usr[k]

SlotBySlot ==
  /\ ipcState = [k \in Slots |-> Doing(k)]
  /\ ipcRequest = [k \in Slots |-> Asking(k)]
  /\ ipcInbox = [k \in Slots |-> Holding(k)]

LEMMA MapNow == SlotBySlot
<1>1. \A k \in Slots : Blocked(k) => Live(k)
  BY DEF Blocked, Live
<1>2. \A k \in Slots : (k \in HandedOver) <=> Handed(k)
  BY DEF HandedOver, Handed
<1>3. \A k \in Slots : Taken(k, HandedOver) <=> Passed(k)
  BY <1>2 DEF Taken, Passed, HandedOver
<1>4. \A k \in Slots : Live(k) => Waiting(k, HandedOver) = Doing(k)
  BY <1>2, <1>3 DEF Waiting, Doing
<1>5. ipcState = [k \in Slots |-> Doing(k)]
  <2>1. \A k \in Slots : (IF Live(k) THEN Waiting(k, HandedOver) ELSE "absent") = Doing(k)
    BY <1>4 DEF Doing
  <2> QED BY <2>1 DEF ipcState
<1>6. ipcRequest = [k \in Slots |-> Asking(k)]
  <2> DEFINE Req(k) ==
               IF ~Blocked(k) THEN NoCall ELSE
               CASE Waiting(k, HandedOver) = "sending" ->
                      [peer |-> syscall[k].receiver, content |-> syscall[k].content]
                 [] Waiting(k, HandedOver) = "receiving" -> [peer |-> syscall[k].sender]
                 [] OTHER -> NoCall
  <2>1. ASSUME NEW k \in Slots PROVE Req(k) = Asking(k)
    <3>1. CASE ~Blocked(k)
      BY <3>1 DEF Asking, Doing
    <3>2. CASE Blocked(k)
      BY <3>2, <1>1, <1>4 DEF Asking
    <3> QED BY <3>1, <3>2
  <2>2. ipcRequest = [k \in Slots |-> Req(k)]
    BY DEF ipcRequest
  <2> HIDE DEF Req
  <2> QED BY <2>1, <2>2
<1>7. ipcInbox = [k \in Slots |-> Holding(k)]
  <2> DEFINE In(k) ==
               CASE status[k] \in {"UNUSED", "LOADING"} -> NoMsg
                 [] Blocked(k) /\ Received(syscall, k) ->
                      [sender |-> syscall[k].sender, content |-> syscall[k].content]
                 [] OTHER -> usr[k]
  <2>1. ASSUME NEW k \in Slots PROVE In(k) = Holding(k)
    BY DEF Holding, Handed, Blocked
  <2>2. ipcInbox = [k \in Slots |-> In(k)]
    BY DEF ipcInbox
  <2> HIDE DEF In
  <2> QED BY <2>1, <2>2
<1> QED BY <1>5, <1>6, <1>7 DEF SlotBySlot

LEMMA MapNext == SlotBySlot'
BY MapNow, PTL

-----------------------------------------------------------------------------
(* Steps that the callers do not see, and steps that change one slot.      *)

LEMMA SameView ==
  ASSUME pid' = pid,
         \A k \in Slots : Doing(k)' = Doing(k) /\ Asking(k)' = Asking(k) /\ Holding(k)' = Holding(k)
  PROVE  IPC!ipcVars' = IPC!ipcVars
<1>1. ipcState' = ipcState
  BY MapNow, MapNext DEF SlotBySlot
<1>2. ipcRequest' = ipcRequest
  BY MapNow, MapNext DEF SlotBySlot
<1>3. ipcInbox' = ipcInbox
  BY MapNow, MapNext DEF SlotBySlot
<1> QED BY <1>1, <1>2, <1>3 DEF IPC!ipcVars

\* What the process in slot k holds when no message is on the way to it.
Own(k) == IF status[k] \in {"UNUSED", "LOADING"} THEN NoMsg ELSE usr[k]

LEMMA Invisible ==
  ASSUME pid' = pid,
         \A k \in Slots : /\ Live(k)' <=> Live(k)
                          /\ Blocked(k)' <=> Blocked(k)
                          /\ Blocked(k) => syscall'[k] = syscall[k]
                          /\ Own(k)' = Own(k)
  PROVE  IPC!ipcVars' = IPC!ipcVars
<1>1. \A k \in Slots : Handed(k)' <=> Handed(k)
  BY DEF Handed, Received
<1>2. \A k, r \in Slots : Sending(k, r)' <=> Sending(k, r)
  BY DEF Sending
<1>3. \A k \in Slots : Passed(k)' <=> Passed(k)
  BY <1>1, <1>2 DEF Passed, Handed
<1>4. \A k \in Slots : Doing(k)' = Doing(k)
  BY <1>1, <1>3 DEF Doing
<1>5. \A k \in Slots : Doing(k) \in {"sending", "receiving"} => Blocked(k)
  BY DEF Doing
<1>6. \A k \in Slots : Asking(k)' = Asking(k)
  BY <1>4, <1>5 DEF Asking
<1>7. ASSUME NEW k \in Slots PROVE Holding(k)' = Holding(k)
  <2>1. CASE Handed(k)
    BY <2>1, <1>1 DEF Holding, Handed, Blocked
  <2>2. CASE ~Handed(k)
    <3>1. Holding(k) = Own(k) /\ Holding(k)' = Own(k)'
      BY <2>2, <1>1 DEF Holding, Own
    <3> QED BY <3>1
  <2> QED BY <2>1, <2>2
<1> QED BY <1>4, <1>6, <1>7, SameView

\* In user mode no message is on the way, and no exchange is possible.
LEMMA UserView ==
  ASSUME AllInv, kpc = "user"
  PROVE  /\ \A k \in Slots : ~Handed(k) /\ ~Passed(k)
         /\ IPC!Quiet
<1>1. \A k \in Slots : ~Handed(k)
  BY UserFacts DEF AllInv, Handed
<1>2. \A k \in Slots : ~Passed(k)
  BY <1>1 DEF Passed
<1>3. ASSUME NEW s \in Slots, NEW r \in Slots, IPC!Matches(s, r) PROVE FALSE
  <2>1. /\ Doing(s) = "sending" /\ Doing(r) = "receiving"
        /\ Asking(s).peer = pid[r] /\ Asking(r).peer \in {GPID_ALL, pid[s]}
    BY <1>3, MapNow DEF IPC!Matches, SlotBySlot
  <2>2. Blocked(s) /\ syscall[s].type = "SEND" /\ Blocked(r) /\ syscall[r].type # "SEND"
    BY <2>1 DEF Doing
  <2>3. syscall[s].receiver = pid[r] /\ syscall[r].sender \in {GPID_ALL, pid[s]}
    BY <2>1 DEF Asking
  <2>4. syscall[r].type = "RECV" /\ syscall[r].status = "PENDING"
    <3>1. syscall[r].type = "RECV" /\ syscall[r].status \in {"PENDING", "DONE"}
      <4>1. syscall[r] \in SyscallRecord
        BY DEF AllInv, IInv, TypeOK
      <4> QED BY <4>1, <2>2 DEF AllInv, MapInv, SyscallRecord
    <3> QED BY <3>1, <2>2, <1>1 DEF Handed, Received
  <2>5. s \in Scanned /\ r \in Scanned
    BY <2>2, GrassAssumption DEF AllInv, MapInv, Blocked, Slots, Scanned
  <2> QED BY <2>2, <2>3, <2>4, <2>5, UserFacts DEF AllInv, Rendezvous, Sending, Accepts
<1>4. IPC!Quiet
  BY <1>3 DEF IPC!Quiet
<1> QED BY <1>1, <1>2, <1>4

\* A step from user mode that changes the slot e only, as far as callers can tell.
LEMMA OneSlot ==
  ASSUME AllInv, kpc = "user", NEW e \in Slots, ~Handed(e)',
         \A k \in Slots \ {e} : /\ status'[k] = status[k] /\ usr'[k] = usr[k]
                                /\ Blocked(k) => syscall'[k] = syscall[k]
  PROVE  /\ \A k \in Slots : ~Handed(k)' /\ ~Passed(k)'
         /\ \A k \in Slots \ {e} :
              Doing(k)' = Doing(k) /\ Asking(k)' = Asking(k) /\ Holding(k)' = Holding(k)
<1>0. \A k \in Slots : ~Handed(k) /\ ~Passed(k)
  BY UserView
<1>1. \A k \in Slots : ~Handed(k)'
  BY <1>0 DEF Handed, Blocked, Received
<1>2. \A k \in Slots : ~Passed(k)'
  BY <1>1 DEF Passed
<1>3. ASSUME NEW k \in Slots \ {e}
      PROVE  Doing(k)' = Doing(k) /\ Asking(k)' = Asking(k) /\ Holding(k)' = Holding(k)
  <2>1. Doing(k)' = Doing(k)
    BY <1>0, <1>1, <1>2 DEF Doing, Live, Blocked
  <2>2. Doing(k) \in {"sending", "receiving"} => Blocked(k)
    BY DEF Doing
  <2>3. Asking(k)' = Asking(k)
    BY <2>1, <2>2 DEF Asking
  <2>4. Holding(k)' = Holding(k)
    BY <1>0, <1>1 DEF Holding
  <2> QED BY <2>1, <2>3, <2>4
<1> QED BY <1>1, <1>2, <1>3

\* The two ways in which a function of the mapping changes.
LEMMA ExceptOne ==
  ASSUME NEW S, NEW f, NEW g, f = [k \in S |-> f[k]], g = [k \in S |-> g[k]],
         NEW e \in S, NEW v, g[e] = v, \A k \in S \ {e} : g[k] = f[k]
  PROVE  g = [f EXCEPT ![e] = v]
<1> QED OBVIOUS

LEMMA ExceptTwo ==
  ASSUME NEW S, NEW f, NEW g, f = [k \in S |-> f[k]], g = [k \in S |-> g[k]],
         NEW e \in S, NEW v, g[e] = v, NEW d \in S, NEW w, g[d] = w, d # e,
         \A k \in S \ {d, e} : g[k] = f[k]
  PROVE  g = [f EXCEPT ![e] = v, ![d] = w]
<1> QED OBVIOUS

Tables ==
  /\ ipcState = [k \in Slots |-> ipcState[k]] /\ \A k \in Slots : ipcState[k] = Doing(k)
  /\ ipcRequest = [k \in Slots |-> ipcRequest[k]] /\ \A k \in Slots : ipcRequest[k] = Asking(k)
  /\ ipcInbox = [k \in Slots |-> ipcInbox[k]] /\ \A k \in Slots : ipcInbox[k] = Holding(k)

LEMMA TablesNow == Tables
BY MapNow DEF SlotBySlot, Tables

LEMMA TablesNext == Tables'
BY TablesNow, PTL

LEMMA ViewOfSlot ==
  ASSUME NEW e \in Slots,
         \A k \in Slots \ {e} :
           Doing(k)' = Doing(k) /\ Asking(k)' = Asking(k) /\ Holding(k)' = Holding(k)
  PROVE  /\ ipcState' = [ipcState EXCEPT ![e] = Doing(e)']
         /\ ipcRequest' = [ipcRequest EXCEPT ![e] = Asking(e)']
         /\ ipcInbox' = [ipcInbox EXCEPT ![e] = Holding(e)']
<1>1. /\ ipcState = [k \in Slots |-> ipcState[k]] /\ ipcState' = [k \in Slots |-> ipcState'[k]]
      /\ ipcState'[e] = Doing(e)' /\ \A k \in Slots \ {e} : ipcState'[k] = ipcState[k]
  BY TablesNow, TablesNext DEF Tables
<1>2. /\ ipcRequest = [k \in Slots |-> ipcRequest[k]]
      /\ ipcRequest' = [k \in Slots |-> ipcRequest'[k]]
      /\ ipcRequest'[e] = Asking(e)' /\ \A k \in Slots \ {e} : ipcRequest'[k] = ipcRequest[k]
  BY TablesNow, TablesNext DEF Tables
<1>3. /\ ipcInbox = [k \in Slots |-> ipcInbox[k]] /\ ipcInbox' = [k \in Slots |-> ipcInbox'[k]]
      /\ ipcInbox'[e] = Holding(e)' /\ \A k \in Slots \ {e} : ipcInbox'[k] = ipcInbox[k]
  BY TablesNow, TablesNext DEF Tables
<1> QED BY <1>1, <1>2, <1>3, ExceptOne

-----------------------------------------------------------------------------
(* The system calls.                                                       *)

\* sys_recv: the caller waits.
LEMMA RecvView ==
  ASSUME AllInv, NEW p \in 1..MaxPid \cup {GPID_ALL}, Ecall(RecvFrom(p))
  PROVE  IPC!IPCNext
<1> DEFINE sc == [syscall EXCEPT ![curr] = RecvFrom(p)]
           st == proc_set_status(status, pid[curr], "PENDING_SYSCALL")
           us == [usr EXCEPT ![curr] = NoMsg]
<1>1. kpc = "user" /\ IInv /\ curr \in Slots /\ status[curr] = "RUNNING"
      /\ usr \in [Slots -> Inbox] /\ syscall \in [Slots -> SyscallRecord]
      /\ status \in [Slots -> Statuses]
  <2>1. kpc = "user" /\ IInv
    BY DEF Ecall, AllInv
  <2> QED BY <2>1, UserFacts DEF IInv, TypeOK
<1>2. st = [status EXCEPT ![curr] = "PENDING_SYSCALL"]
  BY <1>1, UserFacts, SetStatusOne DEF IInv
<1>3. /\ sc[curr] = RecvFrom(p) /\ sc[curr].type = "RECV" /\ sc[curr].status = "PENDING"
      /\ sc[curr].sender = p
  BY <1>1 DEF RecvFrom
<1>4. SyscallFatal(st, sc, curr) = "none"
  BY <1>3 DEF SyscallFatal
<1>5. proc_yield(TrySyscallStatus(st, sc, curr), TrySyscallTable(st, sc, curr),
                 TrySyscallUser(sc, us, curr))
  BY <1>4 DEF Ecall
<1>6. st[curr] = "PENDING_SYSCALL" /\ \A k \in Slots \ {curr} : st[k] = status[k]
  BY <1>1, <1>2
<1>7. us[curr] = NoMsg /\ \A k \in Slots \ {curr} : us[k] = usr[k] /\ sc[k] = syscall[k]
  BY <1>1
<1> HIDE DEF st, sc, us
<1>8. status' = st /\ syscall' = sc /\ usr' = us /\ pid' = pid
  <2>1. TrySyscallStatus(st, sc, curr) = st
    BY <1>3 DEF TrySyscallStatus, proc_try_recv, Received
  <2>2. TrySyscallTable(st, sc, curr) = sc
    BY <1>3 DEF TrySyscallTable
  <2>3. TrySyscallUser(sc, us, curr) = us
    BY <1>3 DEF TrySyscallUser, CopyToUser, Received
  <2> QED BY <1>5, <1>6, <2>1, <2>2, <2>3 DEF proc_yield
<1>0. PICK e \in Slots : e = curr
  BY <1>1
<1>9. ~Handed(e)'
  BY <1>0, <1>3, <1>8 DEF Handed, Received
<1>10. /\ \A k \in Slots \ {e} : status'[k] = status[k] /\ usr'[k] = usr[k]
                                    /\ (Blocked(k) => syscall'[k] = syscall[k])
  BY <1>0, <1>6, <1>7, <1>8
<1>11. \A k \in Slots \ {e} :
         Doing(k)' = Doing(k) /\ Asking(k)' = Asking(k) /\ Holding(k)' = Holding(k)
  BY <1>1, <1>9, <1>10, OneSlot
<1>12. Doing(e) = "idle"
  BY <1>0, <1>1 DEF Doing, Live, Blocked
<1>13. Doing(e)' = "receiving"
  BY <1>0, <1>3, <1>6, <1>8, <1>9 DEF Doing, Live, Blocked
<1>14. Asking(e)' = [peer |-> p]
  BY <1>0, <1>13, <1>8, <1>3 DEF Asking
<1>15. Holding(e)' = NoMsg
  BY <1>0, <1>6, <1>7, <1>8, <1>9 DEF Holding
<1>16. /\ ipcState' = [ipcState EXCEPT ![e] = "receiving"]
       /\ ipcRequest' = [ipcRequest EXCEPT ![e] = [peer |-> p]]
       /\ ipcInbox' = [ipcInbox EXCEPT ![e] = NoMsg]
  BY <1>1, <1>11, <1>13, <1>14, <1>15, ViewOfSlot
<1>17. ipcState[e] = "idle" /\ ipcState'[e] = "receiving"
  BY <1>1, <1>12, <1>13, TablesNow, TablesNext DEF Tables
<1>18. p \in Pids \cup {GPID_ALL}
  BY GrassAssumption DEF Pids
<1>19. IPC!Receive(e)
  BY <1>8, <1>16, <1>17, <1>18 DEF IPC!Receive
<1>20. IPC!Quiet /\ ipcState' # ipcState
  BY <1>1, <1>17, UserView
<1> QED BY <1>1, <1>19, <1>20 DEF IPC!IPCNext

\* sys_send: a FATAL, an exchange with a receiver that waits, or the caller waits.
LEMMA SendView ==
  ASSUME AllInv, NEW p \in 1..MaxPid, NEW c \in Contents, Ecall(SendTo(p, c))
  PROVE  IPC!IPCNext \/ IPC!ipcVars' = IPC!ipcVars
<1> DEFINE sc == [syscall EXCEPT ![curr] = SendTo(p, c)]
           st == proc_set_status(status, pid[curr], "PENDING_SYSCALL")
           us == [usr EXCEPT ![curr] = NoMsg]
           to == First(Receivers(st, p))
           sc2 == TrySyscallTable(st, sc, curr)
<1>1. kpc = "user" /\ IInv /\ curr \in Slots /\ status[curr] = "RUNNING"
      /\ usr \in [Slots -> Inbox] /\ syscall \in [Slots -> SyscallRecord]
      /\ status \in [Slots -> Statuses]
  <2>1. kpc = "user" /\ IInv
    BY DEF Ecall, AllInv
  <2> QED BY <2>1, UserFacts DEF IInv, TypeOK
<1>2. st = [status EXCEPT ![curr] = "PENDING_SYSCALL"]
  BY <1>1, UserFacts, SetStatusOne DEF IInv
<1>3. /\ sc[curr].type = "SEND" /\ sc[curr].receiver = p /\ sc[curr].content = c
      /\ sc \in [Slots -> SyscallRecord]
  BY <1>1, RequestsAreCalls DEF SendTo
<1>4. CASE SyscallFatal(st, sc, curr) # "none"
  <2>1. Panic(SyscallFatal(st, sc, curr))
    BY <1>4 DEF Ecall
  <2>2. UNCHANGED <<pid, status, syscall, usr>>
    BY <2>1 DEF Panic, procVars
  <2>3. IPC!ipcVars' = IPC!ipcVars
    BY <2>2, Invisible DEF Live, Blocked, Own
  <2> QED BY <2>3
<1>5. CASE SyscallFatal(st, sc, curr) = "none"
  <2>1. proc_yield(TrySyscallStatus(st, sc, curr), sc2, TrySyscallUser(sc, us, curr))
    BY <1>5 DEF Ecall
  <2>2. st[curr] = "PENDING_SYSCALL" /\ \A k \in Slots \ {curr} : st[k] = status[k]
    BY <1>1, <1>2
  <2>3. us[curr] = NoMsg /\ \A k \in Slots \ {curr} : us[k] = usr[k] /\ sc[k] = syscall[k]
    BY <1>1
  <2> HIDE DEF st, sc, us
  <2>4. status' = st /\ syscall' = sc2 /\ usr' = us /\ pid' = pid
    <3>1. TrySyscallStatus(st, sc, curr) = st
      BY <1>3 DEF TrySyscallStatus
    <3>2. TrySyscallUser(sc, us, curr) = us
      BY <1>3 DEF TrySyscallUser
    <3> QED BY <2>1, <2>2, <3>1, <3>2 DEF proc_yield
  <2>5. Receivers(st, p) # {}
    BY <1>5, <1>3 DEF SyscallFatal
  <2>6. PICK d \in Slots : d = to /\ pid[d] = p
    <3>1. Receivers(st, p) \in SUBSET Nat
      BY GrassAssumption DEF Receivers, Scanned
    <3>2. to \in Receivers(st, p)
      BY <2>5, <3>1, FirstIsIn
    <3> QED BY <3>2, <1>1, UserFacts DEF Receivers
  <2>7. \A r \in Slots : pid[r] = p => r = d
    BY <2>6, <1>1 DEF IInv, PidInv, GPID_UNUSED
  <2>8. sc2 = IF Accepts(sc, d, curr)
              THEN [sc EXCEPT ![d] = [@ EXCEPT !.status = "DONE", !.sender = pid[curr],
                                               !.content = c]]
              ELSE sc
    BY <2>5, <2>6, <1>3 DEF TrySyscallTable, proc_try_send
  <2> HIDE DEF to, sc2
  <2>9. PICK e \in Slots : e = curr
    BY <1>1
  <2>10. Doing(e) = "idle"
    BY <2>9, <1>1 DEF Doing, Live, Blocked
  <2>11. IPC!Quiet /\ \A k \in Slots : ~Handed(k) /\ ~Passed(k)
    BY <1>1, UserView
  <2>12. CASE Accepts(sc, d, curr) /\ Blocked(d)
    <3>1. d # e /\ syscall[d].type = "RECV" /\ syscall[d].status = "PENDING"
          /\ syscall[d].sender \in {GPID_ALL, pid[e]}
      <4>1. d # e
        BY <2>12, <2>9, <1>3 DEF Accepts
      <4> QED BY <4>1, <2>12, <2>3, <2>6, <2>9 DEF Accepts
    <3>2. /\ syscall'[d].type = "RECV" /\ syscall'[d].status = "DONE"
          /\ syscall'[d].sender = pid[e] /\ syscall'[d].content = c
          /\ \A k \in Slots \ {d} : syscall'[k] = sc[k]
      <4>1. syscall' = [sc EXCEPT ![d] = [@ EXCEPT !.status = "DONE", !.sender = pid[curr],
                                                   !.content = c]]
        BY <2>4, <2>8, <2>12
      <4>2. sc[d] \in SyscallRecord /\ sc[d].type = "RECV"
        BY <1>3, <2>6, <2>12 DEF Accepts
      <4> QED BY <4>1, <4>2, <1>3, <2>6, <2>9 DEF SyscallRecord
    <3>3. /\ status'[e] = "PENDING_SYSCALL" /\ \A k \in Slots \ {e} : status'[k] = status[k]
          /\ usr'[e] = NoMsg /\ \A k \in Slots \ {e} : usr'[k] = usr[k]
      BY <2>2, <2>3, <2>4, <2>9
    <3>4. /\ syscall'[e].type = "SEND" /\ syscall'[e].receiver = p
          /\ \A k \in Slots \ {d, e} : syscall'[k] = syscall[k]
      BY <3>1, <3>2, <1>3, <2>3, <2>9
    <3>5. Handed(d)' /\ ~Handed(e)' /\ \A k \in Slots \ {d, e} : ~Handed(k)'
      BY <3>1, <3>2, <3>3, <3>4, <2>6, <2>11, <2>12 DEF Handed, Blocked, Received
    <3>6. Passed(e)'
      <4>1. Sending(e, d)'
        BY <3>3, <3>4, <2>4, <2>6 DEF Sending, Blocked
      <4> QED BY <4>1, <3>2, <3>5, <2>4, <2>6 DEF Passed
    <3>7. \A k \in Slots \ {d, e} : ~Passed(k)'
      <4>1. SUFFICES ASSUME NEW k \in Slots \ {d, e}, NEW r \in Slots, Handed(r)', Sending(k, r)',
                            syscall'[r].sender = pid'[k]
                     PROVE  FALSE
        BY DEF Passed
      <4>2. r = d /\ pid[k] = pid[e]
        BY <4>1, <3>2, <3>5, <2>4
      <4>3. pid[e] # GPID_UNUSED
        BY <2>9, <1>1, UserFacts
      <4> QED BY <4>1, <4>2, <4>3, <1>1 DEF IInv, PidInv
    <3>8. ASSUME NEW k \in Slots \ {d, e}
          PROVE  Doing(k)' = Doing(k) /\ Asking(k)' = Asking(k) /\ Holding(k)' = Holding(k)
      <4>1. Doing(k)' = Doing(k)
        BY <3>3, <3>4, <3>5, <3>7, <2>11 DEF Doing, Live, Blocked
      <4>2. Asking(k)' = Asking(k)
        BY <4>1, <3>4 DEF Asking
      <4>3. Holding(k)' = Holding(k)
        BY <3>3, <3>5, <2>11 DEF Holding
      <4> QED BY <4>1, <4>2, <4>3
    <3>9. Doing(e)' = "idle" /\ Asking(e)' = NoCall /\ Holding(e)' = NoMsg
      <4>1. Doing(e)' = "idle"
        BY <3>3, <3>4, <3>6 DEF Doing, Live, Blocked
      <4> QED BY <4>1, <3>3, <3>5 DEF Asking, Holding
    <3>10. /\ Doing(d)' = "idle" /\ Asking(d)' = NoCall
           /\ Holding(d)' = [sender |-> pid[e], content |-> c]
      <4>1. Blocked(d)'
        BY <3>1, <3>3, <2>6, <2>12 DEF Blocked
      <4>2. Doing(d)' = "idle"
        BY <4>1, <3>2, <3>5 DEF Doing, Live, Blocked
      <4> QED BY <4>1, <4>2, <3>2, <3>5 DEF Asking, Holding, Blocked
    <3>11. /\ Doing(d) = "receiving" /\ Asking(d).peer \in {GPID_ALL, pid[e]}
           /\ Asking(e) = NoCall
      <4>1. Doing(d) = "receiving"
        BY <3>1, <2>6, <2>11, <2>12 DEF Doing, Live, Blocked
      <4> QED BY <4>1, <3>1, <2>10 DEF Asking
    <3>12. ipcState' = [ipcState EXCEPT ![d] = "idle"]
      <4>1. /\ ipcState = [k \in Slots |-> ipcState[k]] /\ ipcState' = [k \in Slots |-> ipcState'[k]]
            /\ ipcState'[d] = "idle" /\ \A k \in Slots \ {d} : ipcState'[k] = ipcState[k]
        BY <2>6, <2>10, <3>8, <3>9, <3>10, TablesNow, TablesNext DEF Tables
      <4> QED BY <4>1, <2>6, ExceptOne
    <3>13. ipcRequest' = [ipcRequest EXCEPT ![d] = NoCall]
      <4>1. /\ ipcRequest = [k \in Slots |-> ipcRequest[k]]
            /\ ipcRequest' = [k \in Slots |-> ipcRequest'[k]]
            /\ ipcRequest'[d] = NoCall /\ \A k \in Slots \ {d} : ipcRequest'[k] = ipcRequest[k]
        BY <2>6, <3>11, <3>8, <3>9, <3>10, TablesNow, TablesNext DEF Tables
      <4> QED BY <4>1, <2>6, ExceptOne
    <3>14. ipcInbox' = [ipcInbox EXCEPT ![e] = NoMsg, ![d] = [sender |-> pid[e], content |-> c]]
      <4>1. /\ ipcInbox = [k \in Slots |-> ipcInbox[k]] /\ ipcInbox' = [k \in Slots |-> ipcInbox'[k]]
            /\ ipcInbox'[d] = [sender |-> pid[e], content |-> c] /\ ipcInbox'[e] = NoMsg
            /\ \A k \in Slots \ {d, e} : ipcInbox'[k] = ipcInbox[k]
        BY <2>6, <3>8, <3>9, <3>10, TablesNow, TablesNext DEF Tables
      <4> QED BY <4>1, <3>1, <2>6, ExceptTwo
    <3>15. /\ ipcState[e] = "idle" /\ ipcState[d] = "receiving"
           /\ ipcRequest[d].peer \in {GPID_ALL, pid[e]} /\ ipcState'[d] = "idle"
      BY <2>6, <2>10, <3>10, <3>11, TablesNow, TablesNext DEF Tables
    <3>16. IPC!SendNow(e, d)
      BY <2>4, <3>12, <3>13, <3>14, <3>15 DEF IPC!SendNow
    <3>17. ipcState' # ipcState
      BY <3>15
    <3> QED BY <3>16, <3>17, <2>6, <2>11 DEF IPC!IPCNext
  <2>13. CASE ~(Accepts(sc, d, curr) /\ Blocked(d))
    <3>1. ~Accepts(sc, d, e) \/ (d # e /\ ~Blocked(d))
      BY <2>9, <2>13, <1>3 DEF Accepts
    <3>2. \A k \in Slots : (k = d /\ Accepts(sc, d, e)) \/ syscall'[k] = sc[k]
      BY <2>4, <2>8, <2>9, <2>6, <1>3
    <3>3. syscall'[e] = sc[e] /\ \A k \in Slots \ {e} : Blocked(k) => syscall'[k] = syscall[k]
      BY <3>1, <3>2, <2>3, <2>9
    <3>4. /\ status'[e] = "PENDING_SYSCALL" /\ \A k \in Slots \ {e} : status'[k] = status[k]
          /\ usr'[e] = NoMsg /\ \A k \in Slots \ {e} : usr'[k] = usr[k]
      BY <2>2, <2>3, <2>4, <2>9
    <3>5. ~Handed(e)'
      BY <3>3, <2>9, <1>3 DEF Handed, Received
    <3>6. /\ \A k \in Slots : ~Handed(k)' /\ ~Passed(k)'
          /\ \A k \in Slots \ {e} :
               Doing(k)' = Doing(k) /\ Asking(k)' = Asking(k) /\ Holding(k)' = Holding(k)
      BY <1>1, <3>3, <3>4, <3>5, OneSlot
    <3>7. Doing(e)' = "sending"
      BY <3>3, <3>4, <3>6, <2>9, <1>3 DEF Doing, Live, Blocked
    <3>8. Asking(e)' = [peer |-> p, content |-> c]
      BY <3>3, <3>7, <2>9, <1>3 DEF Asking
    <3>9. Holding(e)' = NoMsg
      BY <3>4, <3>5 DEF Holding
    <3>10. /\ ipcState' = [ipcState EXCEPT ![e] = "sending"]
           /\ ipcRequest' = [ipcRequest EXCEPT ![e] = [peer |-> p, content |-> c]]
           /\ ipcInbox' = [ipcInbox EXCEPT ![e] = NoMsg]
      BY <3>6, <3>7, <3>8, <3>9, ViewOfSlot
    <3>11. ipcState[e] = "idle" /\ ipcState'[e] = "sending"
      BY <3>7, <2>10, TablesNow, TablesNext DEF Tables
    <3>12. ASSUME NEW r \in Slots, ipcState[r] = "receiving", pid[r] = p,
                  ipcRequest[r].peer \in {GPID_ALL, pid[e]}
           PROVE  FALSE
      <4>1. Doing(r) = "receiving" /\ Asking(r).peer \in {GPID_ALL, pid[e]}
        BY <3>12, TablesNow DEF Tables
      <4>2. Blocked(r) /\ syscall[r].type # "SEND" /\ syscall[r].sender \in {GPID_ALL, pid[e]}
        <5>1. Blocked(r) /\ syscall[r].type # "SEND"
          BY <4>1 DEF Doing
        <5> QED BY <4>1, <5>1 DEF Asking
      <4>3. syscall[r].type = "RECV" /\ syscall[r].status = "PENDING"
        <5>1. syscall[r].status \in {"PENDING", "DONE"}
          BY <1>1 DEF SyscallRecord
        <5>2. syscall[r].type = "RECV"
          BY <4>2 DEF AllInv, MapInv
        <5> QED BY <5>1, <5>2, <4>2, <2>11 DEF Handed, Received
      <4>4. r = d /\ r # e
        BY <2>7, <2>9, <3>12, <4>2, <1>1 DEF Blocked
      <4>5. sc[r] = syscall[r]
        BY <4>4, <2>3, <2>9
      <4> QED BY <4>2, <4>3, <4>4, <4>5, <2>9, <2>13 DEF Accepts
    <3>13. p \in Pids
      BY GrassAssumption DEF Pids
    <3>14. IPC!SendAndWait(e)
      BY <2>4, <3>10, <3>11, <3>12, <3>13 DEF IPC!SendAndWait
    <3>15. ipcState' # ipcState
      BY <3>11
    <3> QED BY <3>14, <3>15, <2>11 DEF IPC!IPCNext
  <2> QED BY <2>12, <2>13
<1> QED BY <1>4, <1>5

-----------------------------------------------------------------------------
(* The loop of proc_yield.                                                 *)

\* An iteration is invisible, or it is the exchange of a message.
LEMMA ScanView ==
  ASSUME AllInv, ScanStep
  PROVE  IPC!IPCNext \/ IPC!ipcVars' = IPC!ipcVars
<1>0. /\ IInv /\ status \in [Slots -> Statuses] /\ syscall \in [Slots -> SyscallRecord]
      /\ usr \in [Slots -> Inbox] /\ pid \in [Slots -> Pids]
  BY DEF AllInv, IInv, TypeOK
<1>1. PICK j \in Slots : j = Nth(i)
  <2>1. Nth(i) \in Scanned
    BY <1>0, ScanEffect
  <2> QED BY <2>1, GrassAssumption DEF Scanned, Slots
<1>2. pid' = pid /\ kpc = "scan"
  BY <1>0, ScanEffect
<1>3. CASE ~Blocked(j) \/ SyscallFatal(status, syscall, j) # "none"
  <2>1. UNCHANGED <<status, syscall, usr>>
    BY <1>1, <1>3, Zenon DEF ScanStep, Blocked, Panic, procVars
  <2>2. IPC!ipcVars' = IPC!ipcVars
    BY <1>2, <2>1, Invisible DEF Live, Blocked, Own
  <2> QED BY <2>2
<1>4. CASE Blocked(j) /\ SyscallFatal(status, syscall, j) = "none"
  <2>1. /\ status' = TrySyscallStatus(status, syscall, j)
        /\ syscall' = TrySyscallTable(status, syscall, j)
        /\ usr' = TrySyscallUser(syscall, usr, j)
    BY <1>1, <1>4, Zenon DEF ScanStep, Blocked
  <2>2. CASE syscall[j].type = "SEND"
    <3> DEFINE p == syscall[j].receiver
               to == First(Receivers(status, p))
    <3>1. status' = status /\ usr' = usr
      BY <2>1, <2>2 DEF TrySyscallStatus, TrySyscallUser
    <3>2. Receivers(status, p) # {}
      BY <1>4, <2>2 DEF SyscallFatal
    <3>3. PICK d \in Slots : d = to /\ pid[d] = p /\ Live(d)
      <4>1. Receivers(status, p) \in SUBSET Nat
        BY GrassAssumption DEF Receivers, Scanned
      <4>2. to \in Receivers(status, p)
        BY <3>2, <4>1, FirstIsIn
      <4>3. Scanned \subseteq Slots
        BY GrassAssumption DEF Scanned, Slots
      <4> QED BY <4>2, <4>3 DEF Receivers, Live
    <3>4. syscall' = IF Accepts(syscall, d, j)
                     THEN [syscall EXCEPT ![d] = [@ EXCEPT !.status = "DONE", !.sender = pid[j],
                                                           !.content = syscall[j].content]]
                     ELSE syscall
      BY <2>1, <2>2, <3>2, <3>3 DEF TrySyscallTable, proc_try_send
    <3>5. CASE ~(Accepts(syscall, d, j) /\ Blocked(d))
      <4>1. \A k \in Slots : Blocked(k) => syscall'[k] = syscall[k]
        BY <1>0, <3>4, <3>5
      <4>2. IPC!ipcVars' = IPC!ipcVars
        BY <1>2, <3>1, <4>1, Invisible DEF Live, Blocked, Own
      <4> QED BY <4>2
    <3>6. CASE Accepts(syscall, d, j) /\ Blocked(d)
      <4>1. /\ syscall[d].type = "RECV" /\ syscall[d].status = "PENDING"
            /\ syscall[d].sender \in {GPID_ALL, pid[j]} /\ d # j
        BY <2>2, <3>6 DEF Accepts
      <4>2. /\ syscall'[d].type = "RECV" /\ syscall'[d].status = "DONE"
            /\ syscall'[d].sender = pid[j] /\ syscall'[d].content = syscall[j].content
            /\ \A k \in Slots \ {d} : syscall'[k] = syscall[k]
        <5>1. syscall[d] \in SyscallRecord
          BY <1>0
        <5> QED BY <1>0, <3>4, <3>6, <4>1, <5>1 DEF SyscallRecord
      <4>3. Handed(d)' /\ ~Handed(d) /\ \A k \in Slots \ {d} : Handed(k)' <=> Handed(k)
        BY <3>1, <3>6, <4>1, <4>2 DEF Handed, Blocked, Received
      <4>4. pid[j] # GPID_UNUSED /\ pid[d] # GPID_UNUSED
        BY <1>0, <1>4, <3>3 DEF IInv, PidInv, Live, Blocked
      <4>5. \A k \in Slots \ {d}, r \in Slots : Sending(k, r)' <=> Sending(k, r)
        BY <1>2, <3>1, <4>2 DEF Sending, Blocked
      <4>6. Sending(j, d)
        BY <1>4, <2>2, <3>3 DEF Sending
      <4>7. ~Passed(j)
        <5>1. SUFFICES ASSUME NEW r \in Slots, Handed(r), Sending(j, r) PROVE FALSE
          BY DEF Passed
        <5>2. pid[r] = pid[d]
          BY <5>1, <3>3 DEF Sending
        <5> QED BY <5>1, <5>2, <4>3, <4>4, <1>0 DEF IInv, PidInv
      <4>8. Passed(j)'
        BY <4>1, <4>2, <4>3, <4>5, <4>6, <1>2 DEF Passed
      <4>9. ASSUME NEW k \in Slots \ {d, j} PROVE Passed(k)' <=> Passed(k)
        <5>1. ASSUME NEW r \in Slots
              PROVE  (Handed(r)' /\ Sending(k, r)' /\ syscall'[r].sender = pid'[k])
                     <=> (Handed(r) /\ Sending(k, r) /\ syscall[r].sender = pid[k])
          <6>1. CASE r = d
            <7>1. pid[j] # pid[k]
              BY <4>4, <1>0 DEF IInv, PidInv
            <7> QED BY <6>1, <7>1, <4>2, <4>3, <1>2
          <6>2. CASE r # d
            BY <6>2, <4>2, <4>3, <4>5, <1>2
          <6> QED BY <6>1, <6>2
        <5> QED BY <5>1 DEF Passed
      <4>10. ASSUME NEW k \in Slots \ {d, j}
             PROVE  Doing(k)' = Doing(k) /\ Asking(k)' = Asking(k) /\ Holding(k)' = Holding(k)
        <5>1. Doing(k)' = Doing(k)
          BY <3>1, <4>2, <4>3, <4>9 DEF Doing, Live, Blocked
        <5>2. Asking(k)' = Asking(k)
          BY <5>1, <4>2 DEF Asking
        <5>3. Holding(k)' = Holding(k)
          BY <3>1, <4>2, <4>3 DEF Holding
        <5> QED BY <5>1, <5>2, <5>3
      <4>11. /\ Doing(j) = "sending" /\ Asking(j).peer = pid[d]
             /\ Asking(j).content = syscall[j].content
        <5>1. Doing(j) = "sending"
          BY <1>4, <2>2, <4>7 DEF Doing, Live, Blocked
        <5> QED BY <5>1, <3>3 DEF Asking
      <4>12. Doing(d) = "receiving" /\ Asking(d).peer \in {GPID_ALL, pid[j]}
        <5>1. Doing(d) = "receiving"
          BY <3>6, <4>1, <4>3 DEF Doing, Live, Blocked
        <5> QED BY <5>1, <4>1 DEF Asking
      <4>13. Doing(j)' = "idle" /\ Asking(j)' = NoCall /\ Holding(j)' = Holding(j)
        <5>1. Doing(j)' = "idle"
          BY <1>4, <2>2, <3>1, <4>1, <4>2, <4>8 DEF Doing, Live, Blocked
        <5>2. Holding(j)' = Holding(j)
          BY <3>1, <4>1, <4>2, <4>3 DEF Holding
        <5> QED BY <5>1, <5>2 DEF Asking
      <4>14. /\ Doing(d)' = "idle" /\ Asking(d)' = NoCall
             /\ Holding(d)' = [sender |-> pid[j], content |-> syscall[j].content]
        <5>1. Doing(d)' = "idle"
          BY <3>1, <3>6, <4>2, <4>3 DEF Doing, Live, Blocked
        <5>2. status'[d] = "PENDING_SYSCALL"
          BY <3>1, <3>6 DEF Blocked
        <5> QED BY <5>1, <5>2, <4>2, <4>3 DEF Asking, Holding
      <4>15. ipcState' = [ipcState EXCEPT ![j] = "idle", ![d] = "idle"]
        <5>1. /\ ipcState = [k \in Slots |-> ipcState[k]]
              /\ ipcState' = [k \in Slots |-> ipcState'[k]]
              /\ ipcState'[d] = "idle" /\ ipcState'[j] = "idle"
              /\ \A k \in Slots \ {d, j} : ipcState'[k] = ipcState[k]
          BY <4>10, <4>13, <4>14, TablesNow, TablesNext DEF Tables
        <5> QED BY <5>1, <4>1, ExceptTwo
      <4>16. ipcRequest' = [ipcRequest EXCEPT ![j] = NoCall, ![d] = NoCall]
        <5>1. /\ ipcRequest = [k \in Slots |-> ipcRequest[k]]
              /\ ipcRequest' = [k \in Slots |-> ipcRequest'[k]]
              /\ ipcRequest'[d] = NoCall /\ ipcRequest'[j] = NoCall
              /\ \A k \in Slots \ {d, j} : ipcRequest'[k] = ipcRequest[k]
          BY <4>10, <4>13, <4>14, TablesNow, TablesNext DEF Tables
        <5> QED BY <5>1, <4>1, ExceptTwo
      <4>17. /\ ipcState[j] = "sending" /\ ipcState[d] = "receiving" /\ ipcState'[j] = "idle"
             /\ ipcRequest[j].peer = pid[d] /\ ipcRequest[d].peer \in {GPID_ALL, pid[j]}
             /\ ipcRequest[j].content = syscall[j].content
        BY <4>11, <4>12, <4>13, TablesNow, TablesNext DEF Tables
      <4>18. ipcInbox' = [ipcInbox EXCEPT ![d] = [sender |-> pid[j], content |-> syscall[j].content]]
        <5>1. /\ ipcInbox = [k \in Slots |-> ipcInbox[k]]
              /\ ipcInbox' = [k \in Slots |-> ipcInbox'[k]]
              /\ ipcInbox'[d] = [sender |-> pid[j], content |-> syscall[j].content]
              /\ \A k \in Slots \ {d} : ipcInbox'[k] = ipcInbox[k]
          BY <4>10, <4>13, <4>14, TablesNow, TablesNext DEF Tables
        <5> QED BY <5>1, ExceptOne
      <4>19. IPC!Exchange(j, d)
        BY <1>2, <4>15, <4>16, <4>17, <4>18 DEF IPC!Exchange, IPC!Matches
      <4>20. ipcState' # ipcState
        BY <4>17
      <4> QED BY <4>19, <4>20 DEF IPC!IPCNext
    <3> QED BY <3>5, <3>6
  <2>3. CASE syscall[j].type # "SEND" /\ ~Received(syscall, j)
    <3>1. UNCHANGED <<status, syscall, usr>>
      BY <2>1, <2>3 DEF TrySyscallStatus, TrySyscallTable, TrySyscallUser, proc_try_recv, CopyToUser
    <3>2. IPC!ipcVars' = IPC!ipcVars
      BY <1>2, <3>1, Invisible DEF Live, Blocked, Own
    <3> QED BY <3>2
  <2>4. CASE Received(syscall, j)
    <3>1. /\ syscall[j].type = "RECV" /\ syscall' = syscall
          /\ usr' = [usr EXCEPT ![j] = [sender |-> syscall[j].sender, content |-> syscall[j].content]]
      BY <2>1, <2>4 DEF TrySyscallTable, TrySyscallUser, CopyToUser, Received
    <3>2. status' # status
      <4>1. status'[j] # "PENDING_SYSCALL"
        <5>1. status' = proc_set_status(proc_set_status(status, pid[j], "RUNNABLE"),
                                        syscall[j].sender, "RUNNABLE")
          BY <2>1, <2>4, <3>1 DEF TrySyscallStatus, proc_try_recv
        <5>2. j < MAX_NPROCESS
          BY <1>4, GrassAssumption DEF AllInv, MapInv, Blocked, Slots
        <5> QED BY <5>1, <5>2 DEF proc_set_status
      <4> QED BY <4>1, <1>4 DEF Blocked
    <3>3. PICK s \in Slots \ {j} :
            /\ Blocked(s) /\ pid[s] = syscall[j].sender
            /\ status' = [status EXCEPT ![j] = "RUNNABLE", ![s] = "RUNNABLE"]
      <4>1. \E s \in Scanned \ {j} :
              /\ Blocked(s) /\ pid[s] = syscall[j].sender
              /\ status' = [status EXCEPT ![j] = "RUNNABLE", ![s] = "RUNNABLE"]
        BY <1>0, <1>1, <3>2, ScanEffect
      <4>2. Scanned \subseteq Slots
        BY GrassAssumption DEF Scanned, Slots
      <4> QED BY <4>1, <4>2
    <3>4. Handed(j) /\ Sending(s, j)
      <4>1. Handed(j)
        BY <1>4, <2>4 DEF Handed
      <4>2. PICK x \in Scanned : Sending(x, j) /\ pid[x] = syscall[j].sender
        BY <4>1, <1>0, <1>2 DEF IInv, ScanInv, Handed
      <4>3. x \in Slots /\ pid[s] # GPID_UNUSED
        BY <1>0, <3>3, GrassAssumption DEF IInv, PidInv, Live, Blocked, Scanned, Slots
      <4>4. x = s
        BY <3>3, <4>2, <4>3, <1>0 DEF IInv, PidInv
      <4> QED BY <4>1, <4>2, <4>4
    <3>5. /\ status'[j] = "RUNNABLE" /\ status'[s] = "RUNNABLE"
          /\ \A k \in Slots \ {j, s} : status'[k] = status[k]
      BY <1>0, <3>3
    <3>6. /\ usr'[j] = [sender |-> syscall[j].sender, content |-> syscall[j].content]
          /\ \A k \in Slots \ {j} : usr'[k] = usr[k]
      BY <1>0, <3>1
    <3>7. /\ \A k \in Slots \ {j} : Handed(k)' <=> Handed(k)
          /\ ~Handed(j)'
      <4>1. ~Handed(s) /\ ~Handed(s)'
        BY <3>4, <3>5, <3>1 DEF Handed, Received, Sending, Blocked
      <4>2. \A k \in Slots \ {j, s} : Handed(k)' <=> Handed(k)
        BY <3>1, <3>5 DEF Handed, Received, Blocked
      <4>3. ~Handed(j)'
        BY <3>5 DEF Handed, Blocked
      <4> QED BY <4>1, <4>2, <4>3
    <3>8. ASSUME NEW k \in Slots \ {j, s} PROVE Passed(k)' <=> Passed(k)
      <4>1. ASSUME NEW r \in Slots
            PROVE  (Handed(r)' /\ Sending(k, r)' /\ syscall'[r].sender = pid'[k])
                   <=> (Handed(r) /\ Sending(k, r) /\ syscall[r].sender = pid[k])
        <5>1. Sending(k, r)' <=> Sending(k, r)
          BY <1>2, <3>1, <3>5 DEF Sending, Blocked
        <5>2. CASE r = j
          <6>1. pid[s] # pid[k]
            BY <3>3, <1>0 DEF IInv, PidInv, Live, Blocked
          <6> QED BY <5>2, <6>1, <3>3, <3>7
        <5>3. CASE r # j
          BY <5>1, <5>3, <3>1, <3>7, <1>2
        <5> QED BY <5>2, <5>3
      <4> QED BY <4>1 DEF Passed
    <3>9. ASSUME NEW k \in Slots \ {j, s}
          PROVE  Doing(k)' = Doing(k) /\ Asking(k)' = Asking(k) /\ Holding(k)' = Holding(k)
      <4>1. Doing(k)' = Doing(k)
        BY <3>1, <3>5, <3>7, <3>8 DEF Doing, Live, Blocked
      <4>2. Asking(k)' = Asking(k)
        BY <4>1, <3>1 DEF Asking
      <4>3. Holding(k)' = Holding(k)
        BY <3>1, <3>5, <3>6, <3>7 DEF Holding
      <4> QED BY <4>1, <4>2, <4>3
    <3>10. Doing(j)' = Doing(j) /\ Asking(j)' = Asking(j) /\ Holding(j)' = Holding(j)
      <4>1. Doing(j) = "idle" /\ Doing(j)' = "idle"
        BY <1>4, <3>1, <3>4, <3>5 DEF Doing, Live, Blocked
      <4>2. Holding(j) = [sender |-> syscall[j].sender, content |-> syscall[j].content]
        BY <1>4, <3>4 DEF Holding, Blocked
      <4>3. Holding(j)' = usr'[j]
        BY <3>5, <3>7 DEF Holding
      <4>4. Asking(j) = NoCall /\ Asking(j)' = NoCall
        BY <4>1 DEF Asking
      <4> QED BY <4>1, <4>2, <4>3, <4>4, <3>6
    <3>11. Doing(s)' = Doing(s) /\ Asking(s)' = Asking(s) /\ Holding(s)' = Holding(s)
      <4>1. Passed(s) /\ ~Handed(s) /\ ~Handed(s)'
        BY <3>3, <3>4, <3>7 DEF Passed, Handed, Received, Sending
      <4>2. Doing(s) = "idle" /\ Doing(s)' = "idle"
        BY <4>1, <3>3, <3>4, <3>5 DEF Doing, Live, Blocked, Sending
      <4>3. Holding(s)' = Holding(s)
        BY <4>1, <3>3, <3>5, <3>6 DEF Holding, Blocked
      <4>4. Asking(s) = NoCall /\ Asking(s)' = NoCall
        BY <4>2 DEF Asking
      <4> QED BY <4>2, <4>3, <4>4
    <3>12. IPC!ipcVars' = IPC!ipcVars
      BY <1>2, <3>9, <3>10, <3>11, SameView
    <3> QED BY <3>12
  <2> QED BY <2>2, <2>3, <2>4
<1> QED BY <1>3, <1>4

-----------------------------------------------------------------------------
(* Processes come and go.                                                  *)

\* A slot that becomes UNUSED: its process, if there was one, is gone.
LEMMA DestroyView ==
  ASSUME AllInv, kpc = "user", NEW e \in Slots, UNCHANGED <<pid, syscall, usr>>,
         status' = [status EXCEPT ![e] = "UNUSED"]
  PROVE  IPC!IPCNext \/ IPC!ipcVars' = IPC!ipcVars
<1>0. status \in [Slots -> Statuses]
  BY DEF AllInv, IInv, TypeOK
<1>1. status'[e] = "UNUSED" /\ \A k \in Slots \ {e} : status'[k] = status[k]
  BY <1>0
<1>2. CASE ~Live(e)
  <2>1. status' = status
    BY <1>0, <1>2 DEF Live
  <2>2. IPC!ipcVars' = IPC!ipcVars
    BY <2>1, Invisible DEF Live, Blocked, Own
  <2> QED BY <2>2
<1>3. CASE Live(e)
  <2>1. ~Handed(e)'
    BY <1>1 DEF Handed, Blocked
  <2>2. \A k \in Slots \ {e} :
          Doing(k)' = Doing(k) /\ Asking(k)' = Asking(k) /\ Holding(k)' = Holding(k)
    BY <1>1, <2>1, OneSlot
  <2>3. Doing(e)' = "absent" /\ Asking(e)' = NoCall /\ Holding(e)' = NoMsg
    BY <1>1 DEF Doing, Asking, Holding, Live
  <2>4. Doing(e) # "absent"
    BY <1>3 DEF Doing
  <2>5. /\ ipcState' = [ipcState EXCEPT ![e] = "absent"]
        /\ ipcRequest' = [ipcRequest EXCEPT ![e] = NoCall]
        /\ ipcInbox' = [ipcInbox EXCEPT ![e] = NoMsg]
    BY <2>2, <2>3, ViewOfSlot
  <2>6. ipcState[e] # "absent" /\ ipcState'[e] = "absent"
    BY <2>3, <2>4, TablesNow, TablesNext DEF Tables
  <2>7. IPC!Destroy(e)
    BY <2>5, <2>6 DEF IPC!Destroy
  <2>8. IPC!Quiet /\ ipcState' # ipcState
    BY <2>6, UserView
  <2> QED BY <2>7, <2>8 DEF IPC!IPCNext
<1> QED BY <1>2, <1>3

\* proc_alloc: a FATAL, or a new process with a pid that no slot holds.
LEMMA CreateView ==
  ASSUME AllInv, proc_alloc
  PROVE  IPC!IPCNext \/ IPC!ipcVars' = IPC!ipcVars
<1>0. /\ status \in [Slots -> Statuses] /\ pid \in [Slots -> Pids] /\ last_pid \in 1..MaxPid
      /\ \A k \in Slots : pid[k] <= last_pid
  BY DEF AllInv, IInv, TypeOK, PidInv
<1>1. kpc = "user"
  BY DEF proc_alloc, InProcess
<1>2. CASE FreeSlots = {}
  <2>1. UNCHANGED <<pid, status, syscall, usr>>
    BY <1>2 DEF proc_alloc, Panic, procVars
  <2>2. IPC!ipcVars' = IPC!ipcVars
    BY <2>1, Invisible DEF Live, Blocked, Own
  <2> QED BY <2>2
<1>3. CASE FreeSlots # {}
  <2>1. PICK e \in FreeSlots : e = First(FreeSlots)
    <3>1. FreeSlots \in SUBSET Nat
      BY GrassAssumption DEF FreeSlots, Slots
    <3> QED BY <3>1, <1>3, FirstIsIn
  <2>2. e \in Slots /\ status[e] = "UNUSED"
    BY <2>1 DEF FreeSlots
  <2>3. /\ pid' = [pid EXCEPT ![e] = last_pid + 1] /\ status' = [status EXCEPT ![e] = "LOADING"]
        /\ syscall' = syscall /\ usr' = usr /\ last_pid < MaxPid
    BY <1>3, <2>1 DEF proc_alloc
  <2>4. status'[e] = "LOADING" /\ \A k \in Slots \ {e} : status'[k] = status[k]
    BY <1>0, <2>2, <2>3
  <2>5. ~Handed(e)'
    BY <2>4 DEF Handed, Blocked
  <2>6. \A k \in Slots \ {e} :
          Doing(k)' = Doing(k) /\ Asking(k)' = Asking(k) /\ Holding(k)' = Holding(k)
    BY <1>1, <2>2, <2>3, <2>4, <2>5, OneSlot
  <2>7. Doing(e) = "absent" /\ Asking(e) = NoCall /\ Holding(e) = NoMsg
    BY <2>2 DEF Doing, Asking, Holding, Live
  <2>8. Doing(e)' = "idle" /\ Asking(e)' = NoCall /\ Holding(e)' = NoMsg
    BY <2>4 DEF Doing, Asking, Holding, Live, Blocked
  <2>9. ipcState' = [ipcState EXCEPT ![e] = "idle"]
    BY <2>2, <2>6, <2>8, ViewOfSlot
  <2>10. ipcRequest' = ipcRequest /\ ipcInbox' = ipcInbox
    <3>1. \A k \in Slots : Asking(k)' = Asking(k) /\ Holding(k)' = Holding(k)
      BY <2>6, <2>7, <2>8
    <3>2. ipcRequest' = ipcRequest
      BY <3>1, MapNow, MapNext DEF SlotBySlot
    <3>3. ipcInbox' = ipcInbox
      BY <3>1, MapNow, MapNext DEF SlotBySlot
    <3> QED BY <3>2, <3>3
  <2>11. ipcState[e] = "absent" /\ ipcState'[e] = "idle"
    BY <2>2, <2>7, <2>8, TablesNow, TablesNext DEF Tables
  <2>12. last_pid + 1 \in Pids \ {pid[x] : x \in Slots}
    BY <1>0, <2>3, GrassAssumption DEF Pids
  <2>13. IPC!Create(e)
    BY <2>3, <2>9, <2>10, <2>11, <2>12 DEF IPC!Create
  <2>14. IPC!Quiet /\ ipcState' # ipcState
    BY <1>1, <2>11, UserView
  <2> QED BY <2>2, <2>13, <2>14 DEF IPC!IPCNext
<1> QED BY <1>2, <1>3

\* The end of proc_free(p): the process with that pid, if the loop sees it, is gone.
LEMMA FreeView ==
  ASSUME AllInv, ProcFreeEnd
  PROVE  IPC!IPCNext \/ IPC!ipcVars' = IPC!ipcVars
<1>0. /\ status \in [Slots -> Statuses] /\ pid \in [Slots -> Pids] /\ call \in Calls
      /\ IInv /\ TypeOK /\ PidInv /\ Scanned \subseteq Slots
  BY GrassAssumption DEF AllInv, IInv, TypeOK, Scanned, Slots
<1>1. /\ kpc = "user" /\ call.op = "freeing" /\ UNCHANGED <<pid, syscall, usr>>
      /\ status' = proc_set_status(status, call.arg, "UNUSED")
  BY DEF ProcFreeEnd, InProcess
<1>2. call.arg # GPID_UNUSED
  BY <1>0, <1>1, GrassAssumption DEF Calls, GPID_UNUSED, GPID_PROCESS
<1>3. CASE \E e \in Scanned : pid[e] = call.arg
  <2>1. PICK e \in Scanned : pid[e] = call.arg
    BY <1>3
  <2>2. status' = [status EXCEPT ![e] = "UNUSED"]
    BY <1>0, <1>1, <1>2, <2>1, SetStatusOne
  <2> QED BY <1>0, <1>1, <2>2, DestroyView
<1>4. CASE ~\E e \in Scanned : pid[e] = call.arg
  <2>1. \A k \in Slots : status'[k] = status[k]
    BY <1>0, <1>1, <1>4, GrassAssumption DEF proc_set_status, Scanned, Slots
  <2>2. IPC!ipcVars' = IPC!ipcVars
    BY <1>1, <2>1, Invisible DEF Live, Blocked, Own
  <2> QED BY <2>2
<1> QED BY <1>3, <1>4

\* The steps that the callers of sys_send and sys_recv do not see.
LEMMA SilentView ==
  ASSUME AllInv,
         \/ Timer \/ Fault \/ Dispatch \/ elf_load \/ proc_set_ready
         \/ \E p \in UserPids : proc_free(p)
         \/ KillAll \/ KillAllUnmap \/ KillAllEnd \/ Halted \/ UNCHANGED vars
  PROVE  IPC!ipcVars' = IPC!ipcVars
<1>0. /\ IInv /\ LoadInv /\ MapInv /\ status \in [Slots -> Statuses] /\ pid \in [Slots -> Pids]
      /\ usr \in [Slots -> Inbox]
  BY DEF AllInv, IInv, TypeOK
<1>1. CASE Timer
  <2>1. kpc = "user" /\ UNCHANGED <<pid, syscall>> /\ status' = [status EXCEPT ![curr] = "RUNNABLE"]
        /\ usr' = usr
    BY <1>0, <1>1, TimerEffect DEF Timer, proc_yield
  <2>2. \A k \in Slots : status'[k] = status[k] \/ (status[k] = "RUNNING" /\ status'[k] = "RUNNABLE")
    BY <1>0, <2>1, UserFacts
  <2> QED BY <2>1, <2>2, Invisible DEF Live, Blocked, Own
<1>2. CASE Fault \/ Halted \/ UNCHANGED vars \/ KillAll \/ KillAllUnmap \/ KillAllEnd
           \/ \E p \in UserPids : proc_free(p)
  <2>1. UNCHANGED <<pid, status, syscall, usr>>
    BY <1>2 DEF Fault, Panic, Halted, vars, procVars, KillAll, KillAllUnmap, KillAllEnd, proc_free
  <2> QED BY <2>1, Invisible DEF Live, Blocked, Own
<1>3. CASE Dispatch
  <2>1. UNCHANGED <<pid, syscall, usr>>
    BY <1>3 DEF Dispatch, Panic, procVars
  <2>2. \A k \in Slots : status'[k] = status[k] \/ (status[k] \in Candidates /\ status'[k] = "RUNNING")
    BY <1>0, <1>3, DispatchEffect
  <2> QED BY <2>1, <2>2, Invisible DEF Live, Blocked, Own, Candidates
<1>4. CASE elf_load
  <2>1. UNCHANGED <<pid, status, syscall>> /\ call.op = "loading"
        /\ usr' = [k \in Slots |-> IF pid[k] = call.arg THEN NoMsg ELSE usr[k]]
    BY <1>4 DEF elf_load, InProcess
  <2>2. \A k \in Slots : pid[k] = call.arg => status[k] = "LOADING"
    BY <1>0, <2>1 DEF LoadInv
  <2>3. \A k \in Slots : Own(k)' = Own(k)
    BY <2>1, <2>2 DEF Own
  <2> QED BY <2>1, <2>3, Invisible DEF Live, Blocked
<1>5. CASE proc_set_ready
  <2>1. UNCHANGED <<pid, usr, syscall>> /\ call.op = "loaded"
        /\ status' = proc_set_status(status, call.arg, "READY")
    BY <1>5 DEF proc_set_ready, InProcess
  <2>2. \A k \in Slots : pid[k] = call.arg => status[k] = "LOADING" /\ usr[k] = NoMsg
    BY <1>0, <2>1 DEF LoadInv, MapInv
  <2>3. \A k \in Slots : \/ status'[k] = status[k]
                         \/ status[k] = "LOADING" /\ status'[k] = "READY" /\ usr[k] = NoMsg
    BY <2>1, <2>2 DEF proc_set_status
  <2> QED BY <2>1, <2>3, Invisible DEF Live, Blocked, Own
<1> QED BY <1>1, <1>2, <1>3, <1>4, <1>5

-----------------------------------------------------------------------------

LEMMA InitView == Init => IPC!IPCInit
<1> SUFFICES ASSUME Init PROVE IPC!IPCInit
  OBVIOUS
<1>1. 1 \in Slots /\ pid \in [Slots -> Pids]
  BY GrassAssumption DEF Init, Slots, Pids, GPID_PROCESS, GPID_UNUSED
<1>2. \A k \in Slots : ~Blocked(k) /\ (Live(k) <=> k = 1) /\ usr[k] = NoMsg
  BY DEF Init, Blocked, Live
<1>3. \A k \in Slots : /\ Doing(k) = IF k = 1 THEN "idle" ELSE "absent"
                       /\ Asking(k) = NoCall /\ Holding(k) = NoMsg
  BY <1>2 DEF Doing, Asking, Holding, Handed
<1>4. ipcState = [k \in Slots |-> IF k = 1 THEN "idle" ELSE "absent"]
  BY <1>3, MapNow DEF SlotBySlot
<1>5. ipcRequest = [k \in Slots |-> NoCall]
  BY <1>3, MapNow DEF SlotBySlot
<1>6. ipcInbox = [k \in Slots |-> NoMsg]
  BY <1>3, MapNow DEF SlotBySlot
<1> QED BY <1>1, <1>4, <1>5, <1>6 DEF IPC!IPCInit

LEMMA StepView == ASSUME AllInv, [Next]_vars PROVE [IPC!IPCNext]_(IPC!ipcVars)
<1>1. CASE Send
  BY <1>1, SendView DEF Send
<1>2. CASE Recv
  BY <1>2, RecvView DEF Recv
<1>3. CASE ScanStep
  BY <1>3, ScanView
<1>4. CASE proc_alloc
  BY <1>4, CreateView
<1>5. CASE ProcFreeEnd
  BY <1>5, FreeView
<1>6. CASE KillAllMark
  <2>1. PICK e \in Slots : e = call.arg
    BY <1>6, GrassAssumption, SMTT(30) DEF KillAllMark, InProcess, AllInv, IInv, TypeOK, Calls, Scanned, Slots
  <2> QED BY <1>6, <2>1, DestroyView DEF KillAllMark, InProcess
<1>7. CASE ~(Send \/ Recv \/ ScanStep \/ proc_alloc \/ ProcFreeEnd \/ KillAllMark)
  BY <1>7, SilentView DEF Next
<1> QED BY <1>1, <1>2, <1>3, <1>4, <1>5, <1>6, <1>7

\* sys_send and sys_recv are synchronous message passing: every step of the kernel, for
\* every table size and every set of pids and messages, is one step of SyncIPC or is
\* invisible to the callers.  Every possible exchange happens before a process goes on, and
\* a receiver gets exactly the message of a process that was blocked sending it
\* (kernel.c:63-110, 122-137, 176-214).
THEOREM GrassImplementsSyncIPC == Spec => ImplementsSyncIPC
<1>1. AllInv /\ [Next]_vars => [IPC!IPCNext]_(IPC!ipcVars)
  BY StepView
<1> QED BY <1>1, InitView, MapInvariant, PTL DEF Spec, ImplementsSyncIPC, IPC!IPCSpec
=============================================================================
