-------------------------------- MODULE Grass --------------------------------
(***************************************************************************)
(* The grass layer of egos-2000 (grass/kernel.c, grass/process.c): the     *)
(* process table, the two system calls SYS_SEND and SYS_RECV, the trap     *)
(* handlers and the scheduling loop of proc_yield().                       *)
(*                                                                         *)
(* One core runs (boot.s keeps the others on boot_lock) and the kernel     *)
(* runs with interrupts off, so between a trap and the dispatch that ends  *)
(* it only the kernel moves.  The scheduling loop is one step per          *)
(* iteration (kpc = "scan"), because each iteration may complete a system  *)
(* call that changes what a later iteration sees.                          *)
(*                                                                         *)
(* proc_alloc, proc_free and proc_set_ready are plain function calls made  *)
(* by GPID_PROCESS in its own context, with interrupts on: the points      *)
(* where a timer interrupt matters are separate steps, and "call" is where *)
(* GPID_PROCESS is inside them.                                            *)
(*                                                                         *)
(* Clients are arbitrary here: any process may issue any system call.      *)
(* EgosServers restricts them to the programs of the system.               *)
(***************************************************************************)
EXTENDS Integers

CONSTANTS MAX_NPROCESS,     \* process.h: size of the process table
          MLFQ_NLEVELS,     \* process.c: number of MLFQ levels
          GPID_SHELL,       \* servers.h: pid of the shell
          GPID_USER_START,  \* servers.h: first pid of a user application
          Contents,         \* message bodies
          NoContent,        \* a body nobody has written yet
          MaxPid            \* bound: pids handed out by proc_alloc

GPID_ALL == -1
GPID_UNUSED == 0
GPID_PROCESS == 1

ASSUME GrassAssumption ==
  /\ MAX_NPROCESS \in Nat /\ MAX_NPROCESS >= 2
  /\ MLFQ_NLEVELS \in Nat /\ MLFQ_NLEVELS >= 1
  /\ MaxPid \in Nat /\ MaxPid >= 1
  /\ GPID_SHELL \in Nat /\ GPID_SHELL > GPID_PROCESS
  /\ GPID_USER_START \in Nat /\ GPID_USER_START > GPID_PROCESS
  /\ NoContent \notin Contents

VARIABLES
  pid,           \* proc_set[k].pid
  status,        \* proc_set[k].status
  syscall,       \* proc_set[k].syscall, the kernel's copy
  mlfq_level,    \* proc_set[k].mlfq_level
  terminated,    \* proc_set[k].time_terminated # 0
  usr,           \* what the last sys_recv of the process left at SYSCALL_ARG
  curr,          \* core_to_proc_idx[0]
  last_pid,      \* the static curr_pid of proc_alloc
  mapped,        \* pids that own pages (page_info_table)
  call,          \* where GPID_PROCESS is inside the grass interface
  kpc,           \* "user", "scan" (in proc_yield's loop) or the FATAL reached
  i,             \* proc_yield: loop index
  lowest_level,  \* proc_yield: best level found so far
  next_idx       \* proc_yield: slot of the best candidate so far

procVars == <<pid, status, syscall, mlfq_level, terminated, usr>>
loopVars == <<i, lowest_level, next_idx>>
vars == <<procVars, curr, last_pid, mapped, call, kpc, loopVars>>

Slots == 0..MAX_NPROCESS
Scanned == 0..(MAX_NPROCESS - 1)   \* the slots that loops "i < MAX_NPROCESS" see
Pids == 0..MaxPid
Statuses == {"UNUSED", "LOADING", "READY", "RUNNING", "RUNNABLE", "PENDING_SYSCALL"}
Fatals == {"no_process", "unknown_receiver", "unknown_syscall", "process_limit",
           "exception"}

SyscallRecord == [type : {"UNUSED", "RECV", "SEND"}, sender : Pids \cup {GPID_ALL},
                  receiver : Pids, content : Contents \cup {NoContent},
                  status : {"PENDING", "DONE"}]
Inbox == [sender : Pids \cup {GPID_ALL}, content : Contents \cup {NoContent}]
NoMsg == [sender |-> GPID_UNUSED, content |-> NoContent]
NoSyscall == [type |-> "UNUSED", sender |-> GPID_UNUSED, receiver |-> GPID_UNUSED,
              content |-> NoContent, status |-> "PENDING"]

(***************************************************************************)
(* The calls of GPID_PROCESS: loading p (between proc_alloc and            *)
(* proc_set_ready), freeing p (proc_free between mmu_free and UNUSED), and *)
(* the two positions in the loop of proc_free(GPID_ALL).                   *)
(***************************************************************************)
Calls == [op : {"none"}, arg : {0}]
         \cup [op : {"loading", "loaded", "freeing"}, arg : (GPID_PROCESS + 1)..MaxPid]
         \cup [op : {"killall"}, arg : Slots]
         \cup [op : {"killing"}, arg : Scanned]
NoCall == [op |-> "none", arg |-> 0]

\* A slot whose process exists.
Live(k) == status[k] # "UNUSED"
\* Mutant: killall takes the shell for an application.
UserAliveFromShell(k) == pid[k] >= GPID_SHELL /\ Live(k)
\* A live user application, as both loops of proc_free test it.
UserAlive(k) == pid[k] >= GPID_USER_START /\ Live(k)
\* The first slot a loop over S would stop at.
First(S) == CHOOSE k \in S : \A j \in S : k <= j

Init ==
  /\ pid = [k \in Slots |-> IF k = 1 THEN GPID_PROCESS ELSE GPID_UNUSED]
  /\ status = [k \in Slots |-> IF k = 1 THEN "RUNNING" ELSE "UNUSED"]
  /\ syscall = [k \in Slots |-> NoSyscall]
  /\ mlfq_level = [k \in Slots |-> 0]
  /\ terminated = [k \in Slots |-> FALSE]
  /\ usr = [k \in Slots |-> NoMsg]
  /\ curr = 1
  /\ last_pid = GPID_PROCESS
  /\ mapped = {GPID_PROCESS}
  /\ call = NoCall
  /\ kpc = "user"
  /\ i = 1 /\ lowest_level = MLFQ_NLEVELS /\ next_idx = MAX_NPROCESS

-----------------------------------------------------------------------------
(* Helpers of process.c and the system calls of kernel.c.  They take the   *)
(* table they work on as arguments: a handler applies several in a row.    *)

proc_set_status(st, p, s) ==
  [k \in Slots |-> IF k < MAX_NPROCESS /\ pid[k] = p THEN s ELSE st[k]]

\* The slots proc_try_send's loop matches; it acts on the first.
Receivers(st, p) == {k \in Scanned : pid[k] = p /\ st[k] # "UNUSED"}

\* d is waiting for a message that s may deliver.
Accepts(sc, d, s) ==
  /\ sc[d].type = "RECV" /\ sc[d].status = "PENDING"
  /\ sc[d].sender \in {GPID_ALL, pid[s]}

\* Mutant: only the call itself tries to send, proc_yield does not try again.
TrySendOnce(st, sc, s) ==
  LET d == First(Receivers(st, sc[s].receiver))
  IN  IF s = curr /\ Receivers(st, sc[s].receiver) # {} /\ Accepts(sc, d, s)
      THEN [sc EXCEPT ![d] = [@ EXCEPT !.status = "DONE", !.sender = pid[s],
                                       !.content = sc[s].content]]
      ELSE sc
\* Mutant: the sender the receiver asked for is not compared.
TrySendAnySender(st, sc, s) ==
  LET d == First(Receivers(st, sc[s].receiver))
  IN  IF /\ Receivers(st, sc[s].receiver) # {}
         /\ sc[d].type = "RECV" /\ sc[d].status = "PENDING"
      THEN [sc EXCEPT ![d] = [@ EXCEPT !.status = "DONE", !.sender = pid[s],
                                       !.content = sc[s].content]]
      ELSE sc

proc_try_send(st, sc, s) ==
  LET d == First(Receivers(st, sc[s].receiver))
  IN  IF Receivers(st, sc[s].receiver) # {} /\ Accepts(sc, d, s)
      THEN [sc EXCEPT ![d] = [@ EXCEPT !.status = "DONE", !.sender = pid[s],
                                       !.content = sc[s].content]]
      ELSE sc

Received(sc, r) == sc[r].type = "RECV" /\ sc[r].status = "DONE"

\* Mutant: the sender is not woken.
TryRecvOneWoken(st, sc, r) ==
  IF Received(sc, r) THEN proc_set_status(st, pid[r], "RUNNABLE") ELSE st

\* The receiver and the sender whose message it holds go back to RUNNABLE.
proc_try_recv(st, sc, r) ==
  IF Received(sc, r)
  THEN proc_set_status(proc_set_status(st, pid[r], "RUNNABLE"), sc[r].sender, "RUNNABLE")
  ELSE st

\* The copy of the system call struct back to the receiver's user space.
CopyToUser(sc, us, r) ==
  IF Received(sc, r) THEN [us EXCEPT ![r] = [sender |-> sc[r].sender, content |-> sc[r].content]]
                     ELSE us

\* proc_try_syscall: either system call may end in a FATAL, or change the table.
SyscallFatal(st, sc, k) ==
  CASE sc[k].type = "RECV" -> "none"
    [] sc[k].type = "SEND" -> IF Receivers(st, sc[k].receiver) = {}
                              THEN "unknown_receiver" ELSE "none"
    [] OTHER -> "unknown_syscall"
TrySyscallTable(st, sc, k) == IF sc[k].type = "SEND" THEN proc_try_send(st, sc, k) ELSE sc
TrySyscallStatus(st, sc, k) == IF sc[k].type = "RECV" THEN proc_try_recv(st, sc, k) ELSE st
TrySyscallUser(sc, us, k) == IF sc[k].type = "RECV" THEN CopyToUser(sc, us, k) ELSE us

(***************************************************************************)
(* MLFQ bookkeeping with time abstracted: whether the current process used *)
(* up its level, whether a key is waiting and whether the reset period is  *)
(* over are choices.  Module Mlfq models the clock.                        *)
(***************************************************************************)
mlfq_update_level(lv, expired) ==
  IF expired /\ lv[curr] < MLFQ_NLEVELS - 1 THEN [lv EXCEPT ![curr] = @ + 1] ELSE lv

ShellSlots == {k \in Scanned : pid[k] = GPID_SHELL}

mlfq_reset_level(st, lv, key, period) ==
  [k \in Slots |->
     IF \/ key /\ k \in ShellSlots /\ k = First(ShellSlots)
        \/ period /\ k < MAX_NPROCESS /\ st[k] # "UNUSED"
     THEN 0 ELSE lv[k]]

Panic(why) ==
  /\ kpc' = why
  /\ UNCHANGED <<procVars, curr, last_pid, mapped, call, loopVars>>

-----------------------------------------------------------------------------
(* Traps.  proc_yield up to its loop, on the tables the handler leaves.    *)

\* Mutant: the search starts from the lowest level instead of one below it.
YieldFromLastLevel(st, sc, us) ==
  LET st1 == IF st[curr] = "RUNNING" THEN proc_set_status(st, pid[curr], "RUNNABLE") ELSE st
  IN  /\ status' = st1 /\ syscall' = sc /\ usr' = us
      /\ \E expired \in BOOLEAN : mlfq_level' = mlfq_update_level(mlfq_level, expired)
      /\ kpc' = "scan"
      /\ i' = 1 /\ lowest_level' = MLFQ_NLEVELS - 1 /\ next_idx' = MAX_NPROCESS
      /\ UNCHANGED <<pid, terminated, curr, last_pid, mapped, call>>

proc_yield(st, sc, us) ==
  LET st1 == IF st[curr] = "RUNNING" THEN proc_set_status(st, pid[curr], "RUNNABLE") ELSE st
  IN  /\ status' = st1 /\ syscall' = sc /\ usr' = us
      /\ \E expired, key, period \in BOOLEAN :
           mlfq_level' = mlfq_reset_level(st1,
                           mlfq_update_level(mlfq_level, expired /\ st1[curr] # "UNUSED"),
                           key, period)
      /\ kpc' = "scan"
      /\ i' = 1 /\ lowest_level' = MLFQ_NLEVELS /\ next_idx' = MAX_NPROCESS
      /\ UNCHANGED <<pid, terminated, curr, last_pid, mapped, call>>

\* What the process in user mode asks for.
SendTo(p, c) == [type |-> "SEND", sender |-> GPID_UNUSED, receiver |-> p,
                 content |-> c, status |-> "PENDING"]
RecvFrom(p) == [type |-> "RECV", sender |-> p, receiver |-> GPID_UNUSED,
                content |-> NoContent, status |-> "PENDING"]

\* GPID_PROCESS makes system calls of its own only outside the grass calls,
\* or while it reads the file that it loads.
MayTrap == pid[curr] = GPID_PROCESS => call.op \in {"none", "loading"}

\* excp_entry, system call: copy the arguments, try at once, then yield.
Ecall(req) ==
  LET sc == [syscall EXCEPT ![curr] = req]
      st == proc_set_status(status, pid[curr], "PENDING_SYSCALL")
      us == [usr EXCEPT ![curr] = NoMsg]
  IN  /\ kpc = "user"
      /\ MayTrap
      /\ IF SyscallFatal(st, sc, curr) # "none"
         THEN Panic(SyscallFatal(st, sc, curr))
         ELSE proc_yield(TrySyscallStatus(st, sc, curr), TrySyscallTable(st, sc, curr),
                         TrySyscallUser(sc, us, curr))

\* intr_entry, timer.
Timer ==
  /\ kpc = "user"
  /\ proc_yield(status, syscall, usr)

\* excp_entry, any other exception, raised by a user application.
Fault ==
  /\ kpc = "user"
  /\ pid[curr] >= GPID_USER_START
  /\ Panic("exception")

\* One iteration of the loop in proc_yield.
Nth(n) == (curr + n) % MAX_NPROCESS

\* Mutant: the round robin of the original loop, which takes the first candidate.
ScanStepFirst ==
  LET j == Nth(i)
      tries == status[j] = "PENDING_SYSCALL"
      st == IF tries THEN TrySyscallStatus(status, syscall, j) ELSE status
      found == st[j] \in {"READY", "RUNNABLE"} /\ next_idx = MAX_NPROCESS
  IN  /\ kpc = "scan" /\ i <= MAX_NPROCESS
      /\ ~(tries /\ SyscallFatal(status, syscall, j) # "none")
      /\ status' = st
      /\ syscall' = IF tries THEN TrySyscallTable(status, syscall, j) ELSE syscall
      /\ usr' = IF tries THEN TrySyscallUser(syscall, usr, j) ELSE usr
      /\ lowest_level' = IF found THEN mlfq_level[j] ELSE lowest_level
      /\ next_idx' = IF found THEN j ELSE next_idx
      /\ i' = i + 1
      /\ UNCHANGED <<pid, mlfq_level, terminated, curr, last_pid, mapped, call, kpc>>

ScanStep ==
  LET j == Nth(i)
      tries == status[j] = "PENDING_SYSCALL"
      st == IF tries THEN TrySyscallStatus(status, syscall, j) ELSE status
      better == st[j] \in {"READY", "RUNNABLE"} /\ mlfq_level[j] < lowest_level
  IN  /\ kpc = "scan" /\ i <= MAX_NPROCESS
      /\ IF tries /\ SyscallFatal(status, syscall, j) # "none"
         THEN Panic(SyscallFatal(status, syscall, j))
         ELSE /\ status' = st
              /\ syscall' = IF tries THEN TrySyscallTable(status, syscall, j) ELSE syscall
              /\ usr' = IF tries THEN TrySyscallUser(syscall, usr, j) ELSE usr
              /\ lowest_level' = IF better THEN mlfq_level[j] ELSE lowest_level
              /\ next_idx' = IF better THEN j ELSE next_idx
              /\ i' = i + 1
              /\ UNCHANGED <<pid, mlfq_level, terminated, curr, last_pid, mapped, call, kpc>>

\* Mutant: with a candidate at hand the loop does not come back to the current process.
DispatchEarly ==
  /\ kpc = "scan" /\ i >= MAX_NPROCESS
  /\ i = MAX_NPROCESS => next_idx < MAX_NPROCESS
  /\ IF next_idx < MAX_NPROCESS
     THEN /\ curr' = next_idx
          /\ status' = proc_set_status(status, pid[next_idx], "RUNNING")
          /\ kpc' = "user"
          /\ i' = 1 /\ lowest_level' = MLFQ_NLEVELS /\ next_idx' = MAX_NPROCESS
          /\ UNCHANGED <<pid, syscall, mlfq_level, terminated, usr, last_pid, mapped, call>>
     ELSE Panic("no_process")

\* The rest of proc_yield, and kernel_entry's return to user mode.
Dispatch ==
  /\ kpc = "scan" /\ i > MAX_NPROCESS
  /\ IF next_idx < MAX_NPROCESS
     THEN /\ curr' = next_idx
          /\ status' = proc_set_status(status, pid[next_idx], "RUNNING")
          /\ kpc' = "user"
          /\ i' = 1 /\ lowest_level' = MLFQ_NLEVELS /\ next_idx' = MAX_NPROCESS
          /\ UNCHANGED <<pid, syscall, mlfq_level, terminated, usr, last_pid, mapped, call>>
     ELSE Panic("no_process")

-----------------------------------------------------------------------------
(* The grass interface, called by GPID_PROCESS.                            *)

InProcess(op) == kpc = "user" /\ pid[curr] = GPID_PROCESS /\ call.op = op

FreeSlots == {k \in Slots \ {0} : status[k] = "UNUSED"}

proc_alloc ==
  LET k == First(FreeSlots)
  IN  /\ InProcess("none")
      /\ last_pid < MaxPid
      /\ IF FreeSlots = {}
         THEN Panic("process_limit")
         ELSE /\ pid' = [pid EXCEPT ![k] = last_pid + 1]
              /\ status' = [status EXCEPT ![k] = "LOADING"]
              /\ mlfq_level' = [mlfq_level EXCEPT ![k] = 0]
              /\ terminated' = [terminated EXCEPT ![k] = FALSE]
              /\ last_pid' = last_pid + 1
              /\ call' = [op |-> "loading", arg |-> last_pid + 1]
              /\ UNCHANGED <<syscall, usr, curr, mapped, kpc, loopVars>>

\* elf_load: the new process gets its pages, with nothing received yet.
elf_load ==
  /\ InProcess("loading")
  /\ mapped' = mapped \cup {call.arg}
  /\ usr' = [k \in Slots |-> IF pid[k] = call.arg THEN NoMsg ELSE usr[k]]
  /\ call' = [call EXCEPT !.op = "loaded"]
  /\ UNCHANGED <<pid, status, syscall, mlfq_level, terminated, curr, last_pid, kpc, loopVars>>

\* Mutant: the new process is made RUNNABLE, so its entry point is never set up.
SetReadyRunnable ==
  /\ InProcess("loaded")
  /\ status' = proc_set_status(status, call.arg, "RUNNABLE")
  /\ call' = NoCall
  /\ UNCHANGED <<pid, syscall, mlfq_level, terminated, usr, curr, last_pid, mapped, kpc, loopVars>>

proc_set_ready ==
  /\ InProcess("loaded")
  /\ status' = proc_set_status(status, call.arg, "READY")
  /\ call' = NoCall
  /\ UNCHANGED <<pid, syscall, mlfq_level, terminated, usr, curr, last_pid, mapped, kpc, loopVars>>

UserSlots(from) == {k \in from..(MAX_NPROCESS - 1) : UserAlive(k)}

\* proc_free(p): the statistics and mmu_free; a timer interrupt may follow.
proc_free(p) ==
  /\ InProcess("none")
  /\ UserSlots(0) # {}
  /\ terminated' = [terminated EXCEPT ![First(UserSlots(0))] = TRUE]
  /\ mapped' = mapped \ {p}
  /\ call' = [op |-> "freeing", arg |-> p]
  /\ UNCHANGED <<pid, status, syscall, mlfq_level, usr, curr, last_pid, kpc, loopVars>>

\* Mutant: the process whose statistics were printed is marked, not the one unmapped.
ProcFreeEndPrinted ==
  /\ InProcess("freeing")
  /\ UserSlots(0) # {}
  /\ status' = [status EXCEPT ![First(UserSlots(0))] = "UNUSED"]
  /\ call' = NoCall
  /\ UNCHANGED <<pid, syscall, mlfq_level, terminated, usr, curr, last_pid, mapped, kpc, loopVars>>

ProcFreeEnd ==
  /\ InProcess("freeing")
  /\ status' = proc_set_status(status, call.arg, "UNUSED")
  /\ call' = NoCall
  /\ UNCHANGED <<pid, syscall, mlfq_level, terminated, usr, curr, last_pid, mapped, kpc, loopVars>>

\* proc_free(GPID_ALL): one victim at a time, unmapped first, then UNUSED.
KillAll ==
  /\ InProcess("none")
  /\ call' = [op |-> "killall", arg |-> 0]
  /\ UNCHANGED <<procVars, curr, last_pid, mapped, kpc, loopVars>>

KillAllUnmap ==
  LET k == First(UserSlots(call.arg))
  IN  /\ InProcess("killall")
      /\ UserSlots(call.arg) # {}
      /\ terminated' = [terminated EXCEPT ![k] = TRUE]
      /\ mapped' = mapped \ {pid[k]}
      /\ call' = [op |-> "killing", arg |-> k]
      /\ UNCHANGED <<pid, status, syscall, mlfq_level, usr, curr, last_pid, kpc, loopVars>>

KillAllMark ==
  /\ InProcess("killing")
  /\ status' = [status EXCEPT ![call.arg] = "UNUSED"]
  /\ call' = [op |-> "killall", arg |-> call.arg + 1]
  /\ UNCHANGED <<pid, syscall, mlfq_level, terminated, usr, curr, last_pid, mapped, kpc, loopVars>>

KillAllEnd ==
  /\ InProcess("killall")
  /\ UserSlots(call.arg) = {}
  /\ call' = NoCall
  /\ UNCHANGED <<procVars, curr, last_pid, mapped, kpc, loopVars>>

\* FATAL never returns.  Here everything stops.  In the code its endless loop runs with the
\* interrupts as they are: a FATAL of the kernel stops the machine, one of GPID_PROCESS
\* (proc_alloc's, process.c:60) only itself, and the others would go on.
Halted == kpc \in Fatals /\ UNCHANGED vars

-----------------------------------------------------------------------------
Send == \E p \in 1..MaxPid, c \in Contents : Ecall(SendTo(p, c))
Recv == \E p \in 1..MaxPid \cup {GPID_ALL} : Ecall(RecvFrom(p))

UserPids == {pid[k] : k \in UserSlots(0)}

Next ==
  \/ Send \/ Recv \/ Timer \/ Fault
  \/ ScanStep \/ Dispatch
  \/ proc_alloc \/ elf_load \/ proc_set_ready
  \/ \E p \in UserPids : proc_free(p)
  \/ ProcFreeEnd
  \/ KillAll \/ KillAllUnmap \/ KillAllMark \/ KillAllEnd
  \/ Halted

Spec == Init /\ [][Next]_vars

-----------------------------------------------------------------------------
(* Properties.                                                             *)

Blocked(k) == status[k] = "PENDING_SYSCALL"
Sending(s, r) == Blocked(s) /\ syscall[s].type = "SEND" /\ syscall[s].receiver = pid[r]
Rendezvous(s, r) == Sending(s, r) /\ Blocked(r) /\ Accepts(syscall, r, s)

\* Every variable keeps its type; the loop's candidate is a scanned slot or none.
TypeOK ==
  /\ pid \in [Slots -> Pids]
  /\ status \in [Slots -> Statuses]
  /\ syscall \in [Slots -> SyscallRecord]
  /\ mlfq_level \in [Slots -> 0..(MLFQ_NLEVELS - 1)]
  /\ terminated \in [Slots -> BOOLEAN]
  /\ usr \in [Slots -> Inbox]
  /\ curr \in Scanned
  /\ last_pid \in 1..MaxPid
  /\ mapped \in SUBSET Pids
  /\ call \in Calls
  /\ kpc \in {"user", "scan"} \cup Fatals
  /\ i \in 1..(MAX_NPROCESS + 1)
  /\ lowest_level \in 0..MLFQ_NLEVELS
  /\ next_idx \in Slots

\* Whenever a process runs, no sender and receiver that could exchange a message
\* are both still blocked: one try of each pending system call per proc_yield, in
\* whatever order the loop meets sender and receiver, is enough (kernel.c:122-125).
NoMissedRendezvous ==
  kpc = "user" => \A s, r \in Scanned : ~Rendezvous(s, r)

\* Whenever a process runs, no receiver is blocked on a system call that is DONE:
\* a message handed over by proc_try_send is always picked up by proc_try_recv
\* before the kernel returns (kernel.c:201, 213).
NoStrandedMessage ==
  kpc = "user" => \A r \in Slots : Blocked(r) => ~Received(syscall, r)

\* In user mode exactly the process of the core is RUNNING, also after
\* proc_set_status has been applied by pid to a table with stale pids.
OneRunning ==
  kpc = "user" => \A k \in Slots : status[k] = "RUNNING" <=> k = curr

\* proc_yield reports "no process to run" only if every process is blocked or
\* still loading: the level search overlooks no candidate (kernel.c:127-133, 164).
IdleOnlyWhenAllBlocked ==
  kpc = "no_process" => \A k \in Scanned : status[k] \notin {"READY", "RUNNABLE", "RUNNING"}

\* The process picked has the best level of all candidates, except possibly one:
\* the sender whose message the current process has just received, which the loop
\* had passed while it was still blocked (kernel.c:122-137).
PicksBestLevel ==
  kpc = "scan" /\ i > MAX_NPROCESS =>
    \A k \in Scanned :
      status[k] \in {"READY", "RUNNABLE"} /\ mlfq_level[k] < lowest_level =>
        Received(syscall, curr) /\ syscall[curr].sender = pid[k] /\ k # curr

\* A live process without pages is the one GPID_PROCESS is freeing right now:
\* the window between mmu_free and UNUSED is the only one (process.c:96, 129).
UnmappedOnlyWhileFreed ==
  \A k \in Scanned :
    /\ status[k] \in {"READY", "RUNNING", "RUNNABLE", "PENDING_SYSCALL"}
    /\ pid[k] \notin mapped
    => \/ call = [op |-> "freeing", arg |-> pid[k]]
       \/ call = [op |-> "killing", arg |-> k]

\* A blocked receiver continues only with the message of a process that was blocked
\* sending it to this receiver; both wake in the same step, and nobody else does.
DeliveryIsFaithful ==
  [][\A r \in Slots :
       Blocked(r) /\ syscall[r].type = "RECV" /\ status'[r] = "RUNNABLE" =>
         \E s \in Scanned \ {r} :
           /\ Sending(s, r)
           /\ usr'[r] = [sender |-> pid[s], content |-> syscall[s].content]
           /\ status' = [status EXCEPT ![r] = "RUNNABLE", ![s] = "RUNNABLE"]]_vars

\* The life cycle of a process: it is loaded, made ready, runs from its entry
\* point, and is woken only from a system call; a freed slot stays unused until
\* it is allocated again, whatever stale pid or system call it holds.
LifeCycle ==
  [][\A k \in Slots : status'[k] # status[k] =>
       <<status[k], status'[k]>> \in
         {<<"UNUSED", "LOADING">>, <<"LOADING", "READY">>, <<"READY", "RUNNING">>,
          <<"RUNNING", "RUNNABLE">>, <<"RUNNING", "PENDING_SYSCALL">>,
          <<"PENDING_SYSCALL", "RUNNABLE">>, <<"RUNNABLE", "RUNNING">>,
          <<"LOADING", "UNUSED">>, <<"READY", "UNUSED">>, <<"RUNNABLE", "UNUSED">>,
          <<"PENDING_SYSCALL", "UNUSED">>}]_vars

=============================================================================
