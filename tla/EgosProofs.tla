----------------------------- MODULE EgosProofs -----------------------------
(***************************************************************************)
(* Theorems about EgosServers, for every size of the process table, every  *)
(* set of commands and requests and every bound on them.                   *)
(***************************************************************************)
EXTENDS EgosServers, GrassProofs

-----------------------------------------------------------------------------
(* The inductive invariant.                                                *)

\* What the process in slot k is blocked on.
Sends(k, p, c) ==
  Blocked(k) /\ syscall[k].type = "SEND" /\ syscall[k].receiver = p /\ syscall[k].content = c
Waits(k) == Blocked(k) /\ syscall[k].type = "RECV"
WaitsFor(k, p) == Waits(k) /\ syscall[k].sender = p

Spawns == {"spawn_fg", "spawn_bg", "spawn_bad"}
Servers == {GPID_TERMINAL, GPID_FILE}
Gone(p) == \A k \in Slots : pid[k] = p => ~Live(k)
\* The pids of the applications started so far.
Known == GPID_USER_START..last_pid
Booting == at[GPID_PROCESS] \in {"boot", "wait_terminal", "wait_file"}

Labels == {"boot", "wait_terminal", "wait_file", "loop", "request", "lookup", "lookup_recv", "load",
           "load_recv", "reply", "free", "notify", "killall", "init", "cmd", "recv", "prompt",
           "run", "read_recv", "input_recv", "spin"}

\* The servers and the shell are in the slots of their pids, and never end.
SlotInv ==
  /\ at \in [Slots -> Labels] /\ left \in [Slots -> Int]
  /\ \A p \in GPID_PROCESS..GPID_SHELL : p <= last_pid => p \in Slots /\ pid[p] = p /\ Live(p)
  /\ \A k \in Slots : Live(k) => k \in 1..last_pid
  /\ last_pid > GPID_SHELL => GPID_SHELL \in Scanned
  /\ last_pid = GPID_SHELL /\ at[GPID_SHELL] # "cmd" => status[GPID_SHELL] \in Started

\* Each label of a program goes with what the process may be blocked on there.
ProcLabels ==
  \/ at[GPID_PROCESS] = "boot" /\ (Blocked(GPID_PROCESS) =>
       \E p \in Servers : last_pid = p /\ WaitsFor(GPID_PROCESS, p))
  \/ at[GPID_PROCESS] = "loop" /\ (Blocked(GPID_PROCESS) =>
       \E c \in {"ok", "error", "exit"} : Sends(GPID_PROCESS, GPID_SHELL, c))
  \/ at[GPID_PROCESS] = "request" /\ (Blocked(GPID_PROCESS) => Waits(GPID_PROCESS))
  \/ at[GPID_PROCESS] \in {"lookup", "load"} /\
       (Blocked(GPID_PROCESS) => WaitsFor(GPID_PROCESS, GPID_FILE))
  \/ at[GPID_PROCESS] \in {"lookup_recv", "load_recv"} /\
       (Blocked(GPID_PROCESS) => Sends(GPID_PROCESS, GPID_FILE, "read"))
  \/ at[GPID_PROCESS] \in {"wait_terminal", "wait_file", "reply", "free", "notify", "killall"} /\
       ~Blocked(GPID_PROCESS)
ServerLabels(k) ==
  \/ at[k] = "init" /\ ~Blocked(k)
  \/ at[k] = "request" /\ (Blocked(k) => Waits(k))
  \/ at[k] = "loop" /\ (Blocked(k) =>
       \/ Sends(k, GPID_PROCESS, "finish")
       \/ k = GPID_FILE /\ \E p \in {GPID_PROCESS} \cup Known : Sends(k, p, "block")
       \/ k = GPID_TERMINAL /\ \E p \in Known : Sends(k, p, "line"))
ShellLabels ==
  \/ at[GPID_SHELL] = "cmd" /\ ~Blocked(GPID_SHELL)
  \/ /\ at[GPID_SHELL] = "recv" /\ cmd \in Spawns
     /\ Blocked(GPID_SHELL) => Sends(GPID_SHELL, GPID_PROCESS, cmd)
  \/ /\ at[GPID_SHELL] = "reply" /\ cmd \in Spawns
     /\ Blocked(GPID_SHELL) => WaitsFor(GPID_SHELL, GPID_PROCESS)
  \/ /\ at[GPID_SHELL] = "prompt"
     /\ Blocked(GPID_SHELL) => \/ cmd = "spawn_fg" /\ WaitsFor(GPID_SHELL, GPID_PROCESS)
                               \/ cmd = "killall" /\ Sends(GPID_SHELL, GPID_PROCESS, "killall")
AppLabels(k) ==
  \/ at[k] = "run" /\ (Blocked(k) =>
       Sends(k, GPID_TERMINAL, "print") \/ \E p \in Servers : WaitsFor(k, p))
  \/ at[k] = "read_recv" /\ (Blocked(k) => Sends(k, GPID_FILE, "read"))
  \/ at[k] = "input_recv" /\ (Blocked(k) => Sends(k, GPID_TERMINAL, "input"))
  \/ at[k] = "spin" /\ (Blocked(k) => Sends(k, GPID_PROCESS, "exit"))
ServerState == \A k \in Servers : k <= last_pid => ServerLabels(k)
ShellState == cmd \in Spawns \cup {"killall"} /\ (GPID_SHELL <= last_pid => ShellLabels)

\* Where GPID_PROCESS is inside the grass interface, and how far the boot is.
CallLabels ==
  /\ at[GPID_PROCESS] = "boot" =>
       \/ call.op = "none" /\ last_pid < GPID_SHELL
       \/ /\ call.op \in {"loading", "loaded"} /\ call.arg = last_pid
          /\ last_pid > GPID_PROCESS /\ last_pid <= GPID_SHELL /\ ~Blocked(GPID_PROCESS)
  /\ at[GPID_PROCESS] = "wait_terminal" => call.op = "none" /\ last_pid = GPID_TERMINAL
  /\ at[GPID_PROCESS] = "wait_file" => call.op = "none" /\ last_pid = GPID_FILE
  /\ ~Booting => last_pid >= GPID_SHELL
  /\ at[GPID_PROCESS] \in {"load", "load_recv"} =>
       call.op \in {"loading", "loaded"} /\ call.arg = last_pid /\ last_pid > GPID_SHELL
  /\ at[GPID_PROCESS] = "load_recv" => call.op = "loading"
  /\ at[GPID_PROCESS] = "free" => call.op = "freeing" /\ call.arg = client
  /\ at[GPID_PROCESS] = "killall" =>
       call.op = "killall" \/ (call.op = "killing" /\ pid[call.arg] \in Apps)
  /\ at[GPID_PROCESS] \notin {"boot", "load", "load_recv", "free", "killall"} => call.op = "none"

\* A server's "Finish initialization" is outstanding exactly while GPID_PROCESS is yet to
\* receive it; and during the boot nobody has asked the file server for anything.
Due(p) == last_pid = p /\ \/ call.op # "none" \/ at[GPID_PROCESS] \in {"wait_terminal", "wait_file"}
                          \/ Blocked(GPID_PROCESS)
BootInv ==
  /\ \A p \in Servers : p <= last_pid =>
       IF Due(p) THEN at[p] = "init" \/ Sends(p, GPID_PROCESS, "finish")
                 ELSE at[p] # "init" /\ ~Sends(p, GPID_PROCESS, "finish")
  /\ Booting /\ GPID_FILE <= last_pid /\ at[GPID_FILE] = "request" => Blocked(GPID_FILE)

\* A server owes a reply only to a client that is about to take it, or was killed meanwhile.
Owes(s, p) ==
  \/ Sends(s, p, "block") \/ Sends(s, p, "line")
  \/ /\ at[s] = "request" /\ ~Blocked(s)
     /\ usr[s].content \in {"read", "input"} /\ usr[s].sender = p
AwaitsBlock ==
  \/ at[GPID_PROCESS] \in {"lookup_recv", "load_recv"} /\ ~Blocked(GPID_PROCESS)
  \/ at[GPID_PROCESS] \in {"lookup", "load"} /\ Blocked(GPID_PROCESS)
AwaitsReply(k, s) ==
  \/ at[k] = (IF s = GPID_FILE THEN "read_recv" ELSE "input_recv") /\ ~Blocked(k)
  \/ at[k] = "run" /\ WaitsFor(k, s)
BlockOwed == GPID_FILE <= last_pid /\ Owes(GPID_FILE, GPID_PROCESS) => AwaitsBlock
ReplyOwed ==
  \A s \in Servers, k \in Slots : s <= last_pid /\ pid[k] \in Apps /\ Owes(s, pid[k]) =>
    k \in Scanned /\ at[k] # "spin" /\ (Live(k) => AwaitsReply(k, s))

\* What has been received at a label where it is read.
ProcInbox ==
  ~Blocked(GPID_PROCESS) =>
    /\ at[GPID_PROCESS] = "request" =>
         \/ usr[GPID_PROCESS].content \in Spawns \cup {"killall"}
         \/ /\ usr[GPID_PROCESS].content = "exit"
            /\ \E k \in Scanned : Live(k) /\ pid[k] \in Apps /\ pid[k] = usr[GPID_PROCESS].sender
    /\ at[GPID_PROCESS] = "load" \/ (at[GPID_PROCESS] = "lookup" /\ left[GPID_PROCESS] < 2) =>
         usr[GPID_PROCESS] = NoMsg \/ usr[GPID_PROCESS].content = "block"
    /\ at[GPID_PROCESS] = "boot" => usr[GPID_PROCESS] = NoMsg \/ usr[GPID_PROCESS].content = "finish"
ServerInbox ==
  /\ GPID_FILE <= last_pid /\ at[GPID_FILE] = "request" /\ ~Blocked(GPID_FILE) =>
       usr[GPID_FILE].content = "read" /\ usr[GPID_FILE].sender \in {GPID_PROCESS} \cup Known
  /\ GPID_TERMINAL <= last_pid /\ at[GPID_TERMINAL] = "request" /\ ~Blocked(GPID_TERMINAL) =>
       usr[GPID_TERMINAL].content \in {"print", "input"} /\ usr[GPID_TERMINAL].sender \in Known
ShellInbox ==
  GPID_SHELL <= last_pid /\ ~Blocked(GPID_SHELL) =>
    /\ at[GPID_SHELL] = "reply" =>
         usr[GPID_SHELL].content = (IF cmd = "spawn_bad" THEN "error" ELSE "ok")
    /\ at[GPID_SHELL] = "prompt" =>
         \/ usr[GPID_SHELL] = NoMsg
         \/ usr[GPID_SHELL].content \in IF cmd = "spawn_fg" THEN {"exit", "error"} ELSE {"ok", "error"}
AppState ==
  \A k \in Slots : pid[k] \in Apps =>
    /\ Live(k) => AppLabels(k)
    /\ status[k] \in Started /\ ~Blocked(k) /\ at[k] = "run" =>
         usr[k] = NoMsg \/ usr[k].content \in {"block", "line"}
Inboxes ==
  \A k \in Slots : /\ usr[k] = NoMsg \/ usr[k].content \in Contents
                   /\ Blocked(k) => usr[k] = NoMsg

\* The conversation of the shell and GPID_PROCESS: a command is served, answered, and, in
\* the foreground, its end is reported.
Serves(c) ==
  \/ at[GPID_PROCESS] \in {"lookup", "lookup_recv", "load", "load_recv", "reply"} /\ req = c
  \/ at[GPID_PROCESS] = "request" /\ ~Blocked(GPID_PROCESS) /\ usr[GPID_PROCESS].content = c
AtService ==
  \/ at[GPID_PROCESS] \in {"lookup", "lookup_recv", "load", "load_recv", "reply"}
  \/ at[GPID_PROCESS] = "request" /\ ~Blocked(GPID_PROCESS) /\ usr[GPID_PROCESS].content \in Spawns
Answers(c) == Sends(GPID_PROCESS, GPID_SHELL, c)
AwaitsAnswer ==
  \/ at[GPID_SHELL] = "recv" /\ ~Blocked(GPID_SHELL)
  \/ at[GPID_SHELL] = "reply" /\ Blocked(GPID_SHELL)
AwaitsEnd ==
  cmd = "spawn_fg" /\ \/ at[GPID_SHELL] = "reply" /\ ~Blocked(GPID_SHELL)
                      \/ at[GPID_SHELL] = "prompt" /\ Blocked(GPID_SHELL)
TalkInv ==
  /\ AtService => Serves(cmd) /\ AwaitsAnswer
  /\ \A c \in {"ok", "error"} : Answers(c) =>
       /\ AwaitsAnswer /\ c = (IF cmd = "spawn_bad" THEN "error" ELSE "ok")
       /\ shell_waiting = (cmd = "spawn_fg")
  /\ at[GPID_PROCESS] = "notify" \/ Answers("exit") => AwaitsEnd /\ Gone(app_pid)
  /\ ~AtService /\ shell_waiting /\ ~Gone(app_pid) => AwaitsEnd \/ (Answers("ok") /\ cmd = "spawn_fg")
  /\ GPID_SHELL <= last_pid /\ at[GPID_SHELL] = "prompt" /\ ~Blocked(GPID_SHELL) /\ cmd = "spawn_fg" =>
       Gone(app_pid)
  /\ app_pid \in 0..last_pid /\ (Booting => ~shell_waiting)
  /\ at[GPID_PROCESS] = "free" => \E k \in Scanned : Live(k) /\ pid[k] \in Apps /\ pid[k] = client

\* A FATAL stops the system in the middle of a step.
FatalInv ==
  kpc # "no_process" => FatalHasCause
UpInv ==
  /\ SlotInv /\ Inboxes
  /\ ProcLabels /\ CallLabels /\ ProcInbox
  /\ ServerState /\ ServerInbox /\ BootInv /\ BlockOwed
  /\ ShellState /\ ShellInbox /\ TalkInv
  /\ AppState /\ ReplyOwed
EgosInv == DiskExclusive /\ FatalInv /\ (kpc \notin Fatals => UpInv)

-----------------------------------------------------------------------------
(* What the kernel's steps mean to the programs.                           *)

\* Slot k is not affected: alive, started and blocked as before, and on the same.
Still(k) ==
  /\ Live(k)' <=> Live(k)
  /\ (status'[k] \in Started) <=> (status[k] \in Started)
  /\ Blocked(k)' <=> Blocked(k)
  /\ Waits(k)' <=> Waits(k)
  /\ \A p, c : Sends(k, p, c)' <=> Sends(k, p, c)
  /\ \A p : p # GPID_ALL /\ WaitsFor(k, p) => WaitsFor(k, p)'

\* r has received the message that s was sending to it.
Wakes(r, s) ==
  /\ r # s /\ Waits(r) /\ syscall[r].sender = pid[s]
  /\ \E c \in Contents \cup {NoContent} :
       Sends(s, pid[r], c) /\ usr' = [usr EXCEPT ![r] = [sender |-> pid[s], content |-> c]]
  /\ Live(r)' /\ Live(s)' /\ ~Blocked(r)' /\ ~Blocked(s)'
  /\ status[r] \in Started /\ status'[r] \in Started /\ status[s] \in Started /\ status'[s] \in Started
  /\ \A k \in Slots \ {r, s} : Still(k)

LEMMA Numbers ==
  /\ GPID_PROCESS = 1 /\ GPID_TERMINAL = 2 /\ GPID_FILE = 3 /\ GPID_SHELL = 4
  /\ GPID_USER_START = 5 /\ GPID_ALL = -1 /\ GPID_UNUSED = 0
  /\ MaxPid \in Nat /\ MAX_NPROCESS \in Nat /\ MAX_NPROCESS >= 2
  /\ Slots = 0..MAX_NPROCESS /\ Scanned = 0..(MAX_NPROCESS - 1) /\ Scanned \subseteq Slots
  /\ 1 \in Slots /\ Pids = 0..MaxPid
BY ServersAssumption, GrassAssumption
   DEF GPID_PROCESS, GPID_TERMINAL, GPID_FILE, GPID_ALL, GPID_UNUSED, Slots, Scanned, Pids

\* A slot whose status and system call are the same is not affected.
LEMMA StillSame ==
  ASSUME NEW k \in Slots, syscall'[k] = syscall[k],
         status'[k] = status[k] \/ (status[k] \in Started \ {"PENDING_SYSCALL"} /\
                                    status'[k] \in Started \ {"PENDING_SYSCALL"})
  PROVE  Still(k)
BY DEF Still, Live, Blocked, Waits, Sends, WaitsFor, Started

\* proc_try_send changes only the system call of a receiver, and not who it waits for.
LEMMA SendKeeps ==
  ASSUME TypeOK, NEW st, NEW sc \in [Slots -> SyscallRecord], NEW s \in Slots, NEW k \in Slots
  PROVE  /\ proc_try_send(st, sc, s)[k].type = sc[k].type
         /\ sc[k].type # "RECV" => proc_try_send(st, sc, s)[k] = sc[k]
         /\ sc[k].sender # GPID_ALL /\ sc[k].type = "RECV" =>
              proc_try_send(st, sc, s)[k].sender = sc[k].sender
<1> DEFINE d == First(Receivers(st, sc[s].receiver))
<1>1. \/ proc_try_send(st, sc, s) = sc
      \/ /\ Accepts(sc, d, s)
         /\ proc_try_send(st, sc, s) = [sc EXCEPT ![d] = [@ EXCEPT !.status = "DONE", !.sender = pid[s],
                                                            !.content = sc[s].content]]
  BY DEF proc_try_send
<1> HIDE DEF d
<1>2. sc[k] \in SyscallRecord
  OBVIOUS
<1>3. CASE proc_try_send(st, sc, s) = sc
  BY <1>3
<1>4. CASE /\ Accepts(sc, d, s)
           /\ proc_try_send(st, sc, s) = [sc EXCEPT ![d] = [@ EXCEPT !.status = "DONE", !.sender = pid[s],
                                                              !.content = sc[s].content]]
  <2>1. CASE k = d
    <3>1. proc_try_send(st, sc, s)[k] =
            [sc[k] EXCEPT !.status = "DONE", !.sender = pid[s], !.content = sc[s].content]
      BY <1>4, <2>1
    <3>2. /\ proc_try_send(st, sc, s)[k].type = sc[k].type
          /\ proc_try_send(st, sc, s)[k].sender = pid[s]
      BY <1>2, <3>1 DEF SyscallRecord
    <3>3. sc[k].type = "RECV" /\ sc[k].sender \in {GPID_ALL, pid[s]}
      BY <1>4, <2>1 DEF Accepts
    <3> QED BY <3>2, <3>3
  <2>2. CASE k # d
    BY <1>4, <2>2
  <2> QED BY <2>1, <2>2
<1> QED BY <1>1, <1>3, <1>4

\* A slot is not affected either if its system call went through proc_try_send.
LEMMA StillSend ==
  ASSUME NEW k \in Slots, status'[k] = status[k], syscall'[k].type = syscall[k].type,
         syscall[k].type # "RECV" => syscall'[k] = syscall[k],
         syscall[k].sender # GPID_ALL /\ syscall[k].type = "RECV" => syscall'[k].sender = syscall[k].sender
  PROVE  Still(k)
BY DEF Still, Live, Blocked, Waits, Sends, WaitsFor

\* The loop, the dispatch and the timer: they stop in a FATAL, affect no program, or wake
\* a receiver and its sender.
LEMMA KernelView ==
  ASSUME AllInv, ScanStep \/ Dispatch \/ Timer
  PROVE  /\ kpc \notin Fatals /\ UNCHANGED <<pid, last_pid, call>>
         /\ \/ kpc' \in Fatals /\ UNCHANGED <<status, syscall, usr, curr>>
            \/ kpc' \notin Fatals /\ usr' = usr /\ \A k \in Slots : Still(k)
            \/ kpc' \notin Fatals /\ \E r, s \in Scanned : Wakes(r, s)
<1>0. /\ IInv /\ TypeOK /\ syscall \in [Slots -> SyscallRecord] /\ status \in [Slots -> Statuses]
      /\ usr \in [Slots -> Inbox] /\ pid \in [Slots -> Pids] /\ curr \in Slots
  BY Numbers DEF AllInv, IInv, TypeOK
<1>1. CASE Timer
  <2>1. /\ kpc = "user" /\ kpc' = "scan" /\ UNCHANGED <<pid, syscall, last_pid, call>>
        /\ status' = [status EXCEPT ![curr] = "RUNNABLE"]
    BY <1>0, <1>1, TimerEffect
  <2>2. usr' = usr
    BY <1>1 DEF Timer, proc_yield
  <2>3. status[curr] = "RUNNING"
    BY <1>0, <2>1, UserFacts
  <2>4. \A k \in Slots : Still(k)
    BY <1>0, <2>1, <2>3, StillSame DEF Started
  <2> QED BY <2>1, <2>2, <2>4 DEF Fatals
<1>2. CASE Dispatch
  <2>1. /\ kpc = "scan" /\ UNCHANGED <<pid, last_pid, call, usr, syscall>>
        /\ \/ /\ kpc' = "user" /\ next_idx \in Slots /\ status[next_idx] \in Candidates
              /\ status' = [status EXCEPT ![next_idx] = "RUNNING"]
           \/ kpc' = "no_process" /\ status' = status /\ curr' = curr
    BY <1>0, <1>2, DispatchEffect DEF Dispatch, Panic, procVars
  <2>2. CASE kpc' = "no_process"
    BY <2>1, <2>2 DEF Fatals
  <2>3. CASE kpc' = "user"
    <3>1. \A k \in Slots : Still(k)
      BY <1>0, <2>1, <2>3, StillSame DEF Started, Candidates
    <3> QED BY <2>1, <2>3, <3>1 DEF Fatals
  <2> QED BY <2>1, <2>2, <2>3
<1>3. CASE ScanStep
  <2>0. PICK j \in Scanned : j = Nth(i)
    BY <1>0, <1>3, ScanEffect
  <2>1. kpc = "scan" /\ j \in Slots /\ UNCHANGED <<pid, last_pid, call, curr>>
    BY <1>0, <1>3, ScanEffect, Numbers
  <2>2. CASE kpc' \in Fatals
    <3>1. UNCHANGED <<status, syscall, usr>>
      BY <2>1, <2>2, <1>3 DEF ScanStep, Panic, procVars, Fatals
    <3> QED BY <2>1, <2>2, <3>1 DEF Fatals
  <2>3. CASE kpc' \notin Fatals
    <3>0. ~(Blocked(j) /\ SyscallFatal(status, syscall, j) # "none")
      <4>1. SyscallFatal(status, syscall, j) \in Fatals \cup {"none"}
        BY DEF SyscallFatal, Fatals
      <4> QED BY <1>3, <2>0, <2>3, <4>1 DEF ScanStep, Panic, Blocked
    <3>1. /\ status' = IF Blocked(j) THEN TrySyscallStatus(status, syscall, j) ELSE status
          /\ syscall' = IF Blocked(j) THEN TrySyscallTable(status, syscall, j) ELSE syscall
          /\ usr' = IF Blocked(j) THEN TrySyscallUser(syscall, usr, j) ELSE usr
      BY <1>3, <2>0, <3>0 DEF ScanStep, Blocked
    <3>2. CASE Blocked(j) /\ Received(syscall, j)
      <4>1. PICK s \in Scanned : /\ Sending(s, j) /\ pid[s] = syscall[j].sender
                                 /\ syscall[s].content = syscall[j].content
        BY <1>0, <2>1, <3>2 DEF IInv, ScanInv
      <4>0. s \in Slots
        BY Numbers
      <4>2. Waits(j) /\ j # s /\ Sends(s, pid[j], syscall[s].content) /\ Blocked(s)
        BY <3>2, <4>1 DEF Waits, Received, Sends, Sending
      <4>3. /\ usr' = [usr EXCEPT ![j] = [sender |-> pid[s], content |-> syscall[s].content]]
            /\ syscall' = syscall
        BY <3>1, <3>2, <4>1 DEF TrySyscallUser, TrySyscallTable, CopyToUser, Received
      <4>4. status' = [status EXCEPT ![j] = "RUNNABLE", ![s] = "RUNNABLE"]
        <5>1. pid[j] # GPID_UNUSED /\ pid[s] # GPID_UNUSED
          BY <1>0, <2>1, <3>2, <4>0, <4>2 DEF IInv, PidInv, Live, Blocked
        <5>2. status' = proc_set_status(proc_set_status(status, pid[j], "RUNNABLE"), pid[s], "RUNNABLE")
          BY <3>1, <3>2, <4>1 DEF TrySyscallStatus, proc_try_recv, Received
        <5>3. proc_set_status(status, pid[j], "RUNNABLE") = [status EXCEPT ![j] = "RUNNABLE"]
          BY <1>0, <2>1, <5>1, SetStatusOne DEF IInv
        <5>4. [status EXCEPT ![j] = "RUNNABLE"] \in [Slots -> Statuses]
          BY <1>0 DEF Statuses
        <5>5. proc_set_status([status EXCEPT ![j] = "RUNNABLE"], pid[s], "RUNNABLE") =
                [[status EXCEPT ![j] = "RUNNABLE"] EXCEPT ![s] = "RUNNABLE"]
          BY <1>0, <4>1, <5>1, <5>4, SetStatusOne DEF IInv
        <5> QED BY <5>2, <5>3, <5>5
      <4>5. status'[j] = "RUNNABLE" /\ status'[s] = "RUNNABLE"
        BY <1>0, <2>1, <4>0, <4>2, <4>4
      <4>6. \A k \in Slots \ {j, s} : Still(k)
        BY <1>0, <4>3, <4>4, StillSame
      <4>7. syscall[s].content \in Contents \cup {NoContent}
        BY <1>0, <4>0 DEF SyscallRecord
      <4>8. status[j] = "PENDING_SYSCALL" /\ status[s] = "PENDING_SYSCALL"
        BY <3>2, <4>2 DEF Blocked
      <4>9. Wakes(j, s)
        <5>1. Live(j)' /\ Live(s)' /\ ~Blocked(j)' /\ ~Blocked(s)'
          BY <4>5 DEF Live, Blocked
        <5>2. /\ status[j] \in Started /\ status'[j] \in Started
              /\ status[s] \in Started /\ status'[s] \in Started
          BY <4>5, <4>8 DEF Started
        <5> QED BY <4>1, <4>2, <4>3, <4>6, <4>7, <5>1, <5>2 DEF Wakes
      <4> QED BY <2>1, <2>3, <4>1, <4>9 DEF Fatals
    <3>3. CASE ~(Blocked(j) /\ Received(syscall, j))
      <4>1. status' = status /\ usr' = usr
        BY <3>1, <3>3 DEF TrySyscallStatus, TrySyscallUser, proc_try_recv, CopyToUser
      <4>2. syscall' = syscall \/ syscall' = proc_try_send(status, syscall, j)
        BY <3>1 DEF TrySyscallTable
      <4>3. ASSUME NEW k \in Slots PROVE Still(k)
        <5>1. CASE syscall' = syscall
          BY <4>1, <5>1, StillSame
        <5>2. CASE syscall' = proc_try_send(status, syscall, j)
          <6>1. /\ syscall'[k].type = syscall[k].type
                /\ syscall[k].type # "RECV" => syscall'[k] = syscall[k]
                /\ syscall[k].sender # GPID_ALL /\ syscall[k].type = "RECV" =>
                     syscall'[k].sender = syscall[k].sender
            BY <1>0, <2>1, <5>2, SendKeeps
          <6> QED BY <4>1, <6>1, StillSend
        <5> QED BY <4>2, <5>1, <5>2
      <4> QED BY <2>1, <2>3, <4>1, <4>3 DEF Fatals
    <3> QED BY <3>2, <3>3
  <2> QED BY <2>2, <2>3
<1> QED BY <1>1, <1>2, <1>3

\* The caller of sys_recv is blocked on that, and nobody else is affected.
LEMMA RecvTrap ==
  ASSUME AllInv, NEW p \in 1..MaxPid \cup {GPID_ALL}, Ecall(RecvFrom(p))
  PROVE  /\ kpc = "user" /\ MayTrap /\ UNCHANGED <<pid, last_pid, call, curr>>
         /\ kpc' \notin Fatals /\ usr' = [usr EXCEPT ![curr] = NoMsg]
         /\ Live(curr) /\ ~Blocked(curr) /\ status[curr] \in Started
         /\ Live(curr)' /\ status'[curr] \in Started /\ WaitsFor(curr, p)'
         /\ \A q, d : ~Sends(curr, q, d)'
         /\ \A k \in Slots \ {curr} : Still(k)
<1> DEFINE ask == RecvFrom(p)
           sc == [syscall EXCEPT ![curr] = ask]
           st == proc_set_status(status, pid[curr], "PENDING_SYSCALL")
           us == [usr EXCEPT ![curr] = NoMsg]
<1>0. /\ IInv /\ syscall \in [Slots -> SyscallRecord] /\ status \in [Slots -> Statuses]
      /\ usr \in [Slots -> Inbox] /\ kpc = "user" /\ MayTrap
  BY DEF AllInv, IInv, TypeOK, Ecall
<1>1. curr \in Slots /\ status[curr] = "RUNNING"
  BY <1>0, UserFacts
<1>2. ask \in SyscallRecord /\ ask.status = "PENDING" /\ ask.type = "RECV" /\ ask.sender = p
  BY RequestsAreCalls DEF RecvFrom
<1>3. sc[curr] = ask /\ \A k \in Slots : k # curr => sc[k] = syscall[k]
  BY <1>0, <1>1
<1>4. SyscallFatal(st, sc, curr) = "none" /\ TrySyscallTable(st, sc, curr) = sc
      /\ TrySyscallUser(sc, us, curr) = us
  BY <1>2, <1>3 DEF SyscallFatal, TrySyscallTable, TrySyscallUser, CopyToUser, Received
<1>5. /\ UNCHANGED <<pid, curr, last_pid, call>> /\ kpc' = "scan"
      /\ status' = [status EXCEPT ![curr] = "PENDING_SYSCALL"]
  <2>1. Ecall(ask) /\ ask.type \in {"SEND", "RECV"}
    BY <1>2
  <2>2. kpc' \notin Fatals
    BY <1>4 DEF Ecall, proc_yield, Fatals
  <2> QED BY <1>0, <1>2, <2>1, <2>2, EcallEffect
<1>6. syscall' = sc /\ usr' = us
  BY <1>4 DEF Ecall, proc_yield
<1>7. syscall'[curr] = ask /\ status'[curr] = "PENDING_SYSCALL"
  BY <1>0, <1>1, <1>3, <1>5, <1>6
<1>8. \A k \in Slots \ {curr} : Still(k)
  BY <1>0, <1>3, <1>5, <1>6, StillSame
<1>9. WaitsFor(curr, p)' /\ \A q, d : ~Sends(curr, q, d)'
  BY <1>2, <1>5, <1>7 DEF WaitsFor, Waits, Sends, Blocked
<1> QED BY <1>0, <1>1, <1>5, <1>6, <1>7, <1>8, <1>9 DEF Live, Blocked, Started, Fatals

\* The caller of sys_send is blocked on that, and nobody else is affected; or there is no
\* such receiver.
LEMMA SendTrap ==
  ASSUME AllInv, NEW p \in 1..MaxPid, NEW c \in Contents, Ecall(SendTo(p, c))
  PROVE  /\ kpc = "user" /\ MayTrap /\ UNCHANGED <<pid, last_pid, call, curr>>
         /\ Live(curr) /\ ~Blocked(curr) /\ status[curr] \in Started
         /\ \/ /\ kpc' = "unknown_receiver" /\ UNCHANGED <<status, syscall, usr>>
               /\ \A k \in Scanned : pid[k] = p => ~Live(k)
            \/ /\ kpc' \notin Fatals /\ usr' = [usr EXCEPT ![curr] = NoMsg]
               /\ Live(curr)' /\ status'[curr] \in Started /\ Blocked(curr)' /\ ~Waits(curr)'
               /\ \A q, d : Sends(curr, q, d)' <=> q = p /\ d = c
               /\ \A k \in Slots \ {curr} : Still(k)
<1> DEFINE ask == SendTo(p, c)
           sc == [syscall EXCEPT ![curr] = ask]
           st == proc_set_status(status, pid[curr], "PENDING_SYSCALL")
           us == [usr EXCEPT ![curr] = NoMsg]
<1>0. /\ IInv /\ TypeOK /\ syscall \in [Slots -> SyscallRecord] /\ status \in [Slots -> Statuses]
      /\ usr \in [Slots -> Inbox] /\ kpc = "user" /\ MayTrap
  BY DEF AllInv, IInv, TypeOK, Ecall
<1>1. curr \in Slots /\ status[curr] = "RUNNING"
  BY <1>0, UserFacts
<1>2. ask \in SyscallRecord /\ ask.status = "PENDING" /\ ask.type = "SEND" /\ ask.receiver = p
      /\ ask.content = c
  BY RequestsAreCalls DEF SendTo
<1>3. sc \in [Slots -> SyscallRecord] /\ sc[curr] = ask /\ \A k \in Slots : k # curr => sc[k] = syscall[k]
  BY <1>0, <1>1, <1>2
<1>4. st = [status EXCEPT ![curr] = "PENDING_SYSCALL"]
  BY <1>0, <1>1, UserFacts, SetStatusOne DEF IInv
<1>5. UNCHANGED <<pid, curr, last_pid, call>>
  <2>1. Ecall(ask) /\ ask.type \in {"SEND", "RECV"}
    BY <1>2
  <2> QED BY <1>0, <1>2, <2>1, EcallEffect
<1>6. CASE SyscallFatal(st, sc, curr) # "none"
  <2>1. SyscallFatal(st, sc, curr) = "unknown_receiver" /\ Receivers(st, p) = {}
    BY <1>2, <1>3, <1>6 DEF SyscallFatal
  <2>2. kpc' = "unknown_receiver" /\ UNCHANGED <<status, syscall, usr>>
    BY <1>6, <2>1 DEF Ecall, Panic, procVars
  <2>3. \A k \in Scanned : pid[k] = p => st[k] = "UNUSED"
    BY <2>1 DEF Receivers
  <2>4. \A k \in Scanned : st[k] = "UNUSED" => status[k] = "UNUSED"
    BY <1>0, <1>1, <1>4, Numbers
  <2> HIDE DEF st, sc, us, ask
  <2> QED BY <1>0, <1>1, <1>5, <2>2, <2>3, <2>4 DEF Live, Blocked, Started
<1>7. CASE SyscallFatal(st, sc, curr) = "none"
  <2>1. TrySyscallStatus(st, sc, curr) = st /\ TrySyscallUser(sc, us, curr) = us
        /\ TrySyscallTable(st, sc, curr) = proc_try_send(st, sc, curr)
    BY <1>2, <1>3 DEF TrySyscallStatus, TrySyscallUser, TrySyscallTable
  <2>2. st[curr] = "PENDING_SYSCALL"
    BY <1>0, <1>1, <1>4
  <2>3. kpc' = "scan" /\ status' = st /\ syscall' = proc_try_send(st, sc, curr) /\ usr' = us
    BY <1>7, <2>1, <2>2 DEF Ecall, proc_yield
  <2> HIDE DEF st, sc, ask
  <2>4. syscall'[curr] = ask
    BY <1>0, <1>1, <1>2, <1>3, <2>3, SendKeeps
  <2>5. ASSUME NEW k \in Slots \ {curr} PROVE Still(k)
    <3>1. /\ syscall'[k].type = sc[k].type
          /\ sc[k].type # "RECV" => syscall'[k] = sc[k]
          /\ sc[k].sender # GPID_ALL /\ sc[k].type = "RECV" => syscall'[k].sender = sc[k].sender
      BY <1>0, <1>1, <1>3, <2>3, SendKeeps
    <3>2. status'[k] = status[k] /\ sc[k] = syscall[k]
      BY <1>0, <1>3, <1>4, <2>3
    <3> QED BY <3>1, <3>2, StillSend
  <2>6. Blocked(curr)' /\ ~Waits(curr)' /\ \A q, d : Sends(curr, q, d)' <=> q = p /\ d = c
    BY <1>2, <1>5, <2>2, <2>3, <2>4 DEF Waits, Sends, Blocked
  <2>7. status'[curr] = "PENDING_SYSCALL"
    BY <2>2, <2>3
  <2> QED BY <1>0, <1>1, <1>5, <2>3, <2>5, <2>6, <2>7 DEF Live, Blocked, Started, Fatals
<1> QED BY <1>6, <1>7

-----------------------------------------------------------------------------
(* What a step leaves alone.                                               *)

\* The program in slot k has not moved.
Same(k) == at'[k] = at[k] /\ left'[k] = left[k] /\ usr'[k] = usr[k] /\ Still(k)

LEMMA SlotFacts ==
  ASSUME AllInv, SlotInv
  PROVE  /\ last_pid \in 1..MaxPid /\ 1 \in Slots /\ pid[1] = 1 /\ Live(1)
         /\ \A k \in Slots : pid[k] \in Apps => k \notin 1..4 /\ last_pid > 4 /\ pid[k] \in Known
         /\ \A k \in Slots, p \in 1..4 : pid[k] = p => k = p /\ p <= last_pid
         /\ \A k \in Slots : Live(k) => pid[k] \in 1..4 \/ pid[k] \in Apps
         /\ \A p \in 1..4 : p <= last_pid => p \in Slots /\ pid[p] = p /\ Live(p)
         /\ curr \in Slots /\ curr \in Scanned
<1> USE Numbers
<1>1. /\ last_pid \in 1..MaxPid /\ pid \in [Slots -> Pids] /\ curr \in Scanned
      /\ \A j, k \in Slots : pid[j] = pid[k] /\ pid[j] # 0 => j = k
      /\ \A k \in Slots : pid[k] <= last_pid /\ (Live(k) => pid[k] # 0)
  BY DEF AllInv, IInv, TypeOK, PidInv
<1>2. \A p \in 1..4 : p <= last_pid => p \in Slots /\ pid[p] = p /\ Live(p)
  BY DEF SlotInv
<1>3. ASSUME NEW k \in Slots, NEW p \in 1..4, pid[k] = p PROVE k = p /\ p <= last_pid
  <2>1. p <= last_pid /\ p # 0
    BY <1>1, <1>3
  <2>2. p \in Slots /\ pid[p] = p
    BY <1>2, <2>1
  <2> QED BY ONLY <1>1, <1>3, <2>1, <2>2
<1>4. \A k \in Slots : pid[k] \in Apps => k \notin 1..4 /\ last_pid > 4 /\ pid[k] \in Known
  <2>1. ASSUME NEW k \in Slots, pid[k] \in Apps PROVE k \notin 1..4 /\ last_pid > 4 /\ pid[k] \in Known
    <3>1. pid[k] \in Int /\ pid[k] >= 5 /\ pid[k] <= last_pid
      BY <1>1, <2>1 DEF Apps
    <3>2. k \notin 1..4
      BY ONLY <1>1, <1>2, <3>1
    <3> QED BY ONLY <1>1, <3>1, <3>2, Numbers DEF Known
  <2> QED BY <2>1
<1>5. ASSUME NEW k \in Slots, Live(k) PROVE pid[k] \in 1..4 \/ pid[k] \in Apps
  <2>1. pid[k] \in 0..MaxPid /\ pid[k] # 0
    BY <1>1, <1>5
  <2> QED BY <2>1 DEF Apps
<1> QED BY <1>1, <1>2, <1>3, <1>4, <1>5

\* GPID_PROCESS and its calls.
LEMMA ProcFrame ==
  ASSUME ProcLabels, CallLabels, Same(GPID_PROCESS), UNCHANGED <<call, last_pid, client, pid>>
  PROVE  ProcLabels' /\ CallLabels'
<1>1. ProcLabels'
  BY DEF ProcLabels, Same, Still, GPID_ALL, Servers, GPID_TERMINAL, GPID_FILE
<1>2. CallLabels'
  BY DEF CallLabels, Same, Still, Booting, Apps
<1> QED BY <1>1, <1>2

LEMMA ProcInboxFrame ==
  ASSUME ProcInbox, Same(GPID_PROCESS), UNCHANGED pid,
         \A k \in Scanned : pid[k] \in Apps /\ Live(k) => Live(k)'
  PROVE  ProcInbox'
BY DEF ProcInbox, Same, Still

\* The servers.
LEMMA ServerFrame ==
  ASSUME ServerState, ServerInbox, \A k \in Servers : k <= last_pid => Same(k), UNCHANGED last_pid
  PROVE  ServerState' /\ ServerInbox'
<1>1. ServerState'
  BY DEF ServerState, ServerLabels, Same, Still, Known
<1>2. ServerInbox'
  BY DEF ServerInbox, Same, Still, Known, Servers
<1> QED BY <1>1, <1>2

LEMMA BootFrame ==
  ASSUME BootInv, BlockOwed, Same(GPID_PROCESS), \A k \in Servers : k <= last_pid => Same(k),
         UNCHANGED <<call, last_pid>>
  PROVE  BootInv' /\ BlockOwed'
<1>1. BootInv'
  BY DEF BootInv, Same, Still, Due, Booting, Servers
<1>2. BlockOwed'
  BY DEF BlockOwed, Owes, AwaitsBlock, Same, Still, Servers
<1> QED BY <1>1, <1>2

\* The shell.
LEMMA ShellFrame ==
  ASSUME ShellState, ShellInbox, GPID_SHELL <= last_pid => Same(GPID_SHELL), UNCHANGED <<cmd, last_pid>>
  PROVE  ShellState' /\ ShellInbox'
<1>1. ShellState'
  BY DEF ShellState, ShellLabels, Same, Still, GPID_ALL, GPID_PROCESS
<1>2. ShellInbox'
  BY DEF ShellInbox, Same, Still
<1> QED BY <1>1, <1>2

LEMMA BootQuiet ==
  ASSUME ProcLabels, Booting
  PROVE  ~AtService /\ at[GPID_PROCESS] \notin {"notify", "free"} /\ \A c : ~Answers(c)
BY DEF ProcLabels, Booting, AtService, Answers, Sends, Waits, WaitsFor

LEMMA BootQuietNext ==
  ASSUME ProcLabels', Booting'
  PROVE  ~AtService' /\ at'[GPID_PROCESS] \notin {"notify", "free"} /\ \A c : ~Answers(c)'
BY DEF ProcLabels, Booting, AtService, Answers, Sends, Waits, WaitsFor

LEMMA TalkFrame ==
  ASSUME TalkInv, CallLabels, ProcLabels, ProcLabels', last_pid \in Nat,
         Same(GPID_PROCESS), GPID_SHELL <= last_pid => Same(GPID_SHELL),
         UNCHANGED <<cmd, req, client, shell_waiting, app_pid, last_pid, pid>>,
         \A k \in Slots : Live(k)' => Live(k),
         \A k \in Scanned : at[GPID_PROCESS] = "free" /\ pid[k] \in Apps /\ Live(k) => Live(k)'
  PROVE  TalkInv'
<1>0. Gone(app_pid) => Gone(app_pid)'
  BY DEF Gone
<1>1. CASE GPID_SHELL <= last_pid
  <2>1. /\ AtService' <=> AtService
        /\ Serves(cmd)' <=> Serves(cmd)
        /\ AwaitsAnswer' <=> AwaitsAnswer
        /\ AwaitsEnd' <=> AwaitsEnd
        /\ \A c : Answers(c)' <=> Answers(c)
        /\ Booting' <=> Booting
    BY <1>1 DEF Same, Still, AtService, Serves, Answers, AwaitsAnswer, AwaitsEnd, Booting
  <2>2. /\ at'[GPID_PROCESS] = at[GPID_PROCESS] /\ at'[GPID_SHELL] = at[GPID_SHELL]
        /\ Blocked(GPID_SHELL)' <=> Blocked(GPID_SHELL)
    BY <1>1 DEF Same, Still
  <2>3. /\ AtService' => Serves(cmd)' /\ AwaitsAnswer'
        /\ \A c \in {"ok", "error"} : Answers(c)' =>
             /\ AwaitsAnswer' /\ c = (IF cmd' = "spawn_bad" THEN "error" ELSE "ok")
             /\ shell_waiting' = (cmd' = "spawn_fg")
        /\ at'[GPID_PROCESS] = "notify" \/ Answers("exit")' => AwaitsEnd' /\ Gone(app_pid)'
    BY <1>0, <2>1, <2>2 DEF TalkInv
  <2>4. /\ ~AtService' /\ shell_waiting' /\ ~Gone(app_pid)' =>
             AwaitsEnd' \/ (Answers("ok")' /\ cmd' = "spawn_fg")
        /\ GPID_SHELL <= last_pid' /\ at'[GPID_SHELL] = "prompt" /\ ~Blocked(GPID_SHELL)'
             /\ cmd' = "spawn_fg" => Gone(app_pid)'
    BY <1>0, <2>1, <2>2 DEF TalkInv
  <2>5. /\ app_pid' \in 0..last_pid' /\ (Booting' => ~shell_waiting')
        /\ at'[GPID_PROCESS] = "free" => \E k \in Scanned : Live(k)' /\ pid'[k] \in Apps /\ pid'[k] = client'
    BY <2>1, <2>2 DEF TalkInv
  <2> QED BY <2>3, <2>4, <2>5 DEF TalkInv, Apps
<1>2. CASE ~(GPID_SHELL <= last_pid)
  <2>1. Booting /\ Booting'
    BY <1>2, Numbers DEF CallLabels, Booting, Same
  <2>2. ~AtService' /\ at'[GPID_PROCESS] \notin {"notify", "free"} /\ \A c : ~Answers(c)'
    BY <2>1, BootQuiet, BootQuietNext
  <2> QED BY <1>2, <2>1, <2>2 DEF TalkInv
<1> QED BY <1>1, <1>2

\* The applications.
LEMMA AppFrame ==
  ASSUME AppState, \A k \in Slots : pid[k] \in Apps => Same(k), UNCHANGED pid
  PROVE  AppState'
BY DEF AppState, AppLabels, Same, Still, Apps, Servers, GPID_ALL, GPID_TERMINAL, GPID_FILE

LEMMA OwedFrame ==
  ASSUME ReplyOwed, \A k \in Slots : pid[k] \in Apps => Same(k), UNCHANGED <<pid, last_pid>>,
         \A k \in Servers : k <= last_pid => Same(k)
  PROVE  ReplyOwed'
BY DEF ReplyOwed, Owes, AwaitsReply, Same, Still, Apps, Servers, GPID_ALL, GPID_TERMINAL, GPID_FILE

-----------------------------------------------------------------------------
(* The invariant is kept by every step that does not end in a FATAL.       *)

\* Only the programs in the slots M have moved.
Moves(M) ==
  /\ UNCHANGED <<pid, last_pid>>
  /\ at' \in [Slots -> Labels] /\ left' \in [Slots -> Int]
  /\ \A k \in Slots : Live(k)' <=> Live(k)
  /\ \A k \in Slots \ M : Same(k)

LEMMA FrameSlots ==
  ASSUME AllInv, SlotInv, NEW M, Moves(M), \A k \in M \cap Slots : status'[k] \in Started
  PROVE  SlotInv'
<1>1. last_pid >= GPID_SHELL => GPID_SHELL \in Slots
  <2>1. last_pid \in Nat /\ \A p \in 1..4 : p <= last_pid => p \in Slots
    BY SlotFacts, Numbers
  <2> QED BY <2>1, Numbers
<1>2. last_pid = GPID_SHELL => last_pid >= GPID_SHELL
  BY SlotFacts, Numbers
<1>3. last_pid = GPID_SHELL /\ at'[GPID_SHELL] # "cmd" => status'[GPID_SHELL] \in Started
  BY <1>1, <1>2 DEF SlotInv, Moves, Same, Still
<1> QED BY <1>3 DEF SlotInv, Moves

LEMMA Frames ==
  ASSUME AllInv, UpInv, NEW M, Moves(M)
  PROVE  /\ GPID_PROCESS \notin M /\ UNCHANGED <<call, client>> => ProcLabels' /\ CallLabels' /\ ProcInbox'
         /\ (\A p \in Servers : p \notin M) => ServerState' /\ ServerInbox'
         /\ (\A p \in Servers : p \notin M) /\ GPID_PROCESS \notin M /\ UNCHANGED call =>
              BootInv' /\ BlockOwed'
         /\ GPID_SHELL \notin M /\ UNCHANGED cmd => ShellState' /\ ShellInbox'
         /\ GPID_PROCESS \notin M /\ GPID_SHELL \notin M
              /\ UNCHANGED <<cmd, call, req, client, shell_waiting, app_pid>> => TalkInv'
         /\ (\A k \in M \cap Slots : pid[k] \notin Apps) => AppState'
         /\ (\A k \in M \cap Slots : pid[k] \notin Apps) /\ (\A p \in Servers : p \notin M) => ReplyOwed'
<1>0. /\ 1 \in Slots /\ GPID_PROCESS = 1 /\ GPID_SHELL = 4 /\ last_pid \in Nat
      /\ GPID_SHELL <= last_pid => GPID_SHELL \in Slots
      /\ \A p \in Servers : p <= last_pid => p \in Slots
  <2>1. /\ last_pid \in 1..MaxPid /\ 1 \in Slots
        /\ \A p \in 1..4 : p <= last_pid => p \in Slots
    BY SlotFacts DEF UpInv
  <2> QED BY <2>1, Numbers DEF Servers
<1>1. /\ UNCHANGED <<pid, last_pid>> /\ \A k \in Slots : Live(k)' <=> Live(k)
      /\ \A k \in Slots \ M : Same(k)
  BY DEF Moves
<1>2. GPID_PROCESS \notin M => Same(GPID_PROCESS)
  BY <1>0, <1>1
<1>3. GPID_SHELL \notin M => (GPID_SHELL <= last_pid => Same(GPID_SHELL))
  BY <1>0, <1>1
<1>4. ASSUME \A p \in Servers : p \notin M PROVE \A p \in Servers : p <= last_pid => Same(p)
  BY <1>0, <1>1, <1>4
<1>5. ASSUME \A k \in M \cap Slots : pid[k] \notin Apps PROVE \A k \in Slots : pid[k] \in Apps => Same(k)
  BY <1>1, <1>5
<1>6. \A k \in Scanned : pid[k] \in Apps /\ Live(k) => Live(k)'
  BY <1>1, Numbers
<1>7. ASSUME GPID_PROCESS \notin M, UNCHANGED <<call, client>> PROVE ProcLabels' /\ CallLabels' /\ ProcInbox'
  <2>1. ProcLabels' /\ CallLabels'
    BY <1>1, <1>2, <1>7, ProcFrame DEF UpInv
  <2>2. ProcInbox'
    BY <1>1, <1>2, <1>6, <1>7, ProcInboxFrame DEF UpInv
  <2> QED BY <2>1, <2>2
<1>8. (\A p \in Servers : p \notin M) => ServerState' /\ ServerInbox'
  BY <1>1, <1>4, ServerFrame DEF UpInv
<1>9. (\A p \in Servers : p \notin M) /\ GPID_PROCESS \notin M /\ UNCHANGED call => BootInv' /\ BlockOwed'
  BY <1>1, <1>2, <1>4, BootFrame DEF UpInv
<1>10. GPID_SHELL \notin M /\ UNCHANGED cmd => ShellState' /\ ShellInbox'
  BY <1>1, <1>3, ShellFrame DEF UpInv
<1>11. GPID_PROCESS \notin M /\ GPID_SHELL \notin M
         /\ UNCHANGED <<cmd, call, req, client, shell_waiting, app_pid>> => TalkInv'
  BY <1>0, <1>1, <1>2, <1>3, <1>6, <1>7, TalkFrame DEF UpInv
<1>12. (\A k \in M \cap Slots : pid[k] \notin Apps) => AppState'
  BY <1>1, <1>5, AppFrame DEF UpInv
<1>13. (\A k \in M \cap Slots : pid[k] \notin Apps) /\ (\A p \in Servers : p \notin M) => ReplyOwed'
  BY <1>1, <1>4, <1>5, OwedFrame DEF UpInv
<1> QED BY <1>7, <1>8, <1>9, <1>10, <1>11, <1>12, <1>13

\* A step of the kernel that affects no program.
LEMMA QuietStep ==
  ASSUME AllInv, UpInv, UNCHANGED <<pid, last_pid, call, usr, progVars>>, \A k \in Slots : Still(k)
  PROVE  UpInv'
<1>1. Moves({}) /\ UNCHANGED <<at, cmd, req, client, shell_waiting, app_pid>>
  BY DEF Moves, Same, Still, progVars, UpInv, SlotInv
<1>2. SlotInv'
  BY <1>1, FrameSlots DEF UpInv
<1>3. Inboxes'
  BY DEF UpInv, Inboxes, Still
<1>4. /\ ProcLabels' /\ CallLabels' /\ ProcInbox' /\ ServerState' /\ ServerInbox' /\ BootInv' /\ BlockOwed'
      /\ ShellState' /\ ShellInbox' /\ TalkInv' /\ AppState' /\ ReplyOwed'
  BY <1>1, Frames
<1> QED BY <1>2, <1>3, <1>4 DEF UpInv

\* What is left to show of a step in which r receives the message c of s.
LEMMA WakeFrame ==
  ASSUME AllInv, UpInv, UNCHANGED <<pid, last_pid, call, progVars>>, NEW r \in Slots, NEW s \in Slots,
         Wakes(r, s)
  PROVE  /\ Moves({r, s}) /\ SlotInv' /\ r # s /\ pid[r] # pid[s]
         /\ UNCHANGED <<at, left, cmd, req, client, shell_waiting, app_pid>>
         /\ Waits(r) /\ syscall[r].sender = pid[s] /\ Live(r) /\ Live(s) /\ ~Blocked(r)' /\ ~Blocked(s)'
         /\ status[r] \in Started /\ status'[r] \in Started /\ usr[s] = NoMsg /\ usr'[s] = NoMsg
         /\ \E c \in Contents \cup {NoContent} :
              /\ Sends(s, pid[r], c) /\ usr'[r] = [sender |-> pid[s], content |-> c]
              /\ c \in Contents => Inboxes'
<1>1. /\ r # s /\ Waits(r) /\ syscall[r].sender = pid[s] /\ Live(r)' /\ Live(s)' /\ ~Blocked(r)' /\ ~Blocked(s)'
      /\ status[r] \in Started /\ status'[r] \in Started /\ \A k \in Slots \ {r, s} : Still(k)
  BY DEF Wakes
<1>2. PICK c \in Contents \cup {NoContent} :
        Sends(s, pid[r], c) /\ usr' = [usr EXCEPT ![r] = [sender |-> pid[s], content |-> c]]
  BY DEF Wakes
<1>3. usr \in [Slots -> Inbox] /\ pid \in [Slots -> Pids]
  BY DEF AllInv, IInv, TypeOK
<1>4. /\ usr'[r] = [sender |-> pid[s], content |-> c] /\ usr'[s] = usr[s]
      /\ \A k \in Slots \ {r} : usr'[k] = usr[k]
  BY <1>1, <1>2, <1>3
<1>5. Blocked(s) /\ Blocked(r) /\ usr[s] = NoMsg
  BY <1>1, <1>2 DEF Waits, Sends, UpInv, Inboxes
<1>6. Live(r) /\ Live(s)
  BY <1>5 DEF Live, Blocked
<1>7. UNCHANGED <<at, left, cmd, req, client, shell_waiting, app_pid>>
  BY DEF progVars
<1>8. Moves({r, s})
  <2>1. \A k \in Slots \ {r, s} : Same(k)
    BY <1>1, <1>4, <1>7 DEF Same
  <2>2. \A k \in Slots : Live(k)' <=> Live(k)
    BY <1>1, <1>6 DEF Still
  <2> QED BY <1>7, <2>1, <2>2 DEF Moves, UpInv, SlotInv
<1>9. SlotInv'
  <2>1. \A k \in {r, s} \cap Slots : status'[k] \in Started
    BY DEF Wakes
  <2> QED BY <1>8, <2>1, FrameSlots DEF UpInv
<1>10. pid[r] # pid[s]
  BY <1>1, <1>6 DEF AllInv, IInv, PidInv
<1>11. ASSUME c \in Contents PROVE Inboxes'
  <2>1. usr'[r].content = c
    BY <1>4
  <2> QED BY <1>1, <1>4, <1>5, <1>11, <2>1 DEF UpInv, Inboxes, Still
<1> QED BY <1>1, <1>2, <1>4, <1>5, <1>6, <1>7, <1>8, <1>9, <1>10, <1>11

\* Who sends what to whom: the programs, seen from a sender in slot s.
LEMMA WhoSends ==
  ASSUME AllInv, UpInv, NEW s \in Slots, NEW p, NEW c, Sends(s, p, c)
  PROVE  \/ s = 1 /\ p = 4 /\ at[1] = "loop" /\ c \in {"ok", "error", "exit"}
         \/ s = 1 /\ p = 3 /\ at[1] \in {"lookup_recv", "load_recv"} /\ c = "read"
         \/ s \in {2, 3} /\ p = 1 /\ at[s] = "loop" /\ c = "finish" /\ Due(s)
         \/ s = 3 /\ p = 1 /\ at[s] = "loop" /\ c = "block" /\ AwaitsBlock
         \/ s = 3 /\ p >= 5 /\ at[s] = "loop" /\ c = "block" /\ last_pid > 4
         \/ s = 2 /\ p >= 5 /\ at[s] = "loop" /\ c = "line" /\ last_pid > 4
         \/ s = 4 /\ p = 1 /\ at[4] = "recv" /\ cmd \in Spawns /\ c = cmd
         \/ s = 4 /\ p = 1 /\ at[4] = "prompt" /\ cmd = "killall" /\ c = cmd
         \/ /\ pid[s] \in Apps /\ s \notin 1..4 /\ last_pid > 4
            /\ \/ p = 2 /\ at[s] = "run" /\ c = "print"
               \/ p = 3 /\ at[s] = "read_recv" /\ c = "read"
               \/ p = 2 /\ at[s] = "input_recv" /\ c = "input"
               \/ p = 1 /\ at[s] = "spin" /\ c = "exit"
<1>0. /\ Blocked(s) /\ Live(s) /\ syscall[s].type = "SEND" /\ syscall[s].receiver = p
      /\ syscall[s].content = c
  BY DEF Sends, Live, Blocked
<1>1. /\ last_pid \in 1..MaxPid /\ MaxPid \in Nat
      /\ \A k \in Slots : pid[k] \in Apps => k \notin 1..4 /\ last_pid > 4
      /\ \A q \in 1..4 : pid[s] = q => s = q /\ q <= last_pid
      /\ pid[s] \in 1..4 \/ pid[s] \in Apps
  BY <1>0, SlotFacts, Numbers DEF UpInv
<1>2. CASE pid[s] = 1
  <2>1. s = 1 /\ s = GPID_PROCESS
    BY <1>1, <1>2, Numbers
  <2>2. ProcLabels
    BY DEF UpInv
  <2> QED BY <1>0, <2>1, <2>2, Numbers DEF ProcLabels, Waits, WaitsFor, Sends
<1>3. CASE pid[s] \in {2, 3}
  <2>1. s \in {2, 3} /\ s \in Servers /\ s <= last_pid
    BY <1>1, <1>3, Numbers DEF Servers
  <2>2. ServerLabels(s)
    BY <2>1 DEF UpInv, ServerState
  <2>3. at[s] = "loop" /\ \/ p = 1 /\ c = "finish"
                          \/ s = 3 /\ (p = 1 \/ p \in Known) /\ c = "block"
                          \/ s = 2 /\ p \in Known /\ c = "line"
    BY <1>0, <2>1, <2>2, Numbers DEF ServerLabels, Waits, Sends
  <2>4. p = 1 /\ c = "finish" => Due(s)
    BY <2>1, Numbers DEF UpInv, BootInv
  <2>5. s = 3 /\ p = 1 /\ c = "block" => AwaitsBlock
    BY <2>1, Numbers DEF UpInv, BlockOwed, Owes
  <2>6. p \in Known => p >= 5 /\ last_pid > 4
    BY <1>1, Numbers DEF Known
  <2> QED BY <2>1, <2>3, <2>4, <2>5, <2>6
<1>4. CASE pid[s] = 4
  <2>1. s = 4 /\ 4 <= last_pid
    BY <1>1, <1>4
  <2>2. ShellLabels
    BY <2>1, Numbers DEF UpInv, ShellState
  <2> QED BY <1>0, <2>1, <2>2, Numbers DEF ShellLabels, Waits, WaitsFor, Sends
<1>5. CASE pid[s] \in Apps
  <2>1. AppLabels(s)
    BY <1>0, <1>5 DEF UpInv, AppState
  <2> QED BY <1>0, <1>1, <1>5, <2>1, Numbers DEF AppLabels, Waits, WaitsFor, Sends
<1> QED BY <1>1, <1>2, <1>3, <1>4, <1>5

\* Who waits for whom: the programs, seen from a receiver in slot r.
LEMMA WhoWaits ==
  ASSUME AllInv, UpInv, NEW r \in Slots, Waits(r)
  PROVE  \/ r = 1 /\ at[1] = "boot" /\ last_pid \in {2, 3} /\ syscall[r].sender = last_pid
         \/ r = 1 /\ at[1] = "request"
         \/ r = 1 /\ at[1] \in {"lookup", "load"} /\ syscall[r].sender = 3
         \/ r \in {2, 3} /\ at[r] = "request" /\ r <= last_pid
         \/ r = 4 /\ at[4] = "reply" /\ cmd \in Spawns /\ syscall[r].sender = 1 /\ 4 <= last_pid
         \/ r = 4 /\ at[4] = "prompt" /\ cmd = "spawn_fg" /\ syscall[r].sender = 1 /\ 4 <= last_pid
         \/ /\ pid[r] \in Apps /\ r \notin 1..4 /\ last_pid > 4 /\ at[r] = "run"
            /\ syscall[r].sender \in {2, 3}
<1>0. Blocked(r) /\ Live(r) /\ syscall[r].type = "RECV"
  BY DEF Waits, Live, Blocked
<1>1. /\ \A k \in Slots : pid[k] \in Apps => k \notin 1..4 /\ last_pid > 4
      /\ \A q \in 1..4 : pid[r] = q => r = q /\ q <= last_pid
      /\ pid[r] \in 1..4 \/ pid[r] \in Apps
  BY <1>0, SlotFacts DEF UpInv
<1>2. CASE pid[r] = 1
  <2>1. r = 1 /\ ProcLabels
    BY <1>1, <1>2 DEF UpInv
  <2> QED BY <1>0, <2>1, Numbers DEF ProcLabels, WaitsFor, Sends, Servers
<1>3. CASE pid[r] \in {2, 3}
  <2>1. r \in {2, 3} /\ r \in Servers /\ r <= last_pid
    BY <1>1, <1>3, Numbers DEF Servers
  <2>2. ServerLabels(r)
    BY <2>1 DEF UpInv, ServerState
  <2> QED BY <1>0, <2>1, <2>2 DEF ServerLabels, Sends
<1>4. CASE pid[r] = 4
  <2>1. r = 4 /\ 4 <= last_pid
    BY <1>1, <1>4
  <2>2. ShellLabels
    BY <2>1, Numbers DEF UpInv, ShellState
  <2> QED BY <1>0, <2>1, <2>2, Numbers DEF ShellLabels, WaitsFor, Sends
<1>5. CASE pid[r] \in Apps
  <2>1. AppLabels(r)
    BY <1>0, <1>5 DEF UpInv, AppState
  <2> QED BY <1>0, <1>1, <1>5, <2>1, Numbers DEF AppLabels, WaitsFor, Sends, Servers
<1> QED BY <1>1, <1>2, <1>3, <1>4, <1>5

\* Once the shell is spawned, the boot is over unless GPID_PROCESS is still loading it; with
\* an application it is over.
LEMMA BootOver ==
  ASSUME AllInv, UpInv
  PROVE  /\ ~Booting => last_pid >= 4 /\ \A p \in Servers : ~Due(p)
         /\ last_pid > 4 => ~Booting
         /\ last_pid > 3 => \A p \in Servers : ~Due(p)
<1>1. last_pid \in Nat /\ CallLabels
  BY SlotFacts, Numbers DEF UpInv
<1>2. last_pid > 3 => \A p \in Servers : ~Due(p)
  BY <1>1, Numbers DEF Due, Servers
<1>3. /\ ~Booting => last_pid >= 4
      /\ last_pid > 4 => ~Booting
  BY <1>1, Numbers DEF CallLabels, Booting
<1> QED BY <1>1, <1>2, <1>3

\* The same after the step.
LEMMA BootOverNext ==
  ASSUME last_pid' \in Nat, last_pid' > 3
  PROVE  \A p \in Servers : ~Due(p)'
BY Numbers DEF Due, Servers

\* A server whose reply was taken is back in its loop, and owes nothing.
LEMMA ServerReleased ==
  ASSUME AllInv, UpInv, NEW r \in Slots, NEW s \in {2, 3}, s <= last_pid, r \notin {2, 3}, Moves({r, s}),
         UNCHANGED at, at[s] = "loop", ~Blocked(s)'
  PROVE  /\ ServerState' /\ ServerInbox' /\ \A p : ~Owes(s, p)'
         /\ \A x \in Servers : x <= last_pid /\ x # s => Same(x)
<1>1. \A x \in Servers : x <= last_pid => x \in Slots /\ x \in {2, 3}
  <2>1. \A p \in 1..4 : p <= last_pid => p \in Slots
    BY SlotFacts DEF UpInv
  <2> QED BY <2>1, Numbers DEF Servers
<1>2. \A x \in Servers : x <= last_pid /\ x # s => Same(x)
  BY <1>1 DEF Moves
<1>3. \A p : ~Owes(s, p)'
  BY DEF Owes, Sends
<1>4. last_pid' = last_pid
  BY DEF Moves
<1>5. ServerState'
  BY <1>2, <1>4 DEF UpInv, ServerState, ServerLabels, Same, Still, Known
<1>6. ServerInbox'
  <2>1. GPID_FILE \in Servers /\ GPID_TERMINAL \in Servers
    BY DEF Servers
  <2> QED BY <1>2, <1>4, <2>1 DEF UpInv, ServerInbox, Same, Still, Known
<1> QED BY <1>2, <1>3, <1>5, <1>6

\* GPID_PROCESS receives "Finish initialization".
LEMMA WakeBoot ==
  ASSUME AllInv, UpInv, UNCHANGED <<pid, last_pid, call, progVars>>, NEW s \in Slots,
         Wakes(1, s), at[1] = "boot", last_pid \in {2, 3}, syscall[1].sender = last_pid
  PROVE  UpInv'
<1>0. /\ 1 \in Slots /\ pid[1] = 1 /\ \A k \in Slots, p \in 1..4 : pid[k] = p => k = p /\ p <= last_pid
      /\ \A k \in Slots : pid[k] \in Apps => k \notin 1..4 /\ last_pid > 4 /\ pid[k] \in Known
  BY SlotFacts DEF UpInv
<1>1. /\ Moves({1, s}) /\ SlotInv' /\ 1 # s
      /\ UNCHANGED <<at, left, cmd, req, client, shell_waiting, app_pid>>
      /\ Waits(1) /\ syscall[1].sender = pid[s] /\ ~Blocked(1)' /\ ~Blocked(s)'
  BY <1>0, WakeFrame
<1>2. PICK c \in Contents \cup {NoContent} :
              /\ Sends(s, 1, c) /\ usr'[1] = [sender |-> pid[s], content |-> c]
              /\ c \in Contents => Inboxes'
  BY <1>0, WakeFrame
<1>3. s = last_pid /\ s \in {2, 3}
  BY <1>0, <1>1
<1>4. c = "finish" /\ at[s] = "loop"
  BY <1>2, <1>3, WhoSends, Numbers DEF AwaitsBlock
<1>5. Inboxes'
  BY <1>2, <1>4, ServersAssumption
<1>6. \A k \in {1, s} \cap Slots : pid[k] \notin Apps
  BY <1>0, <1>3
<1>7. ShellState' /\ ShellInbox' /\ AppState'
  BY <1>1, <1>3, <1>6, Frames, Numbers
<1>8. ProcLabels' /\ CallLabels'
  <2>1. ProcLabels'
    BY <1>1, Numbers DEF ProcLabels
  <2>2. CallLabels /\ Blocked(1)
    BY <1>1 DEF UpInv, Waits
  <2> QED BY <1>1, <2>1, <2>2, Numbers DEF CallLabels, Booting
<1>9. ProcInbox'
  BY <1>1, <1>2, <1>4, Numbers DEF ProcInbox
<1>10. TalkInv'
  <2>1. Booting' /\ TalkInv /\ Booting
    BY <1>1, Numbers DEF Booting, UpInv
  <2>2. ~AtService' /\ at'[GPID_PROCESS] \notin {"notify", "free"} /\ \A d : ~Answers(d)'
    BY <1>8, <2>1, BootQuietNext
  <2> QED BY <1>1, <2>1, <2>2, Numbers DEF TalkInv
<1>11. /\ ServerState' /\ ServerInbox' /\ \A p : ~Owes(s, p)'
       /\ \A x \in Servers : x <= last_pid /\ x # s => Same(x)
  <2>1. s <= last_pid /\ 1 \notin {2, 3} /\ UNCHANGED at
    BY <1>1, <1>3
  <2> QED BY <1>0, <1>1, <1>3, <1>4, <2>1, ServerReleased
<1>12. BootInv'
  <2>1. s \in Servers /\ GPID_FILE \in Servers
    BY <1>3, Numbers DEF Servers
  <2>2. CallLabels /\ Blocked(1) /\ BootInv
    BY <1>1 DEF UpInv, Waits
  <2>3. call.op = "none"
    BY <2>2, Numbers DEF CallLabels
  <2>4. ASSUME NEW p \in Servers, p <= last_pid'
        PROVE  ~Due(p)' /\ at'[p] # "init" /\ ~Sends(p, GPID_PROCESS, "finish")'
    <3>1. ~Due(p)'
      BY <1>1, <2>3, Numbers DEF Due
    <3>2. CASE p = s
      BY <1>1, <1>4, <3>1, <3>2 DEF Sends
    <3>3. CASE p # s
      <4>1. Same(p) /\ ~Due(p)
        BY <1>3, <1>11, <2>4, <3>3 DEF Due
      <4> QED BY <2>2, <2>4, <3>1, <4>1 DEF BootInv, Same, Still
    <3> QED BY <3>2, <3>3
  <2>5. GPID_FILE <= last_pid' => s = GPID_FILE
    BY <1>3, Numbers
  <2> QED BY <1>1, <1>4, <2>4, <2>5 DEF BootInv
<1>13. BlockOwed'
  BY <1>3, <1>11, Numbers DEF BlockOwed
<1>14. ReplyOwed'
  BY <1>0, <1>3 DEF ReplyOwed
<1> QED BY <1>1, <1>5, <1>7, <1>8, <1>9, <1>10, <1>11, <1>12, <1>13, <1>14 DEF UpInv

\* Of the applications only the one in slot s moves.
LEMMA OneApp ==
  ASSUME AllInv, UpInv, UNCHANGED <<pid, last_pid>>, NEW s \in Slots,
         \A k \in Slots : pid[k] \in Apps /\ k # s => Same(k)
  PROVE  /\ /\ Live(s)' => AppLabels(s)'
            /\ status'[s] \in Started /\ ~Blocked(s)' /\ at'[s] = "run" =>
                 usr'[s] = NoMsg \/ usr'[s].content \in {"block", "line"}
            => AppState'
         /\ /\ \A x \in Servers : x <= last_pid => Same(x)
            /\ \A x \in Servers : x <= last_pid /\ Owes(x, pid[s]) =>
                 s \in Scanned /\ at'[s] # "spin" /\ (Live(s)' => AwaitsReply(s, x)')
            => ReplyOwed'
<1>1. ASSUME /\ Live(s)' => AppLabels(s)'
             /\ status'[s] \in Started /\ ~Blocked(s)' /\ at'[s] = "run" =>
                  usr'[s] = NoMsg \/ usr'[s].content \in {"block", "line"}
      PROVE  AppState'
  <2>1. ASSUME NEW k \in Slots, pid[k] \in Apps, k # s
        PROVE  /\ Live(k)' => AppLabels(k)'
               /\ status'[k] \in Started /\ ~Blocked(k)' /\ at'[k] = "run" =>
                    usr'[k] = NoMsg \/ usr'[k].content \in {"block", "line"}
    <3>1. Same(k)
      BY <2>1
    <3> QED BY <2>1, <3>1
            DEF UpInv, AppState, AppLabels, Same, Still, Servers, GPID_ALL, GPID_TERMINAL, GPID_FILE
  <2> QED BY <1>1, <2>1 DEF AppState, Apps
<1>2. ASSUME \A x \in Servers : x <= last_pid => Same(x),
             \A x \in Servers : x <= last_pid /\ Owes(x, pid[s]) =>
                 s \in Scanned /\ at'[s] # "spin" /\ (Live(s)' => AwaitsReply(s, x)')
      PROVE  ReplyOwed'
  <2>1. ASSUME NEW x \in Servers, NEW k \in Slots, x <= last_pid, pid[k] \in Apps, Owes(x, pid[k])'
        PROVE  k \in Scanned /\ at'[k] # "spin" /\ (Live(k)' => AwaitsReply(k, x)')
    <3>1. Owes(x, pid[k])
      BY <1>2, <2>1 DEF Owes, Same, Still
    <3>2. CASE k = s
      BY <1>2, <2>1, <3>1, <3>2
    <3>3. CASE k # s
      <4>1. k \in Scanned /\ at[k] # "spin" /\ (Live(k) => AwaitsReply(k, x))
        BY <2>1, <3>1 DEF UpInv, ReplyOwed
      <4>2. Same(k) /\ x # GPID_ALL
        BY <2>1, <3>3, Numbers DEF Servers
      <4> QED BY <4>1, <4>2 DEF Same, Still, AwaitsReply
    <3> QED BY <3>2, <3>3
  <2> QED BY <2>1 DEF ReplyOwed, Apps
<1> QED BY <1>1, <1>2

\* The system's own processes that did not move.
LEMMA OwnSame ==
  ASSUME AllInv, UpInv, NEW M, Moves(M)
  PROVE  /\ GPID_PROCESS \notin M => Same(GPID_PROCESS)
         /\ \A p \in Servers : p <= last_pid /\ p \notin M => Same(p)
         /\ GPID_SHELL <= last_pid /\ GPID_SHELL \notin M => Same(GPID_SHELL)
<1>1. 1 \in Slots /\ \A p \in 1..4 : p <= last_pid => p \in Slots
  BY SlotFacts DEF UpInv
<1>2. GPID_PROCESS \in Slots /\ (\A p \in Servers : p <= last_pid => p \in Slots)
      /\ (GPID_SHELL <= last_pid => GPID_SHELL \in Slots)
  BY <1>1, Numbers DEF Servers
<1> QED BY <1>2 DEF Moves

\* GPID_PROCESS receives a request in its main loop.
LEMMA WakeRequest ==
  ASSUME AllInv, UpInv, UNCHANGED <<pid, last_pid, call, progVars>>, NEW s \in Slots,
         Wakes(1, s), s \in Scanned, at[1] = "request"
  PROVE  UpInv'
<1>0. /\ 1 \in Slots /\ pid[1] = 1 /\ \A k \in Slots, p \in 1..4 : pid[k] = p => k = p /\ p <= last_pid
      /\ \A k \in Slots : pid[k] \in Apps => k \notin 1..4 /\ last_pid > 4 /\ pid[k] \in Known
      /\ last_pid \in Nat
  BY SlotFacts, Numbers DEF UpInv
<1>1. /\ Moves({1, s}) /\ SlotInv' /\ 1 # s /\ Live(s)
      /\ UNCHANGED <<at, left, cmd, req, client, shell_waiting, app_pid>>
      /\ Waits(1) /\ Blocked(1) /\ ~Blocked(1)' /\ ~Blocked(s)' /\ usr'[s] = NoMsg
  BY <1>0, WakeFrame DEF Waits
<1>2. PICK c \in Contents \cup {NoContent} :
              /\ Sends(s, 1, c) /\ usr'[1] = [sender |-> pid[s], content |-> c]
              /\ c \in Contents => Inboxes'
  BY <1>0, WakeFrame
<1>3. /\ ~Booting /\ last_pid >= 4 /\ (\A p \in Servers : ~Due(p)) /\ UNCHANGED <<pid, last_pid>>
      /\ Live(s)'
  BY <1>1, BootOver, Numbers DEF Booting, Moves
<1>4. \/ s = 4 /\ at[4] = "recv" /\ cmd \in Spawns /\ c = cmd
      \/ s = 4 /\ at[4] = "prompt" /\ cmd = "killall" /\ c = cmd
      \/ pid[s] \in Apps /\ s \notin 1..4 /\ at[s] = "spin" /\ c = "exit"
  <2>1. s \in {2, 3} => ~Due(s)
    BY <1>3, Numbers DEF Servers
  <2> QED BY <1>1, <1>2, <2>1, WhoSends, Numbers DEF AwaitsBlock
<1>5. Inboxes'
  <2>1. c \in Contents
    BY <1>4, ServersAssumption DEF Spawns
  <2> QED BY <1>2, <2>1
<1>6. usr'[1].content = c /\ usr'[1].sender = pid[s]
  BY <1>2
<1>7. \A p \in Servers : p \notin {1, s}
  BY <1>4, Numbers DEF Servers
<1>8. ServerState' /\ ServerInbox'
  BY <1>1, <1>7, Frames
<1>9. ProcLabels' /\ CallLabels'
  <2>1. ProcLabels'
    BY <1>1, Numbers DEF ProcLabels
  <2>2. CallLabels'
    BY <1>1, <1>3, Numbers DEF UpInv, CallLabels, Booting
  <2> QED BY <2>1, <2>2
<1>10. ProcInbox'
  <2>1. at'[GPID_PROCESS] = "request" /\ usr'[GPID_PROCESS].content = c /\ usr'[GPID_PROCESS].sender = pid[s]
    BY <1>1, <1>6, Numbers
  <2>2. CASE s = 4
    BY <1>4, <2>1, <2>2 DEF ProcInbox
  <2>3. CASE pid[s] \in Apps /\ s \notin 1..4 /\ at[s] = "spin" /\ c = "exit"
    BY <1>3, <2>1, <2>3 DEF ProcInbox, Apps
  <2> QED BY <1>4, <2>2, <2>3
<1>11. BootInv' /\ BlockOwed'
  <2>1. \A p \in Servers : p <= last_pid => Same(p)
    BY <1>1, <1>7, OwnSame
  <2>2. \A p \in Servers : ~Due(p)'
    BY <1>0, <1>3, BootOverNext
  <2>3. ~Booting'
    BY <1>1, <1>3 DEF Booting
  <2>4. BootInv'
    BY <1>3, <2>1, <2>2, <2>3 DEF UpInv, BootInv, Same, Still
  <2>5. ~AwaitsBlock
    BY <1>1, Numbers DEF AwaitsBlock
  <2>6. BlockOwed'
    BY <1>3, <2>1, <2>5 DEF UpInv, BlockOwed, Owes, Servers, Same, Still
  <2> QED BY <2>4, <2>6
<1>12. ShellState' /\ ShellInbox' /\ AppState' /\ ReplyOwed' /\ TalkInv'
  <2>1. CASE s = 4
    <3>1. \A k \in {1, s} \cap Slots : pid[k] \notin Apps
      BY <1>0, <2>1
    <3>2. AppState' /\ ReplyOwed'
      BY <1>1, <1>7, <3>1, Frames
    <3>3. ShellState' /\ ShellInbox'
      BY <1>1, <1>4, <2>1, Numbers DEF UpInv, ShellState, ShellLabels, ShellInbox
    <3>4. /\ AtService' <=> c \in Spawns
          /\ \A d : ~Answers(d)'
          /\ ~AtService /\ \A d : ~Answers(d)
      BY <1>1, <1>6, Numbers DEF AtService, Answers, Sends, Waits
    <3>5. c \in Spawns => Serves(cmd)' /\ AwaitsAnswer'
      BY <1>1, <1>4, <1>6, <2>1, Numbers DEF Serves, AwaitsAnswer, Spawns
    <3>6. c \notin Spawns => cmd = "killall" /\ (shell_waiting => Gone(app_pid)) /\ (Gone(app_pid) => Gone(app_pid)')
      <4>1. c \notin Spawns => cmd = "killall" /\ ~AwaitsEnd
        BY <1>4, <2>1 DEF Spawns, AwaitsEnd
      <4>2. Gone(app_pid) => Gone(app_pid)'
        BY <1>1 DEF Gone, Moves
      <4> QED BY <3>4, <4>1, <4>2 DEF UpInv, TalkInv
    <3>7. TalkInv'
      <4>1. at'[GPID_PROCESS] = "request" /\ (cmd' = "spawn_fg" => at'[GPID_SHELL] # "prompt")
            /\ ~Booting' /\ cmd' = cmd /\ shell_waiting' = shell_waiting
            /\ app_pid' \in 0..last_pid'
        BY <1>1, <1>3, <1>4, <2>1, Numbers DEF Booting, UpInv, TalkInv
      <4> QED BY <3>4, <3>5, <3>6, <4>1 DEF TalkInv
    <3> QED BY <3>2, <3>3, <3>7
  <2>2. CASE pid[s] \in Apps /\ s \notin 1..4 /\ at[s] = "spin" /\ c = "exit"
    <3>1. GPID_SHELL \notin {1, s}
      BY <2>2, Numbers
    <3>2. ShellState' /\ ShellInbox'
      BY <1>1, <3>1, Frames
    <3>3. \A k \in Slots : pid[k] \in Apps /\ k # s => Same(k)
      BY <1>0, <1>1 DEF Moves
    <3>4. AppState'
      <4>1. AppLabels(s)' /\ at'[s] # "run"
        BY <1>1, <2>2 DEF AppLabels
      <4> QED BY <1>3, <3>3, <4>1, OneApp
    <3>5. ReplyOwed'
      <4>1. \A p \in Servers : p <= last_pid => Same(p)
        BY <1>1, <1>7, OwnSame
      <4>2. \A x \in Servers : x <= last_pid => ~Owes(x, pid[s])
        BY <2>2 DEF UpInv, ReplyOwed
      <4> QED BY <1>3, <3>3, <4>1, <4>2, OneApp
    <3>7. Same(GPID_SHELL)
      BY <1>1, <1>3, <3>1, OwnSame, Numbers
    <3>6. TalkInv'
      <4>1. /\ ~AtService' /\ \A d : ~Answers(d)'
            /\ ~AtService /\ \A d : ~Answers(d)
        BY <1>1, <1>6, <2>2, Numbers DEF AtService, Answers, Sends, Waits, Spawns
      <4>2. AwaitsEnd' <=> AwaitsEnd
        BY <1>1, <3>7 DEF AwaitsEnd, Same, Still
      <4>3. Gone(app_pid) => Gone(app_pid)'
        BY <1>1 DEF Gone, Moves
      <4>4. /\ at'[GPID_PROCESS] = "request" /\ at' = at /\ UNCHANGED <<cmd, shell_waiting, app_pid, last_pid>>
            /\ Blocked(GPID_SHELL)' <=> Blocked(GPID_SHELL)
        BY <1>1, <1>3, <3>7, Numbers DEF Same, Still
      <4>5. ~Booting' /\ TalkInv
        BY <1>1, <1>3 DEF Booting, UpInv
      <4> QED BY <4>1, <4>2, <4>3, <4>4, <4>5 DEF TalkInv
    <3> QED BY <3>2, <3>4, <3>5, <3>6
  <2> QED BY <1>4, <2>1, <2>2
<1> QED BY <1>1, <1>5, <1>8, <1>9, <1>10, <1>11, <1>12 DEF UpInv

\* The parts of the invariant about the servers, once the shell exists.
LEMMA BootDone ==
  ASSUME UpInv, last_pid \in Nat, last_pid > 3, last_pid' \in Nat, last_pid' > 3,
         \A p \in Servers : p <= last_pid /\ at[p] # "init" /\ ~Sends(p, GPID_PROCESS, "finish") =>
            at'[p] # "init" /\ ~Sends(p, GPID_PROCESS, "finish")',
         Booting' /\ at'[GPID_FILE] = "request" => Blocked(GPID_FILE)'
  PROVE  BootInv'
<1>1. \A p \in Servers : ~Due(p) /\ ~Due(p)'
  BY Numbers DEF Due, Servers
<1>2. \A p \in Servers : p <= last_pid
  BY Numbers DEF Servers
<1> QED BY <1>1, <1>2 DEF UpInv, BootInv

\* The conversation with the shell does not depend on what GPID_PROCESS is blocked on
\* while it serves a command.
LEMMA TalkServing ==
  ASSUME UpInv, GPID_SHELL <= last_pid, Same(GPID_SHELL), ~Booting',
         UNCHANGED <<cmd, req, shell_waiting, app_pid, last_pid, pid>>,
         at[GPID_PROCESS] \in {"lookup", "lookup_recv", "load", "load_recv", "reply"},
         at'[GPID_PROCESS] \in {"lookup", "lookup_recv", "load", "load_recv", "reply"},
         \A c : ~Answers(c)', \A k \in Slots : Live(k)' => Live(k)
  PROVE  TalkInv'
<1>1. AtService /\ AtService' /\ Serves(cmd) /\ AwaitsAnswer
  BY DEF AtService, UpInv, TalkInv
<1>2. Serves(cmd)'
  BY <1>1 DEF Serves
<1>3. AwaitsAnswer'
  BY <1>1 DEF AwaitsAnswer, Same, Still
<1>4. Gone(app_pid) => Gone(app_pid)'
  BY DEF Gone
<1>5. at'[GPID_SHELL] # "prompt"
  BY <1>1 DEF AwaitsAnswer, Same
<1>6. app_pid' \in 0..last_pid'
  BY DEF UpInv, TalkInv
<1> QED BY <1>1, <1>2, <1>3, <1>5, <1>6 DEF TalkInv

\* GPID_PROCESS receives a block of the file that it reads.
LEMMA WakeBlock ==
  ASSUME AllInv, UpInv, UNCHANGED <<pid, last_pid, call, progVars>>, NEW s \in Slots,
         Wakes(1, s), at[1] \in {"lookup", "load"}, syscall[1].sender = 3
  PROVE  UpInv'
<1>0. /\ 1 \in Slots /\ pid[1] = 1 /\ \A k \in Slots, p \in 1..4 : pid[k] = p => k = p /\ p <= last_pid
      /\ \A k \in Slots : pid[k] \in Apps => k \notin 1..4 /\ last_pid > 4 /\ pid[k] \in Known
      /\ last_pid \in Nat
  BY SlotFacts, Numbers DEF UpInv
<1>1. /\ Moves({1, s}) /\ SlotInv' /\ 1 # s /\ Live(s)
      /\ UNCHANGED <<at, left, cmd, req, client, shell_waiting, app_pid>>
      /\ Waits(1) /\ syscall[1].sender = pid[s] /\ Blocked(1) /\ ~Blocked(1)' /\ ~Blocked(s)'
  <2>1. PICK r \in Slots : r = 1
    BY <1>0
  <2>2. Wakes(r, s)
    BY <2>1
  <2>3. /\ Moves({r, s}) /\ SlotInv' /\ r # s /\ Live(s)
        /\ UNCHANGED <<at, left, cmd, req, client, shell_waiting, app_pid>>
        /\ Waits(r) /\ syscall[r].sender = pid[s] /\ ~Blocked(r)' /\ ~Blocked(s)'
    BY ONLY AllInv, UpInv, UNCHANGED <<pid, last_pid, call, progVars>>, s \in Slots, <2>1, <2>2, WakeFrame
  <2> QED BY <2>1, <2>3 DEF Waits
<1>2. PICK c \in Contents \cup {NoContent} :
              /\ Sends(s, 1, c) /\ usr'[1] = [sender |-> pid[s], content |-> c]
              /\ c \in Contents => Inboxes'
  BY <1>0, WakeFrame
<1>3. /\ ~Booting /\ last_pid >= 4 /\ (\A p \in Servers : ~Due(p)) /\ UNCHANGED <<pid, last_pid>>
  BY <1>1, BootOver, Numbers DEF Booting, Moves
<1>4. s = 3 /\ s \in {2, 3} /\ s <= last_pid /\ s = GPID_FILE
  BY <1>0, <1>1, Numbers
<1>5. c = "block" /\ at[s] = "loop"
  <2>1. ~Due(s)
    BY <1>3, <1>4, Numbers DEF Servers
  <2> QED BY <1>2, <1>4, <2>1, WhoSends
<1>6. Inboxes'
  BY <1>2, <1>5, ServersAssumption
<1>7. /\ ServerState' /\ ServerInbox' /\ \A p : ~Owes(s, p)'
      /\ \A x \in Servers : x <= last_pid /\ x # s => Same(x)
  <2>1. 1 \notin {2, 3} /\ UNCHANGED at
    BY <1>1
  <2> QED BY <1>0, <1>1, <1>4, <1>5, <2>1, ServerReleased
<1>8. ProcLabels' /\ CallLabels' /\ ProcInbox'
  <2>1. ProcLabels'
    BY <1>1, Numbers DEF ProcLabels
  <2>2. CallLabels'
    BY <1>1, <1>3, Numbers DEF UpInv, CallLabels, Booting
  <2>3. ProcInbox'
    BY <1>1, <1>2, <1>5, Numbers DEF ProcInbox
  <2> QED BY <2>1, <2>2, <2>3
<1>9. BootInv' /\ BlockOwed'
  <2>1. \A p \in Servers : p <= last_pid /\ at[p] # "init" /\ ~Sends(p, GPID_PROCESS, "finish") =>
            at'[p] # "init" /\ ~Sends(p, GPID_PROCESS, "finish")'
    <3>1. ASSUME NEW p \in Servers, p <= last_pid, at[p] # "init", ~Sends(p, GPID_PROCESS, "finish")
          PROVE  at'[p] # "init" /\ ~Sends(p, GPID_PROCESS, "finish")'
      <4>1. CASE p = s
        BY <1>1, <1>5, <4>1 DEF Sends
      <4>2. CASE p # s
        BY <1>7, <3>1, <4>2 DEF Same, Still
      <4> QED BY <4>1, <4>2
    <3> QED BY <3>1
  <2>2. BootInv'
    BY <1>0, <1>1, <1>3, <2>1, BootDone DEF Booting
  <2>3. BlockOwed'
    BY <1>4, <1>7 DEF BlockOwed
  <2> QED BY <2>2, <2>3
<1>10. ShellState' /\ ShellInbox' /\ AppState'
  <2>1. \A k \in {1, s} \cap Slots : pid[k] \notin Apps
    BY <1>0, <1>4
  <2> QED BY <1>1, <1>4, <2>1, Frames, Numbers
<1>11. ReplyOwed'
  <2>1. ASSUME NEW x \in Servers, NEW k \in Slots, x <= last_pid, pid[k] \in Apps, Owes(x, pid[k])'
        PROVE  k \in Scanned /\ at'[k] # "spin" /\ (Live(k)' => AwaitsReply(k, x)')
    <3>1. Same(x) /\ Same(k) /\ x # GPID_ALL
      <4>1. x # s
        BY <1>7, <2>1
      <4>2. Same(x) /\ x # GPID_ALL
        BY <1>7, <2>1, <4>1, Numbers DEF Servers
      <4>3. k \notin {1, s}
        BY <1>0, <1>4, <2>1
      <4> QED BY <1>1, <4>2, <4>3 DEF Moves
    <3>2. Owes(x, pid[k])
      BY <2>1, <3>1, <1>3 DEF Owes, Same, Still
    <3>3. k \in Scanned /\ at[k] # "spin" /\ (Live(k) => AwaitsReply(k, x))
      BY <2>1, <3>2 DEF UpInv, ReplyOwed
    <3> QED BY <3>1, <3>3 DEF Same, Still, AwaitsReply
  <2> QED BY <1>3, <2>1 DEF ReplyOwed, Apps
<1>12. TalkInv'
  <2>1. GPID_SHELL <= last_pid /\ GPID_SHELL \notin {1, s}
    BY <1>3, <1>4, Numbers
  <2>2. Same(GPID_SHELL)
    BY <1>1, <2>1, OwnSame
  <2>3. /\ at[GPID_PROCESS] \in {"lookup", "lookup_recv", "load", "load_recv", "reply"}
        /\ UNCHANGED <<at, cmd, req, shell_waiting, app_pid, last_pid, pid>> /\ ~Booting'
        /\ \A d : ~Answers(d)'
    BY <1>1, <1>3, Numbers DEF Booting, Answers, Sends
  <2>4. \A k \in Slots : Live(k)' => Live(k)
    BY <1>1 DEF Moves
  <2> QED BY <2>1, <2>2, <2>3, <2>4, TalkServing
<1> QED BY <1>1, <1>6, <1>7, <1>8, <1>9, <1>10, <1>11, <1>12 DEF UpInv

\* Only the server s and the application in slot r move.
LEMMA OwedBut ==
  ASSUME AllInv, UpInv, UNCHANGED <<pid, last_pid>>, NEW s, NEW r \in Slots,
         \A x \in Servers : x <= last_pid /\ x # s => Same(x),
         \A k \in Slots : pid[k] \in Apps /\ k # r => Same(k),
         \A k \in Slots : s <= last_pid /\ pid[k] \in Apps /\ Owes(s, pid[k])' =>
           k \in Scanned /\ at'[k] # "spin" /\ (Live(k)' => AwaitsReply(k, s)'),
         \A x \in Servers : x <= last_pid /\ x # s /\ pid[r] \in Apps /\ Owes(x, pid[r]) =>
           r \in Scanned /\ at'[r] # "spin" /\ (Live(r)' => AwaitsReply(r, x)')
  PROVE  ReplyOwed'
<1>1. ASSUME NEW x \in Servers, NEW k \in Slots, x <= last_pid, pid[k] \in Apps, Owes(x, pid[k])', x # s
      PROVE  k \in Scanned /\ at'[k] # "spin" /\ (Live(k)' => AwaitsReply(k, x)')
  <2>1. Same(x) /\ x # GPID_ALL
    BY <1>1, Numbers DEF Servers
  <2>2. Owes(x, pid[k])
    BY <1>1, <2>1 DEF Owes, Same, Still
  <2>3. CASE k = r
    BY <1>1, <2>2, <2>3
  <2>4. CASE k # r
    <3>1. k \in Scanned /\ at[k] # "spin" /\ (Live(k) => AwaitsReply(k, x))
      BY <1>1, <2>2 DEF UpInv, ReplyOwed
    <3>2. Same(k)
      BY <1>1, <2>4
    <3> QED BY <2>1, <3>1, <3>2 DEF Same, Still, AwaitsReply
  <2> QED BY <2>3, <2>4
<1> QED BY <1>1 DEF ReplyOwed, Apps

\* The shell receives a reply, or the notice that its command has ended.
LEMMA WakeShell ==
  ASSUME AllInv, UpInv, UNCHANGED <<pid, last_pid, call, progVars>>, NEW s \in Slots,
         4 \in Slots, Wakes(4, s), syscall[4].sender = 1, 4 <= last_pid, cmd \in Spawns,
         at[4] = "reply" \/ (at[4] = "prompt" /\ cmd = "spawn_fg")
  PROVE  UpInv'
<1>0. /\ 1 \in Slots /\ pid[1] = 1 /\ pid[4] = 4
      /\ \A k \in Slots, p \in 1..4 : pid[k] = p => k = p /\ p <= last_pid
      /\ \A k \in Slots : pid[k] \in Apps => k \notin 1..4
      /\ last_pid \in Nat
  BY SlotFacts, Numbers DEF UpInv
<1>1. /\ Moves({4, s}) /\ SlotInv' /\ 4 # s
      /\ UNCHANGED <<at, left, cmd, req, client, shell_waiting, app_pid>>
      /\ Blocked(4) /\ syscall[4].sender = pid[s] /\ ~Blocked(4)' /\ ~Blocked(s)'
  BY WakeFrame DEF Waits
<1>2. PICK c \in Contents \cup {NoContent} :
              /\ Sends(s, 4, c) /\ usr'[4] = [sender |-> pid[s], content |-> c]
              /\ c \in Contents => Inboxes'
  BY <1>0, WakeFrame
<1>3. s = 1
  BY <1>0, <1>1
<1>4. at[1] = "loop" /\ c \in {"ok", "error", "exit"} /\ Answers(c)
  BY <1>2, <1>3, WhoSends, Numbers DEF Answers
<1>5. /\ c \in {"ok", "error"} => /\ at[4] = "reply" /\ c = (IF cmd = "spawn_bad" THEN "error" ELSE "ok")
                                  /\ shell_waiting = (cmd = "spawn_fg")
      /\ c = "exit" => at[4] = "prompt" /\ cmd = "spawn_fg" /\ Gone(app_pid)
  <2>1. TalkInv
    BY DEF UpInv
  <2> QED BY <1>1, <1>4, <2>1, Numbers DEF TalkInv, AwaitsAnswer, AwaitsEnd
<1>6. Inboxes'
  <2>1. c \in Contents
    BY <1>4, ServersAssumption
  <2> QED BY <1>2, <2>1
<1>7. /\ \A k \in {4, s} \cap Slots : pid[k] \notin Apps
      /\ \A p \in Servers : p \notin {4, s}
  BY <1>0, <1>3, Numbers DEF Servers
<1>8. ServerState' /\ ServerInbox' /\ AppState' /\ ReplyOwed'
  BY <1>1, <1>7, Frames
<1>9. ~Booting /\ UNCHANGED <<pid, last_pid>> /\ ~Booting'
  BY <1>1, <1>4, Numbers DEF Booting, Moves
<1>10. ProcLabels' /\ CallLabels' /\ ProcInbox'
  <2>1. ProcLabels'
    BY <1>1, <1>3, <1>4, Numbers DEF ProcLabels
  <2>2. CallLabels'
    BY <1>1, <1>4, <1>9, Numbers DEF UpInv, CallLabels, Booting
  <2>3. ProcInbox'
    BY <1>1, <1>4, Numbers DEF ProcInbox
  <2> QED BY <2>1, <2>2, <2>3
<1>11. BootInv' /\ BlockOwed'
  <2>1. \A p \in Servers : p <= last_pid => Same(p)
    BY <1>1, <1>7, OwnSame
  <2>2. BootInv'
    BY <1>0, <1>9, <2>1, BootDone DEF Same, Still
  <2>3. ~AwaitsBlock
    BY <1>4, Numbers DEF AwaitsBlock
  <2>4. BlockOwed'
    BY <1>9, <2>1, <2>3 DEF UpInv, BlockOwed, Owes, Servers, Same, Still
  <2> QED BY <2>2, <2>4
<1>12. usr'[4].content = c
  BY <1>2
<1>13. ShellState' /\ ShellInbox'
  <2>1. ShellState'
    BY <1>1, Numbers DEF UpInv, ShellState, ShellLabels
  <2>2. ShellInbox'
    BY <1>1, <1>4, <1>5, <1>12, Numbers DEF ShellInbox
  <2> QED BY <2>1, <2>2
<1>14. TalkInv'
  <2>1. ~AtService' /\ at'[GPID_PROCESS] = "loop" /\ \A d : ~Answers(d)'
    BY <1>1, <1>3, <1>4, Numbers DEF AtService, Answers, Sends
  <2>2. Gone(app_pid) => Gone(app_pid)'
    BY <1>1 DEF Gone, Moves
  <2>3. shell_waiting /\ c # "exit" => AwaitsEnd'
    BY <1>1, <1>4, <1>5, Numbers DEF AwaitsEnd
  <2>4. at[4] = "prompt" => c = "exit"
    BY <1>4, <1>5
  <2>5. app_pid' \in 0..last_pid' /\ shell_waiting' = shell_waiting /\ at'[GPID_SHELL] = at[4]
    BY <1>1, <1>9, Numbers DEF UpInv, TalkInv
  <2> QED BY <1>4, <1>5, <1>9, <2>1, <2>2, <2>3, <2>4, <2>5 DEF TalkInv
<1> QED BY <1>1, <1>6, <1>8, <1>10, <1>11, <1>13, <1>14 DEF UpInv

\* An application receives the reply of a server.
LEMMA WakeApp ==
  ASSUME AllInv, UpInv, UNCHANGED <<pid, last_pid, call, progVars>>, NEW r \in Slots, NEW s \in Slots,
         Wakes(r, s), pid[r] \in Apps, at[r] = "run", syscall[r].sender \in {2, 3}
  PROVE  UpInv'
<1>0. /\ \A k \in Slots, p \in 1..4 : pid[k] = p => k = p /\ p <= last_pid
      /\ \A k \in Slots : pid[k] \in Apps => k \notin 1..4 /\ last_pid > 4
      /\ last_pid \in Nat /\ pid[r] >= 5
  <2>1. pid[r] >= 5
    BY ONLY pid[r] \in Apps, Numbers DEF Apps
  <2>2. /\ \A k \in Slots, p \in 1..4 : pid[k] = p => k = p /\ p <= last_pid
        /\ \A k \in Slots : pid[k] \in Apps => k \notin 1..4 /\ last_pid > 4
        /\ last_pid \in 1..MaxPid
    BY SlotFacts DEF UpInv
  <2> QED BY ONLY <2>1, <2>2, Numbers
<1>1. /\ Moves({r, s}) /\ SlotInv' /\ r # s /\ UNCHANGED at
      /\ UNCHANGED <<left, cmd, call, req, client, shell_waiting, app_pid>>
      /\ Waits(r) /\ syscall[r].sender = pid[s] /\ ~Blocked(r)' /\ ~Blocked(s)'
  BY WakeFrame
<1>2. PICK c \in Contents \cup {NoContent} :
              /\ Sends(s, pid[r], c) /\ usr'[r] = [sender |-> pid[s], content |-> c]
              /\ c \in Contents => Inboxes'
  BY WakeFrame
<1>3. s \in {2, 3} /\ s <= last_pid /\ s = syscall[r].sender /\ r \notin 1..4 /\ last_pid > 4
  BY <1>0, <1>1
<1>4. c \in {"block", "line"} /\ at[s] = "loop"
  BY <1>0, <1>2, <1>3, WhoSends
<1>5. Inboxes'
  <2>1. c \in Contents
    BY <1>4, ServersAssumption
  <2> QED BY <1>2, <2>1
<1>6. /\ ServerState' /\ ServerInbox' /\ \A p : ~Owes(s, p)'
      /\ \A x \in Servers : x <= last_pid /\ x # s => Same(x)
  <2>1. r \notin {2, 3}
    BY <1>3
  <2> QED BY <1>1, <1>3, <1>4, <2>1, ServerReleased
<1>7. ~Booting /\ UNCHANGED <<pid, last_pid>> /\ ~Booting'
  BY <1>1, <1>3, BootOver DEF Booting, Moves
<1>8. GPID_PROCESS \notin {r, s} /\ GPID_SHELL \notin {r, s}
  BY <1>3, Numbers
<1>9. ProcLabels' /\ CallLabels' /\ ProcInbox' /\ ShellState' /\ ShellInbox' /\ TalkInv'
  BY <1>1, <1>8, Frames
<1>10. BootInv' /\ BlockOwed'
  <2>1. \A p \in Servers : p <= last_pid /\ at[p] # "init" /\ ~Sends(p, GPID_PROCESS, "finish") =>
            at'[p] # "init" /\ ~Sends(p, GPID_PROCESS, "finish")'
    BY <1>1, <1>6 DEF Same, Still, Sends
  <2>2. BootInv'
    BY <1>0, <1>3, <1>7, <2>1, BootDone
  <2>3. CASE s = GPID_FILE
    BY <1>6, <2>2, <2>3 DEF BlockOwed
  <2>4. CASE s # GPID_FILE
    <3>1. Same(GPID_PROCESS) /\ Same(GPID_FILE)
      <4>1. GPID_FILE \in Servers /\ GPID_FILE <= last_pid
        BY <1>0, <1>3, Numbers DEF Servers
      <4>2. Same(GPID_PROCESS)
        BY <1>1, <1>8, OwnSame
      <4> QED BY <1>6, <2>4, <4>1, <4>2
    <3> QED BY <1>7, <2>2, <3>1 DEF UpInv, BlockOwed, Owes, AwaitsBlock, Same, Still
  <2> QED BY <2>3, <2>4
<1>11. \A k \in Slots : pid[k] \in Apps /\ k # r => Same(k)
  BY <1>0, <1>1, <1>3 DEF Moves
<1>12. AppState'
  <2>1. AppLabels(r)'
    BY <1>1 DEF AppLabels
  <2>2. usr'[r].content \in {"block", "line"}
    BY <1>2, <1>4
  <2> QED BY <1>7, <1>11, <2>1, <2>2, OneApp
<1>13. ReplyOwed'
  <2>1. ASSUME NEW x \in Servers, x <= last_pid, x # s PROVE ~Owes(x, pid[r])
    <3>1. ~AwaitsReply(r, x)
      BY <1>1, <1>3, <2>1 DEF AwaitsReply, Waits, WaitsFor
    <3>2. Live(r)
      BY <1>1 DEF Waits, Blocked, Live
    <3> QED BY <2>1, <3>1, <3>2 DEF UpInv, ReplyOwed
  <2> QED BY <1>6, <1>7, <1>11, <2>1, OwedBut
<1> QED BY <1>1, <1>5, <1>6, <1>9, <1>10, <1>12, <1>13 DEF UpInv

\* A server receives a request.
LEMMA WakeServer ==
  ASSUME AllInv, UpInv, UNCHANGED <<pid, last_pid, call, progVars>>, NEW r \in Slots, NEW s \in Slots,
         Wakes(r, s), s \in Scanned, r \in {2, 3}, r <= last_pid, at[r] = "request"
  PROVE  UpInv'
<1>0. /\ \A k \in Slots, p \in 1..4 : pid[k] = p => k = p /\ p <= last_pid
      /\ \A k \in Slots : pid[k] \in Apps => k \notin 1..4 /\ last_pid > 4 /\ pid[k] \in Known
      /\ last_pid \in Nat /\ pid[r] = r /\ pid[1] = 1 /\ 1 \in Slots
  BY SlotFacts, Numbers DEF UpInv
<1>1. /\ Moves({r, s}) /\ SlotInv' /\ r # s /\ UNCHANGED at
      /\ UNCHANGED <<left, cmd, call, req, client, shell_waiting, app_pid>>
      /\ ~Blocked(r)' /\ ~Blocked(s)' /\ usr'[s] = NoMsg
  BY WakeFrame
<1>2. PICK c \in Contents \cup {NoContent} :
              /\ Sends(s, r, c) /\ usr'[r] = [sender |-> pid[s], content |-> c]
              /\ c \in Contents => Inboxes'
  <2>1. \E c \in Contents \cup {NoContent} :
              /\ Sends(s, pid[r], c) /\ usr'[r] = [sender |-> pid[s], content |-> c]
              /\ c \in Contents => Inboxes'
    BY WakeFrame
  <2>2. pid[r] = r
    BY <1>0
  <2> QED BY ONLY <2>1, <2>2
<1>3. \/ s = 1 /\ r = 3 /\ at[1] \in {"lookup_recv", "load_recv"} /\ c = "read"
      \/ /\ pid[s] \in Apps /\ s \notin 1..4
         /\ \/ r = 2 /\ at[s] = "run" /\ c = "print"
            \/ r = 3 /\ at[s] = "read_recv" /\ c = "read"
            \/ r = 2 /\ at[s] = "input_recv" /\ c = "input"
  <2>1. r # 1 /\ r # 4 /\ ~(r >= 5)
    OBVIOUS
  <2> QED BY <1>2, <2>1, WhoSends
<1>4. Inboxes' /\ usr'[r].content = c /\ usr'[r].sender = pid[s]
  <2>1. c \in Contents
    BY <1>3, ServersAssumption
  <2> QED BY <1>2, <2>1
<1>5. ~Booting /\ UNCHANGED <<pid, last_pid>> /\ ~Booting' /\ last_pid >= 4
  <2>1. ~Booting
    BY <1>0, <1>3, BootOver, Numbers DEF Booting
  <2> QED BY <1>1, <2>1, BootOver DEF Booting, Moves
<1>6. GPID_SHELL \notin {r, s} /\ GPID_SHELL <= last_pid
  BY <1>3, <1>5, Numbers
<1>7. ShellState' /\ ShellInbox' /\ Same(GPID_SHELL)
  BY <1>1, <1>6, Frames, OwnSame
<1>8. \A x \in Servers : x <= last_pid /\ x # r => Same(x)
  <2>1. \A x \in Servers : x # s
    BY <1>3, Numbers DEF Servers
  <2> QED BY <1>1, <2>1, OwnSame
<1>9. ServerState' /\ ServerInbox'
  <2>1. ServerState'
    BY <1>1, <1>5, <1>8 DEF UpInv, ServerState, ServerLabels, Same, Still, Known
  <2>2. /\ r = GPID_FILE => c = "read" /\ pid[s] \in {GPID_PROCESS} \cup Known
        /\ r = GPID_TERMINAL => c \in {"print", "input"} /\ pid[s] \in Known
    BY <1>0, <1>3, Numbers
  <2>3. GPID_FILE \in Servers /\ GPID_TERMINAL \in Servers
    BY DEF Servers
  <2>4. ServerInbox'
    BY <1>4, <1>5, <1>8, <2>2, <2>3 DEF UpInv, ServerInbox, Same, Still, Known
  <2> QED BY <2>1, <2>4
<1>10. BootInv'
  <2>1. \A p \in Servers : p <= last_pid /\ at[p] # "init" /\ ~Sends(p, GPID_PROCESS, "finish") =>
            at'[p] # "init" /\ ~Sends(p, GPID_PROCESS, "finish")'
    BY <1>1, <1>8 DEF Same, Still, Sends
  <2> QED BY <1>0, <1>5, <2>1, BootDone
<1>11. CASE s = 1 /\ r = 3 /\ at[1] \in {"lookup_recv", "load_recv"} /\ c = "read"
  <2>1. ProcLabels' /\ CallLabels' /\ ProcInbox'
    <3>1. ProcLabels'
      BY <1>1, <1>11, Numbers DEF ProcLabels
    <3>2. CallLabels'
      BY <1>1, <1>5, <1>11, Numbers DEF UpInv, CallLabels, Booting
    <3>3. ProcInbox'
      BY <1>1, <1>11, Numbers DEF ProcInbox
    <3> QED BY <3>1, <3>2, <3>3
  <2>2. BlockOwed'
    BY <1>1, <1>11, Numbers DEF BlockOwed, AwaitsBlock
  <2>3. TalkInv'
    <3>1. /\ at[GPID_PROCESS] \in {"lookup", "lookup_recv", "load", "load_recv", "reply"}
          /\ UNCHANGED <<at, cmd, req, shell_waiting, app_pid, last_pid, pid>>
          /\ \A d : ~Answers(d)'
      BY <1>1, <1>5, <1>11, Numbers DEF Answers, Sends
    <3>2. \A k \in Slots : Live(k)' => Live(k)
      BY <1>1 DEF Moves
    <3> QED BY <1>5, <1>6, <1>7, <3>1, <3>2, TalkServing
  <2>4. \A k \in Slots : pid[k] \in Apps => Same(k)
    BY <1>0, <1>1, <1>11 DEF Moves
  <2>5. AppState'
    BY <1>5, <2>4, AppFrame DEF UpInv
  <2>6. ReplyOwed'
    <3>1. \A k \in Slots : pid[k] \in Apps => ~Owes(r, pid[k])'
      <4>1. ASSUME NEW k \in Slots, pid[k] \in Apps PROVE ~Owes(r, pid[k])'
        <5>1. usr'[r].sender # pid[k]
          BY <1>0, <1>4, <1>11, <4>1
        <5> QED BY <1>1, <1>5, <5>1 DEF Owes, Sends
      <4> QED BY <4>1
    <3>2. pid[1] \notin Apps
      BY <1>0
    <3> QED BY <1>0, <1>5, <1>8, <2>4, <3>1, <3>2, OwedBut
  <2> QED BY <1>1, <1>4, <1>7, <1>9, <1>10, <2>1, <2>2, <2>3, <2>5, <2>6 DEF UpInv
<1>12. CASE /\ pid[s] \in Apps /\ s \notin 1..4
            /\ \/ r = 2 /\ at[s] = "run" /\ c = "print"
               \/ r = 3 /\ at[s] = "read_recv" /\ c = "read"
               \/ r = 2 /\ at[s] = "input_recv" /\ c = "input"
  <2>1. GPID_PROCESS \notin {r, s}
    BY <1>12, Numbers
  <2>2. ProcLabels' /\ CallLabels' /\ ProcInbox' /\ TalkInv' /\ Same(GPID_PROCESS)
    BY <1>1, <1>6, <2>1, Frames, OwnSame
  <2>3. BlockOwed'
    <3>1. CASE r = 3
      <4>1. ~Owes(GPID_FILE, GPID_PROCESS)'
        <5>1. pid[s] # GPID_PROCESS
          BY <1>0, <1>12, Numbers
        <5> QED BY <1>1, <1>4, <3>1, <5>1, Numbers DEF Owes, Sends
      <4> QED BY <4>1 DEF BlockOwed
    <3>2. CASE r = 2
      <4>1. GPID_FILE \in Servers /\ GPID_FILE <= last_pid /\ GPID_FILE # r
        BY <1>0, <1>5, <3>2, Numbers DEF Servers
      <4>2. Same(GPID_FILE)
        BY <1>8, <4>1
      <4> QED BY <1>5, <2>2, <4>2 DEF UpInv, BlockOwed, Owes, AwaitsBlock, Same, Still
    <3> QED BY <3>1, <3>2
  <2>4. \A k \in Slots : pid[k] \in Apps /\ k # s => Same(k)
    BY <1>0, <1>1 DEF Moves
  <2>5. AppState'
    <3>1. AppLabels(s)'
      BY <1>1, <1>12 DEF AppLabels
    <3> QED BY <1>1, <1>5, <2>4, <3>1, OneApp
  <2>6. ReplyOwed'
    <3>1. ASSUME NEW k \in Slots, pid[k] \in Apps, Owes(r, pid[k])'
          PROVE  k \in Scanned /\ at'[k] # "spin" /\ (Live(k)' => AwaitsReply(k, r)')
      <4>1. pid[k] = pid[s] /\ c \in {"read", "input"}
        BY <1>1, <1>4, <1>5, <3>1 DEF Owes, Sends
      <4>2. k = s
        <5>1. pid[k] # GPID_UNUSED
          BY <3>1, Numbers DEF Apps
        <5> QED BY <4>1, <5>1 DEF AllInv, IInv, PidInv
      <4> QED BY <1>1, <1>12, <4>1, <4>2, Numbers DEF AwaitsReply
    <3>2. ASSUME NEW x \in Servers, x <= last_pid, x # r PROVE ~Owes(x, pid[s])
      <4>1. Blocked(s) /\ ~Waits(s) /\ Live(s)
        BY <1>2 DEF Sends, Waits, Blocked, Live
      <4>2. ~AwaitsReply(s, x)
        BY <4>1 DEF AwaitsReply, WaitsFor
      <4> QED BY <1>12, <3>2, <4>1, <4>2 DEF UpInv, ReplyOwed
    <3> QED BY <1>5, <1>8, <2>4, <3>1, <3>2, OwedBut
  <2> QED BY <1>1, <1>4, <1>7, <1>9, <1>10, <2>2, <2>3, <2>5, <2>6 DEF UpInv
<1> QED BY <1>3, <1>11, <1>12

\* A step of the kernel's loop, its dispatch or the timer.
LEMMA KernelKeeps ==
  ASSUME AllInv, UpInv, ScanStep \/ Dispatch \/ Timer, UNCHANGED progVars, kpc' \notin Fatals
  PROVE  UpInv'
<1>1. /\ UNCHANGED <<pid, last_pid, call>>
      /\ \/ usr' = usr /\ \A k \in Slots : Still(k)
         \/ \E r, s \in Scanned : Wakes(r, s)
  BY KernelView
<1>2. CASE usr' = usr /\ \A k \in Slots : Still(k)
  BY <1>1, <1>2, QuietStep
<1>3. CASE \E r, s \in Scanned : Wakes(r, s)
  <2>1. PICK r \in Scanned, s \in Scanned : Wakes(r, s)
    BY <1>3
  <2>2. r \in Slots /\ s \in Slots
    BY Numbers
  <2>3. Waits(r)
    BY <2>1 DEF Wakes
  <2>4. CASE r = 1 /\ at[1] = "boot" /\ last_pid \in {2, 3} /\ syscall[r].sender = last_pid
    BY <1>1, <2>1, <2>2, <2>4, WakeBoot
  <2>5. CASE r = 1 /\ at[1] = "request"
    BY <1>1, <2>1, <2>2, <2>5, WakeRequest
  <2>6. CASE r = 1 /\ at[1] \in {"lookup", "load"} /\ syscall[r].sender = 3
    BY <1>1, <2>1, <2>2, <2>6, WakeBlock
  <2>7. CASE r \in {2, 3} /\ at[r] = "request" /\ r <= last_pid
    BY <1>1, <2>1, <2>2, <2>7, WakeServer
  <2>8. CASE r = 4 /\ at[4] = "reply" /\ cmd \in Spawns /\ syscall[r].sender = 1 /\ 4 <= last_pid
    BY <1>1, <2>1, <2>2, <2>8, WakeShell
  <2>9. CASE r = 4 /\ at[4] = "prompt" /\ cmd = "spawn_fg" /\ syscall[r].sender = 1 /\ 4 <= last_pid
    <3>1. cmd \in Spawns
      BY <2>9 DEF Spawns
    <3> QED BY <1>1, <2>1, <2>2, <2>9, <3>1, WakeShell
  <2>10. CASE pid[r] \in Apps /\ at[r] = "run" /\ syscall[r].sender \in {2, 3}
    BY <1>1, <2>1, <2>2, <2>10, WakeApp
  <2> QED BY <2>2, <2>3, <2>4, <2>5, <2>6, <2>7, <2>8, <2>9, <2>10, WhoWaits
<1> QED BY <1>1, <1>2, <1>3

-----------------------------------------------------------------------------
(* The steps of the programs.                                              *)

\* Where the running process is.
LEMMA Running ==
  ASSUME AllInv, UpInv, NEW p, NEW l, At(p, l)
  PROVE  /\ curr \in Slots /\ curr \in Scanned /\ pid[curr] = p /\ at[curr] = l
         /\ kpc = "user" /\ Live(curr) /\ ~Blocked(curr) /\ status[curr] \in Started
         /\ p \in 1..4 => curr = p /\ p <= last_pid
<1>1. curr \in Slots /\ status[curr] = "RUNNING"
  BY UserFacts DEF AllInv, At
<1>2. curr \in Scanned /\ \A q \in 1..4 : pid[curr] = q => curr = q /\ q <= last_pid
  BY <1>1, SlotFacts DEF UpInv
<1> QED BY <1>1, <1>2 DEF At, Live, Blocked, Started

\* A step in which the running program goes to label l, and its system call goes through.
LEMMA Step ==
  ASSUME AllInv, UpInv, curr \in Slots, Live(curr), Live(curr)', status'[curr] \in Started,
         NEW l \in Labels, Goto(l),
         left' \in [Slots -> Int], \A k \in Slots \ {curr} : left'[k] = left[k],
         \A k \in Slots \ {curr} : usr'[k] = usr[k], \A k \in Slots \ {curr} : Still(k),
         UNCHANGED <<pid, last_pid, curr>>
  PROVE  /\ Moves({curr}) /\ SlotInv' /\ at'[curr] = l
         /\ \A k \in Slots \ {curr} : Same(k)
<1>1. at \in [Slots -> Labels] /\ SlotInv
  BY DEF UpInv, SlotInv
<1>2. at' \in [Slots -> Labels] /\ at'[curr] = l /\ \A k \in Slots \ {curr} : at'[k] = at[k]
  BY <1>1 DEF Goto
<1>3. \A k \in Slots \ {curr} : Same(k)
  BY <1>2 DEF Same
<1>4. Moves({curr})
  <2>1. \A k \in Slots : Live(k)' <=> Live(k)
    BY DEF Still
  <2> QED BY <1>2, <1>3, <2>1 DEF Moves
<1>5. SlotInv'
  BY <1>1, <1>2, <1>4, FrameSlots
<1> QED BY <1>2, <1>3, <1>4, <1>5

\* sys_recv as a step of the program.
LEMMA RecvStep ==
  ASSUME AllInv, UpInv, NEW p \in 1..MaxPid \cup {GPID_ALL}, NEW l \in Labels, Trap(RecvFrom(p), l),
         left' \in [Slots -> Int], \A k \in Slots \ {curr} : left'[k] = left[k]
  PROVE  /\ Moves({curr}) /\ SlotInv' /\ Inboxes' /\ UNCHANGED <<pid, last_pid, call, curr>>
         /\ at'[curr] = l /\ WaitsFor(curr, p)' /\ Blocked(curr)' /\ \A q, d : ~Sends(curr, q, d)'
<1>1. Ecall(RecvFrom(p)) /\ Goto(l)
  BY DEF Trap
<1>2. curr \in Slots /\ curr \in Scanned
  BY SlotFacts DEF UpInv
<1>3. /\ UNCHANGED <<pid, last_pid, call, curr>> /\ usr' = [usr EXCEPT ![curr] = NoMsg]
      /\ Live(curr) /\ Live(curr)' /\ status'[curr] \in Started /\ WaitsFor(curr, p)' /\ (\A q, d : ~Sends(curr, q, d)')
      /\ \A k \in Slots \ {curr} : Still(k)
  BY <1>1, RecvTrap
<1>4. usr'[curr] = NoMsg /\ \A k \in Slots \ {curr} : usr'[k] = usr[k]
  BY <1>2, <1>3 DEF AllInv, IInv, TypeOK
<1>5. Moves({curr}) /\ SlotInv' /\ at'[curr] = l
  BY <1>1, <1>2, <1>3, <1>4, Step
<1>6. Inboxes'
  BY <1>3, <1>4 DEF UpInv, Inboxes, Still
<1> QED BY <1>3, <1>5, <1>6 DEF WaitsFor, Waits

\* sys_send as a step of the program.
LEMMA SendStep ==
  ASSUME AllInv, UpInv, NEW p \in 1..MaxPid, NEW c \in Contents, NEW l \in Labels, Trap(SendTo(p, c), l),
         kpc' \notin Fatals, left' \in [Slots -> Int], \A k \in Slots \ {curr} : left'[k] = left[k]
  PROVE  /\ Moves({curr}) /\ SlotInv' /\ Inboxes' /\ UNCHANGED <<pid, last_pid, call, curr>>
         /\ at'[curr] = l /\ Blocked(curr)' /\ ~Waits(curr)' /\ MayTrap
         /\ \A q, d : Sends(curr, q, d)' <=> q = p /\ d = c
<1>1. Ecall(SendTo(p, c)) /\ Goto(l)
  BY DEF Trap
<1>2. curr \in Slots /\ curr \in Scanned
  BY SlotFacts DEF UpInv
<1>3. /\ UNCHANGED <<pid, last_pid, call, curr>> /\ usr' = [usr EXCEPT ![curr] = NoMsg] /\ MayTrap
      /\ Live(curr) /\ Live(curr)' /\ status'[curr] \in Started /\ Blocked(curr)' /\ ~Waits(curr)'
      /\ \A q, d : Sends(curr, q, d)' <=> q = p /\ d = c
      /\ \A k \in Slots \ {curr} : Still(k)
  BY <1>1, SendTrap DEF Fatals
<1>4. usr'[curr] = NoMsg /\ \A k \in Slots \ {curr} : usr'[k] = usr[k]
  BY <1>2, <1>3 DEF AllInv, IInv, TypeOK
<1>5. Moves({curr}) /\ SlotInv' /\ at'[curr] = l
  BY <1>1, <1>2, <1>3, <1>4, Step
<1>6. Inboxes'
  BY <1>3, <1>4 DEF UpInv, Inboxes, Still
<1> QED BY <1>3, <1>5, <1>6

\* A step of the program with no system call.
LEMMA LocalStep ==
  ASSUME AllInv, UpInv, NEW l \in Labels, Goto(l), UNCHANGED vars, kpc = "user",
         left' \in [Slots -> Int], \A k \in Slots \ {curr} : left'[k] = left[k]
  PROVE  /\ Moves({curr}) /\ SlotInv' /\ Inboxes' /\ UNCHANGED <<pid, last_pid, call, curr, usr>>
         /\ at'[curr] = l /\ ~Blocked(curr)' /\ \A k \in Slots : Still(k)
<1>1. curr \in Slots /\ status[curr] = "RUNNING" /\ curr \in Scanned
  BY UserFacts, SlotFacts DEF AllInv, UpInv
<1>2. UNCHANGED <<pid, status, syscall, usr, last_pid, call, curr>>
  BY DEF vars, procVars
<1>3. Live(curr) /\ Live(curr)' /\ status'[curr] \in Started /\ ~Blocked(curr)' /\ \A k \in Slots : Still(k)
  BY <1>1, <1>2 DEF Live, Blocked, Still, Sends, Waits, WaitsFor, Started
<1>4. Moves({curr}) /\ SlotInv' /\ at'[curr] = l
  BY <1>1, <1>2, <1>3, Step
<1>5. Inboxes'
  BY <1>2 DEF UpInv, Inboxes, Blocked
<1> QED BY <1>2, <1>3, <1>4, <1>5

\* What is left to show of a step of one program.
LEMMA ProcMoves ==
  ASSUME AllInv, UpInv, Moves({1}), UNCHANGED cmd
  PROVE  ServerState' /\ ServerInbox' /\ ShellState' /\ ShellInbox' /\ AppState' /\ ReplyOwed'
         /\ (GPID_SHELL <= last_pid => Same(GPID_SHELL)) /\ \A p \in Servers : p <= last_pid => Same(p)
<1>1. \A k \in {1} \cap Slots : pid[k] \notin Apps
  BY SlotFacts DEF UpInv
<1>2. GPID_SHELL \notin {1} /\ \A p \in Servers : p \notin {1}
  BY Numbers DEF Servers
<1> QED BY <1>1, <1>2, Frames, OwnSame

\* GPID_PROCESS moves, and the servers do not depend on it: no reply to it is outstanding,
\* or it is still to be taken.
LEMMA ProcServers ==
  ASSUME UpInv, last_pid \in Nat, last_pid > 3, UNCHANGED last_pid, ~Booting',
         \A p \in Servers : p <= last_pid => Same(p), AwaitsBlock => AwaitsBlock'
  PROVE  BootInv' /\ BlockOwed'
<1>1. BootInv'
  BY BootDone DEF Same, Still
<1>2. GPID_FILE \in Servers
  BY DEF Servers
<1>3. BlockOwed'
  BY <1>2 DEF UpInv, BlockOwed, Owes, Same, Still
<1> QED BY <1>1, <1>3

\* GPID_PROCESS moves, and neither serves nor answers the shell.
LEMMA TalkIdle ==
  ASSUME UpInv, GPID_SHELL <= last_pid, Same(GPID_SHELL), ~Booting',
         UNCHANGED <<cmd, shell_waiting, app_pid, last_pid, pid>>,
         ~AtService, ~AtService', \A c : ~Answers(c), \A c : ~Answers(c)',
         at'[GPID_PROCESS] \notin {"notify", "free"}, \A k \in Slots : Live(k)' => Live(k)
  PROVE  TalkInv'
<1>1. (Gone(app_pid) => Gone(app_pid)') /\ TalkInv
  BY DEF Gone, UpInv
<1>2. /\ AwaitsEnd' <=> AwaitsEnd
      /\ at'[GPID_SHELL] = at[GPID_SHELL] /\ (Blocked(GPID_SHELL)' <=> Blocked(GPID_SHELL))
  BY DEF AwaitsEnd, Same, Still
<1> QED BY <1>1, <1>2 DEF TalkInv

\* GPID_PROCESS waits for a "Finish initialization", or for a request.
LEMMA ProcRecvKeeps ==
  ASSUME AllInv, UpInv, ProcRecv, kpc' \notin Fatals
  PROVE  UpInv'
<1>0. UNCHANGED <<left, app_pid, shell_waiting, req, client, cmd, typed>>
  BY DEF ProcRecv
<1>1. left' \in [Slots -> Int] /\ last_pid \in Nat /\ MaxPid \in Nat /\ last_pid <= MaxPid
  BY <1>0, SlotFacts, Numbers DEF UpInv, SlotInv
<1>2. CASE \/ At(GPID_PROCESS, "wait_terminal") /\ Trap(RecvFrom(GPID_TERMINAL), "boot")
           \/ At(GPID_PROCESS, "wait_file") /\ Trap(RecvFrom(GPID_FILE), "boot")
  <2>1. curr = 1 /\ ~Blocked(1) /\ at[1] \in {"wait_terminal", "wait_file"}
    BY <1>2, Running, Numbers
  <2>2. PICK p \in Servers : Trap(RecvFrom(p), "boot") /\ at[1] = (IF p = 2 THEN "wait_terminal" ELSE "wait_file")
    BY <1>2, Running, Numbers DEF Servers
  <2>3. last_pid = p /\ call.op = "none" /\ p \in {2, 3}
    BY <2>2, Numbers DEF UpInv, CallLabels, Servers
  <2>4. p \in 1..MaxPid \cup {GPID_ALL} /\ "boot" \in Labels
    BY <1>1, <2>3 DEF Labels
  <2>5. /\ Moves({1}) /\ SlotInv' /\ Inboxes' /\ UNCHANGED <<pid, last_pid, call, curr>>
        /\ at'[1] = "boot" /\ WaitsFor(curr, p)' /\ Blocked(curr)'
    BY <1>0, <1>1, <2>1, <2>2, <2>4, RecvStep
  <2>6. WaitsFor(1, p)' /\ Blocked(1)'
    BY <2>1, <2>5
  <2>7. /\ ServerState' /\ ServerInbox' /\ ShellState' /\ ShellInbox' /\ AppState' /\ ReplyOwed'
        /\ \A q \in Servers : q <= last_pid => Same(q)
    BY <1>0, <2>5, ProcMoves
  <2>8. ProcLabels' /\ CallLabels' /\ ProcInbox'
    <3>1. ProcLabels'
      BY <2>3, <2>5, <2>6, Numbers DEF ProcLabels
    <3>2. CallLabels'
      BY <2>3, <2>5, Numbers DEF CallLabels, Booting
    <3>3. ProcInbox'
      BY <2>6, Numbers DEF ProcInbox
    <3> QED BY <3>1, <3>2, <3>3
  <2>9. BootInv'
    <3>1. \A q \in Servers : Due(q)' <=> Due(q)
      BY <2>1, <2>3, <2>5, <2>6, Numbers DEF Due
    <3>2. Booting /\ Booting' /\ GPID_FILE \in Servers /\ BootInv
      BY <2>1, <2>5, Numbers DEF Booting, Servers, UpInv
    <3> QED BY <2>5, <2>7, <3>1, <3>2 DEF BootInv, Same, Still
  <2>10. BlockOwed'
    <3>1. ~AwaitsBlock /\ GPID_FILE \in Servers
      BY <2>1, Numbers DEF AwaitsBlock, Servers
    <3> QED BY <2>5, <2>7, <3>1 DEF UpInv, BlockOwed, Owes, Same, Still
  <2>11. TalkInv'
    <3>1. Booting' /\ Booting /\ TalkInv
      BY <2>1, <2>5, Numbers DEF Booting, UpInv
    <3>2. ~AtService' /\ at'[GPID_PROCESS] \notin {"notify", "free"} /\ \A d : ~Answers(d)'
      BY <2>8, <3>1, BootQuietNext
    <3> QED BY <1>0, <2>3, <2>5, <3>1, <3>2, Numbers DEF TalkInv
  <2> QED BY <2>5, <2>7, <2>8, <2>9, <2>10, <2>11 DEF UpInv
<1>3. CASE At(GPID_PROCESS, "loop") /\ Trap(RecvFrom(GPID_ALL), "request")
  <2>1. curr = 1 /\ ~Blocked(1) /\ at[1] = "loop"
    BY <1>3, Running, Numbers
  <2>2. "request" \in Labels
    BY DEF Labels
  <2>3. /\ Moves({1}) /\ SlotInv' /\ Inboxes' /\ UNCHANGED <<pid, last_pid, call, curr>>
        /\ at'[1] = "request" /\ WaitsFor(curr, GPID_ALL)' /\ Blocked(curr)'
    BY <1>0, <1>1, <1>3, <2>1, <2>2, RecvStep
  <2>4. Waits(1)' /\ Blocked(1)'
    BY <2>1, <2>3 DEF WaitsFor
  <2>5. /\ ServerState' /\ ServerInbox' /\ ShellState' /\ ShellInbox' /\ AppState' /\ ReplyOwed'
        /\ (GPID_SHELL <= last_pid => Same(GPID_SHELL)) /\ \A q \in Servers : q <= last_pid => Same(q)
    BY <1>0, <2>3, ProcMoves
  <2>6. ~Booting /\ ~Booting' /\ last_pid >= 4 /\ call.op = "none"
    BY <2>1, <2>3, BootOver, Numbers DEF Booting, UpInv, CallLabels
  <2>7. ProcLabels' /\ CallLabels' /\ ProcInbox'
    <3>1. ProcLabels'
      BY <2>3, <2>4, Numbers DEF ProcLabels
    <3>2. CallLabels'
      BY <2>3, <2>6, Numbers DEF CallLabels
    <3>3. ProcInbox'
      BY <2>4, Numbers DEF ProcInbox
    <3> QED BY <3>1, <3>2, <3>3
  <2>8. BootInv' /\ BlockOwed'
    <3>1. ~AwaitsBlock
      BY <2>1, Numbers DEF AwaitsBlock
    <3> QED BY <1>1, <2>3, <2>5, <2>6, <3>1, ProcServers
  <2>9. TalkInv'
    <3>1. ~AtService /\ ~AtService' /\ (\A c : ~Answers(c)) /\ \A c : ~Answers(c)'
      BY <2>1, <2>3, <2>4, Numbers DEF AtService, Answers, Sends, Waits
    <3>2. at'[GPID_PROCESS] \notin {"notify", "free"} /\ \A k \in Slots : Live(k)' => Live(k)
      BY <2>3, Numbers DEF Moves
    <3> QED BY <1>0, <2>3, <2>5, <2>6, <3>1, <3>2, TalkIdle, Numbers
  <2> QED BY <2>3, <2>5, <2>7, <2>8, <2>9 DEF UpInv
<1> QED BY <1>2, <1>3 DEF ProcRecv

\* What is left to show of a step of GPID_PROCESS after the boot.
LEMMA ProcDone ==
  ASSUME AllInv, UpInv, Moves({1}), SlotInv', Inboxes', UNCHANGED cmd, ~Booting, ~Booting',
         AwaitsBlock => AwaitsBlock', ProcLabels', CallLabels', ProcInbox', TalkInv'
  PROVE  UpInv'
<1>1. /\ ServerState' /\ ServerInbox' /\ ShellState' /\ ShellInbox' /\ AppState' /\ ReplyOwed'
      /\ \A q \in Servers : q <= last_pid => Same(q)
  BY ProcMoves
<1>2. last_pid \in Nat /\ last_pid > 3 /\ last_pid' = last_pid
  <2>1. last_pid \in 1..MaxPid
    BY SlotFacts DEF UpInv
  <2>2. last_pid >= 4
    BY BootOver
  <2>3. last_pid' = last_pid
    BY DEF Moves
  <2> QED BY ONLY <2>1, <2>2, <2>3, Numbers
<1>3. BootInv' /\ BlockOwed'
  BY <1>1, <1>2, ProcServers
<1> QED BY <1>1, <1>3 DEF UpInv

LEMMA ProcSpawnKeeps ==
  ASSUME AllInv, UpInv, ProcSpawn
  PROVE  UpInv'
<1>0. /\ At(GPID_PROCESS, "request") /\ usr[curr].content \in Spawns /\ req' = usr[curr].content
      /\ Goto("lookup") /\ left' = [left EXCEPT ![curr] = 2]
      /\ UNCHANGED <<vars, app_pid, shell_waiting, cmd, typed>>
  BY DEF ProcSpawn, Message, Spawns
<1>1. curr = 1 /\ 1 \in Slots /\ ~Blocked(1) /\ at[1] = "request" /\ kpc = "user"
  BY <1>0, Running, Numbers
<1>2. left \in [Slots -> Int] /\ "lookup" \in Labels
  BY DEF UpInv, SlotInv, Labels
<1>3. left' \in [Slots -> Int] /\ left'[1] = 2 /\ \A k \in Slots \ {curr} : left'[k] = left[k]
  BY <1>0, <1>1, <1>2
<1>4. /\ Moves({1}) /\ SlotInv' /\ Inboxes' /\ UNCHANGED <<pid, last_pid, call, curr, usr>>
      /\ at'[1] = "lookup" /\ ~Blocked(curr)'
  BY <1>0, <1>1, <1>2, <1>3, LocalStep
<1>5. ~Booting /\ ~Booting' /\ last_pid >= 4 /\ call.op = "none" /\ ~Blocked(1)'
  BY <1>1, <1>4, BootOver, Numbers DEF Booting, UpInv, CallLabels
<1>6. ProcLabels' /\ CallLabels' /\ ProcInbox'
  <2>1. ProcLabels'
    BY <1>4, <1>5, Numbers DEF ProcLabels
  <2>2. CallLabels'
    BY <1>4, <1>5, Numbers DEF CallLabels
  <2>3. ProcInbox'
    BY <1>3, <1>4, Numbers DEF ProcInbox
  <2> QED BY <2>1, <2>2, <2>3
<1>7. TalkInv'
  <2>1. AtService /\ TalkInv
    BY <1>0, <1>1, Numbers DEF AtService, UpInv
  <2>2. usr[1].content = cmd /\ AwaitsAnswer
    BY <1>1, <2>1, Numbers DEF TalkInv, Serves
  <2>3. Same(GPID_SHELL)
    BY <1>0, <1>4, <1>5, ProcMoves, Numbers
  <2>4. AtService' /\ Serves(cmd)' /\ AwaitsAnswer' /\ at'[GPID_SHELL] # "prompt"
    <3>1. AtService' /\ Serves(cmd)'
      BY <1>0, <1>1, <1>4, <2>2, Numbers DEF AtService, Serves
    <3>2. AwaitsAnswer' /\ at'[GPID_SHELL] # "prompt"
      BY <2>2, <2>3 DEF AwaitsAnswer, Same, Still
    <3> QED BY <3>1, <3>2
  <2>5. \A c : ~Answers(c)'
    BY <1>5, Numbers DEF Answers, Sends
  <2>6. app_pid' \in 0..last_pid' /\ at'[GPID_PROCESS] \notin {"notify", "free"}
    BY <1>0, <1>4, <2>1, Numbers DEF TalkInv
  <2> QED BY <1>5, <2>4, <2>5, <2>6 DEF TalkInv
<1>8. ~AwaitsBlock
  BY <1>1, Numbers DEF AwaitsBlock
<1> QED BY <1>0, <1>4, <1>5, <1>6, <1>7, <1>8, ProcDone

\* The two system calls of a file_read.
LEMMA ProcFileReadKeeps ==
  ASSUME AllInv, UpInv, ProcFileRead, kpc' \notin Fatals
  PROVE  UpInv'
<1>0. UNCHANGED <<app_pid, shell_waiting, req, client, cmd, typed>>
  BY DEF ProcFileRead
<1>1. \/ \E l \in {"lookup", "load"} :
           /\ At(GPID_PROCESS, l) /\ UNCHANGED left
           /\ Trap(SendTo(GPID_FILE, "read"), IF l = "lookup" THEN "lookup_recv" ELSE "load_recv")
      \/ \E l \in {"lookup_recv", "load_recv"} :
           /\ At(GPID_PROCESS, l) /\ left' = [left EXCEPT ![curr] = @ - 1]
           /\ Trap(RecvFrom(GPID_FILE), IF l = "lookup_recv" THEN "lookup" ELSE "load")
  BY DEF ProcFileRead
<1>2. curr = 1 /\ 1 \in Slots /\ ~Blocked(1) /\ at[1] \in {"lookup", "load", "lookup_recv", "load_recv"}
  BY <1>1, Running, Numbers
<1>3. ~Booting /\ last_pid >= 4 /\ last_pid \in Nat /\ last_pid <= MaxPid /\ MaxPid \in Nat
  BY <1>2, BootOver, SlotFacts, Numbers DEF Booting, UpInv
<1>4. left \in [Slots -> Int] /\ GPID_FILE \in 1..MaxPid /\ "read" \in Contents /\ CallLabels
  BY <1>3, ServersAssumption, Numbers DEF UpInv, SlotInv
<1>5. ASSUME at'[1] \in {"lookup", "load", "lookup_recv", "load_recv"}, Moves({1}), SlotInv', Inboxes',
             UNCHANGED call, Blocked(1)', \A c : ~Sends(1, 4, c)', ProcLabels',
             at[1] \in {"load", "load_recv"} <=> at'[1] \in {"load", "load_recv"},
             at'[1] = "load_recv" => call.op \in {"none", "loading"}, AwaitsBlock => AwaitsBlock'
      PROVE  UpInv'
  <2>1. UNCHANGED <<pid, last_pid>> /\ (\A k \in Slots : Live(k)' => Live(k)) /\ ~Booting'
    BY <1>5, Numbers DEF Moves, Booting
  <2>2. CallLabels' /\ ProcInbox'
    <3>1. CallLabels'
      BY <1>2, <1>3, <1>4, <1>5, <2>1, Numbers DEF CallLabels
    <3>2. ProcInbox'
      BY <1>5, Numbers DEF ProcInbox
    <3> QED BY <3>1, <3>2
  <2>3. TalkInv'
    <3>1. GPID_SHELL <= last_pid /\ Same(GPID_SHELL)
      BY <1>0, <1>3, <1>5, ProcMoves, Numbers
    <3>2. /\ at[GPID_PROCESS] \in {"lookup", "lookup_recv", "load", "load_recv", "reply"}
          /\ at'[GPID_PROCESS] \in {"lookup", "lookup_recv", "load", "load_recv", "reply"}
          /\ \A c : ~Answers(c)'
      BY <1>2, <1>5, Numbers DEF Answers
    <3> QED BY <1>0, <2>1, <3>1, <3>2, TalkServing
  <2> QED BY <1>0, <1>3, <1>5, <2>1, <2>2, <2>3, ProcDone
<1>6. ASSUME NEW l \in {"lookup", "load"}, At(GPID_PROCESS, l), UNCHANGED left,
             Trap(SendTo(GPID_FILE, "read"), IF l = "lookup" THEN "lookup_recv" ELSE "load_recv")
      PROVE  UpInv'
  <2>1. PICK m \in {"lookup_recv", "load_recv"} : m = IF l = "lookup" THEN "lookup_recv" ELSE "load_recv"
    OBVIOUS
  <2>2. m \in Labels /\ Trap(SendTo(GPID_FILE, "read"), m) /\ left' \in [Slots -> Int] /\ at[1] = l
    BY <1>2, <1>4, <1>6, <2>1 DEF Labels, At
  <2>3. /\ Moves({1}) /\ SlotInv' /\ Inboxes' /\ UNCHANGED <<pid, last_pid, call, curr>>
        /\ at'[1] = m /\ Blocked(curr)' /\ MayTrap
        /\ \A q, d : Sends(curr, q, d)' <=> q = GPID_FILE /\ d = "read"
    BY <1>2, <1>4, <1>6, <2>2, SendStep
  <2>4. Blocked(1)' /\ Sends(1, GPID_FILE, "read")' /\ \A c : ~Sends(1, 4, c)'
    BY <1>2, <2>3, Numbers
  <2>5. ProcLabels'
    BY <2>3, <2>4, Numbers DEF ProcLabels
  <2>6. ~AwaitsBlock
    BY <1>2, <2>2, Numbers DEF AwaitsBlock
  <2>7. call.op \in {"none", "loading"}
    BY <1>6, <2>3 DEF MayTrap, At
  <2> QED BY <1>5, <2>1, <2>2, <2>3, <2>4, <2>5, <2>6, <2>7
<1>7. ASSUME NEW l \in {"lookup_recv", "load_recv"}, At(GPID_PROCESS, l), left' = [left EXCEPT ![curr] = @ - 1],
             Trap(RecvFrom(GPID_FILE), IF l = "lookup_recv" THEN "lookup" ELSE "load")
      PROVE  UpInv'
  <2>1. PICK m \in {"lookup", "load"} : m = IF l = "lookup_recv" THEN "lookup" ELSE "load"
    OBVIOUS
  <2>2. m \in Labels /\ Trap(RecvFrom(GPID_FILE), m) /\ at[1] = l
    BY <1>2, <1>7, <2>1 DEF Labels, At
  <2>3. left' \in [Slots -> Int] /\ \A k \in Slots \ {curr} : left'[k] = left[k]
    BY <1>2, <1>4, <1>7
  <2>4. /\ Moves({1}) /\ SlotInv' /\ Inboxes' /\ UNCHANGED <<pid, last_pid, call, curr>>
        /\ at'[1] = m /\ Blocked(curr)' /\ WaitsFor(curr, GPID_FILE)' /\ \A q, d : ~Sends(curr, q, d)'
    BY <1>2, <1>4, <2>2, <2>3, RecvStep
  <2>5. Blocked(1)' /\ WaitsFor(1, GPID_FILE)' /\ \A c : ~Sends(1, 4, c)'
    BY <1>2, <2>4
  <2>6. ProcLabels'
    BY <2>4, <2>5, Numbers DEF ProcLabels
  <2>7. AwaitsBlock'
    BY <2>4, <2>5, Numbers DEF AwaitsBlock
  <2> QED BY <1>5, <2>1, <2>2, <2>4, <2>5, <2>6, <2>7
<1> QED BY <1>1, <1>6, <1>7

\* The reply to the shell, and the notice that its command has ended.
LEMMA ProcReplyKeeps ==
  ASSUME AllInv, UpInv, ProcReply, kpc' \notin Fatals
  PROVE  UpInv'
<1>0. /\ \/ At(GPID_PROCESS, "lookup") \/ At(GPID_PROCESS, "reply")
      /\ shell_waiting' = (req = "spawn_fg")
      /\ Trap(SendTo(GPID_SHELL, IF req = "spawn_bad" THEN "error" ELSE "ok"), "loop")
      /\ UNCHANGED <<left, app_pid, req, client, cmd, typed>>
  BY DEF ProcReply
<1>1. curr = 1 /\ 1 \in Slots /\ ~Blocked(1) /\ at[1] \in {"lookup", "reply"}
  BY <1>0, Running, Numbers
<1>2. ~Booting /\ last_pid >= 4 /\ last_pid \in Nat /\ last_pid <= MaxPid /\ MaxPid \in Nat /\ call.op = "none"
  BY <1>1, BootOver, SlotFacts, Numbers DEF Booting, UpInv, CallLabels
<1>3. AtService /\ TalkInv
  BY <1>1, Numbers DEF AtService, UpInv
<1>4. req = cmd /\ AwaitsAnswer
  BY <1>1, <1>3, Numbers DEF TalkInv, Serves
<1>5. PICK c \in {"ok", "error"} : c = IF cmd = "spawn_bad" THEN "error" ELSE "ok"
  OBVIOUS
<1>6. /\ c \in Contents /\ GPID_SHELL \in 1..MaxPid /\ "loop" \in Labels /\ left' \in [Slots -> Int]
      /\ Trap(SendTo(GPID_SHELL, c), "loop")
  BY <1>0, <1>2, <1>4, <1>5, ServersAssumption, Numbers DEF Labels, UpInv, SlotInv
<1>7. /\ Moves({1}) /\ SlotInv' /\ Inboxes' /\ UNCHANGED <<pid, last_pid, call, curr>>
      /\ at'[1] = "loop" /\ Blocked(curr)' /\ \A q, d : Sends(curr, q, d)' <=> q = GPID_SHELL /\ d = c
  BY <1>0, <1>1, <1>6, SendStep
<1>8. Blocked(1)' /\ (\A q, d : Sends(1, q, d)' <=> q = GPID_SHELL /\ d = c) /\ ~Booting'
  BY <1>1, <1>7, Numbers DEF Booting
<1>9. ProcLabels' /\ CallLabels' /\ ProcInbox'
  <2>1. ProcLabels'
    BY <1>7, <1>8, Numbers DEF ProcLabels
  <2>2. CallLabels'
    BY <1>2, <1>7, Numbers DEF CallLabels
  <2>3. ProcInbox'
    BY <1>8, Numbers DEF ProcInbox
  <2> QED BY <2>1, <2>2, <2>3
<1>10. TalkInv'
  <2>1. Same(GPID_SHELL)
    BY <1>0, <1>2, <1>7, ProcMoves, Numbers
  <2>2. AwaitsAnswer' /\ at'[GPID_SHELL] # "prompt"
    BY <1>4, <2>1 DEF AwaitsAnswer, Same, Still
  <2>3. ~AtService' /\ \A d : Answers(d)' <=> d = c
    BY <1>7, <1>8, Numbers DEF AtService, Answers
  <2>4. app_pid' \in 0..last_pid' /\ at'[GPID_PROCESS] \notin {"notify", "free"}
    BY <1>0, <1>3, <1>7, Numbers DEF TalkInv
  <2>5. shell_waiting' = (cmd' = "spawn_fg") /\ cmd' = cmd
    BY <1>0, <1>4
  <2>6. shell_waiting' => Answers("ok")' /\ cmd' = "spawn_fg"
    BY <1>5, <2>3, <2>5
  <2>7. ~Answers("exit")' /\ \A d \in {"ok", "error"} : Answers(d)' => d = (IF cmd' = "spawn_bad" THEN "error" ELSE "ok")
    BY <1>5, <2>3, <2>5
  <2> QED BY <1>8, <2>2, <2>3, <2>4, <2>5, <2>6, <2>7 DEF TalkInv
<1>11. ~AwaitsBlock
  BY <1>1, Numbers DEF AwaitsBlock
<1> QED BY <1>0, <1>2, <1>7, <1>8, <1>9, <1>10, <1>11, ProcDone

LEMMA ProcNotifyKeeps ==
  ASSUME AllInv, UpInv, ProcNotify, kpc' \notin Fatals
  PROVE  UpInv'
<1>0. /\ At(GPID_PROCESS, "notify") /\ Trap(SendTo(GPID_SHELL, "exit"), "loop")
      /\ UNCHANGED <<left, app_pid, shell_waiting, req, client, cmd, typed>>
  BY DEF ProcNotify
<1>1. curr = 1 /\ 1 \in Slots /\ ~Blocked(1) /\ at[1] = "notify"
  BY <1>0, Running, Numbers
<1>2. ~Booting /\ last_pid >= 4 /\ last_pid \in Nat /\ last_pid <= MaxPid /\ MaxPid \in Nat /\ call.op = "none"
  BY <1>1, BootOver, SlotFacts, Numbers DEF Booting, UpInv, CallLabels
<1>3. AwaitsEnd /\ Gone(app_pid) /\ TalkInv
  BY <1>1, Numbers DEF TalkInv, UpInv
<1>4. "exit" \in Contents /\ GPID_SHELL \in 1..MaxPid /\ "loop" \in Labels /\ left' \in [Slots -> Int]
  BY <1>0, <1>2, ServersAssumption, Numbers DEF Labels, UpInv, SlotInv
<1>5. /\ Moves({1}) /\ SlotInv' /\ Inboxes' /\ UNCHANGED <<pid, last_pid, call, curr>>
      /\ at'[1] = "loop" /\ Blocked(curr)' /\ \A q, d : Sends(curr, q, d)' <=> q = GPID_SHELL /\ d = "exit"
  BY <1>0, <1>1, <1>4, SendStep
<1>6. Blocked(1)' /\ (\A q, d : Sends(1, q, d)' <=> q = GPID_SHELL /\ d = "exit") /\ ~Booting'
  BY <1>1, <1>5, Numbers DEF Booting
<1>7. ProcLabels' /\ CallLabels' /\ ProcInbox'
  <2>1. ProcLabels'
    BY <1>5, <1>6, Numbers DEF ProcLabels
  <2>2. CallLabels'
    BY <1>2, <1>5, Numbers DEF CallLabels
  <2>3. ProcInbox'
    BY <1>6, Numbers DEF ProcInbox
  <2> QED BY <2>1, <2>2, <2>3
<1>8. TalkInv'
  <2>1. Same(GPID_SHELL)
    BY <1>0, <1>2, <1>5, ProcMoves, Numbers
  <2>2. AwaitsEnd'
    BY <1>0, <1>3, <2>1 DEF AwaitsEnd, Same, Still
  <2>3. ~AtService' /\ \A d : Answers(d)' <=> d = "exit"
    BY <1>5, <1>6, Numbers DEF AtService, Answers
  <2>4. app_pid' \in 0..last_pid' /\ at'[GPID_PROCESS] \notin {"notify", "free"}
    BY <1>0, <1>3, <1>5, Numbers DEF TalkInv
  <2>5. Gone(app_pid)'
    BY <1>0, <1>3, <1>5 DEF Gone, Moves
  <2> QED BY <1>6, <2>2, <2>3, <2>4, <2>5 DEF TalkInv
<1>9. ~AwaitsBlock
  BY <1>1, Numbers DEF AwaitsBlock
<1> QED BY <1>0, <1>2, <1>5, <1>6, <1>7, <1>8, <1>9, ProcDone

\* A server moves.
LEMMA ServerMoves ==
  ASSUME AllInv, UpInv, NEW s \in {2, 3}, s <= last_pid, Moves({s}), SlotInv', Inboxes',
         UNCHANGED <<call, cmd, req, client, shell_waiting, app_pid>>, ServerLabels(s)',
         at'[s] = "request" => Blocked(s)',
         IF Due(s) THEN at'[s] = "init" \/ Sends(s, GPID_PROCESS, "finish")'
                   ELSE at'[s] # "init" /\ ~Sends(s, GPID_PROCESS, "finish")',
         \A p : Owes(s, p)' => Owes(s, p)
  PROVE  UpInv'
<1>1. GPID_PROCESS \notin {s} /\ GPID_SHELL \notin {s} /\ s \in Slots /\ s \in Servers
      /\ \A k \in {s} \cap Slots : pid[k] \notin Apps
  BY SlotFacts, Numbers DEF UpInv, Servers
<1>2. /\ ProcLabels' /\ CallLabels' /\ ProcInbox' /\ ShellState' /\ ShellInbox' /\ TalkInv' /\ AppState'
      /\ Same(GPID_PROCESS) /\ \A x \in Servers : x <= last_pid /\ x # s => Same(x)
  BY <1>1, Frames, OwnSame
<1>3. UNCHANGED <<pid, last_pid>>
  BY DEF Moves
<1>4. GPID_FILE \in Servers /\ GPID_TERMINAL \in Servers
  BY DEF Servers
<1>5. ServerState'
  BY <1>2, <1>3 DEF UpInv, ServerState, ServerLabels, Same, Still, Known
<1>6. ServerInbox'
  BY <1>2, <1>3, <1>4 DEF UpInv, ServerInbox, Same, Still, Known
<1>7. BootInv'
  <2>1. \A p \in Servers : Due(p)' <=> Due(p)
    BY <1>2, <1>3 DEF Due, Same, Still
  <2>2. Booting' <=> Booting
    BY <1>2 DEF Booting, Same
  <2>3. ASSUME NEW p \in Servers, p <= last_pid
        PROVE  IF Due(p)' THEN at'[p] = "init" \/ Sends(p, GPID_PROCESS, "finish")'
                          ELSE at'[p] # "init" /\ ~Sends(p, GPID_PROCESS, "finish")'
    <3>1. CASE p = s
      BY <2>1, <2>3, <3>1
    <3>2. CASE p # s
      <4>1. Same(p)
        BY <1>2, <2>3, <3>2
      <4> QED BY <2>1, <2>3, <4>1 DEF UpInv, BootInv, Same, Still
    <3> QED BY <3>1, <3>2
  <2>4. Booting' /\ GPID_FILE <= last_pid /\ at'[GPID_FILE] = "request" => Blocked(GPID_FILE)'
    <3>1. CASE GPID_FILE = s
      BY <3>1
    <3>2. CASE GPID_FILE # s
      BY <1>2, <1>4, <2>2, <3>2 DEF UpInv, BootInv, Same, Still
    <3> QED BY <3>1, <3>2
  <2> QED BY <1>3, <2>3, <2>4 DEF BootInv
<1>8. BlockOwed'
  <2>1. GPID_FILE <= last_pid /\ Owes(GPID_FILE, GPID_PROCESS)' => Owes(GPID_FILE, GPID_PROCESS)
    <3>1. CASE GPID_FILE = s
      BY <3>1
    <3>2. CASE GPID_FILE # s
      BY <1>2, <1>4, <3>2 DEF Owes, Same, Still
    <3> QED BY <3>1, <3>2
  <2>2. AwaitsBlock => AwaitsBlock'
    BY <1>2 DEF AwaitsBlock, Same, Still
  <2> QED BY <1>3, <2>1, <2>2 DEF UpInv, BlockOwed
<1>9. ReplyOwed'
  <2>1. \A k \in Slots : pid[k] \in Apps => Same(k)
    BY <1>1 DEF Moves
  <2>2. ASSUME NEW x \in Servers, NEW k \in Slots, x <= last_pid, pid[k] \in Apps, Owes(x, pid[k])'
        PROVE  k \in Scanned /\ at'[k] # "spin" /\ (Live(k)' => AwaitsReply(k, x)')
    <3>1. Owes(x, pid[k])
      <4>1. CASE x = s
        <5>1. PICK p : p = pid[k]
          OBVIOUS
        <5>2. Owes(x, p)'
          BY <1>3, <2>2, <5>1 DEF Owes
        <5> QED BY <4>1, <5>1, <5>2
      <4>2. CASE x # s
        <5>1. Same(x)
          BY <1>2, <2>2, <4>2
        <5> QED BY <1>3, <2>2, <5>1 DEF Owes, Same, Still
      <4> QED BY <4>1, <4>2
    <3>2. Same(k) /\ x # GPID_ALL
      BY <2>1, <2>2, Numbers DEF Servers
    <3>3. k \in Scanned /\ at[k] # "spin" /\ (Live(k) => AwaitsReply(k, x))
      BY <2>2, <3>1 DEF UpInv, ReplyOwed
    <3> QED BY <3>2, <3>3 DEF AwaitsReply, Same, Still
  <2> QED BY <1>3, <2>2 DEF ReplyOwed, Apps
<1> QED BY <1>2, <1>5, <1>6, <1>7, <1>8, <1>9 DEF UpInv

LEMMA ServerStepKeeps ==
  ASSUME AllInv, UpInv, NEW s \in Servers, ServerStep(s), kpc' \notin Fatals
  PROVE  UpInv'
<1>0. UNCHANGED <<left, app_pid, shell_waiting, req, client, cmd, typed>> /\ s \in {2, 3}
  BY Numbers DEF ServerStep, Servers
<1>1. left' \in [Slots -> Int] /\ last_pid \in Nat /\ MaxPid \in Nat /\ last_pid <= MaxPid
      /\ 1 \in 1..MaxPid /\ "loop" \in Labels /\ "request" \in Labels
  <2>1. last_pid \in 1..MaxPid
    BY SlotFacts DEF UpInv
  <2>2. left \in [Slots -> Int]
    BY DEF UpInv, SlotInv
  <2> QED BY ONLY <1>0, <2>1, <2>2, Numbers DEF Labels
<1>2. ASSUME NEW l, At(s, l)
      PROVE  /\ curr = s /\ s \in Slots /\ s <= last_pid /\ ~Blocked(s) /\ at[s] = l /\ s \in Scanned /\ kpc = "user"
             /\ l # "init" => ~Due(s)
  <2>1. curr = s /\ s \in Slots /\ s <= last_pid /\ ~Blocked(s) /\ at[s] = l /\ s \in Scanned /\ kpc = "user"
    BY <1>0, <1>2, Running
  <2>2. l # "init" => ~Due(s)
    BY <2>1 DEF UpInv, BootInv, Sends
  <2> QED BY <2>1, <2>2
<1>3. CASE ServerInit(s)
  <2>1. At(s, "init") /\ Trap(SendTo(GPID_PROCESS, "finish"), "loop") /\ GPID_PROCESS \in 1..MaxPid
        /\ "finish" \in Contents
    BY <1>1, <1>3, ServersAssumption, Numbers DEF ServerInit
  <2>2. curr = s /\ s \in Slots /\ s <= last_pid /\ ~Blocked(s) /\ at[s] = "init"
    BY <1>2, <2>1
  <2>3. /\ Moves({curr}) /\ SlotInv' /\ Inboxes' /\ UNCHANGED <<pid, last_pid, call, curr>>
        /\ at'[curr] = "loop" /\ Blocked(curr)' /\ ~Waits(curr)'
        /\ \A q, d : Sends(curr, q, d)' <=> q = GPID_PROCESS /\ d = "finish"
    <3>1. PICK p \in 1..MaxPid, c \in Contents, l \in Labels : p = GPID_PROCESS /\ c = "finish" /\ l = "loop"
      BY <1>1, <2>1
    <3>2. \A k \in Slots \ {curr} : left'[k] = left[k]
      BY <1>0
    <3>3. Trap(SendTo(p, c), l)
      BY <2>1, <3>1
    <3>4. /\ Moves({curr}) /\ SlotInv' /\ Inboxes' /\ UNCHANGED <<pid, last_pid, call, curr>>
          /\ at'[curr] = l /\ Blocked(curr)' /\ ~Waits(curr)'
          /\ \A q, d : Sends(curr, q, d)' <=> q = p /\ d = c
      BY <1>1, <3>2, <3>3, SendStep
    <3> QED BY <3>1, <3>4
  <2>4. Sends(s, GPID_PROCESS, "finish")' /\ \A p : ~Owes(s, p)'
    BY <2>2, <2>3 DEF Owes
  <2>5. ServerLabels(s)' /\ Due(s)
    <3>1. Due(s)
      BY <2>2 DEF UpInv, BootInv
    <3>2. ServerLabels(s)'
      BY <2>2, <2>3, <2>4 DEF ServerLabels
    <3> QED BY <3>1, <3>2
  <2> QED BY <1>0, <2>2, <2>3, <2>4, <2>5, ServerMoves
<1>4. CASE ServerRecv(s)
  <2>1. At(s, "loop") /\ Trap(RecvFrom(GPID_ALL), "request")
    BY <1>4 DEF ServerRecv
  <2>2. curr = s /\ s \in Slots /\ s <= last_pid /\ ~Blocked(s) /\ at[s] = "loop" /\ ~Due(s)
    BY <1>2, <2>1
  <2>3. /\ Moves({curr}) /\ SlotInv' /\ Inboxes' /\ UNCHANGED <<pid, last_pid, call, curr>>
        /\ at'[curr] = "request" /\ WaitsFor(curr, GPID_ALL)' /\ Blocked(curr)' /\ \A q, d : ~Sends(curr, q, d)'
    BY <1>0, <1>1, <2>1, RecvStep
  <2>4. Waits(s)' /\ Blocked(s)' /\ \A p : ~Owes(s, p)'
    BY <2>2, <2>3 DEF WaitsFor, Owes
  <2>5. ServerLabels(s)' /\ ~Sends(s, GPID_PROCESS, "finish")'
    BY <2>2, <2>3, <2>4 DEF ServerLabels
  <2> QED BY <1>0, <2>2, <2>3, <2>4, <2>5, ServerMoves
<1>5. CASE (s = GPID_FILE /\ FileReply) \/ (s = GPID_TERMINAL /\ TerminalReply)
  <2>1. PICK c \in {"block", "line"}, d \in {"read", "input"} :
           /\ c = (IF s = GPID_FILE THEN "block" ELSE "line")
           /\ At(s, "request") /\ usr[curr].content = d /\ Trap(SendTo(usr[curr].sender, c), "loop")
    BY <1>5, Numbers DEF FileReply, TerminalReply, Message
  <2>2. curr = s /\ s \in Slots /\ s <= last_pid /\ ~Blocked(s) /\ at[s] = "request" /\ ~Due(s)
    BY <1>2, <2>1
  <2>3. PICK p : p = usr[s].sender
    OBVIOUS
  <2>4. /\ p \in Known \/ (s = GPID_FILE /\ p = GPID_PROCESS)
        /\ Owes(s, p)
    BY <1>0, <2>1, <2>2, <2>3, Numbers DEF UpInv, ServerInbox, Owes
  <2>5. p \in 1..MaxPid /\ c \in Contents /\ Trap(SendTo(p, c), "loop")
    <3>1. p \in 1..MaxPid
      BY ONLY <1>1, <2>4, Numbers DEF Known
    <3>2. c \in Contents
      BY ONLY <2>1, ServersAssumption
    <3> QED BY <2>1, <2>2, <2>3, <3>1, <3>2
  <2>6. /\ Moves({curr}) /\ SlotInv' /\ Inboxes' /\ UNCHANGED <<pid, last_pid, call, curr>>
        /\ at'[curr] = "loop" /\ Blocked(curr)' /\ ~Waits(curr)'
        /\ \A q, e : Sends(curr, q, e)' <=> q = p /\ e = c
    BY <1>0, <1>1, <2>5, SendStep
  <2>7. (\A q : Owes(s, q)' => q = p) /\ ~Sends(s, GPID_PROCESS, "finish")'
    BY <2>1, <2>2, <2>6 DEF Owes
  <2>8. ServerLabels(s)'
    BY <1>0, <2>1, <2>2, <2>4, <2>6, Numbers DEF ServerLabels, Known
  <2> QED BY <1>0, <2>2, <2>4, <2>6, <2>7, <2>8, ServerMoves
<1>6. CASE s = GPID_TERMINAL /\ TerminalPrint
  <2>1. At(s, "request") /\ Goto("loop") /\ UNCHANGED vars
    BY <1>6 DEF TerminalPrint
  <2>2. curr = s /\ s \in Slots /\ s <= last_pid /\ ~Blocked(s) /\ at[s] = "request" /\ ~Due(s) /\ kpc = "user"
    BY <1>2, <2>1
  <2>3. /\ Moves({curr}) /\ SlotInv' /\ Inboxes' /\ UNCHANGED <<pid, last_pid, call, curr>>
        /\ at'[curr] = "loop" /\ ~Blocked(curr)'
    BY <1>0, <1>1, <2>1, <2>2, LocalStep
  <2>4. ~Blocked(s)' /\ (\A p, c : ~Sends(s, p, c)') /\ at'[s] = "loop"
    BY <2>2, <2>3 DEF Sends
  <2>5. ServerLabels(s)' /\ \A p : ~Owes(s, p)'
    BY <2>4 DEF ServerLabels, Owes
  <2> QED BY <1>0, <2>2, <2>3, <2>4, <2>5, ServerMoves
<1> QED BY <1>3, <1>4, <1>5, <1>6 DEF ServerStep

\* The shell moves.
LEMMA ShellMoves ==
  ASSUME AllInv, UpInv, 4 <= last_pid, Moves({4}), SlotInv', Inboxes',
         UNCHANGED <<call, req, client, shell_waiting, app_pid>>, ShellState', ShellInbox',
         AwaitsAnswer => AwaitsAnswer' /\ cmd' = cmd, AwaitsEnd => AwaitsEnd' /\ cmd' = cmd,
         at'[4] = "prompt" /\ ~Blocked(4)' => cmd' # "spawn_fg"
  PROVE  UpInv'
<1>1. GPID_PROCESS \notin {4} /\ (\A p \in Servers : p \notin {4})
      /\ \A k \in {4} \cap Slots : pid[k] \notin Apps
  BY SlotFacts, Numbers DEF UpInv, Servers
<1>2. /\ ProcLabels' /\ CallLabels' /\ ProcInbox' /\ ServerState' /\ ServerInbox' /\ BootInv' /\ BlockOwed'
      /\ AppState' /\ ReplyOwed' /\ Same(GPID_PROCESS)
  BY <1>1, Frames, OwnSame
<1>3. TalkInv'
  <2>1. /\ AtService' <=> AtService
        /\ Serves(cmd) <=> Serves(cmd)
        /\ \A c : Answers(c)' <=> Answers(c)
        /\ at'[GPID_PROCESS] = at[GPID_PROCESS]
        /\ Booting' <=> Booting
    BY <1>2 DEF AtService, Serves, Answers, Booting, Same, Still
  <2>2. Serves(cmd) /\ cmd' = cmd => Serves(cmd)'
    BY <1>2 DEF Serves, Same, Still
  <2>3. (Gone(app_pid)' <=> Gone(app_pid)) /\ UNCHANGED <<pid, last_pid>>
    BY DEF Moves, Gone
  <2>4. TalkInv
    BY DEF UpInv
  <2>5. at'[GPID_PROCESS] = "free" => \E k \in Scanned : Live(k)' /\ pid'[k] \in Apps' /\ pid'[k] = client'
    <3>1. \A k \in Scanned : Live(k)' <=> Live(k)
      BY Numbers DEF Moves
    <3> QED BY <2>1, <2>3, <2>4, <3>1 DEF TalkInv, Apps
  <2>6. AtService' => Serves(cmd)' /\ AwaitsAnswer'
    BY <2>1, <2>2, <2>4 DEF TalkInv
  <2>7. \A c \in {"ok", "error"} : Answers(c)' =>
          /\ AwaitsAnswer' /\ c = (IF cmd' = "spawn_bad" THEN "error" ELSE "ok")
          /\ shell_waiting' = (cmd' = "spawn_fg")
    BY <2>1, <2>4 DEF TalkInv
  <2>8. at'[GPID_PROCESS] = "notify" \/ Answers("exit")' => AwaitsEnd' /\ Gone(app_pid)'
    BY <2>1, <2>3, <2>4 DEF TalkInv
  <2>9. ~AtService' /\ shell_waiting' /\ ~Gone(app_pid)' => AwaitsEnd' \/ (Answers("ok")' /\ cmd' = "spawn_fg")
    BY <2>1, <2>3, <2>4 DEF TalkInv
  <2>10. ~(at'[GPID_SHELL] = "prompt" /\ ~Blocked(GPID_SHELL)' /\ cmd' = "spawn_fg")
    BY Numbers
  <2> QED BY <2>1, <2>3, <2>4, <2>5, <2>6, <2>7, <2>8, <2>9, <2>10 DEF TalkInv
<1> QED BY <1>2, <1>3 DEF UpInv

LEMMA ShellStepKeeps ==
  ASSUME AllInv, UpInv, ShellStep \/ ShellPrompt, kpc' \notin Fatals
  PROVE  UpInv'
<1>0. PICK l \in {"cmd", "recv", "reply", "prompt"} : At(GPID_SHELL, l)
  BY DEF ShellStep, ShellSend, ShellRecv, ShellReply, ShellPrompt
<1>1. curr = 4 /\ 4 \in Slots /\ ~Blocked(4) /\ at[4] = l /\ 4 <= last_pid /\ kpc = "user"
  BY <1>0, Running, Numbers
<1>2. /\ UNCHANGED <<left, app_pid, shell_waiting, req, client>>
      /\ left' \in [Slots -> Int] /\ last_pid \in Nat /\ MaxPid \in Nat /\ last_pid <= MaxPid
      /\ GPID_PROCESS \in 1..MaxPid /\ {"cmd", "recv", "reply", "prompt"} \subseteq Labels
      /\ Spawns \cup {"killall"} \subseteq Contents
  <2>1. UNCHANGED <<left, app_pid, shell_waiting, req, client>>
    BY DEF ShellStep, ShellSend, ShellRecv, ShellReply, ShellPrompt
  <2>2. left' \in [Slots -> Int] /\ last_pid \in Nat /\ MaxPid \in Nat /\ last_pid <= MaxPid
    BY <2>1, SlotFacts, Numbers DEF UpInv, SlotInv
  <2>3. {"cmd", "recv", "reply", "prompt"} \subseteq Labels
    BY DEF Labels
  <2>5. Spawns \cup {"killall"} \subseteq Contents
    BY ServersAssumption DEF Spawns
  <2>4. GPID_PROCESS \in 1..MaxPid
    BY <1>1, <2>2, Numbers
  <2> QED BY <2>1, <2>2, <2>3, <2>4, <2>5
<1>3. cmd \in Spawns \cup {"killall"} /\ ShellLabels /\ ShellInbox /\ (at[4] \in {"recv", "reply"} => cmd \in Spawns)
  <2>1. cmd \in Spawns \cup {"killall"} /\ ShellLabels /\ ShellInbox
    BY <1>1, Numbers DEF UpInv, ShellState
  <2>2. at[4] \in {"recv", "reply"} => cmd \in Spawns
    BY <2>1, Numbers DEF ShellLabels
  <2> QED BY <2>1, <2>2
<1>4. CASE ShellSend
  <2>1. PICK m \in {"prompt", "recv"} : m = IF cmd = "killall" THEN "prompt" ELSE "recv"
    OBVIOUS
  <2>2. at[4] = "cmd" /\ Trap(SendTo(GPID_PROCESS, cmd), m) /\ cmd' = cmd /\ m \in Labels /\ cmd \in Contents
    BY <1>1, <1>2, <1>3, <1>4, <2>1, Numbers DEF ShellSend, At
  <2>3. /\ Moves({curr}) /\ SlotInv' /\ Inboxes' /\ UNCHANGED <<pid, last_pid, call, curr>>
        /\ at'[curr] = m /\ Blocked(curr)' /\ \A q, d : Sends(curr, q, d)' <=> q = GPID_PROCESS /\ d = cmd
    BY <1>2, <2>2, SendStep
  <2>4. at'[4] = m /\ Blocked(4)' /\ Sends(4, GPID_PROCESS, cmd)'
    BY <1>1, <2>2, <2>3
  <2>5. ShellState' /\ ShellInbox'
    <3>1. ShellLabels'
      <4>1. (cmd = "killall" /\ m = "prompt") \/ (cmd \in Spawns /\ m = "recv")
        BY <1>3, <2>1
      <4>2. GPID_SHELL = 4 /\ cmd' = cmd
        BY <2>2, Numbers
      <4> QED BY <2>4, <4>1, <4>2 DEF ShellLabels
    <3>2. ShellInbox'
      BY <2>4, Numbers DEF ShellInbox
    <3> QED BY <1>3, <2>2, <3>1, <3>2 DEF ShellState
  <2>6. ~AwaitsAnswer /\ ~AwaitsEnd
    BY <2>2, Numbers DEF AwaitsAnswer, AwaitsEnd
  <2> QED BY <1>1, <1>2, <2>3, <2>4, <2>5, <2>6, ShellMoves
<1>5. CASE ShellRecv
  <2>1. at[4] = "recv" /\ Trap(RecvFrom(GPID_PROCESS), "reply") /\ cmd' = cmd /\ "reply" \in Labels
    BY <1>1, <1>2, <1>5, Numbers DEF ShellRecv, At
  <2>2. /\ Moves({curr}) /\ SlotInv' /\ Inboxes' /\ UNCHANGED <<pid, last_pid, call, curr>>
        /\ at'[curr] = "reply" /\ WaitsFor(curr, GPID_PROCESS)' /\ Blocked(curr)'
    BY <1>2, <2>1, RecvStep
  <2>3. at'[4] = "reply" /\ Blocked(4)' /\ WaitsFor(4, GPID_PROCESS)'
    BY <1>1, <2>2
  <2>4. ShellState' /\ ShellInbox'
    <3>1. ShellLabels'
      BY <1>3, <2>1, <2>3, Numbers DEF ShellLabels
    <3>2. ShellInbox'
      BY <2>3, Numbers DEF ShellInbox
    <3> QED BY <1>3, <2>1, <3>1, <3>2 DEF ShellState
  <2>5. AwaitsAnswer' /\ ~AwaitsEnd
    BY <2>1, <2>3, Numbers DEF AwaitsAnswer, AwaitsEnd
  <2> QED BY <1>1, <1>2, <2>1, <2>2, <2>3, <2>4, <2>5, ShellMoves
<1>6. CASE ShellReply /\ usr[4].content = "ok" /\ cmd = "spawn_fg"
  <2>1. at[4] = "reply" /\ Trap(RecvFrom(GPID_PROCESS), "prompt") /\ cmd' = cmd /\ "prompt" \in Labels
    BY <1>1, <1>2, <1>6, Numbers DEF ShellReply, At, Message
  <2>2. /\ Moves({curr}) /\ SlotInv' /\ Inboxes' /\ UNCHANGED <<pid, last_pid, call, curr>>
        /\ at'[curr] = "prompt" /\ WaitsFor(curr, GPID_PROCESS)' /\ Blocked(curr)'
    BY <1>2, <2>1, RecvStep
  <2>3. at'[4] = "prompt" /\ Blocked(4)' /\ WaitsFor(4, GPID_PROCESS)'
    BY <1>1, <2>2
  <2>4. ShellState' /\ ShellInbox'
    <3>1. ShellLabels'
      BY <1>6, <2>1, <2>3, Numbers DEF ShellLabels
    <3>2. ShellInbox'
      BY <2>3, Numbers DEF ShellInbox
    <3> QED BY <1>3, <2>1, <3>1, <3>2 DEF ShellState
  <2>5. ~AwaitsAnswer /\ AwaitsEnd'
    BY <1>1, <1>6, <2>1, <2>3, Numbers DEF AwaitsAnswer, AwaitsEnd
  <2> QED BY <1>1, <1>2, <2>1, <2>2, <2>3, <2>4, <2>5, ShellMoves
<1>7. CASE ShellReply /\ ~(usr[4].content = "ok" /\ cmd = "spawn_fg")
  <2>1. at[4] = "reply" /\ Goto("prompt") /\ UNCHANGED vars /\ cmd' = cmd /\ "prompt" \in Labels
    BY <1>1, <1>2, <1>7, Numbers DEF ShellReply, At, Message
  <2>2. usr[4].content = (IF cmd = "spawn_bad" THEN "error" ELSE "ok") /\ cmd # "spawn_fg"
    BY <1>1, <1>3, <1>7, <2>1, Numbers DEF ShellInbox
  <2>3. /\ Moves({curr}) /\ SlotInv' /\ Inboxes' /\ UNCHANGED <<pid, last_pid, call, curr, usr>>
        /\ at'[curr] = "prompt" /\ ~Blocked(curr)'
    BY <1>1, <1>2, <2>1, LocalStep
  <2>4. at'[4] = "prompt" /\ ~Blocked(4)' /\ usr'[4] = usr[4]
    BY <1>1, <2>3
  <2>5. ShellState' /\ ShellInbox'
    <3>1. ShellLabels'
      BY <2>4, Numbers DEF ShellLabels
    <3>2. ShellInbox'
      BY <2>1, <2>2, <2>4, Numbers DEF ShellInbox
    <3> QED BY <1>3, <2>1, <3>1, <3>2 DEF ShellState
  <2>6. ~AwaitsAnswer /\ ~AwaitsEnd
    BY <1>1, <2>1, <2>2, Numbers DEF AwaitsAnswer, AwaitsEnd
  <2> QED BY <1>1, <1>2, <2>1, <2>2, <2>3, <2>4, <2>5, <2>6, ShellMoves
<1>8. CASE ShellPrompt
  <2>1. at[4] = "prompt" /\ Goto("cmd") /\ UNCHANGED vars /\ cmd' \in Spawns \cup {"killall"} /\ "cmd" \in Labels
    BY <1>1, <1>2, <1>8, Numbers, ServersAssumption DEF ShellPrompt, At, Spawns
  <2>2. /\ Moves({curr}) /\ SlotInv' /\ Inboxes' /\ UNCHANGED <<pid, last_pid, call, curr>>
        /\ at'[curr] = "cmd" /\ ~Blocked(curr)'
    BY <1>1, <1>2, <2>1, LocalStep
  <2>3. at'[4] = "cmd" /\ ~Blocked(4)'
    BY <1>1, <2>2
  <2>4. ShellState' /\ ShellInbox'
    <3>1. ShellLabels'
      BY <2>3, Numbers DEF ShellLabels
    <3>2. ShellInbox'
      BY <2>3, Numbers DEF ShellInbox
    <3> QED BY <2>1, <3>1, <3>2 DEF ShellState
  <2>5. ~AwaitsAnswer /\ ~AwaitsEnd
    BY <1>1, <2>1, Numbers DEF AwaitsAnswer, AwaitsEnd
  <2> QED BY <1>1, <1>2, <2>2, <2>3, <2>4, <2>5, ShellMoves
<1> QED BY <1>4, <1>5, <1>6, <1>7, <1>8 DEF ShellStep

LEMMA AppStepKeeps ==
  ASSUME AllInv, UpInv, NEW p \in Apps, AppStep(p), kpc' \notin Fatals
  PROVE  UpInv'
<1>0. PICK l \in {"run", "read_recv", "input_recv"} : At(p, l)
  BY DEF AppStep, AppRequest, AppRecv, AppExit
<1>1. PICK s \in Slots : s = curr
  BY SlotFacts DEF UpInv
<1>2. s \in Scanned /\ pid[s] \in Apps /\ at[s] = l /\ ~Blocked(s) /\ Live(s) /\ kpc = "user"
  BY <1>0, <1>1, Running
<1>3. /\ UNCHANGED <<app_pid, shell_waiting, req, client, cmd, typed>>
      /\ left' \in [Slots -> Int] /\ \A k \in Slots \ {curr} : left'[k] = left[k]
  <2>1. left \in [Slots -> Int] /\ (left' = left \/ left' = [left EXCEPT ![curr] = @ - 1])
    BY DEF AppStep, AppRequest, AppRecv, AppExit, UpInv, SlotInv
  <2>2. UNCHANGED <<app_pid, shell_waiting, req, client, cmd, typed>>
    BY DEF AppStep, AppRequest, AppRecv, AppExit
  <2> QED BY <1>1, <2>1, <2>2
<1>4. s \notin 1..4 /\ last_pid > 4 /\ last_pid \in Nat /\ MaxPid \in Nat /\ last_pid <= MaxPid
      /\ {"run", "read_recv", "input_recv", "spin"} \subseteq Labels
      /\ \A k \in Slots : pid[k] \in Apps => k \notin 1..4
  BY <1>2, SlotFacts, Numbers DEF UpInv, Labels
<1>5. \A x \in Servers : x <= last_pid /\ Owes(x, pid[s]) => AwaitsReply(s, x)
  BY <1>2 DEF UpInv, ReplyOwed
<1>6. ASSUME Moves({s}), SlotInv', Inboxes', UNCHANGED <<pid, last_pid, call, curr>>, AppLabels(s)', Blocked(s)',
             \A x \in Servers : AwaitsReply(s, x) => at'[s] # "spin" /\ AwaitsReply(s, x)'
      PROVE  UpInv'
  <2>1. GPID_PROCESS \notin {s} /\ GPID_SHELL \notin {s} /\ \A x \in Servers : x \notin {s}
    BY <1>4, Numbers DEF Servers
  <2>2. /\ ProcLabels' /\ CallLabels' /\ ProcInbox' /\ ServerState' /\ ServerInbox' /\ BootInv' /\ BlockOwed'
        /\ ShellState' /\ ShellInbox' /\ TalkInv' /\ \A x \in Servers : x <= last_pid => Same(x)
    BY <1>3, <1>6, <2>1, Frames, OwnSame
  <2>3. \A k \in Slots : pid[k] \in Apps /\ k # s => Same(k)
    BY <1>6 DEF Moves
  <2>4. AppState'
    BY <1>6, <2>3, OneApp
  <2>5. ReplyOwed'
    BY <1>2, <1>5, <1>6, <2>2, <2>3, OneApp
  <2> QED BY <1>6, <2>2, <2>4, <2>5 DEF UpInv
<1>7. ASSUME NEW d \in Contents, NEW q \in 1..MaxPid, NEW m \in Labels, Trap(SendTo(q, d), m), l = "run",
             \/ q = 2 /\ m = "run" /\ d = "print"
             \/ q = 3 /\ m = "read_recv" /\ d = "read"
             \/ q = 2 /\ m = "input_recv" /\ d = "input"
             \/ q = 1 /\ m = "spin" /\ d = "exit"
      PROVE  UpInv'
  <2>1. /\ Moves({curr}) /\ SlotInv' /\ Inboxes' /\ UNCHANGED <<pid, last_pid, call, curr>>
        /\ at'[curr] = m /\ Blocked(curr)' /\ \A r, c : Sends(curr, r, c)' <=> r = q /\ c = d
    BY <1>3, <1>7, SendStep
  <2>2. Blocked(s)' /\ at'[s] = m /\ Sends(s, q, d)'
    BY <1>1, <2>1
  <2>3. AppLabels(s)'
    BY <1>7, <2>2, Numbers DEF AppLabels
  <2>4. \A x \in Servers : ~AwaitsReply(s, x)
    BY <1>2, <1>7 DEF AwaitsReply, WaitsFor, Waits
  <2> QED BY <1>1, <1>6, <2>1, <2>2, <2>3, <2>4
<1>8. ASSUME NEW q \in {2, 3}, Trap(RecvFrom(q), "run"), l = (IF q = 3 THEN "read_recv" ELSE "input_recv")
      PROVE  UpInv'
  <2>1. q \in 1..MaxPid \cup {GPID_ALL} /\ "run" \in Labels
    BY <1>4
  <2>2. /\ Moves({curr}) /\ SlotInv' /\ Inboxes' /\ UNCHANGED <<pid, last_pid, call, curr>>
        /\ at'[curr] = "run" /\ WaitsFor(curr, q)' /\ Blocked(curr)'
    BY <1>3, <1>8, <2>1, RecvStep
  <2>3. Blocked(s)' /\ at'[s] = "run" /\ WaitsFor(s, q)'
    BY <1>1, <2>2
  <2>4. AppLabels(s)'
    BY <2>3, Numbers DEF AppLabels, Servers
  <2>5. \A x \in Servers : AwaitsReply(s, x) => x = q
    BY <1>2, <1>8, Numbers DEF AwaitsReply, Servers
  <2>6. AwaitsReply(s, q)'
    BY <2>3 DEF AwaitsReply
  <2> QED BY <1>1, <1>6, <2>2, <2>3, <2>4, <2>5, <2>6
<1>9. CASE AppRequest(p)
  <2>1. PICK op \in {"read", "print", "input"} :
          Trap(SendTo(IF op = "read" THEN GPID_FILE ELSE GPID_TERMINAL, op),
               CASE op = "read" -> "read_recv" [] op = "input" -> "input_recv" [] OTHER -> "run")
    BY <1>9, ServersAssumption DEF AppRequest
  <2>2. l = "run" /\ op \in Contents /\ 2 \in 1..MaxPid /\ 3 \in 1..MaxPid
    BY <1>1, <1>2, <1>4, <1>9, ServersAssumption DEF AppRequest, At
  <2>3. CASE op = "read"
    BY <1>4, <1>7, <2>1, <2>2, <2>3, Numbers
  <2>4. CASE op = "input"
    BY <1>4, <1>7, <2>1, <2>2, <2>4, Numbers
  <2>5. CASE op = "print"
    BY <1>4, <1>7, <2>1, <2>2, <2>5, Numbers
  <2> QED BY <2>3, <2>4, <2>5
<1>10. CASE AppRecv(p)
  BY <1>1, <1>2, <1>8, <1>10, Numbers DEF AppRecv, At
<1>11. CASE AppExit(p)
  <2>1. Trap(SendTo(GPID_PROCESS, "exit"), "spin") /\ l = "run" /\ "exit" \in Contents /\ GPID_PROCESS \in 1..MaxPid
    BY <1>1, <1>2, <1>4, <1>11, ServersAssumption, Numbers DEF AppExit, At
  <2> QED BY <1>4, <1>7, <2>1, Numbers
<1> QED BY <1>9, <1>10, <1>11 DEF AppStep

-----------------------------------------------------------------------------
(* The grass interface.                                                    *)

\* GPID_PROCESS in user mode: where it is, and what it is doing in the interface.
LEMMA ProcRuns ==
  ASSUME AllInv, UpInv, NEW l, At(GPID_PROCESS, l)
  PROVE  /\ curr = 1 /\ 1 \in Slots /\ kpc = "user" /\ Live(1) /\ ~Blocked(1) /\ at[1] = l
         /\ status[1] = "RUNNING" /\ last_pid \in Nat /\ last_pid <= MaxPid /\ MaxPid \in Nat
<1>1. curr = 1 /\ 1 \in Slots /\ kpc = "user" /\ Live(1) /\ ~Blocked(1) /\ at[1] = l
  BY Running, Numbers
<1>2. status[1] = "RUNNING"
  BY <1>1, UserFacts DEF AllInv
<1>3. last_pid \in 1..MaxPid /\ MaxPid \in Nat
  BY SlotFacts, Numbers DEF UpInv
<1> QED BY <1>1, <1>2, <1>3

\* GPID_PROCESS has moved in the interface, and no slot has changed.
LEMMA CallStep ==
  ASSUME AllInv, UpInv, curr = 1, kpc = "user", NEW l \in Labels, Goto(l),
         UNCHANGED <<left, pid, status, syscall, usr, curr, last_pid>>
  PROVE  /\ Moves({1}) /\ SlotInv' /\ Inboxes' /\ at'[1] = l /\ ~Blocked(1) /\ ~Blocked(1)'
         /\ \A k \in Slots : Still(k) /\ (Live(k)' <=> Live(k))
<1>1. 1 \in Slots /\ status[1] = "RUNNING"
  BY UserFacts, Numbers DEF AllInv
<1>2. \A k \in Slots : Still(k) /\ (Live(k)' <=> Live(k))
  BY DEF Live, Still, Blocked, Sends, Waits, WaitsFor
<1>3. Live(curr) /\ Live(curr)' /\ status'[curr] \in Started /\ ~Blocked(1) /\ ~Blocked(1)'
  BY <1>1 DEF Live, Blocked, Started
<1>4. left' \in [Slots -> Int] /\ \A k \in Slots \ {curr} : left'[k] = left[k] /\ usr'[k] = usr[k] /\ Still(k)
  BY <1>2 DEF UpInv, SlotInv
<1>5. Moves({1}) /\ SlotInv' /\ at'[1] = l
  BY <1>1, <1>3, <1>4, Step
<1>6. Inboxes'
  BY DEF UpInv, Inboxes, Blocked
<1> QED BY <1>2, <1>3, <1>5, <1>6

\* GPID_PROCESS starts to free a process that has exited.
LEMMA ProcExitKeeps ==
  ASSUME AllInv, UpInv, ProcExit
  PROVE  UpInv'
<1>0. /\ At(GPID_PROCESS, "request") /\ usr[curr].content = "exit" /\ call.op = "none"
      /\ call' = [op |-> "freeing", arg |-> usr[curr].sender] /\ client' = usr[curr].sender
      /\ Goto("free") /\ UNCHANGED <<left, app_pid, shell_waiting, cmd, typed>>
      /\ UNCHANGED <<pid, status, syscall, usr, curr, last_pid>>
  BY DEF ProcExit, proc_free, InProcess, Message
<1>1. curr = 1 /\ kpc = "user" /\ at[1] = "request" /\ "free" \in Labels
  BY <1>0, ProcRuns DEF Labels
<1>2. /\ Moves({1}) /\ SlotInv' /\ Inboxes' /\ at'[1] = "free" /\ ~Blocked(1) /\ ~Blocked(1)'
      /\ \A k \in Slots : Still(k) /\ (Live(k)' <=> Live(k))
  BY <1>0, <1>1, CallStep
<1>3. ~Booting /\ ~Booting' /\ last_pid >= 4
  BY <1>1, <1>2, BootOver, Numbers DEF Booting
<1>4. ProcLabels' /\ CallLabels' /\ ProcInbox'
  <2>1. ProcLabels'
    BY <1>2, Numbers DEF ProcLabels
  <2>2. CallLabels'
    <3>1. call'.op = "freeing" /\ call'.arg = client'
      BY <1>0
    <3> QED BY <1>0, <1>2, <1>3, <3>1, Numbers DEF CallLabels
  <2>3. ProcInbox'
    BY <1>2, Numbers DEF ProcInbox
  <2> QED BY <2>1, <2>2, <2>3
<1>5. TalkInv'
  <2>1. PICK k \in Scanned : Live(k) /\ pid[k] \in Apps /\ pid[k] = client'
    BY <1>0, <1>1, <1>2, Numbers DEF UpInv, ProcInbox, Spawns
  <2>2. Live(k)' /\ pid'[k] \in Apps /\ pid'[k] = client'
    BY <1>0, <1>2, <2>1, Numbers
  <2>3. \E j \in Scanned : Live(j)' /\ pid'[j] \in Apps /\ pid'[j] = client'
    BY <2>1, <2>2
  <2>4. ~AtService /\ ~AtService' /\ (\A c : ~Answers(c)) /\ (\A c : ~Answers(c)') /\ at'[GPID_PROCESS] # "notify"
    BY <1>0, <1>1, <1>2, Numbers DEF AtService, Answers, Sends, Spawns
  <2>5. Same(GPID_SHELL)
    BY <1>0, <1>2, <1>3, ProcMoves, Numbers
  <2>6. /\ AwaitsEnd' <=> AwaitsEnd
        /\ at'[GPID_SHELL] = at[GPID_SHELL] /\ (Blocked(GPID_SHELL)' <=> Blocked(GPID_SHELL))
    BY <1>0, <2>5 DEF AwaitsEnd, Same, Still
  <2>7. (Gone(app_pid)' <=> Gone(app_pid)) /\ TalkInv
    BY <1>0, <1>2 DEF Gone, UpInv
  <2> QED BY <1>0, <1>3, <2>3, <2>4, <2>6, <2>7 DEF TalkInv, Apps
<1>6. ~AwaitsBlock
  BY <1>1, Numbers DEF AwaitsBlock
<1> QED BY <1>0, <1>2, <1>3, <1>4, <1>5, <1>6, ProcDone

\* Between its requests and killall, GPID_PROCESS does nothing that others see.
LEMMA KillAllCall ==
  ASSUME AllInv, UpInv, NEW m, At(GPID_PROCESS, m), m \in {"request", "killall"},
         m = "request" => usr[curr].content = "killall", NEW l \in {"killall", "loop"}, Goto(l),
         UNCHANGED <<left, app_pid, shell_waiting, cmd, pid, status, syscall, usr, curr, last_pid>>,
         l = "loop" => call'.op = "none",
         l = "killall" => call'.op = "killall" \/ (call'.op = "killing" /\ pid'[call'.arg] \in Apps)
  PROVE  UpInv'
<1>1. curr = 1 /\ kpc = "user" /\ at[1] = m /\ l \in Labels
  BY ProcRuns DEF Labels
<1>2. /\ Moves({1}) /\ SlotInv' /\ Inboxes' /\ at'[1] = l /\ ~Blocked(1) /\ ~Blocked(1)'
      /\ \A k \in Slots : Still(k) /\ (Live(k)' <=> Live(k))
  BY <1>1, CallStep
<1>3. ~Booting /\ ~Booting' /\ last_pid >= 4
  BY <1>1, <1>2, BootOver, Numbers DEF Booting
<1>4. ProcLabels' /\ CallLabels' /\ ProcInbox'
  <2>1. ProcLabels'
    BY <1>2, Numbers DEF ProcLabels
  <2>2. CallLabels'
    BY <1>2, <1>3, Numbers DEF CallLabels, Apps
  <2>3. ProcInbox'
    BY <1>2, Numbers DEF ProcInbox
  <2> QED BY <2>1, <2>2, <2>3
<1>5. TalkInv'
  <2>1. ~AtService /\ ~AtService' /\ (\A c : ~Answers(c)) /\ (\A c : ~Answers(c)')
    BY <1>1, <1>2, Numbers DEF AtService, Answers, Sends, Spawns
  <2>2. at'[GPID_PROCESS] \notin {"notify", "free"} /\ Same(GPID_SHELL) /\ GPID_SHELL <= last_pid
    BY <1>2, <1>3, ProcMoves, Numbers
  <2> QED BY <1>2, <1>3, <2>1, <2>2, TalkIdle
<1>6. ~AwaitsBlock
  BY <1>1, Numbers DEF AwaitsBlock
<1> QED BY <1>2, <1>3, <1>4, <1>5, <1>6, ProcDone

LEMMA ProcKillAllKeeps ==
  ASSUME AllInv, UpInv, ProcKillAll
  PROVE  UpInv'
<1>1. /\ At(GPID_PROCESS, "request") /\ usr[curr].content = "killall" /\ Goto("killall")
      /\ call' = [op |-> "killall", arg |-> 0]
      /\ UNCHANGED <<left, app_pid, shell_waiting, cmd, pid, status, syscall, usr, curr, last_pid>>
  BY DEF ProcKillAll, KillAll, Message, procVars
<1>2. call'.op = "killall"
  BY <1>1
<1> QED BY <1>1, <1>2, KillAllCall

\* The end of the loop of killall, and its next victim.
LEMMA KillAllEndKeeps ==
  ASSUME AllInv, UpInv, At(GPID_PROCESS, "killall"), KillAllEnd, Goto("loop"),
         UNCHANGED <<left, app_pid, shell_waiting, cmd>>
  PROVE  UpInv'
<1>1. UNCHANGED <<pid, status, syscall, usr, curr, last_pid>> /\ call'.op = "none"
  BY DEF KillAllEnd, procVars, NoCall
<1> QED BY <1>1, KillAllCall

LEMMA KillAllUnmapKeeps ==
  ASSUME AllInv, UpInv, At(GPID_PROCESS, "killall"), KillAllUnmap,
         UNCHANGED <<at, left, app_pid, shell_waiting, cmd>>
  PROVE  UpInv'
<1>1. PICK k : k = First(UserSlots(call.arg))
  OBVIOUS
<1>2. /\ call.op = "killall" /\ UserSlots(call.arg) # {} /\ call' = [op |-> "killing", arg |-> k]
      /\ UNCHANGED <<pid, status, syscall, usr, curr, last_pid>>
  BY <1>1 DEF KillAllUnmap, InProcess
<1>3. call.arg \in Nat /\ at \in [Slots -> Labels] /\ pid \in [Slots -> Pids]
  <2>1. call \in Calls /\ pid \in [Slots -> Pids]
    BY DEF AllInv, IInv, TypeOK
  <2>2. call.arg \in Slots
    BY <1>2, <2>1, Numbers DEF Calls
  <2>3. call.arg \in Nat
    BY ONLY <2>2, Numbers
  <2> QED BY <2>1, <2>3 DEF UpInv, SlotInv
<1>4. UserSlots(call.arg) \in SUBSET Nat
  BY <1>3, Numbers DEF UserSlots
<1>5. k \in UserSlots(call.arg)
  BY <1>1, <1>2, <1>4, FirstIsIn
<1>6. k \in Slots /\ pid[k] >= 5
  BY <1>3, <1>5, Numbers DEF UserSlots, UserAlive
<1>7. pid'[call'.arg] \in Apps /\ call'.op = "killing"
  <2>1. pid[k] \in 0..MaxPid
    BY <1>3, <1>6, Numbers
  <2>2. call'.arg = k /\ call'.op = "killing" /\ pid' = pid
    BY <1>2
  <2> QED BY <1>6, <2>1, <2>2, Numbers DEF Apps
<1>8. curr \in Slots /\ at[curr] = "killall"
  BY ProcRuns
<1>9. Goto("killall")
  BY <1>3, <1>8 DEF Goto
<1> QED BY <1>2, <1>7, <1>9, KillAllCall

\* The end of an application.
LEMMA DeathStep ==
  ASSUME AllInv, UpInv, kpc = "user", curr = 1, at[1] \in {"free", "killall"},
         NEW d \in Slots, pid[d] \in Apps, status' = [status EXCEPT ![d] = "UNUSED"],
         NEW l \in {"notify", "loop", "killall"}, Goto(l),
         UNCHANGED <<pid, syscall, usr, curr, last_pid, left, cmd>>
  PROVE  /\ SlotInv' /\ Inboxes' /\ ServerState' /\ ServerInbox' /\ ShellState' /\ ShellInbox'
         /\ AppState' /\ ReplyOwed' /\ BootInv' /\ BlockOwed' /\ Same(GPID_SHELL)
         /\ at'[1] = l /\ ~Blocked(1) /\ ~Blocked(1)' /\ ~Booting /\ ~Booting' /\ last_pid > 4
         /\ ~Live(d)' /\ \A k \in Slots : Live(k)' => Live(k)
         /\ d \notin 1..4 /\ \A k \in Slots \ {d, 1} : Same(k)
<1>1. /\ last_pid \in Nat /\ last_pid > 4 /\ d \notin 1..4 /\ 1 \in Slots /\ pid[1] = 1 /\ status[1] = "RUNNING"
      /\ \A p \in 1..4 : p \in Slots /\ pid[p] = p /\ Live(p)
  <2>1. /\ last_pid \in 1..MaxPid /\ MaxPid \in Nat /\ d \notin 1..4 /\ last_pid > 4 /\ 1 \in Slots /\ pid[1] = 1
        /\ \A p \in 1..4 : p <= last_pid => p \in Slots /\ pid[p] = p /\ Live(p)
    BY SlotFacts, Numbers DEF UpInv
  <2>2. status[1] = "RUNNING"
    BY UserFacts DEF AllInv
  <2> QED BY <2>1, <2>2
<1>2. status \in [Slots -> Statuses] /\ at \in [Slots -> Labels] /\ left \in [Slots -> Int] /\ l \in Labels
  BY DEF AllInv, IInv, TypeOK, UpInv, SlotInv, Labels
<1>3. /\ status'[d] = "UNUSED" /\ \A k \in Slots \ {d} : status'[k] = status[k]
      /\ at'[1] = l /\ at' \in [Slots -> Labels] /\ \A k \in Slots \ {1} : at'[k] = at[k]
  BY <1>1, <1>2 DEF Goto
<1>4. \A k \in Slots \ {d} : Still(k)
  BY <1>3 DEF Still, Live, Blocked, Sends, Waits, WaitsFor
<1>5. \A k \in Slots \ {d, 1} : Same(k)
  BY <1>3, <1>4 DEF Same
<1>6. /\ ~Live(d)' /\ (\A k \in Slots : Live(k)' => Live(k)) /\ ~Blocked(1) /\ ~Blocked(1)'
      /\ ~(status'[d] \in Started) /\ \A k \in Slots : Blocked(k)' => Blocked(k)
  BY <1>1, <1>3 DEF Live, Blocked, Started
<1>7. ~Booting /\ ~Booting'
  BY <1>3, Numbers DEF Booting
<1>8. SlotInv'
  <2>1. \A p \in GPID_PROCESS..GPID_SHELL : p \in Slots /\ pid[p] = p /\ Live(p)'
    BY <1>1, <1>3, Numbers DEF Live
  <2>2. last_pid > GPID_SHELL => GPID_SHELL \in Scanned
    BY DEF UpInv, SlotInv
  <2>3. \A k \in Slots : Live(k)' => k \in 1..last_pid
    BY <1>6 DEF UpInv, SlotInv
  <2>4. last_pid # GPID_SHELL /\ UNCHANGED <<pid, last_pid>>
    BY <1>1, Numbers
  <2>5. left' \in [Slots -> Int] /\ at' \in [Slots -> Labels]
    BY <1>2, <1>3
  <2> QED BY ONLY <2>1, <2>2, <2>3, <2>4, <2>5 DEF SlotInv
<1>9. Inboxes'
  BY <1>6 DEF UpInv, Inboxes
<1>10. (\A p \in Servers : Same(p)) /\ Same(GPID_SHELL)
  BY <1>1, <1>5, Numbers DEF Servers
<1>11. ServerState' /\ ServerInbox' /\ ShellState' /\ ShellInbox'
  BY <1>10, ServerFrame, ShellFrame DEF UpInv
<1>12. AppState' /\ ReplyOwed'
  <2>1. \A k \in Slots : pid[k] \in Apps /\ k # d => Same(k)
    BY <1>1, <1>5, Numbers DEF Apps
  <2>2. \A x \in Servers : x <= last_pid /\ Owes(x, pid[d]) => d \in Scanned /\ at'[d] # "spin"
    BY <1>1, <1>3 DEF UpInv, ReplyOwed
  <2> QED BY <1>6, <1>10, <2>1, <2>2, OneApp
<1>13. BootInv' /\ BlockOwed'
  <2>1. ~AwaitsBlock
    BY Numbers DEF AwaitsBlock
  <2> QED BY <1>1, <1>7, <1>10, <2>1, ProcServers
<1> QED BY <1>1, <1>3, <1>5, <1>6, <1>7, <1>8, <1>9, <1>10, <1>11, <1>12, <1>13

LEMMA ProcExitEndKeeps ==
  ASSUME AllInv, UpInv, ProcExitEnd
  PROVE  UpInv'
<1>0. PICK l \in {"notify", "loop"} : l = IF shell_waiting /\ app_pid = client THEN "notify" ELSE "loop"
  OBVIOUS
<1>1. /\ At(GPID_PROCESS, "free") /\ call' = NoCall /\ status' = proc_set_status(status, call.arg, "UNUSED")
      /\ Goto(l) /\ UNCHANGED <<left, app_pid, shell_waiting, req, client, cmd, typed>>
      /\ UNCHANGED <<pid, syscall, usr, curr, last_pid>>
  BY <1>0 DEF ProcExitEnd, ProcFreeEnd
<1>2. curr = 1 /\ kpc = "user" /\ at[1] = "free"
  BY <1>1, ProcRuns
<1>3. PICK d \in Scanned : Live(d) /\ pid[d] \in Apps /\ pid[d] = client
  BY <1>2, Numbers DEF UpInv, TalkInv
<1>4. call.arg = pid[d] /\ d \in Slots /\ pid[d] # GPID_UNUSED
  BY <1>2, <1>3, Numbers DEF UpInv, CallLabels, Apps
<1>5. status' = [status EXCEPT ![d] = "UNUSED"]
  BY <1>1, <1>4, SetStatusOne DEF AllInv, IInv, TypeOK
<1>6. /\ SlotInv' /\ Inboxes' /\ ServerState' /\ ServerInbox' /\ ShellState' /\ ShellInbox'
      /\ AppState' /\ ReplyOwed' /\ BootInv' /\ BlockOwed' /\ Same(GPID_SHELL)
      /\ at'[1] = l /\ ~Blocked(1) /\ ~Blocked(1)' /\ ~Booting /\ ~Booting' /\ last_pid > 4
      /\ ~Live(d)' /\ \A k \in Slots : Live(k)' => Live(k)
  <2>1. l \in {"notify", "loop", "killall"} /\ at[1] \in {"free", "killall"}
    BY <1>2
  <2> QED BY <1>1, <1>2, <1>3, <1>4, <1>5, <2>1, DeathStep
<1>7. last_pid \in Nat
  BY SlotFacts, Numbers DEF UpInv
<1>8. ProcLabels' /\ CallLabels' /\ ProcInbox'
  <2>1. ProcLabels'
    BY <1>6, Numbers DEF ProcLabels
  <2>2. CallLabels'
    BY <1>1, <1>6, <1>7, Numbers DEF CallLabels, NoCall
  <2>3. ProcInbox'
    BY <1>6, Numbers DEF ProcInbox
  <2> QED BY <2>1, <2>2, <2>3
<1>9. TalkInv'
  <2>1. ~AtService /\ ~AtService' /\ (\A c : ~Answers(c)) /\ (\A c : ~Answers(c)') /\ at'[GPID_PROCESS] # "free"
    BY <1>2, <1>6, Numbers DEF AtService, Answers, Sends
  <2>2. /\ AwaitsEnd' <=> AwaitsEnd
        /\ at'[GPID_SHELL] = at[GPID_SHELL] /\ (Blocked(GPID_SHELL)' <=> Blocked(GPID_SHELL))
    BY <1>1, <1>6 DEF AwaitsEnd, Same, Still
  <2>3. (Gone(app_pid) => Gone(app_pid)') /\ TalkInv
    BY <1>1, <1>6 DEF Gone, UpInv
  <2>4. at'[GPID_PROCESS] = "notify" => AwaitsEnd' /\ Gone(app_pid)'
    <3>1. SUFFICES ASSUME at'[GPID_PROCESS] = "notify" PROVE AwaitsEnd' /\ Gone(app_pid)'
      OBVIOUS
    <3>2. shell_waiting /\ app_pid = client
      BY <1>0, <1>6, <3>1, Numbers
    <3>3. ~Gone(app_pid)
      BY <1>3, <1>4, <3>2 DEF Gone
    <3>4. AwaitsEnd
      BY <2>1, <2>3, <3>2, <3>3 DEF TalkInv
    <3>5. \A k \in Slots : pid[k] = pid[d] => k = d
      BY <1>4 DEF AllInv, IInv, PidInv
    <3>6. Gone(app_pid)'
      BY <1>1, <1>3, <1>6, <3>2, <3>5 DEF Gone
    <3> QED BY <2>2, <3>4, <3>6
  <2> QED BY <1>1, <1>6, <2>1, <2>2, <2>3, <2>4 DEF TalkInv
<1> QED BY <1>1, <1>6, <1>8, <1>9 DEF UpInv

LEMMA KillAllMarkKeeps ==
  ASSUME AllInv, UpInv, At(GPID_PROCESS, "killall"), KillAllMark,
         UNCHANGED <<at, left, app_pid, shell_waiting, cmd>>
  PROVE  UpInv'
<1>0. PICK d : d = call.arg
  OBVIOUS
<1>1. /\ call.op = "killing" /\ status' = [status EXCEPT ![d] = "UNUSED"] /\ call' = [op |-> "killall", arg |-> d + 1]
      /\ UNCHANGED <<pid, syscall, usr, curr, last_pid>>
  BY <1>0 DEF KillAllMark, InProcess
<1>2. curr = 1 /\ kpc = "user" /\ at[1] = "killall" /\ 1 \in Slots
  BY ProcRuns
<1>3. d \in Scanned /\ pid[d] \in Apps
  <2>1. call \in Calls
    BY DEF AllInv, IInv, TypeOK
  <2> QED BY <1>0, <1>1, <1>2, <2>1, Numbers DEF Calls, UpInv, CallLabels
<1>4. Goto("killall")
  BY <1>2 DEF Goto, UpInv, SlotInv
<1>5. /\ SlotInv' /\ Inboxes' /\ ServerState' /\ ServerInbox' /\ ShellState' /\ ShellInbox'
      /\ AppState' /\ ReplyOwed' /\ BootInv' /\ BlockOwed' /\ Same(GPID_SHELL)
      /\ at'[1] = "killall" /\ ~Blocked(1) /\ ~Blocked(1)' /\ ~Booting /\ ~Booting' /\ last_pid > 4
      /\ ~Live(d)' /\ \A k \in Slots : Live(k)' => Live(k)
  <2>1. d \in Slots /\ at[1] \in {"free", "killall"}
    BY <1>2, <1>3, Numbers
  <2> QED BY <1>1, <1>2, <1>3, <1>4, <2>1, DeathStep
<1>6. last_pid \in Nat
  BY SlotFacts, Numbers DEF UpInv
<1>7. ProcLabels' /\ CallLabels' /\ ProcInbox'
  <2>1. ProcLabels'
    BY <1>5, Numbers DEF ProcLabels
  <2>2. CallLabels'
    BY <1>1, <1>5, <1>6, Numbers DEF CallLabels
  <2>3. ProcInbox'
    BY <1>5, Numbers DEF ProcInbox
  <2> QED BY <2>1, <2>2, <2>3
<1>8. TalkInv'
  <2>1. ~AtService /\ ~AtService' /\ (\A c : ~Answers(c)) /\ (\A c : ~Answers(c)')
    BY <1>2, <1>5, Numbers DEF AtService, Answers, Sends
  <2>2. at'[GPID_PROCESS] \notin {"notify", "free"} /\ GPID_SHELL <= last_pid
    BY <1>5, <1>6, Numbers
  <2> QED BY <1>1, <1>5, <2>1, <2>2, TalkIdle
<1> QED BY <1>5, <1>7, <1>8 DEF UpInv

\* The process being loaded is the one started last, and has not run.
LEMMA BeingLoaded ==
  ASSUME AllInv, UpInv, call.op \in {"loading", "loaded"}, ~Blocked(1)
  PROVE  /\ at[1] \in {"boot", "load", "load_recv"} /\ call.arg = last_pid
         /\ at[1] = "boot" => last_pid > 1 /\ last_pid <= 4
         /\ at[1] # "boot" => last_pid > 4
         /\ \A k \in Slots : pid[k] = last_pid => status[k] = "LOADING" /\ k # 1 /\ pid[k] # 1
         /\ \A p \in Servers : p = last_pid => status[p] = "LOADING" /\ at[p] = "init"
         /\ 4 = last_pid => status[4] = "LOADING" /\ at[4] = "cmd"
         /\ last_pid > 4 => 4 \in Slots /\ pid[4] # last_pid
<1>1. /\ at[1] \in {"boot", "load", "load_recv"} /\ call.arg = last_pid
      /\ at[1] = "boot" => last_pid > 1 /\ last_pid <= 4
      /\ at[1] # "boot" => last_pid > 4
  BY Numbers DEF UpInv, CallLabels
<1>2. last_pid \in Nat /\ last_pid > 1 /\ \A p \in 1..4 : p <= last_pid => p \in Slots /\ pid[p] = p
  <2>1. /\ last_pid \in 1..MaxPid /\ MaxPid \in Nat
        /\ \A p \in 1..4 : p <= last_pid => p \in Slots /\ pid[p] = p
    BY SlotFacts, Numbers DEF UpInv
  <2> QED BY <1>1, <2>1
<1>3. \A k \in Slots : pid[k] = last_pid => status[k] = "LOADING" /\ k # 1 /\ pid[k] # 1
  BY <1>1, <1>2 DEF AllInv, LoadInv
<1>4. ASSUME NEW p \in Servers, p = last_pid PROVE status[p] = "LOADING" /\ at[p] = "init"
  <2>1. p \in 1..4 /\ p \in Slots /\ pid[p] = p
    BY <1>2, <1>4, Numbers DEF Servers
  <2>2. status[p] = "LOADING" /\ Due(p)
    BY <1>3, <1>4, <2>1 DEF Due
  <2>3. at[p] = "init" \/ Sends(p, GPID_PROCESS, "finish")
    BY <1>2, <1>4, <2>2 DEF UpInv, BootInv
  <2> QED BY <2>2, <2>3 DEF Sends, Blocked
<1>5. ASSUME 4 = last_pid PROVE status[4] = "LOADING" /\ at[4] = "cmd"
  <2>1. status[4] = "LOADING"
    BY <1>2, <1>3, <1>5
  <2> QED BY <1>5, <2>1, Numbers DEF UpInv, SlotInv, Started
<1>6. last_pid > 4 => 4 \in Slots /\ pid[4] # last_pid
  BY <1>2
<1> QED BY <1>1, <1>3, <1>4, <1>5, <1>6

LEMMA SpawnLoadKeeps ==
  ASSUME AllInv, UpInv, SpawnLoad
  PROVE  UpInv'
<1>1. /\ \E l \in {"boot", "load"} : At(GPID_PROCESS, l)
      /\ call.op = "loading" /\ call' = [call EXCEPT !.op = "loaded"]
      /\ usr' = [k \in Slots |-> IF pid[k] = call.arg THEN NoMsg ELSE usr[k]]
      /\ UNCHANGED <<pid, status, syscall, last_pid, progVars>>
  BY DEF SpawnLoad, elf_load, InProcess
<1>2. 1 \in Slots /\ ~Blocked(1) /\ at[1] \in {"boot", "load"} /\ last_pid \in Nat
  BY <1>1, ProcRuns
<1>3. call'.op = "loaded" /\ call'.arg = call.arg
  <2>1. call \in Calls
    BY DEF AllInv, IInv, TypeOK
  <2> QED BY <1>1, <2>1 DEF Calls
<1>4. UNCHANGED <<at, left, app_pid, shell_waiting, req, client, cmd, typed>>
  BY <1>1 DEF progVars
<1>5. /\ call.arg = last_pid
      /\ \A k \in Slots : pid[k] = last_pid => status[k] = "LOADING" /\ k # 1 /\ pid[k] # 1
      /\ \A p \in Servers : p = last_pid => status[p] = "LOADING" /\ at[p] = "init"
      /\ 4 = last_pid => status[4] = "LOADING" /\ at[4] = "cmd"
      /\ last_pid > 4 => 4 \in Slots /\ pid[4] # last_pid
  BY <1>1, <1>2, BeingLoaded
<1>6. \A k \in Slots : Still(k) /\ (Live(k)' <=> Live(k)) /\ (Blocked(k)' <=> Blocked(k))
  BY <1>1 DEF Live, Still, Blocked, Sends, Waits, WaitsFor
<1>7. \A k \in Slots : pid[k] # last_pid => Same(k)
  BY <1>1, <1>4, <1>5, <1>6 DEF Same
<1>8. ~Blocked(1) /\ Same(1) /\ Same(GPID_PROCESS)
  BY <1>2, <1>5, <1>7, Numbers
<1>9. /\ \A p \in Servers : p <= last_pid => p \in Slots /\ Still(p) /\ (Same(p) \/ at[p] = "init")
      /\ GPID_SHELL <= last_pid => GPID_SHELL \in Slots /\ Still(GPID_SHELL) /\ (Same(GPID_SHELL) \/ at[GPID_SHELL] = "cmd")
  <2>1. \A p \in 1..4 : p <= last_pid => p \in Slots /\ pid[p] = p
    BY SlotFacts DEF UpInv
  <2> QED BY <1>2, <1>5, <1>6, <1>7, <2>1, Numbers DEF Servers
<1>10. SlotInv' /\ Inboxes'
  <2>1. SlotInv'
    BY <1>1, <1>4 DEF UpInv, SlotInv, Live, Started
  <2>2. Inboxes'
    BY <1>1, <1>6 DEF UpInv, Inboxes
  <2> QED BY <2>1, <2>2
<1>11. ProcLabels' /\ CallLabels' /\ ProcInbox'
  <2>1. ProcLabels'
    BY <1>1, <1>4 DEF UpInv, ProcLabels, Blocked, Waits, WaitsFor, Sends
  <2>2. CallLabels'
    BY <1>1, <1>2, <1>3, <1>4, <1>6, Numbers DEF UpInv, CallLabels, Booting
  <2>3. ProcInbox'
    BY <1>1, <1>6, <1>8, ProcInboxFrame, Numbers DEF UpInv
  <2> QED BY <2>1, <2>2, <2>3
<1>12. ServerState' /\ ServerInbox'
  <2>1. ServerState'
    BY <1>1, <1>4 DEF UpInv, ServerState, ServerLabels, Blocked, Waits, Sends, Known
  <2>2. ServerInbox'
    <3>1. GPID_FILE \in Servers /\ GPID_TERMINAL \in Servers
      BY DEF Servers
    <3> QED BY <1>1, <1>4, <1>9, <3>1 DEF UpInv, ServerInbox, Same, Still, Known
  <2> QED BY <2>1, <2>2
<1>13. BootInv' /\ BlockOwed'
  <2>1. BootInv'
    <3>1. \A p \in Servers : Due(p)' <=> Due(p)
      BY <1>1, <1>3 DEF Due
    <3> QED BY <1>1, <1>4, <3>1 DEF UpInv, BootInv, Sends, Blocked, Booting
  <2>2. BlockOwed'
    <3>1. GPID_FILE \in Servers /\ BlockOwed
      BY DEF Servers, UpInv
    <3>2. GPID_FILE <= last_pid /\ Owes(GPID_FILE, GPID_PROCESS)' => Owes(GPID_FILE, GPID_PROCESS)
      BY <1>4, <1>9, <3>1 DEF Owes, Same, Still
    <3>3. AwaitsBlock' <=> AwaitsBlock
      BY <1>1, <1>4 DEF AwaitsBlock, Blocked
    <3> QED BY <1>1, <3>1, <3>2, <3>3 DEF BlockOwed
  <2> QED BY <2>1, <2>2
<1>14. ShellState' /\ ShellInbox'
  <2>1. ShellState'
    BY <1>1, <1>4 DEF UpInv, ShellState, ShellLabels, Blocked, Waits, WaitsFor, Sends
  <2>2. ShellInbox'
    BY <1>1, <1>4, <1>9 DEF UpInv, ShellInbox, Same, Still
  <2> QED BY <2>1, <2>2
<1>15. TalkInv'
  <2>1. TalkInv /\ (Gone(app_pid)' <=> Gone(app_pid)) /\ (AwaitsEnd' <=> AwaitsEnd)
    BY <1>1, <1>4 DEF UpInv, Gone, AwaitsEnd, Blocked, Live
  <2>2. at[GPID_PROCESS] \in {"boot", "load"} /\ ~Blocked(GPID_PROCESS) /\ ~Blocked(GPID_PROCESS)'
    BY <1>2, <1>6, Numbers
  <2>3. (\A c : ~Answers(c)) /\ (\A c : ~Answers(c)') /\ (AtService' <=> AtService) /\ (AwaitsAnswer' <=> AwaitsAnswer)
    BY <1>1, <1>4, <2>2 DEF Answers, Sends, AtService, AwaitsAnswer, Blocked
  <2>4. Serves(cmd)' <=> Serves(cmd)
    BY <1>4, <2>2 DEF Serves
  <2>5. Blocked(GPID_SHELL)' <=> Blocked(GPID_SHELL)
    BY <1>1 DEF Blocked
  <2> QED BY <1>1, <1>4, <2>1, <2>2, <2>3, <2>4, <2>5 DEF TalkInv, Booting
<1>16. AppState' /\ ReplyOwed'
  <2>1. AppState'
    <3>1. \A k \in Slots : usr'[k] = usr[k] \/ usr'[k] = NoMsg
      BY <1>1
    <3> QED BY <1>1, <1>4, <3>1
            DEF UpInv, AppState, AppLabels, Live, Blocked, Sends, Waits, WaitsFor, Apps
  <2>2. ReplyOwed'
    <3>1. ASSUME NEW x \in Servers, NEW p, x <= last_pid, Owes(x, p)' PROVE Owes(x, p)
      BY <1>4, <1>9, <3>1 DEF Owes, Same, Still
    <3>2. ASSUME NEW x \in Servers, NEW k \in Slots
          PROVE  /\ Live(k)' => Live(k)
                 /\ AwaitsReply(k, x) => AwaitsReply(k, x)'
      BY <1>1, <1>4 DEF AwaitsReply, WaitsFor, Waits, Blocked, Live
    <3>3. ASSUME NEW x \in Servers, NEW k \in Slots, x <= last_pid, pid[k] \in Apps, Owes(x, pid[k])'
          PROVE  k \in Scanned /\ at'[k] # "spin" /\ (Live(k)' => AwaitsReply(k, x)')
      <4>1. PICK p : p = pid[k]
        OBVIOUS
      <4>2. Owes(x, p)'
        BY <1>1, <3>3, <4>1 DEF Owes
      <4>3. k \in Scanned /\ at[k] # "spin" /\ (Live(k) => AwaitsReply(k, x))
        BY <3>1, <3>3, <4>1, <4>2 DEF UpInv, ReplyOwed
      <4> QED BY <1>4, <3>2, <4>3
    <3> QED BY <1>1, <3>3 DEF ReplyOwed, Apps
  <2> QED BY <2>1, <2>2
<1> QED BY <1>10, <1>11, <1>12, <1>13, <1>14, <1>15, <1>16 DEF UpInv

LEMMA SpawnReadyKeeps ==
  ASSUME AllInv, UpInv, SpawnReady
  PROVE  UpInv'
<1>0. PICK l : l = (CASE call.arg = GPID_TERMINAL -> "wait_terminal"
                      [] call.arg = GPID_FILE -> "wait_file"
                      [] call.arg = GPID_SHELL -> "loop"
                      [] OTHER -> "reply")
  OBVIOUS
<1>1. /\ pid[curr] = GPID_PROCESS /\ kpc = "user" /\ call.op = "loaded" /\ call' = NoCall
      /\ status' = proc_set_status(status, call.arg, "READY") /\ Goto(l)
      /\ UNCHANGED <<left, app_pid, shell_waiting, req, client, cmd, typed>>
      /\ UNCHANGED <<pid, syscall, usr, last_pid>>
  BY <1>0 DEF SpawnReady, proc_set_ready, InProcess
<1>2. 1 \in Slots /\ curr = 1 /\ ~Blocked(1) /\ last_pid \in Nat /\ last_pid <= MaxPid
  <2>1. curr = 1 /\ 1 \in Slots /\ last_pid \in 1..MaxPid /\ MaxPid \in Nat
    <3>1. curr \in Slots /\ last_pid \in 1..MaxPid
      BY SlotFacts DEF UpInv
    <3>2. \A k \in Slots, p \in 1..4 : pid[k] = p => k = p
      BY SlotFacts DEF UpInv
    <3> QED BY <1>1, <3>1, <3>2, Numbers
  <2>2. status[1] = "RUNNING"
    BY <1>1, <2>1, UserFacts DEF AllInv
  <2> QED BY <2>1, <2>2 DEF Blocked
<1>3. /\ call.arg = last_pid /\ at[1] \in {"boot", "load"}
      /\ at[1] = "boot" => last_pid > 1 /\ last_pid <= 4
      /\ at[1] # "boot" => last_pid > 4
      /\ \A k \in Slots : pid[k] = last_pid => status[k] = "LOADING" /\ k # 1 /\ pid[k] # 1
      /\ \A p \in Servers : p = last_pid => status[p] = "LOADING" /\ at[p] = "init"
      /\ 4 = last_pid => status[4] = "LOADING" /\ at[4] = "cmd"
      /\ last_pid > 4 => 4 \in Slots /\ pid[4] # last_pid
  <2>1. at[1] # "load_recv"
    BY <1>1, Numbers DEF UpInv, CallLabels
  <2> QED BY <1>1, <1>2, <2>1, BeingLoaded
<1>4. /\ l \in {"wait_terminal", "wait_file", "loop", "reply"} /\ l \in Labels
      /\ l = "wait_terminal" <=> last_pid = 2
      /\ l = "wait_file" <=> last_pid = 3
      /\ l = "loop" <=> last_pid = 4
      /\ l = "reply" <=> at[1] = "load"
  <2>1. l = (IF last_pid = 2 THEN "wait_terminal" ELSE IF last_pid = 3 THEN "wait_file" ELSE
             IF last_pid = 4 THEN "loop" ELSE "reply")
    BY <1>0, <1>2, <1>3, Numbers
  <2>2. at[1] = "load" <=> last_pid > 4
    BY <1>2, <1>3
  <2>3. at[1] # "load" => last_pid \in {2, 3, 4}
    BY <1>2, <1>3
  <2> QED BY <1>2, <2>1, <2>2, <2>3 DEF Labels
<1>5. /\ status \in [Slots -> Statuses] /\ at \in [Slots -> Labels] /\ left \in [Slots -> Int]
      /\ at'[1] = l /\ at' \in [Slots -> Labels] /\ \A k \in Slots \ {1} : at'[k] = at[k]
  <2>1. status \in [Slots -> Statuses] /\ at \in [Slots -> Labels] /\ left \in [Slots -> Int]
    BY DEF AllInv, IInv, TypeOK, UpInv, SlotInv
  <2> QED BY <1>1, <1>2, <1>4, <2>1 DEF Goto
<1>6. \A k \in Slots : \/ status'[k] = status[k]
                       \/ pid[k] = last_pid /\ status[k] = "LOADING" /\ status'[k] = "READY"
  BY <1>1, <1>3, <1>5 DEF proc_set_status
<1>7. \A k \in Slots : /\ Live(k)' <=> Live(k)
                       /\ Blocked(k)' <=> Blocked(k)
                       /\ Waits(k)' <=> Waits(k)
                       /\ \A p, c : Sends(k, p, c)' <=> Sends(k, p, c)
                       /\ \A p : WaitsFor(k, p)' <=> WaitsFor(k, p)
                       /\ status[k] \in Started => status'[k] \in Started
  <2>1. \A k \in Slots : /\ Live(k)' <=> Live(k)
                         /\ Blocked(k)' <=> Blocked(k)
                         /\ status[k] \in Started => status'[k] \in Started
    BY <1>6 DEF Live, Blocked, Started
  <2> QED BY <1>1, <2>1 DEF Waits, Sends, WaitsFor
<1>8. \A p \in 1..4 : p <= last_pid => p \in Slots /\ pid[p] = p
  BY SlotFacts DEF UpInv
<1>9. SlotInv' /\ Inboxes'
  <2>1. SlotInv'
    <3>1. last_pid = GPID_SHELL /\ at'[GPID_SHELL] # "cmd" => status'[GPID_SHELL] \in Started
      BY <1>3, <1>5, <1>8, Numbers
    <3> QED BY <1>1, <1>5, <1>7, <3>1 DEF UpInv, SlotInv
  <2>2. Inboxes'
    BY <1>1, <1>7 DEF UpInv, Inboxes
  <2> QED BY <2>1, <2>2
<1>10. ProcLabels' /\ CallLabels' /\ ProcInbox'
  <2>0. ~Blocked(1)'
    BY <1>2, <1>7
  <2>1. ProcLabels'
    BY <1>4, <1>5, <2>0, Numbers DEF ProcLabels
  <2>2. CallLabels'
    <3>1. call'.op = "none"
      BY <1>1 DEF NoCall
    <3>2. l = "wait_terminal" \/ l = "wait_file" \/ last_pid >= 4
      BY <1>2, <1>3, <1>4
    <3> QED BY <1>1, <1>4, <1>5, <3>1, <3>2, Numbers DEF CallLabels, Booting
  <2>3. ProcInbox'
    BY <1>4, <1>5, Numbers DEF ProcInbox
  <2> QED BY <2>1, <2>2, <2>3
<1>11. \A p \in Servers : p <= last_pid => p \in Slots /\ at'[p] = at[p]
  BY <1>5, <1>8, Numbers DEF Servers
<1>12. ServerState' /\ ServerInbox'
  <2>1. ServerState'
    BY <1>1, <1>7, <1>11 DEF UpInv, ServerState, ServerLabels, Known
  <2>2. ServerInbox'
    <3>1. GPID_FILE \in Servers /\ GPID_TERMINAL \in Servers
      BY DEF Servers
    <3> QED BY <1>1, <1>7, <1>11, <3>1 DEF UpInv, ServerInbox, Known
  <2> QED BY <2>1, <2>2
<1>13. BootInv' /\ BlockOwed'
  <2>1. BootInv'
    <3>1. ASSUME NEW p \in Servers PROVE Due(p)' <=> Due(p)
      <4>1. p = 2 \/ p = 3
        BY Numbers DEF Servers
      <4> QED BY <1>1, <1>4, <1>5, <4>1, Numbers DEF Due
    <3>2. Booting' => Booting
      BY <1>3, <1>4, <1>5, Numbers DEF Booting
    <3>3. GPID_FILE \in Servers
      BY DEF Servers
    <3> QED BY <1>1, <1>7, <1>11, <3>1, <3>2, <3>3 DEF UpInv, BootInv
  <2>2. BlockOwed'
    <3>1. GPID_FILE \in Servers /\ BlockOwed /\ ~AwaitsBlock
      BY <1>2, <1>3, Numbers DEF Servers, UpInv, AwaitsBlock
    <3> QED BY <1>1, <1>7, <1>11, <3>1 DEF BlockOwed, Owes
  <2> QED BY <2>1, <2>2
<1>14. GPID_SHELL <= last_pid => GPID_SHELL \in Slots /\ at'[GPID_SHELL] = at[GPID_SHELL]
  BY <1>5, <1>8, Numbers
<1>15. ShellState' /\ ShellInbox'
  <2>1. ShellState'
    BY <1>1, <1>7, <1>14 DEF UpInv, ShellState, ShellLabels
  <2>2. ShellInbox'
    BY <1>1, <1>7, <1>14 DEF UpInv, ShellInbox
  <2> QED BY <2>1, <2>2
<1>16. TalkInv'
  <2>1. CASE at[1] = "load"
    <3>1. last_pid > 4 /\ 4 \in Slots /\ pid[4] # last_pid
      BY <1>3, <2>1
    <3>2. Same(4)
      <4>1. status'[4] = status[4]
        BY <1>6, <3>1
      <4> QED BY <1>1, <1>5, <1>7, <3>1, <4>1 DEF Same, Still
    <3>3. ~Booting' /\ (\A c : ~Answers(c)') /\ at'[1] = "reply"
      BY <1>2, <1>4, <1>5, <1>7, <2>1, Numbers DEF Booting, Answers, Sends
    <3>4. GPID_SHELL <= last_pid /\ Same(GPID_SHELL) /\ \A k \in Slots : Live(k)' => Live(k)
      BY <1>2, <1>7, <3>1, <3>2, Numbers
    <3>5. /\ at[GPID_PROCESS] \in {"lookup", "lookup_recv", "load", "load_recv", "reply"}
          /\ at'[GPID_PROCESS] \in {"lookup", "lookup_recv", "load", "load_recv", "reply"}
      BY <2>1, <3>3, Numbers
    <3> QED BY <1>1, <3>3, <3>4, <3>5, TalkServing
  <2>2. CASE at[1] = "boot"
    <3>1. ~AtService' /\ (\A c : ~Answers(c)') /\ at'[GPID_PROCESS] \notin {"notify", "free"}
      BY <1>2, <1>4, <1>5, <1>7, <2>2, Numbers DEF AtService, Answers, Sends
    <3>2. TalkInv /\ Booting
      BY <2>2, Numbers DEF UpInv, Booting
    <3>3. GPID_SHELL <= last_pid => at'[GPID_SHELL] = "cmd"
      BY <1>2, <1>3, <1>14, <2>2, Numbers
    <3> QED BY <1>1, <3>1, <3>2, <3>3 DEF TalkInv
  <2> QED BY <1>3, <2>1, <2>2
<1>17. AppState' /\ ReplyOwed'
  <2>0. \A k \in Slots : pid[k] \in Apps => at'[k] = at[k]
    <3>1. \A k \in Slots : pid[k] \in Apps => k # 1
      BY SlotFacts DEF UpInv
    <3> QED BY <1>5, <3>1
  <2>1. AppState'
    <3>1. ASSUME NEW k \in Slots, pid[k] \in Apps
          PROVE  /\ Live(k)' => AppLabels(k)'
                 /\ status'[k] \in Started /\ ~Blocked(k)' /\ at'[k] = "run" =>
                      usr'[k] = NoMsg \/ usr'[k].content \in {"block", "line"}
      <4>1. Live(k)' => AppLabels(k)'
        BY <1>7, <2>0, <3>1 DEF UpInv, AppState, AppLabels
      <4>2. CASE status'[k] = status[k]
        BY <1>1, <1>7, <2>0, <3>1, <4>1, <4>2 DEF UpInv, AppState
      <4>3. CASE pid[k] = last_pid
        <5>1. usr[k] = NoMsg
          BY <1>1, <1>3, <4>3 DEF AllInv, MapInv
        <5> QED BY <1>1, <4>1, <5>1
      <4> QED BY <1>6, <4>2, <4>3
    <3> QED BY <1>1, <3>1 DEF AppState, Apps
  <2>2. ReplyOwed'
    <3>1. ASSUME NEW x \in Servers, NEW k \in Slots, x <= last_pid, pid[k] \in Apps, Owes(x, pid[k])'
          PROVE  k \in Scanned /\ at'[k] # "spin" /\ (Live(k)' => AwaitsReply(k, x)')
      <4>1. PICK p : p = pid[k]
        OBVIOUS
      <4>2. Owes(x, p)'
        BY <1>1, <3>1, <4>1 DEF Owes
      <4>3. Owes(x, p)
        BY <1>1, <1>7, <1>11, <3>1, <4>2 DEF Owes
      <4>4. k \in Scanned /\ at[k] # "spin" /\ (Live(k) => AwaitsReply(k, x))
        BY <3>1, <4>1, <4>3 DEF UpInv, ReplyOwed
      <4> QED BY <1>7, <2>0, <3>1, <4>4 DEF AwaitsReply
    <3> QED BY <1>1, <3>1 DEF ReplyOwed, Apps
  <2> QED BY <2>1, <2>2
<1> QED BY <1>9, <1>10, <1>12, <1>13, <1>15, <1>16, <1>17 DEF UpInv

\* A process is created, in the first free slot: the next server or the shell, in the slot
\* of its pid, while the system boots, and an application, in another slot, afterwards.
LEMMA AllocStep ==
  ASSUME AllInv, UpInv, SpawnAlloc, kpc' \notin Fatals
  PROVE  \E n \in Slots \ {0, 1}, m \in {"boot", "load"} :
           /\ curr = 1 /\ 1 \in Slots /\ ~Blocked(1) /\ call.op = "none" /\ MaxPid \in Nat
           /\ last_pid \in Nat /\ last_pid' = last_pid + 1 /\ last_pid + 1 <= MaxPid
           /\ call' = [op |-> "loading", arg |-> last_pid + 1]
           /\ at' \in [Slots -> Labels] /\ left' \in [Slots -> Int] /\ pid' \in [Slots -> Int]
           /\ at'[n] = Entry(last_pid + 1) /\ at'[1] = m /\ (\A k \in Slots \ {1, n} : at'[k] = at[k])
           /\ ~Live(n) /\ Live(n)' /\ ~Blocked(n)' /\ ~(status'[n] \in Started) /\ pid'[n] = last_pid + 1
           /\ \A k \in Slots \ {n} : Still(k) /\ pid'[k] = pid[k] /\ status'[k] = status[k]
           /\ \A k \in Slots \ {1, n} : Same(k)
           /\ UNCHANGED <<usr, shell_waiting, req, client, cmd>>
           /\ \/ m = "boot" /\ at[1] = "boot" /\ app_pid' = app_pid
              \/ m = "load" /\ at[1] = "lookup" /\ left[1] = 0 /\ app_pid' = last_pid + 1
           /\ \A j \in Slots : j # 0 /\ ~Live(j) => n <= j
<1>1. /\ \/ At(GPID_PROCESS, "boot")
         \/ At(GPID_PROCESS, "lookup") /\ left[curr] = 0
      /\ InProcess("none") /\ last_pid < MaxPid
      /\ UNCHANGED <<shell_waiting, req, client, cmd, typed>>
  BY DEF SpawnAlloc, proc_alloc
<1>2. /\ curr = 1 /\ 1 \in Slots /\ ~Blocked(1) /\ status[1] = "RUNNING" /\ call.op = "none"
      /\ last_pid \in Nat /\ MaxPid \in Nat /\ last_pid + 1 <= MaxPid /\ at[1] \in {"boot", "lookup"}
      /\ at[1] = "lookup" => left[1] = 0
  BY <1>1, ProcRuns DEF InProcess
<1>3. FreeSlots # {}
  BY DEF SpawnAlloc, proc_alloc, Panic, Fatals
<1>4. PICK n : n = First(FreeSlots)
  OBVIOUS
<1>5. PICK m \in {"boot", "load"} : m = IF at[1] = "boot" THEN "boot" ELSE "load"
  OBVIOUS
<1>6. /\ pid' = [pid EXCEPT ![n] = last_pid + 1] /\ status' = [status EXCEPT ![n] = "LOADING"]
      /\ last_pid' = last_pid + 1 /\ call' = [op |-> "loading", arg |-> last_pid + 1]
      /\ UNCHANGED <<syscall, usr>>
      /\ at' = [at EXCEPT ![n] = Entry(last_pid + 1), ![1] = m]
      /\ left' = [left EXCEPT ![n] = MaxOps, ![1] = IF m = "boot" THEN 0 ELSE LoadReads]
      /\ app_pid' = IF m = "boot" THEN app_pid ELSE last_pid + 1
  BY <1>2, <1>3, <1>4, <1>5 DEF SpawnAlloc, proc_alloc
<1>7. FreeSlots \in SUBSET Nat
  BY Numbers DEF FreeSlots
<1>8. n \in FreeSlots /\ \A j \in FreeSlots : n <= j
  BY <1>3, <1>4, <1>7, FirstIsIn
<1>9. n \in Slots /\ n # 1 /\ n # 0 /\ status[n] = "UNUSED" /\ \A j \in Slots : j # 0 /\ ~Live(j) => n <= j
  BY <1>2, <1>8 DEF FreeSlots, Live
<1>10. /\ status \in [Slots -> Statuses] /\ at \in [Slots -> Labels] /\ left \in [Slots -> Int]
       /\ pid \in [Slots -> Int] /\ MaxOps \in Int /\ LoadReads \in Int
       /\ Entry(last_pid + 1) \in Labels /\ m \in Labels
  <2>1. status \in [Slots -> Statuses] /\ at \in [Slots -> Labels] /\ left \in [Slots -> Int]
    BY DEF AllInv, IInv, TypeOK, UpInv, SlotInv
  <2>2. pid \in [Slots -> Int]
    BY Numbers DEF AllInv, IInv, TypeOK
  <2>3. Entry(last_pid + 1) \in Labels /\ m \in Labels
    BY DEF Entry, Labels
  <2> QED BY <2>1, <2>2, <2>3, ServersAssumption
<1>11. /\ at' \in [Slots -> Labels] /\ at'[n] = Entry(last_pid + 1) /\ at'[1] = m
       /\ \A k \in Slots \ {1, n} : at'[k] = at[k]
  BY <1>2, <1>6, <1>9, <1>10
<1>12. left' \in [Slots -> Int] /\ \A k \in Slots \ {1, n} : left'[k] = left[k]
  <2>1. PICK x \in Int : x = IF m = "boot" THEN 0 ELSE LoadReads
    BY <1>10
  <2>2. left' = [left EXCEPT ![n] = MaxOps, ![1] = x]
    BY <1>6, <2>1
  <2> QED BY <1>2, <1>9, <1>10, <2>2
<1>13. /\ pid' \in [Slots -> Int] /\ pid'[n] = last_pid + 1 /\ status'[n] = "LOADING"
       /\ \A k \in Slots \ {n} : pid'[k] = pid[k] /\ status'[k] = status[k]
  BY <1>2, <1>6, <1>9, <1>10
<1>14. \A k \in Slots \ {n} : Still(k)
  BY <1>6, <1>13 DEF Still, Live, Blocked, Sends, Waits, WaitsFor
<1>15. \A k \in Slots \ {1, n} : Same(k)
  BY <1>6, <1>11, <1>12, <1>14 DEF Same
<1>16. ~Live(n) /\ Live(n)' /\ ~Blocked(n)' /\ ~(status'[n] \in Started)
  BY <1>9, <1>13 DEF Live, Blocked, Started
<1>17. \/ m = "boot" /\ at[1] = "boot" /\ app_pid' = app_pid
       \/ m = "load" /\ at[1] = "lookup" /\ left[1] = 0 /\ app_pid' = last_pid + 1
  BY <1>2, <1>5, <1>6
<1>18. n \in Slots \ {0, 1} /\ UNCHANGED <<usr, shell_waiting, req, client, cmd>>
  BY <1>1, <1>6, <1>9
<1> QED BY <1>2, <1>6, <1>9, <1>11, <1>12, <1>13, <1>14, <1>15, <1>16, <1>17, <1>18

\* The servers that exist have not moved.
LEMMA ServersGrow ==
  ASSUME UpInv, last_pid \in Nat, last_pid' = last_pid + 1,
         \A p \in Servers : p <= last_pid => Same(p),
         \A p \in Servers : p = last_pid' => at'[p] = "init" /\ ~Blocked(p)'
  PROVE  ServerState' /\ ServerInbox'
<1>1. \A p \in Servers : p <= last_pid' => p <= last_pid \/ p = last_pid'
  BY Numbers DEF Servers
<1>2. Known \subseteq Known'
  BY Numbers DEF Known
<1>3. ServerState'
  <2>1. ASSUME NEW p \in Servers, p <= last_pid, ServerLabels(p) PROVE ServerLabels(p)'
    BY <1>2, <2>1 DEF ServerLabels, Same, Still
  <2>2. ASSUME NEW p \in Servers, p = last_pid' PROVE ServerLabels(p)'
    BY <2>2 DEF ServerLabels
  <2> QED BY <1>1, <2>1, <2>2 DEF UpInv, ServerState
<1>4. ServerInbox'
  <2>1. GPID_FILE \in Servers /\ GPID_TERMINAL \in Servers
    BY DEF Servers
  <2> QED BY <1>1, <1>2, <2>1 DEF UpInv, ServerInbox, Same, Still
<1> QED BY <1>3, <1>4

LEMMA SpawnAllocKeeps ==
  ASSUME AllInv, UpInv, SpawnAlloc, kpc' \notin Fatals
  PROVE  UpInv'
<1>1. PICK n \in Slots \ {0, 1}, m \in {"boot", "load"} :
           /\ curr = 1 /\ 1 \in Slots /\ ~Blocked(1) /\ call.op = "none" /\ MaxPid \in Nat
           /\ last_pid \in Nat /\ last_pid' = last_pid + 1 /\ last_pid + 1 <= MaxPid
           /\ call' = [op |-> "loading", arg |-> last_pid + 1]
           /\ at' \in [Slots -> Labels] /\ left' \in [Slots -> Int] /\ pid' \in [Slots -> Int]
           /\ at'[n] = Entry(last_pid + 1) /\ at'[1] = m /\ (\A k \in Slots \ {1, n} : at'[k] = at[k])
           /\ ~Live(n) /\ Live(n)' /\ ~Blocked(n)' /\ ~(status'[n] \in Started) /\ pid'[n] = last_pid + 1
           /\ \A k \in Slots \ {n} : Still(k) /\ pid'[k] = pid[k] /\ status'[k] = status[k]
           /\ \A k \in Slots \ {1, n} : Same(k)
           /\ UNCHANGED <<usr, shell_waiting, req, client, cmd>>
           /\ \/ m = "boot" /\ at[1] = "boot" /\ app_pid' = app_pid
              \/ m = "load" /\ at[1] = "lookup" /\ left[1] = 0 /\ app_pid' = last_pid + 1
           /\ \A j \in Slots : j # 0 /\ ~Live(j) => n <= j
  BY AllocStep
<1>2. /\ last_pid >= 1 /\ pid[1] = 1 /\ n \in Nat /\ n > 1
      /\ \A p \in 1..4 : p <= last_pid => p \in Slots /\ pid[p] = p /\ Live(p)
  <2>1. last_pid \in 1..MaxPid /\ pid[1] = 1 /\ \A p \in 1..4 : p <= last_pid => p \in Slots /\ pid[p] = p /\ Live(p)
    BY SlotFacts DEF UpInv
  <2>2. n \in Slots /\ n # 0 /\ n # 1
    BY <1>1
  <2>3. n \in Nat /\ n > 1
    BY ONLY <2>2, Numbers
  <2> QED BY ONLY <2>1, <2>3, Numbers
<1>3. Inboxes' /\ ~Blocked(1)' /\ call'.op = "loading" /\ call'.arg = last_pid'
  BY <1>1 DEF UpInv, Inboxes, Still
<1>4. \A p \in 1..4 : p <= last_pid => p # n /\ p \in Slots /\ pid'[p] = p /\ Live(p)'
  BY <1>1, <1>2 DEF Still
<1>5. \A p \in {2, 3, 4} : p <= last_pid => Same(p)
  BY <1>1, <1>4
<1>6. \A k \in Slots : Live(k)' => k \in 1..last_pid'
  <2>1. \A k \in Slots : Live(k) => k \in 1..last_pid
    BY DEF UpInv, SlotInv
  <2>2. n \in 1..(last_pid + 1)
    <3>1. CASE last_pid + 1 \in Slots
      <4>1. ~Live(last_pid + 1) /\ last_pid + 1 # 0
        BY <1>1, <2>1, <3>1
      <4> QED BY <1>1, <1>2, <3>1, <4>1
    <3>2. CASE last_pid + 1 \notin Slots
      <4>1. n \in Slots /\ last_pid \in Nat /\ n \in Nat /\ n > 1
        BY <1>1, <1>2
      <4> QED BY ONLY <3>2, <4>1, Numbers
    <3> QED BY <3>1, <3>2
  <2>3. ASSUME NEW k \in Slots, Live(k)' PROVE k = n \/ Live(k)
    BY <1>1, <2>3 DEF Still
  <2> QED BY <1>1, <2>1, <2>2, <2>3
<1>7. CASE m = "boot"
  <2>1. at[1] = "boot" /\ Booting /\ Booting' /\ last_pid < 4 /\ app_pid' = app_pid /\ ~shell_waiting /\ TalkInv
    BY <1>1, <1>7, Numbers DEF Booting, UpInv, CallLabels, TalkInv
  <2>2. n = last_pid + 1
    <3>1. \A k \in Slots : Live(k) => k \in 1..last_pid
      BY <1>1, <2>1, Numbers DEF UpInv, SlotInv
    <3>2. ~(n <= last_pid)
      BY <1>1, <1>2, <1>4, <2>1
    <3>3. last_pid + 1 \in Slots /\ last_pid + 1 # 0
      BY <1>1, <1>2, <3>2, Numbers
    <3>4. ~Live(last_pid + 1)
      BY <1>1, <3>1, <3>3
    <3>5. n <= last_pid + 1
      BY <1>1, <3>3, <3>4
    <3> QED BY <1>1, <1>2, <3>2, <3>5
  <2>3. last_pid' = n /\ n \in 2..4 /\ pid'[n] = n /\ (n = 4 => at'[n] = "cmd")
    <3>1. last_pid' = n /\ n \in 2..4 /\ pid'[n] = n
      BY <1>1, <1>2, <2>1, <2>2
    <3>2. n = 4 => Entry(n) = "cmd"
      BY Numbers DEF Entry
    <3> QED BY <1>1, <2>2, <3>1, <3>2
  <2>4. SlotInv'
    <3>1. \A p \in GPID_PROCESS..GPID_SHELL : p <= last_pid' => p \in Slots /\ pid'[p] = p /\ Live(p)'
      <4>1. ASSUME NEW p \in 1..4, p <= last_pid' PROVE p \in Slots /\ pid'[p] = p /\ Live(p)'
        <5>1. p <= last_pid \/ p = n
          BY <1>1, <2>2, <4>1
        <5> QED BY <1>1, <1>4, <2>3, <5>1
      <4> QED BY <4>1, Numbers
    <3>3. ~(last_pid' > GPID_SHELL)
      BY <2>3, Numbers
    <3>4. last_pid' = GPID_SHELL => at'[GPID_SHELL] = "cmd"
      BY <1>1, <2>2, <2>3, Numbers DEF Entry
    <3> QED BY <1>1, <1>6, <3>1, <3>3, <3>4 DEF SlotInv
  <2>5. ProcLabels' /\ CallLabels' /\ ProcInbox'
    <3>1. ProcLabels'
      BY <1>1, <1>3, <1>7, Numbers DEF ProcLabels
    <3>2. CallLabels'
      <4>1. at'[1] = "boot" /\ last_pid' \in 2..4
        BY <1>1, <1>7, <2>3
      <4> QED BY ONLY <1>3, <4>1, Numbers DEF CallLabels, Booting
    <3>3. ProcInbox'
      BY <1>1, <1>7, <2>1, Numbers DEF UpInv, ProcInbox
    <3> QED BY <3>1, <3>2, <3>3
  <2>6. /\ \A p \in Servers : p <= last_pid => Same(p)
        /\ \A p \in Servers : p = last_pid' => at'[p] = "init" /\ ~Blocked(p)'
        /\ \A p \in Servers : p <= last_pid' => p <= last_pid \/ p = last_pid'
    <3>1. \A p \in Servers : p <= last_pid => Same(p)
      BY <1>5, Numbers DEF Servers
    <3>2. ASSUME NEW p \in Servers, p = last_pid' PROVE at'[p] = "init" /\ ~Blocked(p)'
      <4>1. p = n /\ at'[n] = Entry(n) /\ n \in {2, 3}
        BY <1>1, <2>2, <2>3, <3>2, Numbers DEF Servers
      <4> QED BY <1>1, <4>1, Numbers DEF Entry
    <3>3. \A p \in Servers : p <= last_pid' => p <= last_pid \/ p = last_pid'
      BY <1>1, Numbers DEF Servers
    <3> QED BY <3>1, <3>2, <3>3
  <2>7. ServerState' /\ ServerInbox'
    BY <1>1, <2>6, ServersGrow
  <2>8. BootInv' /\ BlockOwed'
    <3>1. \A p \in Servers : ~Due(p)
      BY <1>1, <2>1, Numbers DEF Due
    <3>2. ASSUME NEW p \in Servers, p <= last_pid, p # last_pid'
          PROVE  ~Due(p)' /\ at'[p] # "init" /\ ~Sends(p, GPID_PROCESS, "finish")'
      <4>1. Same(p)
        BY <2>6, <3>2
      <4>2. at[p] # "init" /\ ~Sends(p, GPID_PROCESS, "finish")
        BY <3>1, <3>2 DEF UpInv, BootInv
      <4> QED BY <3>2, <4>1, <4>2 DEF Due, Same, Still
    <3>3. \A p \in Servers : p = last_pid' => Due(p)'
      BY <1>3 DEF Due
    <3>4. \A p \in Servers : p <= last_pid => p # last_pid'
      BY <1>1, Numbers DEF Servers
    <3>5. GPID_FILE \in Servers
      BY DEF Servers
    <3>6. GPID_FILE <= last_pid' /\ at'[GPID_FILE] = "request" => Blocked(GPID_FILE)'
      <4>1. CASE GPID_FILE <= last_pid
        <5>1. Same(GPID_FILE)
          BY <2>6, <3>5, <4>1
        <5> QED BY <2>1, <4>1, <5>1 DEF UpInv, BootInv, Same, Still
      <4>2. CASE GPID_FILE = last_pid'
        BY <2>6, <3>5, <4>2
      <4> QED BY <2>6, <3>5, <4>1, <4>2
    <3>7. BootInv'
      BY <2>6, <3>2, <3>3, <3>4, <3>6 DEF BootInv
    <3>8. BlockOwed'
      <4>1. CASE GPID_FILE <= last_pid
        <5>1. Same(GPID_FILE) /\ ~AwaitsBlock
          BY <2>1, <2>6, <3>5, <4>1, Numbers DEF AwaitsBlock
        <5> QED BY <4>1, <5>1 DEF UpInv, BlockOwed, Owes, Same, Still
      <4>2. CASE GPID_FILE = last_pid'
        <5>1. at'[GPID_FILE] = "init" /\ ~Blocked(GPID_FILE)'
          BY <2>6, <3>5, <4>2
        <5> QED BY <5>1 DEF BlockOwed, Owes, Sends
      <4> QED BY <2>6, <3>5, <4>1, <4>2 DEF BlockOwed
    <3> QED BY <3>7, <3>8
  <2>9. ShellState' /\ ShellInbox'
    <3>1. GPID_SHELL <= last_pid' => at'[GPID_SHELL] = "cmd" /\ ~Blocked(GPID_SHELL)'
      <4>1. GPID_SHELL <= last_pid' => n = 4 /\ n = GPID_SHELL
        BY <2>3, Numbers
      <4> QED BY <1>1, <2>3, <4>1
    <3> QED BY <1>1, <3>1 DEF UpInv, ShellState, ShellLabels, ShellInbox
  <2>10. TalkInv'
    <3>1. ~AtService' /\ at'[GPID_PROCESS] \notin {"notify", "free"} /\ \A c : ~Answers(c)'
      BY <2>1, <2>5, BootQuietNext
    <3>2. GPID_SHELL <= last_pid' => at'[GPID_SHELL] = "cmd"
      <4>1. GPID_SHELL <= last_pid' => n = 4 /\ n = GPID_SHELL
        BY <2>3, Numbers
      <4> QED BY <1>1, <2>3, <4>1
    <3>3. app_pid' \in 0..last_pid'
      BY <1>1, <2>1 DEF TalkInv
    <3> QED BY <1>1, <2>1, <3>1, <3>2, <3>3 DEF TalkInv
  <2>11. \A k \in Slots : ~(pid'[k] \in Apps)
    <3>1. \A k \in Slots : ~(pid[k] \in Apps)
      <4>1. \A k \in Slots : pid[k] \in Apps => last_pid > 4
        BY SlotFacts DEF UpInv
      <4>2. ~(last_pid > 4)
        BY <1>1, <2>1
      <4> QED BY <4>1, <4>2
    <3>2. ~(n \in Apps)
      BY <1>1, <2>3, Numbers DEF Apps
    <3> QED BY <1>1, <2>3, <3>1, <3>2
  <2>12. AppState' /\ ReplyOwed'
    BY <2>11 DEF AppState, ReplyOwed, Apps
  <2> QED BY <1>3, <2>4, <2>5, <2>7, <2>8, <2>9, <2>10, <2>12 DEF UpInv
<1>8. CASE m = "load"
  <2>1. /\ at[1] = "lookup" /\ left[1] = 0 /\ app_pid' = last_pid + 1 /\ ~Booting /\ ~Booting'
        /\ last_pid >= 4 /\ TalkInv /\ ~AwaitsBlock
    BY <1>1, <1>8, BootOver, Numbers DEF Booting, UpInv, AwaitsBlock
  <2>2. AtService /\ Serves(cmd) /\ AwaitsAnswer /\ req = cmd
    BY <2>1, Numbers DEF AtService, TalkInv, Serves
  <2>3. /\ Same(GPID_SHELL) /\ (\A p \in Servers : Same(p)) /\ at[GPID_SHELL] # "cmd"
        /\ \A p \in 1..4 : p \in Slots /\ p # n /\ pid'[p] = p /\ Live(p)'
    <3>1. \A p \in 1..4 : p <= last_pid
      BY <1>1, <2>1
    <3>2. \A p \in {2, 3, 4} : Same(p)
      BY <1>5, <3>1
    <3>3. at[GPID_SHELL] # "cmd"
      BY <2>2 DEF AwaitsAnswer
    <3> QED BY <1>4, <3>1, <3>2, <3>3, Numbers DEF Servers
  <2>4. SlotInv'
    <3>1. 4 \in Scanned
      <4>1. CASE last_pid > 4
        BY <4>1, Numbers DEF UpInv, SlotInv
      <4>2. CASE last_pid = 4
        <5>1. status[4] \in Started /\ 4 \in Slots
          BY <2>3, <4>2, Numbers DEF UpInv, SlotInv
        <5>2. 4 # MAX_NPROCESS
          BY <5>1 DEF AllInv, MapInv, Started
        <5> QED BY <5>1, <5>2, Numbers
      <4> QED BY <1>1, <2>1, <4>1, <4>2
    <3>2. last_pid' > 4
      BY <1>1, <2>1
    <3>3. at' \in [Slots -> Labels] /\ left' \in [Slots -> Int]
      BY <1>1
    <3>4. last_pid' \in Nat
      BY <1>1
    <3> QED BY ONLY <1>6, <2>3, <3>1, <3>2, <3>3, <3>4, Numbers DEF SlotInv
  <2>5. ProcLabels' /\ CallLabels' /\ ProcInbox'
    <3>1. ProcLabels'
      BY <1>1, <1>3, <1>8, Numbers DEF ProcLabels
    <3>2. CallLabels'
      <4>1. /\ at'[1] = "load" /\ call'.op = "loading" /\ call'.arg = last_pid' /\ last_pid' > 4
            /\ ~Booting'
        BY <1>1, <1>3, <1>8, <2>1
      <4>2. last_pid' >= 4
        BY <1>1, <2>1
      <4> QED BY ONLY <4>1, <4>2, Numbers DEF CallLabels
    <3>3. ProcInbox'
      <4>1. usr[1] = NoMsg \/ usr[1].content = "block"
        <5>1. ProcInbox /\ ~Blocked(1)
          BY <1>1 DEF UpInv
        <5> QED BY <2>1, <5>1, Numbers DEF ProcInbox
      <4>2. at'[1] = "load" /\ usr' = usr
        BY <1>1, <1>8
      <4> QED BY ONLY <4>1, <4>2, Numbers DEF ProcInbox
    <3> QED BY <3>1, <3>2, <3>3
  <2>6. ServerState' /\ ServerInbox'
    <3>1. \A p \in Servers : p # last_pid'
      <4>1. last_pid \in Nat /\ last_pid' = last_pid + 1 /\ last_pid >= 4
        BY <1>1, <2>1
      <4> QED BY ONLY <4>1, Numbers DEF Servers
    <3>2. last_pid \in Nat /\ last_pid' = last_pid + 1 /\ \A p \in Servers : Same(p)
      BY <1>1, <2>3
    <3> QED BY ONLY UpInv, <3>1, <3>2, ServersGrow
  <2>7. BootInv' /\ BlockOwed'
    <3>1. BootInv'
      BY <1>1, <2>1, <2>3, BootDone DEF Same, Still
    <3>2. GPID_FILE \in Servers /\ GPID_FILE <= last_pid
      BY <1>1, <2>1, Numbers DEF Servers
    <3>3. BlockOwed'
      BY <2>1, <2>3, <3>2 DEF UpInv, BlockOwed, Owes, Same, Still
    <3> QED BY <3>1, <3>3
  <2>8. ShellState' /\ ShellInbox'
    <3>1. GPID_SHELL <= last_pid
      BY <1>1, <2>1, Numbers
    <3>2. ShellState'
      BY <1>1, <2>3, <3>1 DEF UpInv, ShellState, ShellLabels, Same, Still, GPID_PROCESS, GPID_ALL
    <3>3. ShellInbox'
      BY <1>1, <2>3, <3>1 DEF UpInv, ShellInbox, Same, Still
    <3> QED BY <3>2, <3>3
  <2>9. TalkInv'
    <3>1. AtService' /\ Serves(cmd)' /\ at'[GPID_PROCESS] \notin {"notify", "free"} /\ \A c : ~Answers(c)'
      BY <1>1, <1>3, <1>8, <2>2, Numbers DEF AtService, Serves, Answers, Sends
    <3>2. AwaitsAnswer' /\ at'[GPID_SHELL] # "prompt"
      BY <2>2, <2>3 DEF AwaitsAnswer, Same, Still
    <3>3. app_pid' \in 0..last_pid'
      BY <1>1, <2>1
    <3> QED BY <1>1, <2>1, <3>1, <3>2, <3>3 DEF TalkInv
  <2>10. \A k \in Slots : k # n /\ pid'[k] \in Apps => Same(k) /\ pid[k] \in Apps /\ pid'[k] = pid[k]
    <3>1. ~(pid'[1] \in Apps)
      <4>1. pid'[1] = 1
        BY <1>1, <1>2
      <4> QED BY ONLY <4>1, Numbers DEF Apps
    <3>2. \A k \in Slots \ {1, n} : Same(k) /\ pid'[k] = pid[k]
      BY <1>1
    <3> QED BY ONLY <3>1, <3>2
  <2>11. AppState'
    <3>1. ASSUME NEW k \in Slots, pid'[k] \in Apps
          PROVE  /\ Live(k)' => AppLabels(k)'
                 /\ status'[k] \in Started /\ ~Blocked(k)' /\ at'[k] = "run" =>
                      usr'[k] = NoMsg \/ usr'[k].content \in {"block", "line"}
      <4>1. CASE k = n
        <5>1. Entry(last_pid + 1) = "run"
          BY <1>1, <2>1, Numbers DEF Entry
        <5>2. AppLabels(n)'
          BY <1>1, <5>1 DEF AppLabels
        <5> QED BY <1>1, <4>1, <5>2
      <4>2. CASE k # n
        <5>1. Same(k) /\ pid[k] \in Apps
          BY <2>10, <3>1, <4>2
        <5> QED BY <5>1
                DEF UpInv, AppState, AppLabels, Same, Still, Servers, GPID_ALL, GPID_TERMINAL, GPID_FILE
      <4> QED BY <4>1, <4>2
    <3> QED BY <3>1 DEF AppState, Apps
  <2>12. ReplyOwed'
    <3>1. \A x \in Servers : \A p : Owes(x, p)' => Owes(x, p)
      BY <2>3 DEF Owes, Same, Still
    <3>2. \A x \in Servers : x <= last_pid
      BY <1>1, <2>1, Numbers DEF Servers
    <3>3. ASSUME NEW x \in Servers, NEW k \in Slots, pid'[k] \in Apps, Owes(x, pid[k])'
          PROVE  k \in Scanned /\ at'[k] # "spin" /\ (Live(k)' => AwaitsReply(k, x)')
      <4>1. PICK p : p = pid'[k]
        OBVIOUS
      <4>2. Owes(x, p)
        <5>1. Owes(x, p)'
          BY <3>3, <4>1 DEF Owes
        <5> QED BY <3>1, <5>1
      <4>3. k # n
        <5>1. p \in {GPID_PROCESS} \cup Known
          <6>1. ServerLabels(x) /\ ServerInbox /\ (x = GPID_FILE \/ x = GPID_TERMINAL) /\ x <= last_pid
            BY <3>2 DEF UpInv, ServerState, Servers
          <6> QED BY <4>2, <6>1, Numbers DEF Owes, ServerLabels, ServerInbox, Sends, Waits
        <5>2. last_pid + 1 \notin {GPID_PROCESS} \cup Known
          BY <1>1, <2>1, Numbers DEF Known
        <5> QED BY <1>1, <4>1, <5>1, <5>2
      <4>4. Same(k) /\ pid[k] \in Apps /\ p = pid[k]
        BY <2>10, <3>3, <4>1, <4>3
      <4>5. k \in Scanned /\ at[k] # "spin" /\ (Live(k) => AwaitsReply(k, x))
        BY <3>2, <4>2, <4>4 DEF UpInv, ReplyOwed
      <4>6. x # GPID_ALL
        BY Numbers DEF Servers
      <4> QED BY <4>4, <4>5, <4>6 DEF AwaitsReply, Same, Still
    <3> QED BY <3>3 DEF ReplyOwed, Apps
  <2> QED BY <1>3, <2>4, <2>5, <2>6, <2>7, <2>8, <2>9, <2>11, <2>12 DEF UpInv
<1> QED BY <1>1, <1>7, <1>8

-----------------------------------------------------------------------------
(* The steps together.                                                     *)

LEMMA ProcessKeeps ==
  ASSUME AllInv, UpInv, ProcessStep, kpc' \notin Fatals
  PROVE  UpInv'
<1>1. CASE ProcKillAllStep
  <2>1. At(GPID_PROCESS, "killall") /\ UNCHANGED <<left, app_pid, shell_waiting, cmd>>
    BY <1>1 DEF ProcKillAllStep
  <2>2. \/ KillAllUnmap /\ UNCHANGED at
        \/ KillAllMark /\ UNCHANGED at
        \/ KillAllEnd /\ Goto("loop")
    BY <1>1 DEF ProcKillAllStep
  <2>3. UNCHANGED at => UNCHANGED <<at, left, app_pid, shell_waiting, cmd>>
    BY <2>1
  <2> QED BY <2>1, <2>2, <2>3, KillAllUnmapKeeps, KillAllMarkKeeps, KillAllEndKeeps
<1> QED
  BY <1>1, SpawnAllocKeeps, SpawnLoadKeeps, SpawnReadyKeeps, ProcRecvKeeps, ProcSpawnKeeps,
     ProcFileReadKeeps, ProcReplyKeeps, ProcExitKeeps, ProcExitEndKeeps, ProcNotifyKeeps,
     ProcKillAllKeeps DEF ProcessStep

LEMMA UpStep ==
  ASSUME AllInv, UpInv, kpc \notin Fatals, [SysNext]_sysVars, kpc' \notin Fatals
  PROVE  UpInv'
<1>1. CASE KernelStep \/ TimerStep
  BY <1>1, KernelKeeps DEF KernelStep, TimerStep
<1>2. CASE \E p \in {GPID_TERMINAL, GPID_FILE} : ServerStep(p)
  BY <1>2, ServerStepKeeps DEF Servers
<1>3. CASE UNCHANGED sysVars
  <2>1. UNCHANGED <<pid, last_pid, call, usr, progVars>> /\ UNCHANGED <<status, syscall>>
    BY <1>3 DEF sysVars, vars, procVars
  <2>2. \A k \in Slots : Still(k)
    BY <2>1, StillSame
  <2> QED BY <2>1, <2>2, QuietStep
<1>4. ~(Halted /\ UNCHANGED progVars) /\ ~\E p \in Apps : AppCrash(p)
  BY DEF Halted, AppCrash, Fault, Panic, Fatals
<1> QED
  BY <1>1, <1>2, <1>3, <1>4, ProcessKeeps, ShellStepKeeps, AppStepKeeps DEF SysNext

LEMMA UpInit == SysInit => UpInv
<1> SUFFICES ASSUME SysInit PROVE UpInv
  OBVIOUS
<1> USE Numbers
<1>0. /\ Init /\ at = [k \in Slots |-> "boot"] /\ left = [k \in Slots |-> 0]
      /\ app_pid = 0 /\ shell_waiting = FALSE /\ cmd = "spawn_fg"
  BY DEF SysInit
<1>1. /\ pid = [k \in Slots |-> IF k = 1 THEN 1 ELSE 0]
      /\ status = [k \in Slots |-> IF k = 1 THEN "RUNNING" ELSE "UNUSED"]
      /\ usr = [k \in Slots |-> NoMsg] /\ last_pid = 1 /\ call.op = "none"
  BY <1>0 DEF Init, NoCall
<1>2. \A k \in Slots : /\ ~Blocked(k) /\ pid[k] \notin Apps /\ (Live(k) <=> k = 1)
                       /\ at[k] = "boot" /\ usr[k] = NoMsg
  BY <1>0, <1>1 DEF Blocked, Live, Apps
<1>3. SlotInv /\ Inboxes
  BY <1>0, <1>1, <1>2 DEF SlotInv, Inboxes, Labels
<1>4. ProcLabels /\ CallLabels /\ ProcInbox
  BY <1>0, <1>1, <1>2 DEF ProcLabels, CallLabels, ProcInbox, Booting
<1>5. ServerState /\ ServerInbox /\ BootInv /\ BlockOwed
  BY <1>0, <1>1, <1>2 DEF ServerState, ServerInbox, BootInv, BlockOwed, Servers
<1>6. ShellState /\ ShellInbox
  BY <1>0, <1>1 DEF ShellState, ShellInbox, Spawns
<1>7. TalkInv
  BY <1>0, <1>1, <1>2 DEF TalkInv, AtService, Answers, Sends, Gone
<1>8. AppState /\ ReplyOwed
  BY <1>2 DEF AppState, ReplyOwed
<1> QED BY <1>3, <1>4, <1>5, <1>6, <1>7, <1>8 DEF UpInv

-----------------------------------------------------------------------------
(* Every step of the programs is a step of module Grass.                   *)

\* The bodies that the programs send.
LEMMA Bodies ==
  /\ Spawns \cup {"killall"} \subseteq Contents
  /\ {"finish", "exit", "ok", "error", "read", "block", "print", "input", "line"} \subseteq Contents
BY ServersAssumption DEF Spawns

LEMMA TrapIsCall ==
  ASSUME NEW l
  PROVE  /\ \A p \in 1..MaxPid, c \in Contents : Trap(SendTo(p, c), l) => Next
         /\ \A p \in 1..MaxPid \cup {GPID_ALL} : Trap(RecvFrom(p), l) => Next
BY DEF Trap, Next, Send, Recv

LEMMA ProcessIsGrass ==
  ASSUME AllInv, UpInv, ProcessStep
  PROVE  Next \/ UNCHANGED vars
<1>0. last_pid \in 1..MaxPid /\ 1 \in 1..MaxPid /\ (last_pid >= 2 => 2 \in 1..MaxPid)
      /\ (last_pid >= 3 => 3 \in 1..MaxPid) /\ (last_pid >= 4 => 4 \in 1..MaxPid)
  BY Numbers DEF AllInv, IInv, TypeOK
<1>1. CASE SpawnAlloc
  BY <1>1 DEF SpawnAlloc, Next
<1>2. CASE SpawnLoad
  BY <1>2 DEF SpawnLoad, Next
<1>3. CASE SpawnReady
  BY <1>3 DEF SpawnReady, Next
<1>4. CASE ProcRecv
  <2>1. PICK l \in {"wait_terminal", "wait_file", "loop"} : At(GPID_PROCESS, l)
    BY <1>4 DEF ProcRecv
  <2>2. at[1] = l /\ CallLabels
    BY <2>1, ProcRuns DEF UpInv
  <2>3. (l = "wait_terminal" => last_pid = 2) /\ (l = "wait_file" => last_pid = 3)
    BY <2>2, Numbers DEF CallLabels
  <2>4. \E p \in 1..MaxPid \cup {GPID_ALL}, m \in {"boot", "request"} : Trap(RecvFrom(p), m)
    <3>1. CASE l = "wait_terminal"
      BY <3>1, <2>3, <2>1, <1>4, <1>0, Numbers DEF ProcRecv, At
    <3>2. CASE l = "wait_file"
      BY <3>2, <2>3, <2>1, <1>4, <1>0, Numbers DEF ProcRecv, At
    <3>3. CASE l = "loop"
      BY <3>3, <2>1, <1>4 DEF ProcRecv, At
    <3> QED BY <3>1, <3>2, <3>3
  <2> QED BY <2>4, TrapIsCall
<1>5. CASE ProcSpawn
  BY <1>5 DEF ProcSpawn
<1>6. CASE ProcFileRead
  <2>1. PICK l \in {"lookup", "load", "lookup_recv", "load_recv"} : At(GPID_PROCESS, l)
    BY <1>6 DEF ProcFileRead
  <2>2. at[1] = l /\ CallLabels
    BY <2>1, ProcRuns DEF UpInv
  <2>3. GPID_FILE \in 1..MaxPid
    BY <2>2, <1>0, Numbers DEF CallLabels, Booting
  <2>4. \E m : Trap(SendTo(GPID_FILE, "read"), m) \/ Trap(RecvFrom(GPID_FILE), m)
    BY <1>6 DEF ProcFileRead
  <2> QED BY <2>3, <2>4, TrapIsCall, Bodies
<1>7. CASE ProcReply
  <2>1. PICK l \in {"lookup", "reply"} : At(GPID_PROCESS, l)
    BY <1>7 DEF ProcReply
  <2>2. at[1] = l /\ CallLabels
    BY <2>1, ProcRuns DEF UpInv
  <2>3. GPID_SHELL \in 1..MaxPid
    BY <2>2, <1>0, Numbers DEF CallLabels, Booting
  <2>4. \E c \in {"ok", "error"} : Trap(SendTo(GPID_SHELL, c), "loop")
    BY <1>7 DEF ProcReply
  <2> QED BY <2>3, <2>4, TrapIsCall, Bodies
<1>8. CASE ProcExit
  <2>1. At(GPID_PROCESS, "request") /\ usr[curr].content = "exit" /\ proc_free(usr[curr].sender)
    BY <1>8 DEF ProcExit, Message
  <2>2. curr = 1 /\ at[1] = "request" /\ ~Blocked(1) /\ ProcInbox
    BY <2>1, ProcRuns DEF UpInv
  <2>3. \E k \in Scanned : Live(k) /\ pid[k] \in Apps /\ pid[k] = usr[1].sender
    BY <2>1, <2>2, Numbers DEF ProcInbox, Spawns
  <2>4. usr[1].sender \in UserPids
    BY <2>3, Numbers DEF UserPids, UserSlots, UserAlive, Apps
  <2> QED BY <2>1, <2>2, <2>4 DEF Next
<1>9. CASE ProcExitEnd
  BY <1>9 DEF ProcExitEnd, Next
<1>10. CASE ProcNotify
  <2>1. At(GPID_PROCESS, "notify") /\ Trap(SendTo(GPID_SHELL, "exit"), "loop")
    BY <1>10 DEF ProcNotify
  <2>2. at[1] = "notify" /\ CallLabels
    BY <2>1, ProcRuns DEF UpInv
  <2>3. GPID_SHELL \in 1..MaxPid
    BY <2>2, <1>0, Numbers DEF CallLabels, Booting
  <2> QED BY <2>1, <2>3, TrapIsCall, Bodies
<1>11. CASE ProcKillAll \/ ProcKillAllStep
  BY <1>11 DEF ProcKillAll, ProcKillAllStep, Next
<1> QED BY <1>1, <1>2, <1>3, <1>4, <1>5, <1>6, <1>7, <1>8, <1>9, <1>10, <1>11 DEF ProcessStep

LEMMA ServerIsGrass ==
  ASSUME AllInv, UpInv, NEW s \in Servers, ServerStep(s)
  PROVE  Next \/ UNCHANGED vars
<1>0. last_pid \in 1..MaxPid /\ 1 \in 1..MaxPid /\ MaxPid \in Nat
  BY Numbers DEF AllInv, IInv, TypeOK
<1>1. CASE ServerInit(s)
  BY <1>1, <1>0, TrapIsCall, Bodies, Numbers DEF ServerInit
<1>2. CASE ServerRecv(s)
  BY <1>2, TrapIsCall DEF ServerRecv
<1>3. CASE FileReply
  <2>1. At(GPID_FILE, "request") /\ Trap(SendTo(usr[curr].sender, "block"), "loop")
    BY <1>3 DEF FileReply, Message
  <2>2. GPID_FILE \in 1..4
    BY Numbers
  <2>3. curr = GPID_FILE /\ GPID_FILE <= last_pid /\ at[GPID_FILE] = "request" /\ ~Blocked(GPID_FILE)
    BY <2>1, <2>2, Running
  <2>4. usr[curr].sender \in {GPID_PROCESS} \cup Known
    BY <2>3 DEF UpInv, ServerInbox
  <2>5. usr[curr].sender \in 1..MaxPid
    BY <2>4, <1>0, Numbers DEF Known
  <2> QED BY <2>1, <2>5, TrapIsCall, Bodies
<1>4. CASE TerminalReply
  <2>1. At(GPID_TERMINAL, "request") /\ Trap(SendTo(usr[curr].sender, "line"), "loop")
    BY <1>4 DEF TerminalReply, Message
  <2>2. GPID_TERMINAL \in 1..4
    BY Numbers
  <2>3. curr = GPID_TERMINAL /\ GPID_TERMINAL <= last_pid /\ at[GPID_TERMINAL] = "request"
        /\ ~Blocked(GPID_TERMINAL)
    BY <2>1, <2>2, Running
  <2>4. usr[curr].sender \in Known
    BY <2>3 DEF UpInv, ServerInbox
  <2>5. usr[curr].sender \in 1..MaxPid
    BY <2>4, <1>0, Numbers DEF Known
  <2> QED BY <2>1, <2>5, TrapIsCall, Bodies
<1>5. CASE TerminalPrint
  BY <1>5 DEF TerminalPrint
<1> QED BY <1>1, <1>2, <1>3, <1>4, <1>5 DEF ServerStep

LEMMA ShellIsGrass ==
  ASSUME AllInv, UpInv, ShellStep \/ ShellPrompt
  PROVE  Next \/ UNCHANGED vars
<1>0. last_pid \in 1..MaxPid /\ 1 \in 1..MaxPid /\ GPID_PROCESS \in 1..MaxPid
  BY Numbers DEF AllInv, IInv, TypeOK
<1>1. CASE ShellSend
  <2>1. At(GPID_SHELL, "cmd") /\ \E l : Trap(SendTo(GPID_PROCESS, cmd), l)
    BY <1>1 DEF ShellSend
  <2>2. cmd \in Contents
    BY Bodies DEF UpInv, ShellState
  <2> QED BY <2>1, <2>2, <1>0, TrapIsCall
<1>2. CASE ShellRecv
  BY <1>2, <1>0, TrapIsCall DEF ShellRecv
<1>3. CASE ShellReply
  BY <1>3, <1>0, TrapIsCall DEF ShellReply
<1>4. CASE ShellPrompt
  BY <1>4 DEF ShellPrompt
<1> QED BY <1>1, <1>2, <1>3, <1>4 DEF ShellStep

LEMMA AppIsGrass ==
  ASSUME AllInv, UpInv, NEW p \in Apps, AppStep(p)
  PROVE  Next
<1>1. PICK l : At(p, l)
  BY DEF AppStep, AppRequest, AppRecv, AppExit
<1>2. curr \in Slots /\ pid[curr] = p
  BY <1>1, Running
<1>3. last_pid > 4 /\ last_pid \in 1..MaxPid
  BY <1>2, SlotFacts DEF UpInv
<1>4. GPID_PROCESS \in 1..MaxPid /\ GPID_TERMINAL \in 1..MaxPid /\ GPID_FILE \in 1..MaxPid
  BY <1>3, Numbers
<1>5. \E q \in 1..MaxPid : \E n : \/ \E c \in {"read", "input", "print", "exit"} : Trap(SendTo(q, c), n)
                          \/ Trap(RecvFrom(q), n)
  <2>1. CASE AppRequest(p)
    <3>1. PICK op \in AppOps \ {"crash"} : \E n : Trap(SendTo(IF op = "read" THEN GPID_FILE ELSE GPID_TERMINAL, op), n)
      BY <2>1 DEF AppRequest
    <3>2. op \in {"read", "input", "print"}
      BY ServersAssumption
    <3>3. PICK q \in 1..MaxPid : q = IF op = "read" THEN GPID_FILE ELSE GPID_TERMINAL
      BY <1>4
    <3> QED BY <3>1, <3>2, <3>3
  <2>2. CASE AppRecv(p)
    BY <2>2, <1>4 DEF AppRecv
  <2>3. CASE AppExit(p)
    BY <2>3, <1>4 DEF AppExit
  <2> QED BY <2>1, <2>2, <2>3 DEF AppStep
<1> QED BY <1>5, TrapIsCall, Bodies

\* A FATAL is the end.
LEMMA FatalIsEnd ==
  ASSUME kpc \in Fatals, [SysNext]_sysVars
  PROVE  UNCHANGED sysVars
<1>1. kpc # "user" /\ kpc # "scan"
  BY DEF Fatals
<1>2. \/ UNCHANGED sysVars
      \/ Halted /\ UNCHANGED progVars
      \/ KernelStep \/ TimerStep
      \/ kpc = "user"
  BY DEF SysNext, ProcessStep, ServerStep, ShellStep, ShellPrompt, AppStep, SpawnAlloc, SpawnLoad, SpawnReady,
     ProcRecv, ProcSpawn, ProcFileRead, ProcReply, ProcExit, ProcExitEnd, ProcNotify, ProcKillAll,
     ProcKillAllStep, ServerInit, ServerRecv, FileReply, TerminalReply, TerminalPrint, ShellSend,
     ShellRecv, ShellReply, AppRequest, AppRecv, AppExit, AppCrash, At, proc_set_ready, InProcess
<1>3. ~(KernelStep \/ TimerStep)
  BY <1>1 DEF KernelStep, TimerStep, ScanStep, Dispatch, Timer
<1> QED BY <1>1, <1>2, <1>3 DEF Halted, sysVars

LEMMA GrassStep ==
  ASSUME AllInv, kpc \notin Fatals => UpInv, [SysNext]_sysVars
  PROVE  [Next]_vars
<1>1. CASE kpc \in Fatals
  BY <1>1, FatalIsEnd DEF sysVars
<1>2. CASE kpc \notin Fatals
  <2>1. CASE KernelStep \/ TimerStep
    BY <2>1 DEF KernelStep, TimerStep, Next
  <2>2. CASE \E p \in {GPID_TERMINAL, GPID_FILE} : ServerStep(p)
    BY <2>2, <1>2, ServerIsGrass DEF Servers
  <2>3. CASE UNCHANGED sysVars
    BY <2>3 DEF sysVars
  <2>4. CASE Halted \/ \E p \in Apps : AppCrash(p)
    BY <2>4 DEF Next, AppCrash
  <2> QED BY <2>1, <2>2, <2>3, <2>4, <1>2, ProcessIsGrass, ShellIsGrass, AppIsGrass DEF SysNext
<1> QED BY <1>1, <1>2

-----------------------------------------------------------------------------
(* What the invariant means for the disk, the messages and the shell.      *)

LEMMA DiskFromUp ==
  ASSUME AllInv, UpInv
  PROVE  DiskExclusive
<1> USE Numbers
<1>1. SUFFICES ASSUME call.op = "loading", NEW m \in SlotOf(GPID_PROCESS), at[m] = "boot",
                      NEW k \in SlotOf(GPID_FILE), status[k] \in {"READY", "RUNNING", "RUNNABLE"}
               PROVE  at[k] \notin {"init", "request"}
  BY DEF DiskExclusive, LoadsFromDisk
<1>2. m = 1 /\ k = 3 /\ 3 <= last_pid /\ last_pid \in 1..MaxPid
  BY <1>1, SlotFacts DEF UpInv, SlotOf
<1>3. last_pid <= 4 /\ ~Blocked(1) /\ Booting
  BY <1>1, <1>2 DEF UpInv, CallLabels, Booting
<1>4. GPID_FILE # last_pid
  BY <1>1, <1>2, <1>3, BeingLoaded DEF Servers
<1>5. last_pid > 3 /\ ~Due(GPID_FILE)
  BY <1>2, <1>4, BootOver DEF Servers
<1>6. at[GPID_FILE] # "init"
  BY <1>2, <1>5 DEF UpInv, BootInv, Servers
<1>7. at[GPID_FILE] # "request"
  BY <1>1, <1>2, <1>3 DEF UpInv, BootInv, Blocked
<1> QED BY <1>2, <1>6, <1>7

\* Somebody in the table takes what is sent to these.
LEMMA Reachable ==
  ASSUME AllInv, UpInv, NEW p,
         \/ p = 1
         \/ p \in {2, 3} /\ last_pid >= 4
         \/ p = 4 /\ last_pid >= 4 /\ at[4] # "cmd"
  PROVE  \E k \in Scanned : pid[k] = p /\ Live(k)
<1> USE Numbers
<1>1. last_pid \in 1..MaxPid /\ \A q \in 1..4 : q <= last_pid => q \in Slots /\ pid[q] = q /\ Live(q)
  BY SlotFacts DEF UpInv
<1>2. CASE p = 1
  BY <1>1, <1>2
<1>3. CASE p \in {2, 3} /\ last_pid >= 4
  BY <1>1, <1>3
<1>4. CASE p = 4 /\ last_pid >= 4 /\ at[4] # "cmd"
  <2>1. 4 \in Scanned
    <3>1. CASE last_pid > 4
      BY <3>1 DEF UpInv, SlotInv
    <3>2. CASE last_pid = 4
      <4>1. status[4] \in Started
        BY <3>2, <1>4 DEF UpInv, SlotInv
      <4>2. 4 # MAX_NPROCESS
        BY <4>1 DEF AllInv, MapInv, Started
      <4> QED BY <4>2, <1>1, <1>4
    <3> QED BY <3>1, <3>2, <1>1, <1>4
  <2> QED BY <2>1, <1>1, <1>4
<1> QED BY <1>2, <1>3, <1>4

\* The client of a reply that nobody can take was killed.
LEMMA OwedToKilled ==
  ASSUME AllInv, UpInv, NEW s \in Servers, s <= last_pid, NEW p \in Apps, Owes(s, p),
         \A k \in Scanned : pid[k] = p => ~Live(k)
  PROVE  Killed(p)
<1>1. ASSUME NEW k \in Slots, pid[k] = p PROVE ~Live(k) /\ at[k] # "spin"
  <2>1. Owes(s, pid[k]) /\ pid[k] \in Apps
    BY <1>1
  <2>2. k \in Scanned /\ at[k] # "spin"
    BY <2>1 DEF UpInv, ReplyOwed
  <2> QED BY <2>2, <1>1
<1> QED BY <1>1 DEF Killed

\* A blocked sender whose receiver is gone is a server that answers a killed application.
LEMMA SendToGone ==
  ASSUME AllInv, UpInv, NEW s \in Slots, NEW p, NEW c, Sends(s, p, c),
         \A k \in Scanned : pid[k] = p => ~Live(k)
  PROVE  s \in Servers /\ s <= last_pid /\ Killed(p)
<1> USE Numbers
<1>0. ~(p = 1) /\ ~(p \in {2, 3} /\ last_pid >= 4) /\ ~(p = 4 /\ last_pid >= 4 /\ at[4] # "cmd")
  BY Reachable
<1>1. last_pid \in 1..MaxPid /\ (s \in 1..4 /\ Live(s) => s <= last_pid) /\ Live(s)
  BY SlotFacts DEF UpInv, SlotInv, Sends, Live, Blocked
<1>2. p \in Pids
  BY DEF Sends, AllInv, IInv, TypeOK, SyscallRecord
<1>3. at[1] \in {"loop", "lookup_recv", "load_recv"} => last_pid >= 4
  BY <1>1 DEF UpInv, CallLabels, Booting
<1>4. CASE s = 1 /\ p = 4 /\ at[1] = "loop" /\ c \in {"ok", "error", "exit"}
  <2>1. Answers(c)
    BY <1>4 DEF Answers
  <2>2. AwaitsAnswer \/ AwaitsEnd
    BY <2>1, <1>4 DEF UpInv, TalkInv
  <2> QED BY <2>2, <1>4, <1>3, <1>0 DEF AwaitsAnswer, AwaitsEnd
<1>5. CASE \/ s = 3 /\ p >= 5 /\ c = "block"
           \/ s = 2 /\ p >= 5 /\ c = "line"
  <2>1. s \in Servers /\ s <= last_pid /\ p \in Apps /\ Owes(s, p)
    BY <1>5, <1>1, <1>2 DEF Servers, Apps, Owes
  <2> QED BY <2>1, OwedToKilled
<1>6. \/ s = 1 /\ p = 4 /\ at[1] = "loop" /\ c \in {"ok", "error", "exit"}
      \/ s = 1 /\ p = 3 /\ at[1] \in {"lookup_recv", "load_recv"}
      \/ p = 1
      \/ s = 3 /\ p >= 5 /\ c = "block"
      \/ s = 2 /\ p >= 5 /\ c = "line"
      \/ p \in {2, 3} /\ last_pid > 4
  BY WhoSends, Zenon
<1> QED BY <1>6, <1>5, <1>4, <1>3, <1>1, <1>0

-----------------------------------------------------------------------------
(* The steps that end in a FATAL.                                          *)

LEMMA DiskPanic ==
  ASSUME DiskExclusive, UNCHANGED <<call, pid, status>>,
         \A k \in Slots : at'[k] = at[k] \/ at'[k] \notin {"boot", "init", "request"}
  PROVE  DiskExclusive'
<1>1. \A p : SlotOf(p)' = SlotOf(p) /\ SlotOf(p) \subseteq Slots
  BY DEF SlotOf, Live
<1> QED BY <1>1 DEF DiskExclusive, LoadsFromDisk

LEMMA FatalScan ==
  ASSUME AllInv, UpInv, ScanStep, UNCHANGED progVars, kpc' \in Fatals
  PROVE  FatalInv' /\ DiskExclusive'
<1>1. PICK s \in Scanned : s = Nth(i)
  <2>1. curr \in Scanned /\ i \in 1..(MAX_NPROCESS + 1) /\ i <= MAX_NPROCESS
    BY DEF ScanStep, AllInv, IInv, TypeOK
  <2>2. Nth(i) \in Scanned
    BY <2>1, NthValue, Numbers
  <2> QED BY <2>2
<1>2. /\ kpc = "scan" /\ kpc' = SyscallFatal(status, syscall, s) /\ Blocked(s)
      /\ UNCHANGED <<pid, status, syscall, call, last_pid, at>>
  <2>1. kpc = "scan" /\ kpc' # kpc
    BY DEF ScanStep, Fatals
  <2>2. /\ status[s] = "PENDING_SYSCALL" /\ kpc' = SyscallFatal(status, syscall, s)
        /\ UNCHANGED <<procVars, last_pid, call>>
    BY ONLY <1>1, <2>1, ScanStep DEF ScanStep, Panic
  <2> QED BY <2>1, <2>2 DEF procVars, progVars, Blocked
<1>3. s \in Slots /\ syscall[s].type \in {"SEND", "RECV"}
  BY <1>2, Numbers DEF AllInv, MapInv
<1>4. syscall[s].type = "SEND" /\ Receivers(status, syscall[s].receiver) = {}
      /\ kpc' = "unknown_receiver"
  BY <1>2, <1>3 DEF SyscallFatal, Fatals
<1>5. PICK p, c : p = syscall[s].receiver /\ c = syscall[s].content
  OBVIOUS
<1>6. Sends(s, p, c) /\ \A k \in Scanned : pid[k] = p => ~Live(k)
  BY <1>2, <1>4, <1>5 DEF Sends, Receivers, Live
<1>7. s \in Servers /\ s <= last_pid /\ Killed(p)
  BY <1>3, <1>6, SendToGone
<1>8. pid[s] = s /\ Live(s) /\ s \in {2, 3}
  BY <1>7, SlotFacts, Numbers DEF UpInv, Servers
<1>9. ReplyToKilled'
  <2>1. Killed(p)'
    BY <1>7, <1>2 DEF Killed, Live
  <2>2. s \in (SlotOf(GPID_TERMINAL) \cup SlotOf(GPID_FILE))'
    BY <1>8, <1>2, <1>3, Numbers DEF SlotOf, Live
  <2>3. Blocked(s)' /\ syscall'[s].type = "SEND" /\ syscall'[s].receiver = p
    BY <1>2, <1>4, <1>5 DEF Blocked
  <2> QED BY <2>1, <2>2, <2>3, <1>4 DEF ReplyToKilled, Killed
<1>10. DiskExclusive'
  BY <1>2, DiskFromUp, DiskPanic
<1> QED BY <1>4, <1>9, <1>10 DEF FatalInv, FatalHasCause

LEMMA FatalSend ==
  ASSUME AllInv, UpInv, NEW p \in 1..MaxPid, NEW c \in Contents,
         NEW l \in Labels \ {"boot", "init", "request"}, Trap(SendTo(p, c), l), kpc' \in Fatals,
         \/ p = 1
         \/ p \in {2, 3} /\ last_pid >= 4
         \/ p = 4 /\ last_pid >= 4 /\ at[4] # "cmd"
         \/ /\ curr \in Servers /\ curr <= last_pid /\ at[curr] = "request" /\ ~Blocked(curr)
            /\ usr[curr].content \in {"read", "input"} /\ usr[curr].sender = p
  PROVE  FatalInv' /\ DiskExclusive'
<1>1. /\ UNCHANGED <<pid, last_pid, call, curr, status, syscall, usr>> /\ kpc' = "unknown_receiver"
      /\ \A k \in Scanned : pid[k] = p => ~Live(k)
  BY SendTrap DEF Trap
<1>2. at \in [Slots -> Labels] /\ at' = [at EXCEPT ![curr] = l]
  BY DEF UpInv, SlotInv, Trap, Goto
<1>3. DiskExclusive'
  <2>1. \A k \in Slots : at'[k] = at[k] \/ at'[k] \notin {"boot", "init", "request"}
    BY <1>2
  <2> QED BY <2>1, <1>1, DiskFromUp, DiskPanic
<1>4. /\ curr \in Servers /\ curr <= last_pid /\ at[curr] = "request" /\ ~Blocked(curr)
      /\ usr[curr].content \in {"read", "input"} /\ usr[curr].sender = p /\ p # 1
  BY <1>1, Reachable
<1>5. PICK s : s = curr
  OBVIOUS
<1>6. s \in Slots /\ pid[s] = s /\ Live(s) /\ s \in {2, 3}
  BY <1>4, <1>5, SlotFacts, Numbers DEF UpInv, Servers
<1>7. p \in Apps
  BY <1>4, <1>5, <1>6, Numbers DEF UpInv, ServerInbox, Servers, Known, Apps
<1>8. Owes(s, p)
  BY <1>4, <1>5 DEF Owes
<1>9. Killed(p)
  BY <1>4, <1>5, <1>7, <1>8, <1>1, OwedToKilled
<1>10. Killed(p)'
  <2>1. \A k \in Slots : pid[k] = p => at'[k] = at[k]
    BY <1>4, <1>5, <1>6, <1>7, <1>2, Numbers DEF Apps
  <2> QED BY <2>1, <1>9, <1>1 DEF Killed, Live
<1>11. s \in (SlotOf(GPID_TERMINAL) \cup SlotOf(GPID_FILE))'
  BY <1>6, <1>1, Numbers DEF SlotOf, Live
<1>12. s = curr' /\ usr'[curr'].content \in {"read", "input"} /\ usr'[curr'].sender = p
  BY <1>1, <1>4, <1>5
<1>13. ReplyToKilled'
  BY <1>1, <1>10, <1>11, <1>12 DEF ReplyToKilled, Killed, Message
<1> QED BY <1>1, <1>3, <1>13 DEF FatalInv, FatalHasCause

LEMMA ProcessFatal ==
  ASSUME AllInv, UpInv, kpc \notin Fatals, ProcessStep, kpc' \in Fatals
  PROVE  FatalInv' /\ DiskExclusive'
<1>0. last_pid \in 1..MaxPid /\ last_pid \in Nat /\ CallLabels
  BY Numbers DEF AllInv, IInv, TypeOK, UpInv
<1>1. CASE SpawnAlloc
  <2>1. proc_alloc /\ kpc' # kpc
    BY <1>1 DEF SpawnAlloc
  <2>2. FreeSlots = {} /\ kpc' = "process_limit" /\ UNCHANGED <<call, status>> /\ call.op = "none"
    BY <2>1 DEF proc_alloc, Panic, InProcess, procVars
  <2>3. (\A k \in Slots \ {0} : Live(k))'
    BY <2>2 DEF FreeSlots, Live
  <2> QED BY <2>2, <2>3 DEF FatalInv, FatalHasCause, DiskExclusive, LoadsFromDisk
<1>2. CASE ProcRecv
  <2>1. PICK l \in {"wait_terminal", "wait_file", "loop"} : At(GPID_PROCESS, l)
    BY <1>2 DEF ProcRecv
  <2>2. at[1] = l
    BY <2>1, ProcRuns
  <2>3. (l = "wait_terminal" => last_pid = 2) /\ (l = "wait_file" => last_pid = 3)
    BY <2>2, <1>0, Numbers DEF CallLabels
  <2>4. \E p \in 1..MaxPid \cup {GPID_ALL} : Ecall(RecvFrom(p))
    <3>1. CASE l = "wait_terminal"
      BY <3>1, <2>3, <2>1, <1>2, <1>0, Numbers DEF ProcRecv, At, Trap
    <3>2. CASE l = "wait_file"
      BY <3>2, <2>3, <2>1, <1>2, <1>0, Numbers DEF ProcRecv, At, Trap
    <3>3. CASE l = "loop"
      BY <3>3, <2>1, <1>2 DEF ProcRecv, At, Trap
    <3> QED BY <3>1, <3>2, <3>3
  <2> QED BY <2>4, RecvTrap
<1>3. CASE ProcFileRead
  <2>1. PICK l \in {"lookup", "load", "lookup_recv", "load_recv"} : At(GPID_PROCESS, l)
    BY <1>3 DEF ProcFileRead
  <2>2. at[1] = l
    BY <2>1, ProcRuns
  <2>3. last_pid >= 4 /\ GPID_FILE \in 1..MaxPid /\ GPID_FILE \in {2, 3}
    BY <2>2, <1>0, Numbers DEF CallLabels, Booting
  <2>4. \/ \E m \in {"lookup_recv", "load_recv"} : Trap(SendTo(GPID_FILE, "read"), m)
        \/ Ecall(RecvFrom(GPID_FILE))
    BY <1>3 DEF ProcFileRead, Trap
  <2>5. PICK m \in {"lookup_recv", "load_recv"} : Trap(SendTo(GPID_FILE, "read"), m)
    BY <2>3, <2>4, RecvTrap
  <2>6. m \in Labels \ {"boot", "init", "request"}
    BY DEF Labels
  <2> QED BY <2>3, <2>5, <2>6, FatalSend, Bodies
<1>4. CASE ProcReply
  <2>1. PICK l \in {"lookup", "reply"} : At(GPID_PROCESS, l)
    BY <1>4 DEF ProcReply
  <2>2. at[1] = l /\ last_pid >= 4
    BY <2>1, <1>0, ProcRuns, Numbers DEF CallLabels, Booting
  <2>3. AwaitsAnswer
    BY <2>2, Numbers DEF AtService, UpInv, TalkInv
  <2>4. GPID_SHELL \in 1..MaxPid /\ GPID_SHELL = 4 /\ at[4] # "cmd" /\ "loop" \in Labels \ {"boot", "init", "request"}
    BY <2>2, <2>3, <1>0, Numbers DEF AwaitsAnswer, Labels
  <2>5. PICK c \in {"ok", "error"} : Trap(SendTo(GPID_SHELL, c), "loop")
    BY <1>4 DEF ProcReply
  <2> QED BY <2>2, <2>4, <2>5, FatalSend, Bodies
<1>5. CASE ProcNotify
  <2>1. At(GPID_PROCESS, "notify") /\ Trap(SendTo(GPID_SHELL, "exit"), "loop")
    BY <1>5 DEF ProcNotify
  <2>2. at[1] = "notify" /\ last_pid >= 4
    BY <2>1, <1>0, ProcRuns, Numbers DEF CallLabels, Booting
  <2>3. AwaitsEnd
    BY <2>2, Numbers DEF UpInv, TalkInv
  <2>4. GPID_SHELL \in 1..MaxPid /\ GPID_SHELL = 4 /\ at[4] # "cmd" /\ "loop" \in Labels \ {"boot", "init", "request"}
    BY <2>2, <2>3, <1>0, Numbers DEF AwaitsEnd, Labels
  <2> QED BY <2>1, <2>2, <2>4, FatalSend, Bodies
<1>6. ~(SpawnLoad \/ SpawnReady \/ ProcSpawn \/ ProcExit \/ ProcExitEnd \/ ProcKillAll \/ ProcKillAllStep)
  BY DEF SpawnLoad, SpawnReady, ProcSpawn, ProcExit, ProcExitEnd, ProcKillAll, ProcKillAllStep, elf_load,
     proc_set_ready, proc_free, ProcFreeEnd, KillAll, KillAllUnmap, KillAllMark, KillAllEnd, vars
<1> QED BY <1>1, <1>2, <1>3, <1>4, <1>5, <1>6 DEF ProcessStep

LEMMA OthersFatal ==
  ASSUME AllInv, UpInv, kpc \notin Fatals, kpc' \in Fatals,
         ShellStep \/ ShellPrompt \/ (\E s \in Servers : ServerStep(s)) \/ \E p \in Apps : AppStep(p)
  PROVE  FatalInv' /\ DiskExclusive'
<1>0. last_pid \in 1..MaxPid /\ GPID_PROCESS \in 1..MaxPid /\ GPID_PROCESS = 1
      /\ {"loop", "prompt", "recv", "run", "read_recv", "input_recv", "spin"} \subseteq Labels \ {"boot", "init", "request"}
  BY Numbers DEF AllInv, IInv, TypeOK, Labels
<1>1. CASE ShellSend
  <2>1. PICK l \in {"prompt", "recv"} : Trap(SendTo(GPID_PROCESS, cmd), l)
    BY <1>1 DEF ShellSend
  <2>2. cmd \in Contents
    BY Bodies DEF UpInv, ShellState
  <2> QED BY <2>1, <2>2, <1>0, FatalSend
<1>2. CASE ShellRecv \/ ShellReply \/ ShellPrompt
  BY <1>2, <1>0, RecvTrap DEF ShellRecv, ShellReply, ShellPrompt, Trap, vars
<1>3. ASSUME NEW s \in Servers, ServerStep(s) PROVE FatalInv' /\ DiskExclusive'
  <2>1. CASE ServerInit(s)
    BY <2>1, <1>0, FatalSend, Bodies DEF ServerInit
  <2>2. CASE ServerRecv(s) \/ TerminalPrint
    BY <2>2, RecvTrap DEF ServerRecv, TerminalPrint, Trap, vars
  <2>3. CASE FileReply \/ TerminalReply
    <3>1. PICK p, c : /\ At(s, "request") /\ p = usr[curr].sender /\ usr[curr].content \in {"read", "input"}
                      /\ c \in {"block", "line"} /\ Trap(SendTo(p, c), "loop")
      <4>1. s = (IF FileReply THEN GPID_FILE ELSE GPID_TERMINAL)
        BY <1>3, <2>3, Numbers, Running DEF ServerStep, FileReply, TerminalReply, ServerInit, ServerRecv, TerminalPrint, At
      <4> QED BY <4>1, <2>3 DEF FileReply, TerminalReply, Message
    <3>2. s \in 1..4
      BY Numbers DEF Servers
    <3>3. curr = s /\ s <= last_pid /\ at[curr] = "request" /\ ~Blocked(curr)
      BY <3>1, <3>2, Running
    <3>4. p \in {GPID_PROCESS} \cup Known
      BY <3>1, <3>3 DEF UpInv, ServerInbox, Servers
    <3>5. p \in 1..MaxPid
      BY <3>4, <1>0, Numbers DEF Known
    <3> QED BY <3>1, <3>3, <3>5, <1>0, FatalSend, Bodies
  <2> QED BY <1>3, <2>1, <2>2, <2>3 DEF ServerStep
<1>4. ASSUME NEW p \in Apps, AppStep(p) PROVE FatalInv' /\ DiskExclusive'
  <2>1. PICK l : At(p, l)
    BY <1>4 DEF AppStep, AppRequest, AppRecv, AppExit
  <2>2. curr \in Slots /\ pid[curr] = p
    BY <2>1, Running
  <2>3. last_pid > 4 /\ last_pid >= 4
    BY <2>2, SlotFacts DEF UpInv
  <2>4. \A q \in {GPID_PROCESS, GPID_TERMINAL, GPID_FILE} : q \in 1..MaxPid /\ (q = 1 \/ q \in {2, 3})
    BY <2>3, <1>0, Numbers
  <2>5. CASE AppRequest(p)
    <3>1. PICK op \in AppOps \ {"crash"}, m \in {"read_recv", "input_recv", "run"} :
            Trap(SendTo(IF op = "read" THEN GPID_FILE ELSE GPID_TERMINAL, op), m)
      BY <2>5 DEF AppRequest
    <3>2. op \in Contents
      BY Bodies, ServersAssumption
    <3>3. PICK q \in {GPID_PROCESS, GPID_TERMINAL, GPID_FILE} : q = IF op = "read" THEN GPID_FILE ELSE GPID_TERMINAL
      OBVIOUS
    <3> QED BY <3>1, <3>2, <3>3, <2>3, <2>4, <1>0, FatalSend
  <2>6. CASE AppRecv(p)
    BY <2>6, <2>4, RecvTrap DEF AppRecv, Trap
  <2>7. CASE AppExit(p)
    BY <2>7, <1>0, FatalSend, Bodies DEF AppExit
  <2> QED BY <1>4, <2>5, <2>6, <2>7 DEF AppStep
<1> QED BY <1>1, <1>2, <1>3, <1>4 DEF ShellStep

LEMMA ReadsHandled ==
  ASSUME AllInv, UpInv, kpc = "user", Message # NoMsg
  PROVE  Message.content \in Handled(pid[curr], at[curr])
<1> USE Numbers
<1>1. PICK k \in Slots : k = curr
  BY Numbers DEF AllInv, IInv, TypeOK
<1> DEFINE l == at[k]
<1>2. kpc = "user" /\ At(pid[k], l)
  BY <1>1 DEF At
<1>3. Live(k) /\ ~Blocked(k) /\ status[k] \in Started
  BY <1>1, <1>2, Running
<1>4. usr[k] # NoMsg /\ usr[k].content \in Contents
  BY <1>1 DEF UpInv, Inboxes, Message
<1>5. pid[k] \in 1..4 \/ pid[k] \in Apps
  BY <1>3, SlotFacts DEF UpInv
<1>6. usr[k].content \in Handled(pid[k], l)
  <2>1. CASE pid[k] = 1
    <3>1. k = 1 /\ at[1] = l
      BY <1>1, <2>1, SlotFacts DEF UpInv
    <3>2. ProcInbox /\ ~Blocked(1)
      BY <3>1, <1>3 DEF UpInv
    <3> QED BY <3>1, <3>2, <1>1, <1>4, <2>1, Bodies DEF ProcInbox, Handled, Spawns
  <2>2. CASE pid[k] \in {2, 3}
    <3>1. k = pid[k] /\ k <= last_pid
      BY <2>2, SlotFacts DEF UpInv
    <3>2. ServerInbox
      BY DEF UpInv
    <3> QED BY <3>1, <3>2, <1>1, <1>3, <1>4, <2>2 DEF ServerInbox, Handled
  <2>3. CASE pid[k] = 4
    <3>1. k = pid[k] /\ k <= last_pid
      BY <2>3, SlotFacts DEF UpInv
    <3>2. ShellInbox
      BY DEF UpInv
    <3> QED BY <3>1, <3>2, <1>1, <1>3, <1>4, <2>3 DEF ShellInbox, Handled
  <2>4. CASE pid[k] \in Apps
    <3>1. l = "run" => usr[k].content \in {"block", "line"}
      BY <1>1, <1>3, <1>4, <2>4 DEF UpInv, AppState
    <3> QED BY <3>1, <1>4, <2>4 DEF Handled, Apps
  <2> QED BY <1>5, <2>1, <2>2, <2>3, <2>4
<1> QED BY <1>1, <1>6 DEF Message

-----------------------------------------------------------------------------
(* The theorems.                                                           *)

EInv == AllInv /\ EgosInv

LEMMA InvInit == SysInit => EInv
<1> SUFFICES ASSUME SysInit PROVE EInv
  OBVIOUS
<1>1. Init /\ kpc = "user"
  BY DEF SysInit, Init
<1>2. AllInv
  BY <1>1, AllInit
<1>3. UpInv /\ DiskExclusive
  BY <1>2, UpInit, DiskFromUp
<1> QED BY <1>1, <1>2, <1>3 DEF EInv, EgosInv, FatalInv, FatalHasCause

LEMMA DiskNext == AllInv' /\ UpInv' => DiskExclusive'
BY DiskFromUp, PTL

LEMMA FatalStep ==
  ASSUME AllInv, UpInv, kpc \notin Fatals, [SysNext]_sysVars, kpc' \in Fatals
  PROVE  FatalInv' /\ DiskExclusive'
<1>1. CASE ScanStep /\ UNCHANGED progVars
  BY <1>1, FatalScan
<1>2. CASE (Dispatch \/ Timer) /\ UNCHANGED progVars
  <2>1. kpc' = "no_process" /\ UNCHANGED <<call, pid, status, at>>
    BY <1>2 DEF Dispatch, Timer, Panic, procVars, progVars, Fatals, proc_yield
  <2> QED BY <2>1, DiskFromUp, DiskPanic DEF FatalInv
<1>3. CASE \E p \in {GPID_TERMINAL, GPID_FILE} : ServerStep(p)
  BY <1>3, OthersFatal DEF Servers
<1>4. ~(Halted /\ UNCHANGED progVars) /\ ~UNCHANGED sysVars
  BY DEF Halted, sysVars, vars
<1>5. CASE \E p \in Apps : AppCrash(p)
  <2>1. /\ kpc' = "exception" /\ UNCHANGED <<call, pid, status, curr, at>>
        /\ kpc = "user" /\ pid[curr] >= GPID_USER_START
    BY <1>5 DEF AppCrash, Fault, Panic, procVars, progVars
  <2>2. UserAlive(curr)'
    <3>1. Live(curr)
      BY <2>1, UserFacts DEF AllInv, Live
    <3> QED BY <2>1, <3>1 DEF UserAlive, Live
  <2> QED BY <2>1, <2>2, DiskFromUp, DiskPanic DEF FatalInv, FatalHasCause
<1> QED
  BY <1>1, <1>2, <1>3, <1>4, <1>5, ProcessFatal, OthersFatal DEF SysNext, KernelStep, TimerStep

LEMMA EgosStep == ASSUME EInv, [SysNext]_sysVars PROVE EInv' /\ [Next]_vars
<1>0. AllInv /\ EgosInv /\ [Next]_vars
  BY GrassStep DEF EInv, EgosInv
<1>1. AllInv'
  BY <1>0, MapStep
<1>2. CASE kpc \in Fatals
  <2>1. UNCHANGED sysVars
    BY <1>2, FatalIsEnd
  <2>2. UNCHANGED <<vars, progVars, kpc, pid, status, call, curr, usr, syscall, at>>
    BY <2>1 DEF sysVars, vars, procVars, progVars
  <2>3. DiskExclusive'
    BY <2>2, <1>0, DiskPanic DEF EgosInv
  <2>4. FatalHasCause => FatalHasCause'
    BY <2>2 DEF FatalHasCause, ReplyToKilled, SlotOf, Live, UserAlive, Killed, Message, Blocked
  <2>5. FatalInv'
    BY <2>2, <2>4, <1>0 DEF EgosInv, FatalInv, Live
  <2> QED BY <1>0, <1>1, <1>2, <2>2, <2>3, <2>5 DEF EInv, EgosInv
<1>3. CASE kpc \notin Fatals /\ kpc' \in Fatals
  BY <1>0, <1>1, <1>3, FatalStep DEF EInv, EgosInv
<1>4. CASE kpc \notin Fatals /\ kpc' \notin Fatals
  <2>1. UpInv'
    BY <1>0, <1>4, UpStep DEF EgosInv
  <2> QED BY <2>1, <1>0, <1>1, <1>4, DiskNext DEF EInv, EgosInv, FatalInv, FatalHasCause, Fatals
<1> QED BY <1>2, <1>3, <1>4

\* The programs of egos-2000 keep their protocols, for every size of the process table, all
\* the commands and requests that are typed and made, and every schedule: the invariant
\* above holds, and with it everything that is proved of the kernel alone.
THEOREM EgosInvariant == SysSpec => [](AllInv /\ EgosInv)
<1>1. EInv /\ [SysNext]_sysVars => EInv'
  BY EgosStep
<1>2. EInv <=> AllInv /\ EgosInv
  BY DEF EInv
<1> QED BY <1>1, <1>2, InvInit, PTL DEF SysSpec

\* The system with its programs is one of the client systems of module Grass: a system
\* call of a program has a valid receiver and body, GPID_PROCESS frees only what exists,
\* and calls the grass interface only in turn.
THEOREM SysImplementsGrass == SysSpec => Spec
<1>1. EInv /\ [SysNext]_sysVars => EInv' /\ [Next]_vars
  BY EgosStep
<1>2. SysInit => Init
  BY DEF SysInit
<1> QED BY <1>1, <1>2, InvInit, PTL DEF SysSpec, Spec

\* GPID_PROCESS and GPID_FILE never use the disk at the same time, during the boot and
\* after it (sys_proc.c:34-44 and 98-109): the "Finish initialization" messages suffice.
THEOREM OneDiskUser == SysSpec => []DiskExclusive
BY EgosInvariant, PTL DEF EgosInv

\* A process reads only messages that it handles at that point (sys_proc.c:45-75,
\* sys_file.c:31-50, sys_terminal.c:20-40, sys_shell.c:48-66, servers.c).
THEOREM EveryMessageHandled == SysSpec => []MessagesHandled
<1>1. AllInv /\ EgosInv => MessagesHandled
  <2> SUFFICES ASSUME AllInv, EgosInv, kpc = "user", Message # NoMsg
               PROVE  Message.content \in Handled(pid[curr], at[curr])
    BY DEF MessagesHandled
  <2>1. UpInv
    BY DEF EgosInv, Fatals
  <2> QED BY <2>1, ReadsHandled
<1> QED BY <1>1, EgosInvariant, PTL

\* Back at its prompt, the shell has seen the end of the foreground application it waited
\* for, and of no other (sys_proc.c:57-62, sys_shell.c:60-66).
THEOREM ForegroundHasEnded == SysSpec => []ForegroundIsGone
<1>1. AllInv /\ EgosInv => ForegroundIsGone
  <2> SUFFICES ASSUME AllInv, EgosInv, kpc = "user", At(GPID_SHELL, "prompt"), cmd = "spawn_fg"
               PROVE  SlotOf(app_pid) = {}
    BY DEF ForegroundIsGone
  <2>1. UpInv
    BY DEF EgosInv, Fatals
  <2>2. GPID_SHELL <= last_pid /\ at[GPID_SHELL] = "prompt" /\ ~Blocked(GPID_SHELL)
    BY <2>1, Running, Numbers
  <2>3. Gone(app_pid)
    BY <2>1, <2>2 DEF UpInv, TalkInv
  <2> QED BY <2>3 DEF Gone, SlotOf
<1> QED BY <1>1, EgosInvariant, PTL

-----------------------------------------------------------------------------
(* The scheduler always finds a process: whoever is blocked waits for      *)
(* somebody who is not, as long as the system is up.                       *)

\* Only the process that GPID_PROCESS is loading is not ready, and has not run.
LoadingInv ==
  \A k \in Scanned : status[k] = "LOADING" =>
    call.op \in {"loading", "loaded"} /\ pid[k] = call.arg /\ at[k] = Entry(call.arg)

\* GPID_PROCESS and the servers take their requests from everybody.
Asks(r) == at[r] = "request" /\ Blocked(r) =>
             syscall[r].sender = GPID_ALL \/ syscall[r].status = "DONE"
AskInv == \A r \in {GPID_PROCESS} \cup Servers : r <= last_pid => Asks(r)

\* The shell waits only for an answer or an end that is to come.
Killing ==
  \/ at[GPID_PROCESS] = "killall"
  \/ at[GPID_PROCESS] = "request" /\ ~Blocked(GPID_PROCESS) /\ usr[GPID_PROCESS].content = "killall"
AnswerDue == AwaitsAnswer => AtService \/ Answers("ok") \/ Answers("error")
EndDue ==
  AwaitsEnd => /\ ~Killing
               /\ \/ at[GPID_PROCESS] = "notify" \/ Answers("exit")
                  \/ shell_waiting /\ ~Gone(app_pid)
Spawned == at[GPID_PROCESS] \in {"load", "load_recv", "reply"} \/ Answers("ok") => ~Gone(app_pid)
EndInv == GPID_SHELL <= last_pid => AnswerDue /\ EndDue /\ Spawned

\* Whoever waits for a server is owed a reply.
OwedInv ==
  /\ AwaitsBlock => Owes(GPID_FILE, GPID_PROCESS)
  /\ \A s \in Servers, k \in Slots :
       pid[k] \in Apps /\ Live(k) /\ AwaitsReply(k, s) => Owes(s, pid[k])

\* A blocked sender that the loop has passed has a receiver: else there was a FATAL.
SendTargets ==
  kpc = "scan" => \A s \in Scanned : \A p, c : Sends(s, p, c) /\ ~Ahead(s) =>
    \E k \in Scanned : pid[k] = p /\ Live(k)

WaitInv ==
  /\ LoadingInv /\ AskInv /\ EndInv /\ OwedInv /\ SendTargets
  /\ app_pid = GPID_UNUSED \/ app_pid \in Apps

-----------------------------------------------------------------------------
(* What a step does to the system calls and to the programs.               *)

\* proc_try_send completes a system call, or leaves it alone.
LEMMA TrySendKeeps ==
  ASSUME NEW st, NEW sc \in [Slots -> SyscallRecord], NEW s, NEW k \in Slots
  PROVE  proc_try_send(st, sc, s)[k] = sc[k] \/ proc_try_send(st, sc, s)[k].status = "DONE"
<1> DEFINE d == First(Receivers(st, sc[s].receiver))
<1>1. CASE proc_try_send(st, sc, s) = sc
  BY <1>1
<1>2. CASE proc_try_send(st, sc, s) =
             [sc EXCEPT ![d] = [@ EXCEPT !.status = "DONE", !.sender = pid[s], !.content = sc[s].content]]
  <2>1. CASE k = d
    BY <1>2, <2>1 DEF SyscallRecord
  <2>2. CASE k # d
    BY <1>2, <2>2
  <2> QED BY <2>1, <2>2
<1> QED BY <1>1, <1>2 DEF proc_try_send

\* A process stays blocked in the same system call, unless it is completed.
LEMMA CallKept ==
  ASSUME AllInv, [Next]_vars, NEW k \in Slots, k # curr \/ kpc # "user", Blocked(k)'
  PROVE  /\ Blocked(k)
         /\ syscall'[k] = syscall[k] \/ syscall'[k].status = "DONE"
<1>0. /\ IInv /\ LoadInv /\ syscall \in [Slots -> SyscallRecord] /\ status \in [Slots -> Statuses]
      /\ kpc \in {"user", "scan"} \cup Fatals
  BY DEF AllInv, IInv, TypeOK
<1>1. CASE KernelOwnStep
  <2>1. Blocked(k)
    <3>1. status'[k] # status[k] => <<status[k], status'[k]>> \in KernelMoves
      BY <1>0, <1>1, KernelEffect
    <3>2. status'[k] # status[k] => status[k] = "RUNNING"
      BY <3>1 DEF Blocked, KernelMoves
    <3>3. CASE kpc = "user"
      BY <3>2, <3>3, <1>0, UserFacts DEF Blocked
    <3>4. CASE kpc = "scan"
      <4>1. status[k] # "RUNNING"
        BY <3>4, <1>0 DEF IInv, ScanInv
      <4> QED BY <3>2, <4>1 DEF Blocked
    <3>5. CASE kpc \in Fatals
      <4>1. kpc # "user" /\ kpc # "scan"
        BY <3>5 DEF Fatals
      <4>2. UNCHANGED vars
        BY <1>1, <4>1 DEF KernelOwnStep, Send, Recv, Ecall, Timer, Fault, ScanStep, Dispatch, Halted
      <4> QED BY <4>2 DEF vars, procVars, Blocked
    <3> QED BY <3>3, <3>4, <3>5, <1>0
  <2>2. syscall'[k] = syscall[k] \/ syscall'[k].status = "DONE"
    <3>1. ASSUME NEW r \in SyscallRecord, Ecall(r)
          PROVE  syscall'[k] = syscall[k] \/ syscall'[k].status = "DONE"
      <4> DEFINE sc == [syscall EXCEPT ![curr] = r]
      <4>1. kpc = "user" /\ k # curr /\ sc[k] = syscall[k] /\ sc \in [Slots -> SyscallRecord]
        BY <3>1, <1>0 DEF Ecall
      <4>2. syscall' = syscall \/ \E st : syscall' = TrySyscallTable(st, sc, curr)
        BY <3>1 DEF Ecall, Panic, proc_yield, procVars
      <4> HIDE DEF sc
      <4> QED BY <4>1, <4>2, TrySendKeeps DEF TrySyscallTable
    <3>2. CASE Send \/ Recv
      BY <3>2, <3>1, RequestsAreCalls DEF Send, Recv
    <3>3. CASE ScanStep
      <4>1. syscall' = syscall \/ syscall' = TrySyscallTable(status, syscall, Nth(i))
        BY <3>3 DEF ScanStep, Panic, procVars
      <4> QED BY <4>1, <1>0, TrySendKeeps DEF TrySyscallTable
    <3>4. CASE Timer \/ Fault \/ Dispatch \/ Halted
      BY <3>4 DEF Timer, proc_yield, Fault, Dispatch, Panic, Halted, vars, procVars
    <3> QED BY <3>2, <3>3, <3>4, <1>1 DEF KernelOwnStep
  <2> QED BY <2>1, <2>2
<1>2. CASE UNCHANGED vars
  BY <1>2 DEF vars, procVars, Blocked
<1>3. CASE Next /\ ~KernelOwnStep
  <2>1. Blocked(k)
    <3>1. status'[k] # status[k] => status'[k] # "PENDING_SYSCALL"
      BY <1>3, <1>0, InterfaceMoves
    <3> QED BY <3>1 DEF Blocked
  <2>2. syscall' = syscall
    BY <1>3 DEF Next, KernelOwnStep, proc_alloc, elf_load, proc_set_ready, proc_free, ProcFreeEnd, KillAll,
       KillAllUnmap, KillAllMark, KillAllEnd, Panic, procVars
  <2> QED BY <2>1, <2>2
<1> QED BY <1>1, <1>2, <1>3

\* Only the running program moves; a new one is at its entry point.
LEMMA AtKept ==
  ASSUME at \in [Slots -> Labels], [SysNext]_sysVars, ~SpawnAlloc, NEW k \in Slots, k # curr \/ kpc # "user"
  PROVE  at'[k] = at[k]
<1>0. k # curr => \A l : Goto(l) => at'[k] = at[k]
  BY DEF Goto
<1>1. CASE UNCHANGED at
  BY <1>1
<1>2. kpc # "user" => UNCHANGED at
  BY DEF progVars,  SysNext, ProcessStep, ServerStep, ShellStep, ShellPrompt, AppStep, SpawnLoad, SpawnReady,
     ProcRecv, ProcSpawn, ProcFileRead, ProcReply, ProcExit, ProcExitEnd, ProcNotify, ProcKillAll,
     ProcKillAllStep, ServerInit, ServerRecv, FileReply, TerminalReply, TerminalPrint, ShellSend,
     ShellRecv, ShellReply, AppRequest, AppRecv, AppExit, AppCrash, At, proc_set_ready, InProcess, KernelStep, TimerStep,
     sysVars
<1>3. UNCHANGED at \/ \E l : Goto(l)
  <2>1. CASE ProcessStep
    BY <2>1 DEF ProcessStep, SpawnLoad, SpawnReady, ProcRecv, ProcSpawn, ProcFileRead, ProcReply, ProcExit,
       ProcExitEnd, ProcNotify, ProcKillAll, ProcKillAllStep, Trap, progVars
  <2>2. CASE \E p \in {GPID_TERMINAL, GPID_FILE} : ServerStep(p)
    BY <2>2 DEF ServerStep, ServerInit, ServerRecv, FileReply, TerminalReply, TerminalPrint, Trap
  <2>3. CASE ShellStep \/ ShellPrompt
    BY <2>3 DEF ShellStep, ShellPrompt, ShellSend, ShellRecv, ShellReply, Trap
  <2>4. CASE \E p \in Apps : AppStep(p)
    BY <2>4 DEF AppStep, AppRequest, AppRecv, AppExit, Trap
  <2>5. CASE KernelStep \/ TimerStep \/ (Halted /\ UNCHANGED progVars) \/ UNCHANGED sysVars
             \/ \E p \in Apps : AppCrash(p)
    BY <2>5 DEF KernelStep, TimerStep, AppCrash, sysVars, progVars
  <2> QED BY <2>1, <2>2, <2>3, <2>4, <2>5 DEF SysNext
<1> QED BY <1>0, <1>1, <1>2, <1>3

\* Nobody but SpawnAlloc starts to load a process.
LEMMA LoadsKept ==
  ASSUME [SysNext]_sysVars, ~SpawnAlloc
  PROVE  call' = call \/ call'.op # "loading"
<1>1. CASE UNCHANGED call
  BY <1>1
<1>2. \A r : Ecall(r) => UNCHANGED call
  BY DEF Ecall, Panic, proc_yield
<1>3. CASE ProcessStep
  <2>1. CASE SpawnLoad \/ SpawnReady \/ ProcExit \/ ProcExitEnd \/ ProcKillAll \/ ProcKillAllStep
    <3>1. elf_load => call'.op # "loading"
      BY DEF elf_load
    <3>2. \A p : proc_free(p) => call'.op # "loading"
      BY DEF proc_free
    <3>3. proc_set_ready \/ ProcFreeEnd \/ KillAll \/ KillAllUnmap \/ KillAllMark \/ KillAllEnd
            => call'.op # "loading"
      BY DEF proc_set_ready, ProcFreeEnd, KillAll, KillAllUnmap, KillAllMark, KillAllEnd, NoCall
    <3> QED BY <2>1, <3>1, <3>2, <3>3
            DEF SpawnLoad, SpawnReady, ProcExit, ProcExitEnd, ProcKillAll, ProcKillAllStep
  <2>2. CASE ProcRecv \/ ProcSpawn \/ ProcFileRead \/ ProcReply \/ ProcNotify
    BY <2>2, <1>2 DEF ProcRecv, ProcSpawn, ProcFileRead, ProcReply, ProcNotify, Trap, vars
  <2> QED BY <1>3, <2>1, <2>2 DEF ProcessStep
<1>4. CASE \E p \in {GPID_TERMINAL, GPID_FILE} : ServerStep(p)
  BY <1>2, <1>4 DEF ServerStep, ServerInit, ServerRecv, FileReply, TerminalReply, TerminalPrint, Trap, vars
<1>5. CASE ShellStep \/ ShellPrompt
  BY <1>2, <1>5 DEF ShellStep, ShellPrompt, ShellSend, ShellRecv, ShellReply, Trap, vars
<1>6. CASE \E p \in Apps : AppStep(p)
  BY <1>2, <1>6 DEF AppStep, AppRequest, AppRecv, AppExit, Trap
<1>7. CASE KernelStep \/ TimerStep \/ (Halted /\ UNCHANGED progVars) \/ UNCHANGED sysVars
           \/ \E p \in Apps : AppCrash(p)
  BY <1>7 DEF KernelStep, TimerStep, ScanStep, Dispatch, Panic, Timer, proc_yield, Halted, AppCrash, Fault, sysVars, vars
<1> QED BY <1>3, <1>4, <1>5, <1>6, <1>7 DEF SysNext

LEMMA LoadingStep ==
  ASSUME AllInv, UpInv, LoadingInv, [SysNext]_sysVars, [Next]_vars, kpc' \notin Fatals
  PROVE  LoadingInv'
<1>0. /\ IInv /\ LoadInv /\ status \in [Slots -> Statuses] /\ Scanned \subseteq Slots /\ curr \in Slots
      /\ at \in [Slots -> Labels]
  BY Numbers, SlotFacts DEF AllInv, IInv, TypeOK, UpInv, SlotInv
<1>1. CASE SpawnAlloc
  <2>1. PICK n \in Slots \ {0, 1} :
          /\ call.op = "none" /\ call' = [op |-> "loading", arg |-> last_pid + 1]
          /\ at'[n] = Entry(last_pid + 1) /\ pid'[n] = last_pid + 1
          /\ \A k \in Slots \ {n} : status'[k] = status[k]
    BY <1>1, AllocStep
  <2>2. \A k \in Scanned : status[k] # "LOADING"
    BY <2>1 DEF LoadingInv
  <2> QED BY <2>1, <2>2, <1>0 DEF LoadingInv
<1>2. CASE ~SpawnAlloc
  <2> SUFFICES ASSUME NEW k \in Scanned, status'[k] = "LOADING"
               PROVE  call'.op \in {"loading", "loaded"} /\ pid'[k] = call'.arg /\ at'[k] = Entry(call'.arg)
    BY DEF LoadingInv
  <2>0. k \in Slots
    BY <1>0
  <2>1. ~proc_alloc
    <3>1. proc_alloc => kpc' \in Fatals \/ (call.op = "none" /\ call'.op = "loading")
      BY DEF proc_alloc, Panic, InProcess, Fatals
    <3> QED BY <3>1, <1>2, LoadsKept
  <2>2. ~proc_alloc => status[k] = "LOADING"
    <3>1. CASE KernelOwnStep
      BY <3>1, <1>0, <2>0, KernelEffect DEF KernelMoves
    <3>2. CASE proc_set_ready \/ ProcFreeEnd \/ KillAllMark
      BY <3>2, <1>0, <2>0 DEF proc_set_ready, ProcFreeEnd, KillAllMark, proc_set_status
    <3>3. CASE elf_load \/ (\E p \in UserPids : proc_free(p)) \/ KillAll \/ KillAllUnmap \/ KillAllEnd \/ UNCHANGED vars
      BY <3>3 DEF elf_load, proc_free, KillAll, KillAllUnmap, KillAllEnd, vars, procVars
    <3> QED BY <3>1, <3>2, <3>3 DEF Next, KernelOwnStep
  <2>3. call.op \in {"loading", "loaded"} /\ pid[k] = call.arg /\ at[k] = Entry(call.arg)
    BY <2>1, <2>2 DEF LoadingInv
  <2>4. at'[k] = at[k]
    <3>1. k # curr \/ kpc # "user"
      BY <2>1, <2>2, <1>0, UserFacts
    <3> QED BY <3>1, <2>0, <1>0, <1>2, AtKept
  <2>5. pid' = pid /\ call'.arg = call.arg /\ call'.op \in {"loading", "loaded"}
    <3>1. CASE KernelOwnStep
      BY <3>1, <2>3, <1>0, KernelEffect
    <3>2. CASE elf_load
      <4>1. call' = [call EXCEPT !.op = "loaded"] /\ pid' = pid
        BY <3>2 DEF elf_load
      <4>2. call \in [op : {"loading", "loaded"}, arg : Int]
        BY <2>3, <1>0, Numbers DEF IInv, TypeOK, Calls
      <4> QED BY <4>1, <4>2
    <3>5. CASE UNCHANGED vars
      BY <3>5, <2>3 DEF vars, procVars
    <3>3. ~proc_set_ready
      <4>1. proc_set_ready => status'[k] = IF k < MAX_NPROCESS /\ pid[k] = call.arg THEN "READY" ELSE status[k]
        BY <2>0 DEF proc_set_ready, proc_set_status
      <4>2. k < MAX_NPROCESS
        BY Numbers
      <4> QED BY <4>1, <4>2, <2>3
    <3>4. ~(\/ ProcFreeEnd \/ KillAllMark \/ (\E p \in UserPids : proc_free(p)) \/ KillAll \/ KillAllUnmap
            \/ KillAllEnd)
      BY <2>3 DEF proc_free, KillAll, KillAllUnmap, KillAllEnd, ProcFreeEnd, KillAllMark, InProcess
    <3> QED BY <2>1, <3>1, <3>2, <3>3, <3>4, <3>5 DEF Next, KernelOwnStep
  <2> QED BY <2>3, <2>4, <2>5
<1> QED BY <1>1, <1>2

\* A request is taken from everybody.
LEMMA AskStep ==
  ASSUME AllInv, UpInv, AskInv, [SysNext]_sysVars, [Next]_vars, UpInv',
         \A r \in {GPID_PROCESS} \cup Servers :
           kpc = "user" /\ r = curr /\ Blocked(r)' /\ at'[r] = "request" => WaitsFor(r, GPID_ALL)'
  PROVE  AskInv'
<1> USE Numbers
<1> SUFFICES ASSUME NEW r \in {GPID_PROCESS} \cup Servers, r <= last_pid', at'[r] = "request", Blocked(r)'
             PROVE  syscall'[r].sender = GPID_ALL \/ syscall'[r].status = "DONE"
  BY DEF AskInv, Asks
<1>0. at \in [Slots -> Labels] /\ r \in Slots /\ last_pid \in Nat /\ r \in 1..4
  <2>1. r \in 1..4
    BY DEF Servers
  <2>2. r \in Slots
    BY <2>1 DEF UpInv, SlotInv
  <2> QED BY <2>1, <2>2 DEF UpInv, SlotInv, AllInv, IInv, TypeOK
<1>1. CASE kpc = "user" /\ r = curr
  BY <1>1 DEF WaitsFor
<1>2. CASE r # curr \/ kpc # "user"
  <2>1. Blocked(r) /\ (syscall'[r] = syscall[r] \/ syscall'[r].status = "DONE")
    BY <1>0, <1>2, CallKept
  <2>2. r <= last_pid
    BY <2>1, <1>0 DEF UpInv, SlotInv, Live, Blocked
  <2>3. at[r] = "request"
    <3>1. CASE SpawnAlloc
      <4>1. at'[r] = at[r] \/ at'[r] \in {"boot", "load", Entry(last_pid + 1)}
        BY <3>1, <1>0 DEF SpawnAlloc
      <4> QED BY <4>1 DEF Entry
    <3>2. CASE ~SpawnAlloc
      BY <3>2, <1>0, <1>2, AtKept
    <3> QED BY <3>1, <3>2
  <2> QED BY <2>1, <2>2, <2>3 DEF AskInv, Asks
<1> QED BY <1>1, <1>2

\* In the loop, a sender that is passed has a receiver.
LEMMA TargetsStep ==
  ASSUME AllInv, UpInv, SendTargets, [Next]_vars, kpc' \notin Fatals, kpc \notin Fatals
  PROVE  SendTargets'
<1> SUFFICES ASSUME kpc' = "scan", NEW s \in Scanned, NEW p, NEW c, Sends(s, p, c)', ~Ahead(s)'
             PROVE  \E k \in Scanned : pid'[k] = p /\ Live(k)'
  BY DEF SendTargets
<1>0. /\ IInv /\ TypeOK /\ Scanned \subseteq Slots /\ curr \in Scanned /\ kpc \in {"user", "scan"}
      /\ i \in 1..(MAX_NPROCESS + 1) /\ MAX_NPROCESS \in Nat
  BY Numbers DEF AllInv, IInv, TypeOK
<1>1. CASE i' = 1 /\ curr' = curr
  <2>1. PICK n \in 1..MAX_NPROCESS : Nth(n) = s
    BY <1>0, NthCovers
  <2>2. Nth(n)' = s
    BY <2>1, <1>1 DEF Nth
  <2> QED BY <2>2, <1>1 DEF Ahead
<1>2. CASE ScanStep
  <2>1. /\ kpc = "scan" /\ i <= MAX_NPROCESS /\ i' = i + 1 /\ UNCHANGED <<pid, curr>>
    BY <1>2, <1>0, ScanEffect
  <2>2. /\ \A k \in Slots : Live(k)' <=> Live(k)
        /\ Sends(s, p, c)
    <3>1. CASE \A k \in Slots : Still(k)
      BY <3>1, <1>0 DEF Still
    <3>2. CASE \E r, d \in Scanned : Wakes(r, d)
      <4>1. PICK r \in Scanned, d \in Scanned : Wakes(r, d)
        BY <3>2
      <4>2. Live(r) /\ Live(d) /\ Live(r)' /\ Live(d)' /\ ~Blocked(r)' /\ ~Blocked(d)'
        BY <4>1 DEF Wakes, Waits, Sends, Live, Blocked
      <4>3. \A k \in Slots \ {r, d} : Still(k)
        BY <4>1 DEF Wakes
      <4>4. s \notin {r, d}
        BY <4>2 DEF Sends
      <4> QED BY <4>2, <4>3, <4>4, <1>0 DEF Still
    <3> QED BY <3>1, <3>2, <1>2, KernelView
  <2>3. SUFFICES \E k \in Scanned : pid[k] = p /\ Live(k)
    BY <2>1, <2>2, <1>0
  <2>4. CASE ~Ahead(s)
    BY <2>1, <2>2, <2>4 DEF SendTargets
  <2>5. CASE Ahead(s)
    <3>1. s = Nth(i)
      BY <2>1, <2>5, <1>0, AheadStep
    <3>2. SyscallFatal(status, syscall, s) = "none"
      BY <1>2, <2>2, <3>1 DEF ScanStep, Sends, Blocked, Panic, SyscallFatal, Fatals
    <3>3. Receivers(status, p) # {}
      BY <2>2, <3>2 DEF Sends, SyscallFatal
    <3> QED BY <3>3 DEF Receivers, Live
  <2> QED BY <2>4, <2>5
<1>3. CASE UNCHANGED vars
  <2>1. kpc = "scan" /\ ~Ahead(s) /\ Sends(s, p, c) /\ UNCHANGED <<pid, status>>
    BY <1>3 DEF vars, procVars, loopVars, Ahead, Nth, Sends, Blocked
  <2> QED BY <2>1 DEF SendTargets, Live
<1>4. CASE Send \/ Recv
  <2>1. PICK r \in SyscallRecord : r.status = "PENDING" /\ r.type \in {"SEND", "RECV"} /\ Ecall(r)
    BY <1>4, RequestsAreCalls DEF Send, Recv
  <2> QED BY <2>1, <1>0, <1>1, EcallEffect
<1>5. CASE Timer
  BY <1>0, <1>1, <1>5, TimerEffect
<1>6. ~(Fault \/ Dispatch \/ Halted)
  BY DEF Fault, Panic, Dispatch, Halted, Fatals
<1>7. ~(proc_alloc \/ elf_load \/ proc_set_ready \/ (\E q \in UserPids : proc_free(q))
        \/ ProcFreeEnd \/ KillAll \/ KillAllUnmap \/ KillAllMark \/ KillAllEnd)
  BY DEF proc_alloc, elf_load, proc_set_ready, proc_free, ProcFreeEnd, KillAll, KillAllUnmap, KillAllMark,
     KillAllEnd, InProcess, Panic
<1> QED BY <1>1, <1>2, <1>3, <1>4, <1>5, <1>6, <1>7 DEF Next

-----------------------------------------------------------------------------
(* What is due to the shell and owed by the servers: steps of the kernel.  *)

\* Who receives what from whom.
Exchange(r, s, c) ==
  \/ r = 1 /\ s \in {2, 3} /\ at[1] = "boot" /\ last_pid \in {2, 3}
  \/ /\ r = 1 /\ s = 4 /\ at[1] = "request" /\ c = cmd
     /\ \/ at[4] = "recv" /\ cmd \in Spawns
        \/ at[4] = "prompt" /\ cmd = "killall"
  \/ r = 1 /\ pid[s] \in Apps /\ at[1] = "request" /\ at[s] = "spin" /\ c = "exit"
  \/ r = 1 /\ s = 3 /\ at[1] \in {"lookup", "load"}
  \/ r = 4 /\ s = 1 /\ at[1] = "loop" /\ c \in {"ok", "error", "exit"} /\ at[4] \in {"reply", "prompt"}
  \/ r = 3 /\ s = 1 /\ at[3] = "request" /\ at[1] \in {"lookup_recv", "load_recv"} /\ c = "read"
  \/ /\ pid[s] \in Apps /\ r \in {2, 3} /\ at[r] = "request"
     /\ \/ r = 2 /\ at[s] = "run" /\ c = "print"
        \/ r = 3 /\ at[s] = "read_recv" /\ c = "read"
        \/ r = 2 /\ at[s] = "input_recv" /\ c = "input"
  \/ pid[r] \in Apps /\ s \in {2, 3} /\ at[r] = "run"

LEMMA WakeCases ==
  ASSUME AllInv, UpInv, UNCHANGED <<pid, last_pid, call, progVars>>, NEW r \in Slots, NEW s \in Slots,
         Wakes(r, s)
  PROVE  \E c : Sends(s, pid[r], c) /\ usr'[r] = [sender |-> pid[s], content |-> c] /\ Exchange(r, s, c)
<1>1. /\ \A k \in Slots : pid[k] \in Apps => k \notin 1..4 /\ last_pid > 4 /\ pid[k] \in Known
      /\ \A k \in Slots, p \in 1..4 : pid[k] = p => k = p /\ p <= last_pid
      /\ \A p \in 1..4 : p <= last_pid => pid[p] = p
      /\ last_pid \in Nat /\ pid[1] = 1
  BY SlotFacts, Numbers DEF UpInv
<1>2. Waits(r) /\ syscall[r].sender = pid[s] /\ r # s
  BY DEF Wakes
<1>3. PICK c \in Contents \cup {NoContent} : Sends(s, pid[r], c) /\ usr'[r] = [sender |-> pid[s], content |-> c]
  BY WakeFrame, Zenon
<1>4. \A k \in Slots : pid[k] \in Apps => pid[k] >= 5
  BY Numbers DEF Apps
<1>5. last_pid > 3 => \A x \in {2, 3} : ~Due(x)
  BY BootOver, Numbers DEF Servers
<1>6. AwaitsBlock => at[1] \in {"lookup_recv", "load_recv", "lookup", "load"}
  BY Numbers DEF AwaitsBlock
<1>7. at[1] \in {"request", "lookup", "load", "loop"} => last_pid > 3
  BY <1>1, Numbers DEF UpInv, CallLabels, Booting
<1>8. s \in 1..4 /\ Live(s) => pid[s] = s
  BY <1>1 DEF UpInv, SlotInv
<1>9. Live(s)
  BY <1>3 DEF Sends, Live, Blocked
<1> DEFINE p == pid[r]
<1>10. \/ s = 1 /\ p = 4 /\ at[1] = "loop" /\ c \in {"ok", "error", "exit"}
       \/ s = 1 /\ p = 3 /\ at[1] \in {"lookup_recv", "load_recv"} /\ c = "read"
       \/ s \in {2, 3} /\ p = 1 /\ c = "finish" /\ Due(s)
       \/ s = 3 /\ p = 1 /\ AwaitsBlock
       \/ s \in {2, 3} /\ p >= 5
       \/ s = 4 /\ p = 1 /\ c = cmd
            /\ \/ at[4] = "recv" /\ cmd \in Spawns
               \/ at[4] = "prompt" /\ cmd = "killall"
       \/ /\ pid[s] \in Apps /\ s \notin 1..4 /\ last_pid > 4
          /\ \/ p = 2 /\ at[s] = "run" /\ c = "print"
             \/ p = 3 /\ at[s] = "read_recv" /\ c = "read"
             \/ p = 2 /\ at[s] = "input_recv" /\ c = "input"
             \/ p = 1 /\ at[s] = "spin" /\ c = "exit"
  BY <1>3, WhoSends
<1>11. \/ r = 1 /\ at[1] = "boot" /\ last_pid \in {2, 3} /\ pid[s] = last_pid
       \/ r = 1 /\ at[1] = "request"
       \/ r = 1 /\ at[1] \in {"lookup", "load"} /\ pid[s] = 3
       \/ r \in {2, 3} /\ at[r] = "request" /\ r <= last_pid
       \/ r = 4 /\ at[4] \in {"reply", "prompt"} /\ pid[s] = 1 /\ 4 <= last_pid
       \/ pid[r] \in Apps /\ r \notin 1..4 /\ last_pid > 4 /\ at[r] = "run" /\ pid[s] \in {2, 3}
  BY <1>2, WhoWaits
<1> HIDE DEF p
<1>12. r \in 1..4 => p = r
  <2>1. Live(r)
    BY <1>2 DEF Waits, Live, Blocked
  <2> QED BY <2>1, <1>1 DEF UpInv, SlotInv, p
<1> SUFFICES Exchange(r, s, c)
  BY <1>3
<1>13. CASE r = 1 /\ at[1] = "boot" /\ last_pid \in {2, 3} /\ pid[s] = last_pid
  BY <1>13, <1>1, <1>3 DEF Exchange
<1>14. CASE r = 1 /\ at[1] = "request"
  <2>1. p = 1 /\ last_pid > 3
    BY <1>7, <1>12, <1>14
  <2> QED BY <2>1, <1>3, <1>5, <1>6, <1>10, <1>14 DEF Exchange
<1>15. CASE r = 1 /\ at[1] \in {"lookup", "load"} /\ pid[s] = 3
  <2>1. s = 3
    BY <1>15, <1>1, Numbers
  <2> QED BY <2>1, <1>3, <1>15 DEF Exchange
<1>16. CASE r \in {2, 3} /\ at[r] = "request" /\ r <= last_pid
  <2>1. p = r
    BY <1>12, <1>16
  <2> QED BY <2>1, <1>3, <1>10, <1>16 DEF Exchange
<1>17. CASE r = 4 /\ at[4] \in {"reply", "prompt"} /\ pid[s] = 1 /\ 4 <= last_pid
  <2>1. p = 4 /\ s = 1
    BY <1>12, <1>17, <1>1
  <2> QED BY <2>1, <1>3, <1>10, <1>17 DEF Exchange
<1>18. CASE pid[r] \in Apps /\ at[r] = "run" /\ pid[s] \in {2, 3}
  <2>1. s \in {2, 3}
    BY <1>18, <1>1, Numbers
  <2> QED BY <2>1, <1>3, <1>18 DEF Exchange
<1> QED BY <1>11, <1>13, <1>14, <1>15, <1>16, <1>17, <1>18

\* The shell is where it was, and so is what is due to it.
LEMMA EndFrame ==
  ASSUME EndInv, Same(GPID_PROCESS), GPID_SHELL <= last_pid => Same(GPID_SHELL),
         UNCHANGED <<cmd, shell_waiting, app_pid, last_pid, pid>>, \A k \in Slots : Live(k)' <=> Live(k)
  PROVE  EndInv'
<1>1. Gone(app_pid)' <=> Gone(app_pid)
  BY DEF Gone
<1> HIDE DEF Gone
<1>2. /\ Killing' <=> Killing
      /\ AtService' <=> AtService
      /\ \A c : Answers(c)' <=> Answers(c)
      /\ at'[GPID_PROCESS] = at[GPID_PROCESS]
  BY DEF Killing, AtService, Answers, Same, Still
<1>3. GPID_SHELL <= last_pid => (AwaitsAnswer' <=> AwaitsAnswer) /\ (AwaitsEnd' <=> AwaitsEnd)
  BY DEF AwaitsAnswer, AwaitsEnd, Same, Still
<1> QED BY <1>1, <1>2, <1>3 DEF EndInv, AnswerDue, EndDue, Spawned

\* GPID_PROCESS serves the command of the shell.
LEMMA EndServing ==
  ASSUME TalkInv', AtService', ~Answers("ok")',
         at'[GPID_PROCESS] \in {"load", "load_recv", "reply"} => ~Gone(app_pid)'
  PROVE  EndInv'
<1>1. AwaitsAnswer'
  BY DEF TalkInv
<1>2. ~AwaitsEnd'
  BY <1>1 DEF AwaitsAnswer, AwaitsEnd
<1> QED BY <1>2 DEF EndInv, AnswerDue, EndDue, Spawned

\* GPID_PROCESS moves and is neither serving nor answering the shell.
LEMMA EndIdle ==
  ASSUME EndInv, GPID_SHELL <= last_pid, last_pid' = last_pid, Same(GPID_SHELL), cmd' = cmd,
         ~AtService, ~Answers("ok"), ~Answers("error"), ~Answers("ok")',
         at'[GPID_PROCESS] \notin {"load", "load_recv", "reply"},
         /\ ~Killing
         /\ at[GPID_PROCESS] = "notify" \/ Answers("exit") \/ (shell_waiting /\ ~Gone(app_pid))
         => /\ ~Killing'
            /\ at'[GPID_PROCESS] = "notify" \/ Answers("exit")' \/ (shell_waiting /\ ~Gone(app_pid))'
  PROVE  EndInv'
<1>1. (AwaitsAnswer' <=> AwaitsAnswer) /\ (AwaitsEnd' <=> AwaitsEnd)
  BY DEF AwaitsAnswer, AwaitsEnd, Same, Still
<1> QED BY <1>1 DEF EndInv, AnswerDue, EndDue, Spawned

\* The shell is not started yet.
LEMMA EndBoot ==
  ASSUME GPID_SHELL <= last_pid' => at'[GPID_SHELL] = "cmd", ~Answers("ok")',
         at'[GPID_PROCESS] \notin {"load", "load_recv", "reply"}
  PROVE  EndInv'
BY DEF EndInv, AnswerDue, EndDue, Spawned, AwaitsAnswer, AwaitsEnd

\* An application that did not move does not start to wait for a server.
LEMMA AwaitsSame ==
  ASSUME AllInv, UpInv, NEW k \in Slots, pid[k] \in Apps, Same(k)
  PROVE  /\ Live(k)' <=> Live(k)
         /\ \A s \in Servers : AwaitsReply(k, s)' => AwaitsReply(k, s)
<1> SUFFICES ASSUME NEW s \in Servers, AwaitsReply(k, s)' PROVE AwaitsReply(k, s)
  BY DEF Same, Still
<1>1. CASE at'[k] = (IF s = GPID_FILE THEN "read_recv" ELSE "input_recv") /\ ~Blocked(k)'
  BY <1>1 DEF AwaitsReply, Same, Still
<1>2. CASE at'[k] = "run" /\ WaitsFor(k, s)'
  <2>1. at[k] = "run" /\ Waits(k)
    BY <1>2 DEF Same, Still, WaitsFor
  <2>2. AppLabels(k) /\ Blocked(k)
    BY <2>1 DEF UpInv, AppState, Waits, Live, Blocked
  <2>3. PICK q \in Servers : WaitsFor(k, q)
    BY <2>1, <2>2 DEF AppLabels, Servers, Waits, Sends
  <2>4. WaitsFor(k, q)'
    BY <2>3, Numbers DEF Same, Still, Servers
  <2>5. q = s
    BY <2>4, <1>2 DEF WaitsFor
  <2> QED BY <2>1, <2>3, <2>5 DEF AwaitsReply
<1> QED BY <1>1, <1>2 DEF AwaitsReply

\* Nobody starts to wait for a server, and what is owed still is.
LEMMA OwedKeeps ==
  ASSUME AllInv, UpInv, OwedInv, UNCHANGED pid, AwaitsBlock' => AwaitsBlock,
         \A s \in Servers : s <= last_pid => \A p : Owes(s, p) => Owes(s, p)',
         \A k \in Slots : pid[k] \in Apps /\ Live(k)' =>
           Live(k) /\ \A s \in Servers : AwaitsReply(k, s)' => AwaitsReply(k, s)
  PROVE  OwedInv'
<1>1. /\ \A k \in Slots : pid[k] \in Apps => last_pid > 4
      /\ last_pid \in Nat /\ 3 \in Servers /\ \A s \in Servers : s <= 3
  BY SlotFacts, Numbers DEF UpInv, Servers
<1>2. AwaitsBlock => last_pid > 3
  BY <1>1, Numbers DEF AwaitsBlock, UpInv, CallLabels, Booting
<1>3. AwaitsBlock' => Owes(GPID_FILE, GPID_PROCESS)'
  BY <1>1, <1>2, Numbers DEF OwedInv
<1>4. ASSUME NEW s \in Servers, NEW k \in Slots, pid[k] \in Apps, Live(k)', AwaitsReply(k, s)'
      PROVE  Owes(s, pid[k])'
  <2>1. Live(k) /\ AwaitsReply(k, s) /\ s <= last_pid
    BY <1>1, <1>4, Numbers DEF Servers
  <2>2. Owes(s, pid[k])
    BY <2>1, <1>4 DEF OwedInv
  <2> QED BY <2>1, <2>2
<1> QED BY <1>3, <1>4 DEF OwedInv, Apps

LEMMA OwesSame == ASSUME NEW s, Same(s) PROVE \A p : Owes(s, p)' <=> Owes(s, p)
BY DEF Owes, Same, Still

\* EndInv is kept when a message is taken.
LEMMA WakeEnd ==
  ASSUME AllInv, UpInv, EndInv, UNCHANGED <<pid, last_pid, call, progVars>>, NEW r \in Slots, NEW s \in Slots,
         Wakes(r, s), UpInv'
  PROVE  EndInv'
<1>1. /\ \A k \in Slots : pid[k] \in Apps => k \notin 1..4
      /\ last_pid \in Nat /\ last_pid' = last_pid /\ pid' = pid
      /\ UNCHANGED <<at, cmd, shell_waiting, app_pid>>
  BY SlotFacts DEF UpInv, progVars
<1>2. /\ Waits(r) /\ ~Blocked(r)' /\ ~Blocked(s)' /\ \A k \in Slots : Live(k)' <=> Live(k)
      /\ r # s
  BY WakeFrame DEF Moves
<1>3. /\ 1 \notin {r, s} => Same(1)
      /\ 4 <= last_pid /\ 4 \notin {r, s} => Same(4)
  <2>1. Moves({r, s})
    BY WakeFrame
  <2> QED BY <2>1, OwnSame, Numbers
<1>4. Gone(app_pid)' <=> Gone(app_pid)
  BY <1>1, <1>2 DEF Gone
<1>5. TalkInv /\ TalkInv' /\ CallLabels
  BY DEF UpInv
<1>6. CASE r \notin {1, 4} /\ s \notin {1, 4}
  BY <1>1, <1>2, <1>3, <1>6, EndFrame, Numbers
<1>70. PICK c : Sends(s, pid[r], c) /\ usr'[r] = [sender |-> pid[s], content |-> c] /\ Exchange(r, s, c)
  BY WakeCases, Zenon
<1>7. /\ Sends(s, pid[r], c) /\ usr'[r] = [sender |-> pid[s], content |-> c]
      /\ \/ r = 1 /\ s \in {2, 3} /\ at[1] = "boot" /\ last_pid \in {2, 3}
         \/ /\ r = 1 /\ s = 4 /\ at[1] = "request" /\ c = cmd
            /\ \/ at[4] = "recv" /\ cmd \in Spawns
               \/ at[4] = "prompt" /\ cmd = "killall"
         \/ r = 1 /\ pid[s] \in Apps /\ at[1] = "request" /\ at[s] = "spin" /\ c = "exit"
         \/ r = 1 /\ s = 3 /\ at[1] \in {"lookup", "load"}
         \/ /\ r = 4 /\ s = 1 /\ at[1] = "loop" /\ c \in {"ok", "error", "exit"}
            /\ at[4] \in {"reply", "prompt"}
         \/ r = 3 /\ s = 1 /\ at[3] = "request" /\ at[1] \in {"lookup_recv", "load_recv"} /\ c = "read"
         \/ r \notin {1, 4} /\ s \notin {1, 4}
  BY <1>70, <1>1, Numbers DEF Exchange
<1>8. CASE r = 1 /\ s \in {2, 3} /\ at[1] = "boot" /\ last_pid \in {2, 3}
  BY <1>8, <1>1, Numbers DEF EndInv
<1>9. CASE r = 1 /\ s = 4 /\ at[1] = "request" /\ c = cmd
  <2>1. at'[1] = "request" /\ ~Blocked(1)' /\ ~Blocked(4)' /\ usr'[1].content = cmd
    BY <1>1, <1>2, <1>7, <1>9
  <2>2. \/ at'[4] = "recv" /\ cmd \in Spawns
        \/ at'[4] = "prompt" /\ cmd = "killall"
    BY <1>1, <1>7, <1>9
  <2>3. \A d : ~Answers(d)'
    BY <2>1, Numbers DEF Answers, Sends
  <2>4. ~AwaitsEnd'
    BY <2>1, <2>2, Numbers DEF AwaitsEnd
  <2>5. AwaitsAnswer' => AtService'
    BY <1>1, <2>1, <2>2, Numbers DEF AwaitsAnswer, AtService
  <2> QED BY <2>1, <2>3, <2>4, <2>5, Numbers DEF EndInv, AnswerDue, EndDue, Spawned
<1>10. CASE r = 1 /\ pid[s] \in Apps /\ at[1] = "request" /\ at[s] = "spin" /\ c = "exit"
  <2>1. Waits(1) /\ ~Blocked(1)' /\ usr'[1].content = "exit" /\ at'[1] = "request" /\ s # 4
    BY <1>1, <1>2, <1>7, <1>10
  <2>2. 4 <= last_pid
    BY <1>1, <1>5, <1>10, Numbers DEF CallLabels, Booting
  <2>3. ~AtService /\ (\A d : ~Answers(d)) /\ \A d : ~Answers(d)'
    BY <2>1, <1>10, Numbers DEF AtService, Answers, Sends, Waits
  <2>4. ~Killing'
    BY <2>1, Numbers DEF Killing
  <2> QED BY <1>1, <1>3, <1>4, <1>10, <2>1, <2>2, <2>3, <2>4, EndIdle, Numbers
<1>11. CASE (r = 1 \/ s = 1) /\ at[1] \in {"lookup", "load", "lookup_recv", "load_recv"}
  <2>1. AtService' /\ ~Blocked(1)'
    BY <1>1, <1>2, <1>11, Numbers DEF AtService
  <2>2. ~Answers("ok")'
    BY <2>1, Numbers DEF Answers, Sends
  <2>3. 4 <= last_pid
    BY <1>1, <1>5, <1>11, Numbers DEF CallLabels, Booting
  <2>4. at'[1] \in {"load", "load_recv", "reply"} => ~Gone(app_pid)'
    BY <1>1, <1>4, <2>3, Numbers DEF EndInv, Spawned
  <2> QED BY <1>5, <2>1, <2>2, <2>4, EndServing, Numbers
<1>12. CASE r = 4 /\ s = 1 /\ at[1] = "loop" /\ c \in {"ok", "error", "exit"} /\ at[4] \in {"reply", "prompt"}
  <2>1. ~Blocked(1)' /\ ~Blocked(4)' /\ at'[1] = "loop" /\ at'[4] = at[4] /\ cmd' = cmd /\ Waits(4)
    BY <1>1, <1>2, <1>12
  <2>2. ~AwaitsAnswer' /\ (\A d : ~Answers(d)') /\ ~Killing'
    BY <1>12, <2>1, Numbers DEF AwaitsAnswer, Answers, Sends, Killing
  <2>3. ASSUME AwaitsEnd'
        PROVE  shell_waiting' /\ ~Gone(app_pid)'
    <3>1. at[4] = "reply" /\ cmd = "spawn_fg" /\ ~AwaitsEnd
      BY <1>12, <2>1, <2>3, Numbers DEF AwaitsEnd, Waits
    <3>2. pid[4] = 4 /\ 4 <= last_pid
      <4>1. Live(4) /\ 4 \in Slots
        BY <2>1, <1>12 DEF Waits, Blocked, Live
      <4>2. 4 \in 1..last_pid
        BY <4>1 DEF UpInv, SlotInv
      <4> QED BY <4>2, <1>1, SlotFacts, Numbers DEF UpInv
    <3>3. Answers(c)
      BY <1>7, <1>12, <3>2, Numbers DEF Answers
    <3>4. c = "ok"
      BY <3>1, <3>3, <1>5, <1>12 DEF TalkInv
    <3>5. shell_waiting
      BY <3>1, <3>3, <3>4, <1>5 DEF TalkInv
    <3>6. ~Gone(app_pid)
      BY <3>2, <3>3, <3>4, Numbers DEF EndInv, Spawned
    <3> QED BY <3>5, <3>6, <1>1, <1>4
  <2> QED BY <2>1, <2>2, <2>3, Numbers DEF EndInv, AnswerDue, EndDue, Spawned
<1> QED BY <1>6, <1>7, <1>8, <1>9, <1>10, <1>11, <1>12

\* A server owes only to whom it is sending, and nothing while it waits.
LEMMA OwesWhom ==
  ASSUME NEW s, NEW q, Owes(s, q)
  PROVE  ~Waits(s) /\ \A p, c : Sends(s, p, c) => q = p
BY DEF Owes, Sends, Waits

\* OwedInv is kept when a message is taken.
LEMMA WakeOwed ==
  ASSUME AllInv, UpInv, OwedInv, UNCHANGED <<pid, last_pid, call, progVars>>, NEW r \in Slots, NEW s \in Slots,
         Wakes(r, s)
  PROVE  OwedInv'
<1>1. /\ \A k \in Slots : pid[k] \in Apps => k \notin 1..4 /\ last_pid > 4
      /\ last_pid \in Nat /\ last_pid' = last_pid /\ pid' = pid /\ at' = at /\ pid[1] = 1
  BY SlotFacts DEF UpInv, progVars
<1>2. /\ Waits(r) /\ ~Blocked(r)' /\ ~Blocked(s)' /\ \A k \in Slots : Live(k)' <=> Live(k)
      /\ r # s
  BY WakeFrame DEF Moves
<1>3. /\ 1 \notin {r, s} => Same(1)
      /\ \A x \in Servers : x <= last_pid /\ x \notin {r, s} => Same(x)
      /\ \A k \in Slots \ {r, s} : Same(k)
  <2>1. Moves({r, s})
    BY WakeFrame
  <2> QED BY <2>1, OwnSame, Numbers DEF Moves
<1>4. PICK c : Sends(s, pid[r], c) /\ usr'[r] = [sender |-> pid[s], content |-> c] /\ Exchange(r, s, c)
  BY WakeCases, Zenon
<1>5. /\ \A q : ~Owes(r, q)
      /\ \A q : Owes(s, q) => q = pid[r]
  BY <1>2, <1>4, OwesWhom
<1>6. \A x \in Servers : x <= last_pid /\ x \notin {r, s} => \A p : Owes(x, p) <=> Owes(x, p)'
  BY <1>3, OwesSame
<1>7. /\ AwaitsBlock => Owes(3, 1)
      /\ \A x \in Servers, k \in Slots : pid[k] \in Apps /\ Live(k) /\ AwaitsReply(k, x) => Owes(x, pid[k])
  BY Numbers DEF OwedInv
<1>8. /\ \A k \in Slots : pid[k] \in Apps => pid[k] >= 5
      /\ 3 \in Servers /\ Servers = {2, 3}
  BY Numbers DEF Apps, Servers
<1>9. ASSUME NEW x \in Servers, NEW k \in Slots, pid[k] \in Apps, Live(k)', AwaitsReply(k, x)', k \notin {r, s}
      PROVE  Owes(x, pid[k])
  BY <1>1, <1>2, <1>3, <1>7, <1>9, AwaitsSame
<1>10. SUFFICES ASSUME NEW x \in Servers, NEW k \in Slots, pid[k] \in Apps, Live(k)', AwaitsReply(k, x)'
                PROVE  Owes(x, pid[k])'
  <2>1. AwaitsBlock' => Owes(3, 1)'
    <3> SUFFICES ASSUME AwaitsBlock' PROVE Owes(3, 1)'
      OBVIOUS
    <3>1. CASE 1 \notin {r, s}
      <4>1. AwaitsBlock /\ at[1] \in {"lookup", "load", "lookup_recv", "load_recv"}
        BY <1>3, <3>1, Numbers DEF AwaitsBlock, Same, Still
      <4>2. Owes(3, 1) /\ 3 \notin {r, s}
        BY <4>1, <1>1, <1>4, <1>5, <1>7, <1>8, <3>1 DEF Exchange
      <4>3. 3 <= last_pid
        BY <4>1, <1>1, Numbers DEF UpInv, CallLabels, Booting
      <4> QED BY <4>2, <4>3, <1>6, <1>8
    <3>2. CASE 1 \in {r, s}
      <4>1. ~Blocked(1)' /\ at'[1] \in {"lookup_recv", "load_recv"}
        BY <1>2, <3>2, Numbers DEF AwaitsBlock
      <4>2. r = 3 /\ s = 1 /\ at[3] = "request" /\ c = "read"
        BY <4>1, <3>2, <1>1, <1>4, <1>8 DEF Exchange
      <4> QED BY <4>2, <1>1, <1>2, <1>4 DEF Owes
    <3> QED BY <3>1, <3>2
  <2> QED BY <2>1, <1>1, Numbers DEF OwedInv, Apps
<1>11. x <= last_pid
  BY <1>1, <1>8, <1>10
<1>12. CASE k \notin {r, s}
  <2>1. Owes(x, pid[k]) /\ Live(k)
    BY <1>2, <1>9, <1>10, <1>12
  <2>2. x # r /\ (x = s => pid[k] = pid[r])
    BY <2>1, <1>5
  <2>3. pid[k] # pid[r]
    BY <1>8, <1>10, <1>12, Numbers DEF AllInv, IInv, PidInv
  <2> QED BY <2>1, <2>2, <2>3, <1>6, <1>11
<1>13. CASE k = r
  BY <1>1, <1>2, <1>4, <1>8, <1>10, <1>13 DEF Exchange, AwaitsReply, WaitsFor, Waits
<1>14. CASE k = s
  <2>1. ~Blocked(k)' /\ at'[k] = at[k] /\ at[k] = (IF x = 3 THEN "read_recv" ELSE "input_recv")
    BY <1>1, <1>2, <1>10, <1>14, Numbers DEF AwaitsReply, WaitsFor, Waits
  <2>2. r = x /\ at[r] = "request" /\ c = (IF x = 3 THEN "read" ELSE "input")
    BY <2>1, <1>1, <1>4, <1>8, <1>10, <1>14 DEF Exchange
  <2> QED BY <2>2, <1>1, <1>2, <1>4, <1>8, <1>14 DEF Owes
<1> QED BY <1>12, <1>13, <1>14

\* Every system process and application that did not move keeps what is owed.
LEMMA OwedMoves ==
  ASSUME AllInv, UpInv, OwedInv, NEW M, Moves(M), AwaitsBlock' => AwaitsBlock,
         \A s \in Servers : s <= last_pid /\ s \in M => \A p : Owes(s, p) => Owes(s, p)',
         \A k \in M \cap Slots : pid[k] \in Apps => \A s \in Servers : AwaitsReply(k, s)' => AwaitsReply(k, s)
  PROVE  OwedInv'
<1>1. \A s \in Servers : s <= last_pid => \A p : Owes(s, p) => Owes(s, p)'
  BY OwnSame, OwesSame
<1>2. \A k \in Slots : pid[k] \in Apps /\ Live(k)' =>
        Live(k) /\ \A s \in Servers : AwaitsReply(k, s)' => AwaitsReply(k, s)
  <2> SUFFICES ASSUME NEW k \in Slots, pid[k] \in Apps, Live(k)'
               PROVE  Live(k) /\ \A s \in Servers : AwaitsReply(k, s)' => AwaitsReply(k, s)
    OBVIOUS
  <2>1. CASE k \in M
    BY <2>1 DEF Moves
  <2>2. CASE k \notin M
    <3>1. Same(k)
      BY <2>2 DEF Moves
    <3> QED BY <3>1, AwaitsSame
  <2> QED BY <2>1, <2>2
<1>3. UNCHANGED pid
  BY DEF Moves
<1> QED BY <1>1, <1>2, <1>3, OwedKeeps

LEMMA KernelOwed ==
  ASSUME AllInv, UpInv, EndInv, OwedInv, UpInv', ScanStep \/ Dispatch \/ Timer, UNCHANGED progVars,
         kpc' \notin Fatals
  PROVE  EndInv' /\ OwedInv'
<1>1. /\ UNCHANGED <<pid, last_pid, call>>
      /\ \/ usr' = usr /\ \A k \in Slots : Still(k)
         \/ \E r, s \in Scanned : Wakes(r, s)
  BY KernelView
<1>2. CASE usr' = usr /\ \A k \in Slots : Still(k)
  <2>1. Moves({}) /\ UNCHANGED <<at, cmd, shell_waiting, app_pid>>
    BY <1>1, <1>2 DEF Moves, Same, Still, progVars, UpInv, SlotInv
  <2>2. /\ Same(GPID_PROCESS) /\ (GPID_SHELL <= last_pid => Same(GPID_SHELL))
        /\ \A k \in Slots : Live(k)' <=> Live(k)
    BY <2>1, OwnSame DEF Moves
  <2>3. AwaitsBlock' => AwaitsBlock
    BY <2>2 DEF AwaitsBlock, Same, Still
  <2>4. OwedInv'
    BY <2>1, <2>3, OwedMoves
  <2>5. EndInv'
    BY <1>1, <2>1, <2>2, EndFrame
  <2> QED BY <2>4, <2>5
<1>3. CASE \E r, s \in Scanned : Wakes(r, s)
  <2>1. PICK r \in Scanned, s \in Scanned : Wakes(r, s)
    BY <1>3
  <2>2. r \in Slots /\ s \in Slots
    BY Numbers
  <2> QED BY <1>1, <2>1, <2>2, WakeEnd, WakeOwed
<1> QED BY <1>1, <1>2, <1>3

\* GPID_PROCESS and the shell have not moved.
LEMMA OthersMove ==
  ASSUME AllInv, UpInv, EndInv, NEW M, Moves(M), GPID_PROCESS \notin M, GPID_SHELL \notin M,
         UNCHANGED <<cmd, shell_waiting, app_pid>>
  PROVE  EndInv' /\ (AwaitsBlock' => AwaitsBlock)
<1>1. Same(GPID_PROCESS) /\ (GPID_SHELL <= last_pid => Same(GPID_SHELL))
  BY OwnSame
<1>2. AwaitsBlock' => AwaitsBlock
  BY <1>1 DEF AwaitsBlock, Same, Still
<1>3. EndInv'
  BY <1>1, EndFrame DEF Moves
<1> QED BY <1>2, <1>3

\* A server takes a request, and a request that it has taken is answered.
LEMMA ServerOwed ==
  ASSUME AllInv, UpInv, EndInv, OwedInv, NEW s \in Servers, ServerStep(s), kpc' \notin Fatals
  PROVE  /\ EndInv' /\ OwedInv'
         /\ at'[s] = "request" => WaitsFor(s, GPID_ALL)'
<1>0. UNCHANGED <<left, app_pid, shell_waiting, req, client, cmd, typed>> /\ s \in {2, 3}
  BY Numbers DEF ServerStep, Servers
<1>1. left' \in [Slots -> Int] /\ last_pid \in Nat /\ MaxPid \in Nat /\ last_pid <= MaxPid
      /\ 1 \in 1..MaxPid /\ "loop" \in Labels /\ "request" \in Labels
  <2>1. last_pid \in 1..MaxPid
    BY SlotFacts DEF UpInv
  <2>2. left \in [Slots -> Int]
    BY DEF UpInv, SlotInv
  <2> QED BY ONLY <1>0, <2>1, <2>2, Numbers DEF Labels
<1>2. ASSUME NEW l, At(s, l)
      PROVE  curr = s /\ s \in Slots /\ s <= last_pid /\ ~Blocked(s) /\ at[s] = l /\ kpc = "user"
  BY <1>0, <1>2, Running
<1>3. ASSUME Moves({s}), \A p : Owes(s, p) => Owes(s, p)', at'[s] = "request" => WaitsFor(s, GPID_ALL)'
      PROVE  EndInv' /\ OwedInv' /\ (at'[s] = "request" => WaitsFor(s, GPID_ALL)')
  <2>1. GPID_PROCESS \notin {s} /\ GPID_SHELL \notin {s} /\ \A k \in {s} \cap Slots : pid[k] \notin Apps
    BY <1>0, SlotFacts, Numbers DEF UpInv
  <2>2. EndInv' /\ (AwaitsBlock' => AwaitsBlock)
    BY <1>0, <1>3, <2>1, OthersMove
  <2>3. OwedInv'
    BY <1>3, <2>1, <2>2, OwedMoves
  <2> QED BY <1>3, <2>2, <2>3
<1>4. CASE ServerInit(s)
  <2>1. At(s, "init") /\ Trap(SendTo(GPID_PROCESS, "finish"), "loop") /\ GPID_PROCESS \in 1..MaxPid
        /\ "finish" \in Contents
    BY <1>1, <1>4, ServersAssumption, Numbers DEF ServerInit
  <2>2. curr = s /\ ~Blocked(s) /\ at[s] = "init"
    BY <1>2, <2>1
  <2>3. PICK p \in 1..MaxPid, c \in Contents, l \in Labels : p = GPID_PROCESS /\ c = "finish" /\ l = "loop"
    BY <1>1, <2>1
  <2>4. \A k \in Slots \ {curr} : left'[k] = left[k]
    BY <1>0
  <2>5. Trap(SendTo(p, c), l)
    BY <2>1, <2>3
  <2>6. Moves({curr}) /\ curr' = curr /\ at'[curr] = l
    BY <1>1, <2>4, <2>5, SendStep
  <2>7. \A q : ~Owes(s, q)
    BY <2>2 DEF Owes, Sends
  <2> QED BY <1>3, <2>2, <2>3, <2>6, <2>7
<1>5. CASE ServerRecv(s)
  <2>1. At(s, "loop") /\ Trap(RecvFrom(GPID_ALL), "request")
    BY <1>5 DEF ServerRecv
  <2>2. curr = s /\ ~Blocked(s) /\ at[s] = "loop"
    BY <1>2, <2>1
  <2>3. Moves({curr}) /\ curr' = curr /\ WaitsFor(curr, GPID_ALL)'
    BY <1>0, <1>1, <2>1, RecvStep
  <2>4. \A q : ~Owes(s, q)
    BY <2>2 DEF Owes, Sends
  <2>5. WaitsFor(s, GPID_ALL)'
    BY <2>2, <2>3
  <2> QED BY <1>3, <2>2, <2>3, <2>4, <2>5
<1>6. CASE (s = GPID_FILE /\ FileReply) \/ (s = GPID_TERMINAL /\ TerminalReply)
  <2>1. PICK c \in {"block", "line"} :
           /\ c = (IF s = GPID_FILE THEN "block" ELSE "line")
           /\ At(s, "request") /\ Trap(SendTo(usr[curr].sender, c), "loop")
           /\ usr[curr].content \in {"read", "input"}
    BY <1>6, Numbers DEF FileReply, TerminalReply, Message
  <2>2. curr = s /\ s <= last_pid /\ ~Blocked(s) /\ at[s] = "request"
    BY <1>2, <2>1
  <2>3. PICK p : p = usr[s].sender
    OBVIOUS
  <2>4. p \in Known \/ (s = GPID_FILE /\ p = GPID_PROCESS)
    BY <1>0, <2>1, <2>2, <2>3, Numbers DEF UpInv, ServerInbox
  <2>5. p \in 1..MaxPid /\ c \in Contents /\ Trap(SendTo(p, c), "loop")
    <3>1. p \in 1..MaxPid
      BY ONLY <1>1, <2>4, Numbers DEF Known
    <3>2. c \in Contents
      BY ONLY <2>1, ServersAssumption
    <3> QED BY <2>1, <2>2, <2>3, <3>1, <3>2
  <2>6. Moves({curr}) /\ curr' = curr /\ at'[curr] = "loop" /\ \A q, e : Sends(curr, q, e)' <=> q = p /\ e = c
    BY <1>0, <1>1, <2>5, SendStep
  <2>7. \A q : Owes(s, q) => q = p
    BY <2>2, <2>3 DEF Owes, Sends
  <2>8. Sends(s, p, c)' /\ at'[s] = "loop"
    BY <2>2, <2>6
  <2>9. Owes(s, p)'
    BY <2>1, <2>8 DEF Owes
  <2> QED BY <1>3, <2>2, <2>6, <2>7, <2>8, <2>9
<1>7. CASE s = GPID_TERMINAL /\ TerminalPrint
  <2>1. At(s, "request") /\ Goto("loop") /\ UNCHANGED vars /\ usr[curr].content = "print"
    BY <1>7 DEF TerminalPrint, Message
  <2>2. curr = s /\ ~Blocked(s) /\ kpc = "user"
    BY <1>2, <2>1
  <2>3. Moves({curr}) /\ curr' = curr /\ at'[curr] = "loop"
    BY <1>0, <1>1, <2>1, <2>2, LocalStep
  <2>4. \A q : ~Owes(s, q)
    BY <2>1, <2>2 DEF Owes, Sends
  <2> QED BY <1>3, <2>2, <2>3, <2>4
<1> QED BY <1>4, <1>5, <1>6, <1>7 DEF ServerStep

\* The shell moves: it waits for nothing new unless it is due.
LEMMA ShellOwed ==
  ASSUME AllInv, UpInv, EndInv, OwedInv, ShellStep \/ ShellPrompt, kpc' \notin Fatals
  PROVE  EndInv' /\ OwedInv'
<1>0. PICK l \in {"cmd", "recv", "reply", "prompt"} : At(GPID_SHELL, l)
  BY DEF ShellStep, ShellSend, ShellRecv, ShellReply, ShellPrompt
<1>1. curr = 4 /\ 4 \in Slots /\ ~Blocked(4) /\ at[4] = l /\ 4 <= last_pid /\ kpc = "user"
  BY <1>0, Running, Numbers
<1>2. /\ UNCHANGED <<left, app_pid, shell_waiting, req, client>>
      /\ left' \in [Slots -> Int] /\ last_pid \in Nat /\ MaxPid \in Nat /\ last_pid <= MaxPid
      /\ GPID_PROCESS \in 1..MaxPid /\ {"cmd", "recv", "reply", "prompt"} \subseteq Labels
      /\ Spawns \cup {"killall"} \subseteq Contents
  <2>1. UNCHANGED <<left, app_pid, shell_waiting, req, client>>
    BY DEF ShellStep, ShellSend, ShellRecv, ShellReply, ShellPrompt
  <2>2. left' \in [Slots -> Int] /\ last_pid \in Nat /\ MaxPid \in Nat /\ last_pid <= MaxPid
    BY <2>1, SlotFacts, Numbers DEF UpInv, SlotInv
  <2>3. {"cmd", "recv", "reply", "prompt"} \subseteq Labels
    BY DEF Labels
  <2>4. GPID_PROCESS \in 1..MaxPid
    BY <1>1, <2>2, Numbers
  <2>5. Spawns \cup {"killall"} \subseteq Contents
    BY ServersAssumption DEF Spawns
  <2> QED BY <2>1, <2>2, <2>3, <2>4, <2>5
<1>3. cmd \in Spawns \cup {"killall"} /\ ShellInbox
  BY <1>1, Numbers DEF UpInv, ShellState
<1>4. ASSUME Moves({4}), AwaitsAnswer' => AwaitsAnswer, AwaitsEnd' => AwaitsEnd
      PROVE  EndInv' /\ OwedInv'
  <2>1. /\ GPID_PROCESS \notin {4} /\ \A s \in Servers : s \notin {4}
        /\ \A k \in {4} \cap Slots : pid[k] \notin Apps
    BY SlotFacts, Numbers DEF UpInv, Servers
  <2>2. Same(GPID_PROCESS)
    BY <1>4, <2>1, OwnSame
  <2>3. AwaitsBlock' => AwaitsBlock
    BY <2>2 DEF AwaitsBlock, Same, Still
  <2>4. OwedInv'
    BY <1>4, <2>1, <2>3, OwedMoves
  <2>5. /\ Killing' <=> Killing
        /\ AtService' <=> AtService
        /\ \A c : Answers(c)' <=> Answers(c)
        /\ at'[GPID_PROCESS] = at[GPID_PROCESS]
    BY <2>2 DEF Killing, AtService, Answers, Same, Still
  <2>6. (Gone(app_pid)' <=> Gone(app_pid)) /\ UNCHANGED <<last_pid, shell_waiting>>
    BY <1>2, <1>4 DEF Moves, Gone
  <2>7. EndInv'
    BY <1>1, <1>4, <2>5, <2>6, Numbers DEF EndInv, AnswerDue, EndDue, Spawned
  <2> QED BY <2>4, <2>7
<1>5. CASE ShellSend
  <2>1. PICK m \in {"prompt", "recv"} : m = IF cmd = "killall" THEN "prompt" ELSE "recv"
    OBVIOUS
  <2>2. at[4] = "cmd" /\ Trap(SendTo(GPID_PROCESS, cmd), m) /\ cmd' = cmd /\ m \in Labels /\ cmd \in Contents
    BY <1>1, <1>2, <1>3, <1>5, <2>1, Numbers DEF ShellSend, At
  <2>3. Moves({curr}) /\ curr' = curr /\ at'[curr] = m /\ Blocked(curr)'
    BY <1>2, <2>2, SendStep
  <2>4. at'[4] = m /\ Blocked(4)' /\ Moves({4})
    BY <1>1, <2>3
  <2>5. ~AwaitsAnswer'
    BY <2>1, <2>4, Numbers DEF AwaitsAnswer
  <2>6. ~AwaitsEnd'
    BY <2>1, <2>2, <2>4, Numbers DEF AwaitsEnd
  <2> QED BY <1>4, <2>4, <2>5, <2>6
<1>6. CASE ShellRecv
  <2>1. at[4] = "recv" /\ Trap(RecvFrom(GPID_PROCESS), "reply") /\ cmd' = cmd /\ "reply" \in Labels
    BY <1>1, <1>2, <1>6, Numbers DEF ShellRecv, At
  <2>2. Moves({curr}) /\ curr' = curr /\ at'[curr] = "reply" /\ Blocked(curr)'
    BY <1>2, <2>1, RecvStep
  <2>3. at'[4] = "reply" /\ Blocked(4)' /\ Moves({4})
    BY <1>1, <2>2
  <2>4. AwaitsAnswer /\ ~AwaitsEnd'
    BY <1>1, <2>1, <2>3, Numbers DEF AwaitsAnswer, AwaitsEnd
  <2> QED BY <1>4, <2>3, <2>4
<1>7. CASE ShellReply /\ usr[4].content = "ok" /\ cmd = "spawn_fg"
  <2>1. at[4] = "reply" /\ Trap(RecvFrom(GPID_PROCESS), "prompt") /\ cmd' = cmd /\ "prompt" \in Labels
    BY <1>1, <1>2, <1>7, Numbers DEF ShellReply, At, Message
  <2>2. Moves({curr}) /\ curr' = curr /\ at'[curr] = "prompt" /\ Blocked(curr)'
    BY <1>2, <2>1, RecvStep
  <2>3. at'[4] = "prompt" /\ Blocked(4)' /\ Moves({4})
    BY <1>1, <2>2
  <2>4. AwaitsEnd /\ ~AwaitsAnswer'
    BY <1>1, <1>7, <2>1, <2>3, Numbers DEF AwaitsAnswer, AwaitsEnd
  <2> QED BY <1>4, <2>3, <2>4
<1>8. CASE ShellReply /\ ~(usr[4].content = "ok" /\ cmd = "spawn_fg")
  <2>1. at[4] = "reply" /\ Goto("prompt") /\ UNCHANGED vars /\ cmd' = cmd /\ "prompt" \in Labels
    BY <1>1, <1>2, <1>8, Numbers DEF ShellReply, At, Message
  <2>2. Moves({curr}) /\ curr' = curr /\ at'[curr] = "prompt" /\ ~Blocked(curr)'
    BY <1>1, <1>2, <2>1, LocalStep
  <2>3. at'[4] = "prompt" /\ ~Blocked(4)' /\ Moves({4})
    BY <1>1, <2>2
  <2>4. ~AwaitsAnswer' /\ ~AwaitsEnd'
    BY <2>3, Numbers DEF AwaitsAnswer, AwaitsEnd
  <2> QED BY <1>4, <2>3, <2>4
<1>9. CASE ShellPrompt
  <2>1. at[4] = "prompt" /\ Goto("cmd") /\ UNCHANGED vars /\ "cmd" \in Labels
    BY <1>1, <1>2, <1>9, Numbers DEF ShellPrompt, At
  <2>2. Moves({curr}) /\ curr' = curr /\ at'[curr] = "cmd"
    BY <1>1, <1>2, <2>1, LocalStep
  <2>3. at'[4] = "cmd" /\ Moves({4})
    BY <1>1, <2>2
  <2>4. ~AwaitsAnswer' /\ ~AwaitsEnd'
    BY <2>3, Numbers DEF AwaitsAnswer, AwaitsEnd
  <2> QED BY <1>4, <2>3, <2>4
<1> QED BY <1>5, <1>6, <1>7, <1>8, <1>9 DEF ShellStep

\* An application sends a request before it waits for the reply.
LEMMA AppOwed ==
  ASSUME AllInv, UpInv, EndInv, OwedInv, NEW p \in Apps, AppStep(p), kpc' \notin Fatals
  PROVE  EndInv' /\ OwedInv'
<1>0. PICK l \in {"run", "read_recv", "input_recv"} : At(p, l)
  BY DEF AppStep, AppRequest, AppRecv, AppExit
<1>1. PICK s \in Slots : s = curr
  BY SlotFacts DEF UpInv
<1>2. pid[s] \in Apps /\ at[s] = l /\ ~Blocked(s) /\ kpc = "user"
  BY <1>0, <1>1, Running
<1>3. /\ UNCHANGED <<app_pid, shell_waiting, req, client, cmd, typed>>
      /\ left' \in [Slots -> Int] /\ \A k \in Slots \ {curr} : left'[k] = left[k]
  <2>1. left \in [Slots -> Int] /\ (left' = left \/ left' = [left EXCEPT ![curr] = @ - 1])
    BY DEF AppStep, AppRequest, AppRecv, AppExit, UpInv, SlotInv
  <2>2. UNCHANGED <<app_pid, shell_waiting, req, client, cmd, typed>>
    BY DEF AppStep, AppRequest, AppRecv, AppExit
  <2> QED BY <1>1, <2>1, <2>2
<1>4. s \notin 1..4 /\ last_pid > 4 /\ last_pid \in Nat /\ MaxPid \in Nat /\ last_pid <= MaxPid
      /\ {"run", "read_recv", "input_recv", "spin"} \subseteq Labels
  BY <1>2, SlotFacts, Numbers DEF UpInv, Labels
<1>5. ASSUME Moves({s}), \A x \in Servers : AwaitsReply(s, x)' => AwaitsReply(s, x)
      PROVE  EndInv' /\ OwedInv'
  <2>1. GPID_PROCESS \notin {s} /\ GPID_SHELL \notin {s} /\ \A x \in Servers : x \notin {s}
    BY <1>4, Numbers DEF Servers
  <2>2. EndInv' /\ (AwaitsBlock' => AwaitsBlock)
    BY <1>3, <1>5, <2>1, OthersMove
  <2>3. OwedInv'
    BY <1>5, <2>1, <2>2, OwedMoves
  <2> QED BY <2>2, <2>3
<1>6. ASSUME NEW d \in Contents, NEW q \in 1..MaxPid, NEW m \in Labels, Trap(SendTo(q, d), m)
      PROVE  EndInv' /\ OwedInv'
  <2>1. Moves({curr}) /\ curr' = curr /\ Blocked(curr)' /\ ~Waits(curr)'
    BY <1>3, <1>6, SendStep
  <2>2. Blocked(s)' /\ ~Waits(s)'
    BY <1>1, <2>1
  <2>3. \A x \in Servers : ~AwaitsReply(s, x)'
    BY <2>2 DEF AwaitsReply, WaitsFor
  <2> QED BY <1>1, <1>5, <2>1, <2>3
<1>7. ASSUME NEW q \in {2, 3}, Trap(RecvFrom(q), "run"), l = (IF q = 3 THEN "read_recv" ELSE "input_recv")
      PROVE  EndInv' /\ OwedInv'
  <2>1. q \in 1..MaxPid \cup {GPID_ALL} /\ "run" \in Labels
    BY <1>4
  <2>2. Moves({curr}) /\ curr' = curr /\ at'[curr] = "run" /\ WaitsFor(curr, q)' /\ Blocked(curr)'
    BY <1>3, <1>7, <2>1, RecvStep
  <2>3. Blocked(s)' /\ at'[s] = "run" /\ WaitsFor(s, q)'
    BY <1>1, <2>2
  <2>4. \A x \in Servers : AwaitsReply(s, x)' => x = q
    BY <2>3 DEF AwaitsReply, WaitsFor
  <2>5. AwaitsReply(s, q)
    BY <1>2, <1>7, Numbers DEF AwaitsReply
  <2> QED BY <1>1, <1>5, <2>2, <2>4, <2>5
<1>8. CASE AppRequest(p)
  <2>1. PICK op \in {"read", "print", "input"} :
          Trap(SendTo(IF op = "read" THEN GPID_FILE ELSE GPID_TERMINAL, op),
               CASE op = "read" -> "read_recv" [] op = "input" -> "input_recv" [] OTHER -> "run")
    BY <1>8, ServersAssumption DEF AppRequest
  <2>2. op \in Contents /\ GPID_TERMINAL \in 1..MaxPid /\ GPID_FILE \in 1..MaxPid
    BY <1>4, ServersAssumption, Numbers
  <2>3. CASE op = "read"
    BY <1>4, <1>6, <2>1, <2>2, <2>3
  <2>4. CASE op = "input"
    BY <1>4, <1>6, <2>1, <2>2, <2>4
  <2>5. CASE op = "print"
    BY <1>4, <1>6, <2>1, <2>2, <2>5
  <2> QED BY <2>3, <2>4, <2>5
<1>9. CASE AppRecv(p)
  BY <1>1, <1>2, <1>7, <1>9, Numbers DEF AppRecv, At
<1>10. CASE AppExit(p)
  <2>1. Trap(SendTo(GPID_PROCESS, "exit"), "spin") /\ "exit" \in Contents /\ GPID_PROCESS \in 1..MaxPid
    BY <1>4, <1>10, ServersAssumption, Numbers DEF AppExit
  <2> QED BY <1>4, <1>6, <2>1
<1> QED BY <1>8, <1>9, <1>10 DEF AppStep

\* GPID_PROCESS moves, and waits for no block that it was not waiting for.
LEMMA ProcOwed ==
  ASSUME AllInv, UpInv, OwedInv, Moves({1}), AwaitsBlock' => AwaitsBlock
  PROVE  OwedInv'
<1>1. (\A s \in Servers : s \notin {1}) /\ \A k \in {1} \cap Slots : pid[k] \notin Apps
  BY SlotFacts, Numbers DEF UpInv, Servers
<1> QED BY <1>1, OwedMoves

\* No application has ended.
LEMMA GoneSame ==
  ASSUME NEW M, Moves(M), app_pid' = app_pid
  PROVE  Gone(app_pid)' <=> Gone(app_pid)
BY DEF Moves, Gone

LEMMA ProcRecvOwed ==
  ASSUME AllInv, UpInv, EndInv, OwedInv, ProcRecv, kpc' \notin Fatals
  PROVE  EndInv' /\ OwedInv' /\ (at'[1] = "request" => WaitsFor(1, GPID_ALL)')
<1>0. UNCHANGED <<left, app_pid, shell_waiting, req, client, cmd, typed>>
  BY DEF ProcRecv
<1>1. left' \in [Slots -> Int] /\ last_pid \in Nat /\ MaxPid \in Nat /\ last_pid <= MaxPid
  BY <1>0, SlotFacts, Numbers DEF UpInv, SlotInv
<1>2. CASE \/ At(GPID_PROCESS, "wait_terminal") /\ Trap(RecvFrom(GPID_TERMINAL), "boot")
           \/ At(GPID_PROCESS, "wait_file") /\ Trap(RecvFrom(GPID_FILE), "boot")
  <2>1. curr = 1 /\ ~Blocked(1) /\ at[1] \in {"wait_terminal", "wait_file"}
    BY <1>2, Running, Numbers
  <2>2. PICK p \in Servers : Trap(RecvFrom(p), "boot") /\ at[1] = (IF p = 2 THEN "wait_terminal" ELSE "wait_file")
    BY <1>2, Running, Numbers DEF Servers
  <2>3. last_pid = p /\ p \in {2, 3}
    BY <2>2, Numbers DEF UpInv, CallLabels, Servers
  <2>4. p \in 1..MaxPid \cup {GPID_ALL} /\ "boot" \in Labels
    BY <1>1, <2>3 DEF Labels
  <2>5. Moves({1}) /\ last_pid' = last_pid /\ at'[1] = "boot"
    BY <1>0, <1>1, <2>1, <2>2, <2>4, RecvStep
  <2>6. ~AwaitsBlock' /\ ~(GPID_SHELL <= last_pid')
    BY <2>3, <2>5, Numbers DEF AwaitsBlock
  <2> QED BY <2>5, <2>6, ProcOwed DEF EndInv
<1>3. CASE At(GPID_PROCESS, "loop") /\ Trap(RecvFrom(GPID_ALL), "request")
  <2>1. curr = 1 /\ ~Blocked(1) /\ at[1] = "loop"
    BY <1>3, Running, Numbers
  <2>2. "request" \in Labels
    BY DEF Labels
  <2>3. /\ Moves({1}) /\ UNCHANGED <<pid, last_pid, call, curr>>
        /\ at'[1] = "request" /\ WaitsFor(curr, GPID_ALL)' /\ Blocked(curr)'
    BY <1>0, <1>1, <1>3, <2>1, <2>2, RecvStep
  <2>4. WaitsFor(1, GPID_ALL)' /\ Waits(1)' /\ Blocked(1)'
    BY <2>1, <2>3 DEF WaitsFor
  <2>5. GPID_SHELL <= last_pid /\ Same(GPID_SHELL)
    BY <1>0, <2>1, <2>3, ProcMoves, Numbers DEF Booting, UpInv, CallLabels
  <2>6. ~AtService /\ (\A c : ~Answers(c)) /\ (\A c : ~Answers(c)') /\ ~Killing' /\ ~AwaitsBlock'
    BY <2>1, <2>3, <2>4, Numbers DEF AtService, Answers, Sends, Waits, Killing, AwaitsBlock
  <2>7. EndInv'
    BY <1>0, <2>1, <2>3, <2>5, <2>6, EndIdle, GoneSame, Numbers
  <2> QED BY <2>3, <2>4, <2>6, <2>7, ProcOwed
<1> QED BY <1>2, <1>3 DEF ProcRecv

LEMMA ProcSpawnOwed ==
  ASSUME AllInv, UpInv, EndInv, OwedInv, ProcSpawn, UpInv'
  PROVE  EndInv' /\ OwedInv'
<1>0. /\ At(GPID_PROCESS, "request")
      /\ Goto("lookup") /\ left' = [left EXCEPT ![curr] = 2]
      /\ UNCHANGED <<vars, app_pid, shell_waiting, cmd, typed>>
  BY DEF ProcSpawn
<1>1. curr = 1 /\ 1 \in Slots /\ ~Blocked(1) /\ at[1] = "request" /\ kpc = "user"
  BY <1>0, Running, Numbers
<1>2. left \in [Slots -> Int] /\ "lookup" \in Labels /\ TalkInv'
  BY DEF UpInv, SlotInv, Labels
<1>3. left' \in [Slots -> Int] /\ \A k \in Slots \ {curr} : left'[k] = left[k]
  BY <1>0, <1>1, <1>2
<1>4. Moves({1}) /\ curr' = curr /\ at'[1] = "lookup" /\ ~Blocked(curr)'
  BY <1>0, <1>1, <1>2, <1>3, LocalStep
<1>5. ~Blocked(1)'
  BY <1>1, <1>4
<1>6. AtService' /\ ~AwaitsBlock' /\ ~Answers("ok")' /\ at'[GPID_PROCESS] = "lookup"
  BY <1>4, <1>5, Numbers DEF AtService, AwaitsBlock, Answers, Sends
<1> QED BY <1>2, <1>4, <1>6, EndServing, ProcOwed

LEMMA ProcFileReadOwed ==
  ASSUME AllInv, UpInv, EndInv, OwedInv, ProcFileRead, UpInv', kpc' \notin Fatals
  PROVE  EndInv' /\ OwedInv'
<1>0. UNCHANGED <<app_pid, shell_waiting, req, client, cmd, typed>>
  BY DEF ProcFileRead
<1>1. \/ \E l \in {"lookup", "load"} :
           /\ At(GPID_PROCESS, l) /\ UNCHANGED left
           /\ Trap(SendTo(GPID_FILE, "read"), IF l = "lookup" THEN "lookup_recv" ELSE "load_recv")
      \/ \E l \in {"lookup_recv", "load_recv"} :
           /\ At(GPID_PROCESS, l) /\ left' = [left EXCEPT ![curr] = @ - 1]
           /\ Trap(RecvFrom(GPID_FILE), IF l = "lookup_recv" THEN "lookup" ELSE "load")
  BY DEF ProcFileRead
<1>2. curr = 1 /\ 1 \in Slots /\ ~Blocked(1) /\ at[1] \in {"lookup", "load", "lookup_recv", "load_recv"}
  BY <1>1, Running, Numbers
<1>3. ~Booting /\ last_pid >= 4 /\ last_pid \in Nat /\ last_pid <= MaxPid /\ MaxPid \in Nat
  BY <1>2, BootOver, SlotFacts, Numbers DEF Booting, UpInv
<1>4. left \in [Slots -> Int] /\ GPID_FILE \in 1..MaxPid /\ "read" \in Contents /\ TalkInv'
  BY <1>3, ServersAssumption, Numbers DEF UpInv, SlotInv
<1>5. ASSUME at'[1] \in {"lookup", "load", "lookup_recv", "load_recv"}, Moves({1}),
             \A c : ~Sends(1, 4, c)', AwaitsBlock' => AwaitsBlock,
             at[1] \in {"load", "load_recv"} <=> at'[1] \in {"load", "load_recv"}
      PROVE  EndInv' /\ OwedInv'
  <2>1. AtService' /\ ~Answers("ok")'
    BY <1>5, Numbers DEF AtService, Answers
  <2>2. at'[GPID_PROCESS] \in {"load", "load_recv", "reply"} => ~Gone(app_pid)'
    BY <1>0, <1>3, <1>5, GoneSame, Numbers DEF EndInv, Spawned
  <2> QED BY <1>4, <1>5, <2>1, <2>2, EndServing, ProcOwed
<1>6. ASSUME NEW l \in {"lookup", "load"}, At(GPID_PROCESS, l), UNCHANGED left,
             Trap(SendTo(GPID_FILE, "read"), IF l = "lookup" THEN "lookup_recv" ELSE "load_recv")
      PROVE  EndInv' /\ OwedInv'
  <2>1. PICK m \in {"lookup_recv", "load_recv"} : m = IF l = "lookup" THEN "lookup_recv" ELSE "load_recv"
    OBVIOUS
  <2>2. m \in Labels /\ Trap(SendTo(GPID_FILE, "read"), m) /\ left' \in [Slots -> Int] /\ at[1] = l
    BY <1>2, <1>4, <1>6, <2>1 DEF Labels, At
  <2>3. /\ Moves({1}) /\ curr' = curr /\ at'[1] = m /\ Blocked(curr)'
        /\ \A q, d : Sends(curr, q, d)' <=> q = GPID_FILE /\ d = "read"
    BY <1>2, <1>4, <1>6, <2>2, SendStep
  <2>4. Blocked(1)' /\ \A c : ~Sends(1, 4, c)'
    BY <1>2, <2>3, Numbers
  <2>5. ~AwaitsBlock'
    BY <2>3, <2>4, Numbers DEF AwaitsBlock
  <2> QED BY <1>5, <2>1, <2>2, <2>3, <2>4, <2>5
<1>7. ASSUME NEW l \in {"lookup_recv", "load_recv"}, At(GPID_PROCESS, l), left' = [left EXCEPT ![curr] = @ - 1],
             Trap(RecvFrom(GPID_FILE), IF l = "lookup_recv" THEN "lookup" ELSE "load")
      PROVE  EndInv' /\ OwedInv'
  <2>1. PICK m \in {"lookup", "load"} : m = IF l = "lookup_recv" THEN "lookup" ELSE "load"
    OBVIOUS
  <2>2. m \in Labels /\ Trap(RecvFrom(GPID_FILE), m) /\ at[1] = l
    BY <1>2, <1>7, <2>1 DEF Labels, At
  <2>3. left' \in [Slots -> Int] /\ \A k \in Slots \ {curr} : left'[k] = left[k]
    BY <1>2, <1>4, <1>7
  <2>4. Moves({1}) /\ curr' = curr /\ at'[1] = m /\ \A q, d : ~Sends(curr, q, d)'
    BY <1>2, <1>4, <2>2, <2>3, RecvStep
  <2>5. AwaitsBlock /\ \A c : ~Sends(1, 4, c)'
    BY <1>2, <1>7, <2>2, <2>4, Numbers DEF AwaitsBlock
  <2> QED BY <1>5, <2>1, <2>2, <2>4, <2>5
<1> QED BY <1>1, <1>6, <1>7

LEMMA ProcReplyOwed ==
  ASSUME AllInv, UpInv, EndInv, OwedInv, ProcReply, kpc' \notin Fatals
  PROVE  EndInv' /\ OwedInv'
<1>0. /\ At(GPID_PROCESS, "lookup") \/ At(GPID_PROCESS, "reply")
      /\ At(GPID_PROCESS, "lookup") => req = "spawn_bad"
      /\ Trap(SendTo(GPID_SHELL, IF req = "spawn_bad" THEN "error" ELSE "ok"), "loop")
      /\ UNCHANGED <<left, app_pid, req, client, cmd, typed>>
  BY DEF ProcReply, At
<1>1. curr = 1 /\ 1 \in Slots /\ ~Blocked(1) /\ at[1] \in {"lookup", "reply"}
      /\ (at[1] = "lookup" => req = "spawn_bad")
  BY <1>0, Running, Numbers
<1>2. ~Booting /\ last_pid >= 4 /\ last_pid \in Nat /\ last_pid <= MaxPid /\ MaxPid \in Nat
  BY <1>1, BootOver, SlotFacts, Numbers DEF Booting, UpInv
<1>3. AwaitsAnswer
  BY <1>1, Numbers DEF AtService, UpInv, TalkInv
<1>4. PICK c \in {"ok", "error"} : c = IF req = "spawn_bad" THEN "error" ELSE "ok"
  OBVIOUS
<1>5. /\ c \in Contents /\ GPID_SHELL \in 1..MaxPid /\ "loop" \in Labels /\ left' \in [Slots -> Int]
      /\ Trap(SendTo(GPID_SHELL, c), "loop")
  BY <1>0, <1>2, <1>4, ServersAssumption, Numbers DEF Labels, UpInv, SlotInv
<1>6. /\ Moves({1}) /\ UNCHANGED <<last_pid, curr>>
      /\ at'[1] = "loop" /\ Blocked(curr)' /\ \A q, d : Sends(curr, q, d)' <=> q = GPID_SHELL /\ d = c
  BY <1>0, <1>1, <1>5, SendStep
<1>7. Sends(1, GPID_SHELL, c)' /\ \A d : Sends(1, GPID_SHELL, d)' => d = c
  BY <1>1, <1>6
<1>8. Answers(c)' /\ \A d : Answers(d)' => d = c
  BY <1>7, Numbers DEF Answers
<1>9. ~AwaitsBlock'
  BY <1>6, Numbers DEF AwaitsBlock
<1>10. AwaitsAnswer' /\ ~AwaitsEnd'
  <2>1. Same(GPID_SHELL)
    BY <1>0, <1>2, <1>6, ProcMoves, Numbers
  <2>2. AwaitsAnswer'
    BY <1>3, <2>1 DEF AwaitsAnswer, Same, Still
  <2> QED BY <2>2 DEF AwaitsAnswer, AwaitsEnd
<1>11. Answers("ok")' => ~Gone(app_pid)'
  <2> SUFFICES ASSUME c = "ok" PROVE ~Gone(app_pid)'
    BY <1>8
  <2>1. at[1] = "reply"
    BY <1>1, <1>4
  <2>2. ~Gone(app_pid)
    BY <1>2, <2>1, Numbers DEF EndInv, Spawned
  <2> QED BY <1>0, <1>6, <2>2, GoneSame
<1>12. at'[GPID_PROCESS] = "loop"
  BY <1>6, Numbers
<1>13. EndInv'
  BY <1>4, <1>8, <1>10, <1>11, <1>12 DEF EndInv, AnswerDue, EndDue, Spawned
<1> QED BY <1>6, <1>9, <1>13, ProcOwed

LEMMA ProcNotifyOwed ==
  ASSUME AllInv, UpInv, EndInv, OwedInv, ProcNotify, kpc' \notin Fatals
  PROVE  EndInv' /\ OwedInv'
<1>0. /\ At(GPID_PROCESS, "notify") /\ Trap(SendTo(GPID_SHELL, "exit"), "loop")
      /\ UNCHANGED <<left, app_pid, shell_waiting, req, client, cmd, typed>>
  BY DEF ProcNotify
<1>1. curr = 1 /\ 1 \in Slots /\ ~Blocked(1) /\ at[1] = "notify"
  BY <1>0, Running, Numbers
<1>2. last_pid >= 4 /\ last_pid \in Nat /\ last_pid <= MaxPid /\ MaxPid \in Nat
  BY <1>1, BootOver, SlotFacts, Numbers DEF Booting, UpInv
<1>3. "exit" \in Contents /\ GPID_SHELL \in 1..MaxPid /\ "loop" \in Labels /\ left' \in [Slots -> Int]
  BY <1>0, <1>2, ServersAssumption, Numbers DEF Labels, UpInv, SlotInv
<1>4. /\ Moves({1}) /\ UNCHANGED <<last_pid, curr>>
      /\ at'[1] = "loop" /\ Blocked(curr)' /\ \A q, d : Sends(curr, q, d)' <=> q = GPID_SHELL /\ d = "exit"
  BY <1>0, <1>1, <1>3, SendStep
<1>5. Sends(1, GPID_SHELL, "exit")' /\ \A d : Sends(1, GPID_SHELL, d)' => d = "exit"
  BY <1>1, <1>4
<1>6. Same(GPID_SHELL)
  BY <1>0, <1>2, <1>4, ProcMoves, Numbers
<1>7. ~AtService /\ (\A d : ~Answers(d)) /\ Answers("exit")' /\ ~Answers("ok")' /\ ~Killing' /\ ~AwaitsBlock'
  BY <1>1, <1>4, <1>5, Numbers DEF AtService, Answers, Sends, Killing, AwaitsBlock
<1>8. EndInv'
  BY <1>0, <1>2, <1>4, <1>6, <1>7, EndIdle, Numbers
<1> QED BY <1>4, <1>7, <1>8, ProcOwed

\* GPID_PROCESS in the grass interface, between requests.
LEMMA CallOwed ==
  ASSUME AllInv, UpInv, EndInv, OwedInv, NEW m, At(GPID_PROCESS, m), m \in {"request", "killall"},
         m = "request" => usr[curr].content \in {"exit", "killall"},
         NEW l \in {"free", "killall", "loop"}, Goto(l),
         l = "killall" \/ m = "killall" => Killing,
         UNCHANGED <<left, app_pid, shell_waiting, cmd, pid, status, syscall, usr, curr, last_pid>>
  PROVE  EndInv' /\ OwedInv'
<1>1. curr = 1 /\ kpc = "user" /\ at[1] = m /\ l \in Labels
  BY ProcRuns DEF Labels
<1>2. Moves({1}) /\ at'[1] = l /\ ~Blocked(1) /\ ~Blocked(1)'
  BY <1>1, CallStep
<1>3. GPID_SHELL <= last_pid /\ Same(GPID_SHELL)
  BY <1>1, <1>2, ProcMoves, Numbers DEF Booting, UpInv, CallLabels
<1>4. ~AtService /\ (\A c : ~Answers(c)) /\ (\A c : ~Answers(c)') /\ ~AwaitsBlock'
  BY <1>1, <1>2, Numbers DEF AtService, Answers, Sends, AwaitsBlock, Spawns
<1>5. at[GPID_PROCESS] # "notify" /\ at'[GPID_PROCESS] \notin {"load", "load_recv", "reply"}
  BY <1>1, <1>2, Numbers
<1>6. ~Killing => ~Killing'
  BY <1>1, <1>2, Numbers DEF Killing
<1>7. EndInv'
  BY <1>2, <1>3, <1>4, <1>5, <1>6, EndIdle, GoneSame
<1> QED BY <1>2, <1>4, <1>7, ProcOwed

LEMMA ProcExitOwed ==
  ASSUME AllInv, UpInv, EndInv, OwedInv, ProcExit \/ ProcKillAll
  PROVE  EndInv' /\ OwedInv'
<1>1. CASE ProcExit
  <2>1. /\ At(GPID_PROCESS, "request") /\ usr[curr].content = "exit"
        /\ Goto("free") /\ UNCHANGED <<left, app_pid, shell_waiting, cmd, typed>>
        /\ UNCHANGED <<pid, status, syscall, usr, curr, last_pid>>
    BY <1>1 DEF ProcExit, proc_free, Message
  <2> QED BY <2>1, CallOwed
<1>2. CASE ProcKillAll
  <2>1. /\ At(GPID_PROCESS, "request") /\ usr[curr].content = "killall" /\ Goto("killall")
        /\ UNCHANGED <<left, app_pid, shell_waiting, cmd, pid, status, syscall, usr, curr, last_pid>>
    BY <1>2 DEF ProcKillAll, KillAll, Message, procVars
  <2>2. Killing
    BY <2>1, ProcRuns, Numbers DEF Killing
  <2> QED BY <2>1, <2>2, CallOwed
<1> QED BY <1>1, <1>2

\* An application ends.
LEMMA DeathOwed ==
  ASSUME AllInv, UpInv, EndInv, OwedInv, kpc = "user", curr = 1, at[1] \in {"free", "killall"},
         NEW d \in Slots, pid[d] \in Apps, status' = [status EXCEPT ![d] = "UNUSED"],
         NEW l \in {"notify", "loop", "killall"}, Goto(l),
         UNCHANGED <<pid, syscall, usr, curr, last_pid, left, cmd, app_pid, shell_waiting>>,
         at[1] = "free" => l = (IF shell_waiting /\ app_pid = pid[d] THEN "notify" ELSE "loop")
  PROVE  EndInv' /\ OwedInv'
<1>1. /\ Same(GPID_SHELL) /\ at'[1] = l /\ ~Blocked(1) /\ ~Blocked(1)' /\ last_pid > 4
      /\ \A k \in Slots : Live(k)' => Live(k)
      /\ d \notin 1..4 /\ \A k \in Slots \ {d, 1} : Same(k)
  BY DeathStep
<1>2. last_pid \in Nat /\ ~Live(d)' /\ 1 \in Slots /\ pid[1] = 1
  <2>1. ~Live(d)'
    BY DeathStep
  <2> QED BY <2>1, SlotFacts, Numbers DEF UpInv
<1>3. \A s \in Servers : s <= last_pid => Same(s)
  BY <1>1, <1>2, SlotFacts, Numbers DEF Servers, UpInv
<1>4. ~AtService /\ (\A c : ~Answers(c)) /\ (\A c : ~Answers(c)') /\ ~AwaitsBlock'
  BY <1>1, Numbers DEF AtService, Answers, Sends, AwaitsBlock
<1>5. OwedInv'
  <2>1. \A k \in Slots : pid[k] \in Apps /\ Live(k)' =>
          Live(k) /\ \A s \in Servers : AwaitsReply(k, s)' => AwaitsReply(k, s)
    <3>1. \A k \in Slots : pid[k] \in Apps /\ Live(k)' => Live(k) /\ Same(k)
      BY <1>1, <1>2, Numbers DEF Apps
    <3> QED BY <3>1, AwaitsSame
  <2> QED BY <1>3, <1>4, <2>1, OwesSame, OwedKeeps
<1>6. EndInv'
  <2>1. at[GPID_PROCESS] = at[1] /\ at'[GPID_PROCESS] = l
    BY <1>1, Numbers
  <2>2. at[1] = "killall" => Killing
    BY <2>1 DEF Killing
  <2>3. ASSUME at[1] = "free", shell_waiting, ~Gone(app_pid), l # "notify"
        PROVE  ~Gone(app_pid)'
    <3>1. PICK k \in Slots : pid[k] = app_pid /\ Live(k)
      BY <2>3 DEF Gone
    <3>2. k # d /\ (k # 1 => Same(k))
      BY <1>1, <2>3, <3>1
    <3>3. Live(k)'
      BY <3>1, <3>2 DEF Live
    <3> QED BY <3>1, <3>3 DEF Gone
  <2>4. at[1] = "free" => ~Killing'
    BY <2>1 DEF Killing
  <2>5. GPID_SHELL <= last_pid
    BY <1>1, <1>2, Numbers
  <2>6. /\ ~Killing
        /\ at[GPID_PROCESS] = "notify" \/ Answers("exit") \/ (shell_waiting /\ ~Gone(app_pid))
        => /\ ~Killing'
           /\ at'[GPID_PROCESS] = "notify" \/ Answers("exit")' \/ (shell_waiting /\ ~Gone(app_pid))'
    BY <1>4, <2>1, <2>2, <2>3, <2>4
  <2> QED BY <1>1, <1>4, <2>1, <2>5, <2>6, EndIdle
<1> QED BY <1>5, <1>6

LEMMA ProcEndOwed ==
  ASSUME AllInv, UpInv, EndInv, OwedInv, ProcExitEnd \/ ProcKillAllStep
  PROVE  EndInv' /\ OwedInv'
<1>0. UNCHANGED <<left, app_pid, shell_waiting, cmd>>
  BY DEF ProcExitEnd, ProcKillAllStep
<1>1. CASE ProcExitEnd
  <2>0. PICK l \in {"notify", "loop"} : l = IF shell_waiting /\ app_pid = client THEN "notify" ELSE "loop"
    OBVIOUS
  <2>1. /\ At(GPID_PROCESS, "free") /\ status' = proc_set_status(status, call.arg, "UNUSED")
        /\ Goto(l) /\ UNCHANGED <<pid, syscall, usr, curr, last_pid>>
    BY <1>1, <2>0 DEF ProcExitEnd, ProcFreeEnd
  <2>2. curr = 1 /\ kpc = "user" /\ at[1] = "free"
    BY <2>1, ProcRuns
  <2>3. PICK d \in Scanned : Live(d) /\ pid[d] \in Apps /\ pid[d] = client
    BY <2>2, Numbers DEF UpInv, TalkInv
  <2>4. call.arg = pid[d] /\ d \in Slots /\ pid[d] # GPID_UNUSED
    BY <2>2, <2>3, Numbers DEF UpInv, CallLabels, Apps
  <2>5. status' = [status EXCEPT ![d] = "UNUSED"]
    BY <2>1, <2>4, SetStatusOne DEF AllInv, IInv, TypeOK
  <2> QED BY <1>0, <2>0, <2>1, <2>2, <2>3, <2>4, <2>5, DeathOwed
<1>2. CASE At(GPID_PROCESS, "killall") /\ KillAllMark /\ UNCHANGED at
  <2>0. PICK d : d = call.arg
    OBVIOUS
  <2>1. /\ call.op = "killing" /\ status' = [status EXCEPT ![d] = "UNUSED"]
        /\ UNCHANGED <<pid, syscall, usr, curr, last_pid>>
    BY <1>2, <2>0 DEF KillAllMark, InProcess
  <2>2. curr = 1 /\ kpc = "user" /\ at[1] = "killall" /\ 1 \in Slots
    BY <1>2, ProcRuns
  <2>3. d \in Slots /\ pid[d] \in Apps
    <3>1. call \in Calls
      BY DEF AllInv, IInv, TypeOK
    <3> QED BY <2>0, <2>1, <2>2, <3>1, Numbers DEF Calls, UpInv, CallLabels
  <2>4. Goto("killall")
    BY <1>2, <2>2 DEF Goto, UpInv, SlotInv
  <2> QED BY <1>0, <2>1, <2>2, <2>3, <2>4, DeathOwed
<1>3. CASE /\ At(GPID_PROCESS, "killall")
           /\ (KillAllUnmap /\ UNCHANGED at) \/ (KillAllEnd /\ Goto("loop"))
  <2>1. UNCHANGED <<pid, status, syscall, usr, curr, last_pid>>
    BY <1>3 DEF KillAllUnmap, KillAllEnd, procVars
  <2>2. at[1] = "killall" /\ curr = 1 /\ 1 \in Slots
    BY <1>3, ProcRuns
  <2>3. Killing
    BY <2>2, Numbers DEF Killing
  <2>4. Goto("killall") \/ Goto("loop")
    BY <1>3, <2>2 DEF Goto, UpInv, SlotInv
  <2> QED BY <1>0, <1>3, <2>1, <2>3, <2>4, CallOwed
<1> QED BY <1>1, <1>2, <1>3 DEF ProcKillAllStep

LEMMA SpawnLoadOwed ==
  ASSUME AllInv, UpInv, EndInv, OwedInv, SpawnLoad, UpInv'
  PROVE  EndInv' /\ OwedInv'
<1>1. /\ \E l \in {"boot", "load"} : At(GPID_PROCESS, l)
      /\ call.op = "loading"
      /\ usr' = [k \in Slots |-> IF pid[k] = call.arg THEN NoMsg ELSE usr[k]]
      /\ UNCHANGED <<pid, status, syscall, last_pid, progVars>>
  BY DEF SpawnLoad, elf_load, InProcess
<1>2. 1 \in Slots /\ ~Blocked(1) /\ at[1] \in {"boot", "load"} /\ last_pid \in Nat
  BY <1>1, ProcRuns
<1>3. UNCHANGED <<at, left, app_pid, shell_waiting, req, client, cmd, typed>>
  BY <1>1 DEF progVars
<1>4. /\ call.arg = last_pid /\ (at[1] = "boot" => last_pid <= 4)
      /\ \A p \in Servers : p = last_pid => status[p] = "LOADING" /\ at[p] = "init"
      /\ 4 = last_pid => at[4] = "cmd"
  BY <1>1, <1>2, BeingLoaded
<1>5. \A k \in Slots : (Live(k)' <=> Live(k)) /\ (Blocked(k)' <=> Blocked(k)) /\ (\A q, d : Sends(k, q, d)' <=> Sends(k, q, d))
                       /\ \A p : WaitsFor(k, p)' <=> WaitsFor(k, p)
  BY <1>1 DEF Live, Blocked, Sends, WaitsFor, Waits
<1>6. ~Blocked(1)' /\ ~AwaitsBlock' /\ ~Answers("ok")' /\ (Gone(app_pid)' <=> Gone(app_pid))
  BY <1>1, <1>2, <1>3, <1>5, Numbers DEF AwaitsBlock, Answers, Sends, Gone
<1>7. EndInv'
  <2>1. CASE at[1] = "boot"
    BY <1>1, <1>2, <1>3, <1>4, <1>6, <2>1, EndBoot, Numbers
  <2>2. CASE at[1] = "load"
    <3>1. AtService' /\ TalkInv' /\ last_pid >= 4
      BY <1>3, <2>2, Numbers DEF AtService, UpInv, CallLabels, Booting
    <3>2. ~Gone(app_pid)'
      BY <1>6, <2>2, <3>1, Numbers DEF EndInv, Spawned
    <3> QED BY <1>6, <3>1, <3>2, EndServing
  <2> QED BY <1>2, <2>1, <2>2
<1>8. ASSUME NEW s \in Servers, s <= last_pid, NEW p, Owes(s, p) PROVE Owes(s, p)'
  <2>1. s \in Slots /\ pid[s] = s
    BY <1>8, SlotFacts, Numbers DEF Servers, UpInv
  <2>2. s # last_pid
    BY <1>4, <1>8 DEF Owes, Sends, Blocked
  <2>3. usr'[s] = usr[s]
    BY <1>1, <1>4, <2>1, <2>2
  <2> QED BY <1>3, <1>5, <1>8, <2>1, <2>3 DEF Owes
<1>9. \A k \in Slots, s \in Servers : AwaitsReply(k, s)' => AwaitsReply(k, s)
  BY <1>3, <1>5 DEF AwaitsReply
<1>10. OwedInv'
  BY <1>1, <1>5, <1>6, <1>8, <1>9, OwedKeeps
<1> QED BY <1>7, <1>10

LEMMA SpawnReadyOwed ==
  ASSUME AllInv, UpInv, EndInv, OwedInv, SpawnReady, UpInv'
  PROVE  EndInv' /\ OwedInv'
<1>0. PICK l : l = (CASE call.arg = GPID_TERMINAL -> "wait_terminal"
                      [] call.arg = GPID_FILE -> "wait_file"
                      [] call.arg = GPID_SHELL -> "loop"
                      [] OTHER -> "reply")
  OBVIOUS
<1>1. /\ pid[curr] = GPID_PROCESS /\ kpc = "user" /\ call.op = "loaded"
      /\ status' = proc_set_status(status, call.arg, "READY") /\ Goto(l)
      /\ UNCHANGED <<left, app_pid, shell_waiting, req, client, cmd, typed>>
      /\ UNCHANGED <<pid, syscall, usr, last_pid>>
  BY <1>0 DEF SpawnReady, proc_set_ready, InProcess
<1>2. 1 \in Slots /\ curr = 1 /\ ~Blocked(1) /\ last_pid \in Nat
  <2>1. At(GPID_PROCESS, at[curr])
    BY <1>1 DEF At
  <2> QED BY <2>1, ProcRuns
<1>3. /\ call.arg = last_pid /\ at[1] \in {"boot", "load"}
      /\ at[1] = "boot" => last_pid > 1 /\ last_pid <= 4
      /\ at[1] # "boot" => last_pid > 4
      /\ \A k \in Slots : pid[k] = last_pid => status[k] = "LOADING" /\ k # 1
      /\ 4 = last_pid => at[4] = "cmd"
  <2>1. at[1] # "load_recv"
    BY <1>1, Numbers DEF UpInv, CallLabels
  <2> QED BY <1>1, <1>2, <2>1, BeingLoaded
<1>4. IF at[1] = "load" THEN l = "reply" ELSE l \in {"wait_terminal", "wait_file", "loop"}
  <2>1. l = (IF last_pid = 2 THEN "wait_terminal" ELSE IF last_pid = 3 THEN "wait_file" ELSE
             IF last_pid = 4 THEN "loop" ELSE "reply")
    BY <1>0, <1>2, <1>3, Numbers
  <2> QED BY <1>2, <1>3, <2>1
<1>5. status \in [Slots -> Statuses] /\ at'[1] = l /\ \A k \in Slots \ {1} : at'[k] = at[k]
  <2>1. status \in [Slots -> Statuses] /\ at \in [Slots -> Labels]
    BY DEF AllInv, IInv, TypeOK, UpInv, SlotInv
  <2> QED BY <1>1, <1>2, <2>1 DEF Goto
<1>6. \A k \in Slots : status'[k] = status[k] \/ (status[k] = "LOADING" /\ status'[k] = "READY")
  BY <1>1, <1>3, <1>5 DEF proc_set_status
<1>7. \A k \in Slots : (Live(k)' <=> Live(k)) /\ (Blocked(k)' <=> Blocked(k)) /\ (\A q, d : Sends(k, q, d)' <=> Sends(k, q, d))
                       /\ \A p : WaitsFor(k, p)' <=> WaitsFor(k, p)
  <2>1. \A k \in Slots : (Live(k)' <=> Live(k)) /\ (Blocked(k)' <=> Blocked(k))
    BY <1>6 DEF Live, Blocked
  <2> QED BY <1>1, <2>1 DEF Waits, Sends, WaitsFor
<1>8. ~Blocked(1)' /\ ~Answers("ok")' /\ (Gone(app_pid)' <=> Gone(app_pid))
  BY <1>1, <1>2, <1>7, Numbers DEF Answers, Sends, Gone
<1>8a. ~AwaitsBlock'
  BY <1>4, <1>5, <1>8, Numbers DEF AwaitsBlock
<1>9. EndInv'
  <2>1. CASE at[1] = "boot"
    <3>1. GPID_SHELL <= last_pid => at'[GPID_SHELL] = "cmd"
      <4>1. last_pid >= 4 => 4 \in Slots
        BY SlotFacts DEF UpInv
      <4> QED BY <1>2, <1>3, <1>5, <2>1, <4>1, Numbers
    <3> QED BY <1>1, <1>4, <1>5, <1>8, <2>1, <3>1, EndBoot, Numbers
  <2>2. CASE at[1] = "load"
    <3>1. AtService' /\ TalkInv' /\ last_pid >= 4
      BY <1>2, <1>3, <1>4, <1>5, <2>2, Numbers DEF AtService, UpInv
    <3>2. ~Gone(app_pid)'
      BY <1>8, <2>2, <3>1, Numbers DEF EndInv, Spawned
    <3> QED BY <1>8, <3>1, <3>2, EndServing
  <2> QED BY <1>3, <2>1, <2>2
<1>10. ASSUME NEW s \in Servers, s <= last_pid, NEW p, Owes(s, p) PROVE Owes(s, p)'
  <2>1. s \in Slots /\ s # 1
    BY <1>10, SlotFacts, Numbers DEF Servers, UpInv
  <2> QED BY <1>1, <1>5, <1>7, <1>10, <2>1 DEF Owes
<1>11. \A k \in Slots, s \in Servers : pid[k] \in Apps => (AwaitsReply(k, s)' => AwaitsReply(k, s))
  <2>1. \A k \in Slots : pid[k] \in Apps => k # 1
    BY SlotFacts DEF UpInv
  <2> QED BY <1>5, <1>7, <2>1 DEF AwaitsReply
<1>12. OwedInv'
  BY <1>1, <1>7, <1>8a, <1>10, <1>11, OwedKeeps
<1> QED BY <1>9, <1>12

LEMMA SpawnAllocOwed ==
  ASSUME AllInv, UpInv, EndInv, OwedInv, SpawnAlloc, UpInv', kpc' \notin Fatals
  PROVE  EndInv' /\ OwedInv' /\ (app_pid' = app_pid \/ app_pid' \in Apps)
<1>1. PICK n \in Slots \ {0, 1}, m \in {"boot", "load"} :
           /\ curr = 1 /\ 1 \in Slots /\ ~Blocked(1) /\ call.op = "none" /\ MaxPid \in Nat
           /\ last_pid \in Nat /\ last_pid' = last_pid + 1 /\ last_pid + 1 <= MaxPid
           /\ call' = [op |-> "loading", arg |-> last_pid + 1]
           /\ at' \in [Slots -> Labels] /\ left' \in [Slots -> Int] /\ pid' \in [Slots -> Int]
           /\ at'[n] = Entry(last_pid + 1) /\ at'[1] = m /\ (\A k \in Slots \ {1, n} : at'[k] = at[k])
           /\ ~Live(n) /\ Live(n)' /\ ~Blocked(n)' /\ ~(status'[n] \in Started) /\ pid'[n] = last_pid + 1
           /\ \A k \in Slots \ {n} : Still(k) /\ pid'[k] = pid[k] /\ status'[k] = status[k]
           /\ \A k \in Slots \ {1, n} : Same(k)
           /\ UNCHANGED <<usr, shell_waiting, req, client, cmd>>
           /\ \/ m = "boot" /\ at[1] = "boot" /\ app_pid' = app_pid
              \/ m = "load" /\ at[1] = "lookup" /\ left[1] = 0 /\ app_pid' = last_pid + 1
           /\ \A j \in Slots : j # 0 /\ ~Live(j) => n <= j
  BY AllocStep
<1>2. ~Blocked(1)' /\ ~AwaitsBlock' /\ ~Answers("ok")'
  <2>1. ~Blocked(1)'
    BY <1>1 DEF Still
  <2> QED BY <1>1, <2>1, Numbers DEF AwaitsBlock, Answers, Sends
<1>3. EndInv' /\ (app_pid' = app_pid \/ app_pid' \in Apps)
  <2>1. CASE m = "boot"
    <3>1. GPID_SHELL <= last_pid' => at'[GPID_SHELL] = "cmd"
      <4>1. ASSUME GPID_SHELL <= last_pid' PROVE at'[GPID_SHELL] = "cmd"
        <5>1. last_pid' = 4
          BY <1>1, <2>1, <4>1, Numbers DEF UpInv, CallLabels
        <5>2. pid'[4] = 4 /\ 4 \in Slots
          BY <5>1, Numbers DEF UpInv, SlotInv
        <5>3. n = 4
          <6>1. \A k \in Slots, p \in 1..4 : pid[k] = p => k = p /\ p <= last_pid
            BY SlotFacts DEF UpInv
          <6> QED BY <1>1, <5>1, <5>2, <6>1
        <5> QED BY <1>1, <5>1, <5>3, Numbers DEF Entry
      <4> QED BY <4>1
    <3>2. at'[GPID_PROCESS] = "boot"
      BY <1>1, <2>1, Numbers
    <3> QED BY <1>1, <1>2, <2>1, <3>1, <3>2, EndBoot
  <2>2. CASE m = "load"
    <3>1. last_pid >= 4 /\ TalkInv' /\ at'[GPID_PROCESS] = "load" /\ AtService' /\ app_pid' = last_pid + 1
      BY <1>1, <2>2, BootOver, Numbers DEF Booting, AtService, UpInv
    <3>2. app_pid' \in Apps
      BY <1>1, <3>1, Numbers DEF Apps
    <3>3. ~Gone(app_pid)'
      BY <1>1, <3>1 DEF Gone
    <3> QED BY <1>2, <3>1, <3>2, <3>3, EndServing
  <2> QED BY <1>1, <2>1, <2>2
<1>4. ASSUME NEW s \in Servers, NEW k \in Slots, pid'[k] \in Apps, Live(k)', AwaitsReply(k, s)'
      PROVE  Owes(s, pid[k])'
  <2>1. k # n
    <3>1. Entry(last_pid + 1) \in {"init", "cmd", "run"}
      BY DEF Entry
    <3> QED BY <1>1, <1>4, <3>1 DEF AwaitsReply, WaitsFor, Waits
  <2>2. k # 1 /\ pid[k] = pid'[k]
    <3>1. pid[1] = 1 /\ pid'[1] = pid[1]
      BY <1>1, SlotFacts DEF UpInv
    <3>2. pid[k] = pid'[k]
      BY <1>1, <2>1
    <3>3. pid'[k] # 1
      BY <1>4, Numbers DEF Apps
    <3> QED BY ONLY <3>1, <3>2, <3>3
  <2>3. Same(k) /\ pid[k] \in Apps /\ last_pid > 4 /\ s \in {2, 3}
    BY <1>1, <1>4, <2>1, <2>2, SlotFacts, Numbers DEF UpInv, Apps, Servers
  <2>4. Live(k) /\ AwaitsReply(k, s)
    BY <1>4, <2>3, AwaitsSame DEF Same, Still
  <2>5. Owes(s, pid[k])
    BY <1>4, <2>3, <2>4 DEF OwedInv
  <2>6. s # n /\ s \in Slots
    <3>1. s \in Slots /\ Live(s)
      BY <2>3, SlotFacts DEF UpInv
    <3> QED BY <1>1, <3>1
  <2>7. Same(s)
    BY <1>1, <2>3, <2>6
  <2>8. PICK p : p = pid[k]
    OBVIOUS
  <2>9. Owes(s, p)'
    BY <2>5, <2>7, <2>8, OwesSame
  <2> QED BY <2>2, <2>8, <2>9 DEF Owes
<1>5. OwedInv'
  BY <1>2, <1>4 DEF OwedInv, Apps
<1> QED BY <1>3, <1>5

\* GPID_PROCESS and the servers block at "request" only in their main loops.
LEMMA CurrAsks ==
  ASSUME AllInv, UpInv, EndInv, OwedInv, [SysNext]_sysVars, kpc' \notin Fatals,
         NEW r \in {GPID_PROCESS} \cup Servers, kpc = "user", r = curr, Blocked(r)', at'[r] = "request"
  PROVE  WaitsFor(r, GPID_ALL)'
<1>1. /\ r \in 1..3 /\ r \in Slots /\ pid[r] = r /\ status[r] = "RUNNING" /\ at \in [Slots -> Labels]
      /\ \A p, l : At(p, l) => p = r
  <2>1. r \in 1..3 /\ r \in Slots /\ Live(r) /\ status[r] = "RUNNING"
    BY UserFacts, Numbers DEF AllInv, Servers, Live
  <2>2. r <= last_pid
    BY <2>1 DEF UpInv, SlotInv
  <2>3. pid[r] = r
    BY <2>1, <2>2, SlotFacts DEF UpInv
  <2> QED BY <2>1, <2>3 DEF UpInv, SlotInv, At
<1>2. \A l : Goto(l) => l = "request"
  BY <1>1 DEF Goto
<1>3. CASE ProcRecv
  <2>1. r = 1
    BY <1>1, <1>3, Numbers DEF ProcRecv
  <2> QED BY <1>3, <2>1, ProcRecvOwed
<1>4. CASE \E s \in Servers : ServerStep(s)
  <2>1. PICK s \in Servers : ServerStep(s)
    BY <1>4
  <2>2. s = r
    BY <1>1, <2>1 DEF ServerStep, ServerInit, ServerRecv, FileReply, TerminalReply, TerminalPrint
  <2> QED BY <2>1, <2>2, ServerOwed
<1>5. CASE UNCHANGED sysVars \/ KernelStep \/ TimerStep \/ Halted
  <2>1. ~Blocked(r)
    BY <1>1 DEF Blocked
  <2>2. CASE UNCHANGED sysVars
    BY <2>1, <2>2 DEF sysVars, vars, procVars, Blocked
  <2>3. CASE TimerStep
    <3>1. status' = [status EXCEPT ![curr] = "RUNNABLE"] /\ status \in [Slots -> Statuses]
      BY <2>3, TimerEffect DEF TimerStep, AllInv, IInv, TypeOK
    <3> QED BY <1>1, <3>1 DEF Blocked
  <2> QED BY <1>5, <2>2, <2>3 DEF KernelStep, ScanStep, Dispatch, Halted, Fatals
<1>6. ~ShellStep /\ ~ShellPrompt /\ \A p \in Apps : ~AppStep(p) /\ ~AppCrash(p)
  BY <1>1, Numbers DEF ShellStep, ShellPrompt, ShellSend, ShellRecv, ShellReply, AppStep, AppRequest, AppRecv,
     AppExit, AppCrash, Apps, At
<1>7. CASE ProcessStep /\ ~ProcRecv
  <2>1. ~SpawnAlloc
    <3>1. ASSUME SpawnAlloc PROVE at'[1] \in {"boot", "load"} /\ curr = 1
      BY <3>1, AllocStep
    <3> QED BY <3>1
  <2>2. ~SpawnLoad
    BY <1>1 DEF SpawnLoad, At, progVars
  <2>3. ~SpawnReady
    BY <1>2 DEF SpawnReady
  <2>4. ~ProcSpawn /\ ~ProcFileRead /\ ~ProcReply /\ ~ProcNotify
    BY <1>2 DEF ProcSpawn, ProcFileRead, ProcReply, ProcNotify, Trap
  <2>5. ~ProcExit /\ ~ProcExitEnd /\ ~ProcKillAll
    BY <1>2 DEF ProcExit, ProcExitEnd, ProcKillAll
  <2>6. ~ProcKillAllStep
    BY <1>1, <1>2 DEF ProcKillAllStep, At
  <2> QED BY <1>7, <2>1, <2>2, <2>3, <2>4, <2>5, <2>6 DEF ProcessStep
<1> QED BY <1>3, <1>4, <1>5, <1>6, <1>7 DEF SysNext, Servers

LEMMA ProcessOwed ==
  ASSUME AllInv, UpInv, EndInv, OwedInv, ProcessStep, UpInv', kpc' \notin Fatals
  PROVE  EndInv' /\ OwedInv' /\ (app_pid' = app_pid \/ app_pid' \in Apps)
<1>1. ProcessStep /\ ~SpawnAlloc => app_pid' = app_pid
  BY DEF ProcessStep, SpawnLoad, SpawnReady, ProcRecv, ProcSpawn, ProcFileRead, ProcReply, ProcExit, ProcExitEnd,
     ProcNotify, ProcKillAll, ProcKillAllStep, progVars
<1>2. CASE SpawnAlloc
  BY <1>2, SpawnAllocOwed
<1>3. CASE ~SpawnAlloc
  <2>1. EndInv' /\ OwedInv'
    BY <1>3, SpawnLoadOwed, SpawnReadyOwed, ProcRecvOwed, ProcSpawnOwed, ProcFileReadOwed, ProcReplyOwed,
       ProcExitOwed, ProcEndOwed, ProcNotifyOwed DEF ProcessStep
  <2> QED BY <1>1, <1>3, <2>1
<1> QED BY <1>2, <1>3

LEMMA WaitStep ==
  ASSUME AllInv, UpInv, WaitInv, UpInv', [SysNext]_sysVars, [Next]_vars, kpc \notin Fatals, kpc' \notin Fatals
  PROVE  WaitInv'
<1>0. LoadingInv /\ AskInv /\ EndInv /\ OwedInv /\ SendTargets /\ (app_pid = GPID_UNUSED \/ app_pid \in Apps)
  BY DEF WaitInv
<1>1. LoadingInv' /\ AskInv' /\ SendTargets'
  <2>1. LoadingInv'
    BY <1>0, LoadingStep
  <2>2. AskInv'
    BY <1>0, AskStep, CurrAsks
  <2>3. SendTargets'
    BY <1>0, TargetsStep
  <2> QED BY <2>1, <2>2, <2>3
<1>2. EndInv' /\ OwedInv' /\ (app_pid' = app_pid \/ app_pid' \in Apps)
  <2>1. CASE ProcessStep
    BY <1>0, <2>1, ProcessOwed
  <2>2. CASE ~ProcessStep
    <3>1. app_pid' = app_pid
      BY <2>2 DEF SysNext, KernelStep, TimerStep, ServerStep, ShellStep, ShellSend, ShellRecv, ShellReply,
         ShellPrompt, AppStep, AppRequest, AppRecv, AppExit, AppCrash, progVars, sysVars
    <3>2. CASE KernelStep \/ TimerStep
      BY <1>0, <3>1, <3>2, KernelOwed DEF KernelStep, TimerStep
    <3>3. CASE \E p \in {GPID_TERMINAL, GPID_FILE} : ServerStep(p)
      BY <1>0, <3>1, <3>3, ServerOwed DEF Servers
    <3>4. CASE UNCHANGED sysVars
      <4>1. /\ UNCHANGED <<at, cmd, shell_waiting, app_pid, status, syscall, usr>>
            /\ UNCHANGED <<last_pid, pid>>
        BY <3>4 DEF sysVars, vars, procVars, progVars
      <4> QED BY <1>0, <4>1
              DEF EndInv, AnswerDue, EndDue, Spawned, AwaitsAnswer, AwaitsEnd, Killing, AtService, Answers, Gone,
                  OwedInv, AwaitsBlock, AwaitsReply, Owes, Sends, WaitsFor, Waits, Blocked, Live, Apps
    <3>5. ~(Halted /\ UNCHANGED progVars) /\ \A p \in Apps : ~AppCrash(p)
      BY DEF Halted, AppCrash, Fault, Panic, Fatals
    <3>6. EndInv' /\ OwedInv'
      BY <1>0, <2>2, <3>2, <3>3, <3>4, <3>5, ShellOwed, AppOwed DEF SysNext
    <3> QED BY <3>1, <3>6
  <2> QED BY <2>1, <2>2
<1> QED BY <1>0, <1>1, <1>2 DEF WaitInv, Apps

LEMMA WaitInit == ASSUME SysInit PROVE WaitInv
<1> USE Numbers
<1>0. /\ Init /\ at = [k \in Slots |-> "boot"] /\ app_pid = 0 /\ kpc = "user"
  BY DEF SysInit, Init
<1>1. /\ status = [k \in Slots |-> IF k = 1 THEN "RUNNING" ELSE "UNUSED"]
      /\ pid = [k \in Slots |-> IF k = 1 THEN 1 ELSE 0] /\ last_pid = 1
  BY <1>0 DEF Init
<1>2. \A k \in Slots : ~Blocked(k) /\ status[k] # "LOADING" /\ pid[k] \notin Apps
  BY <1>1 DEF Blocked, Apps
<1>3. LoadingInv /\ SendTargets
  BY <1>0, <1>2 DEF LoadingInv, SendTargets
<1>4. AskInv /\ EndInv
  BY <1>1, <1>2 DEF AskInv, Asks, EndInv, Servers
<1>5. OwedInv
  BY <1>0, <1>2 DEF OwedInv, AwaitsBlock
<1> QED BY <1>0, <1>3, <1>4, <1>5 DEF WaitInv

-----------------------------------------------------------------------------
(* The loop does not come to its end with nobody to run.                   *)

\* The loop is at its end and has found nobody, and the last slot is free.
Stuck == kpc = "scan" /\ i > MAX_NPROCESS /\ next_idx = MAX_NPROCESS /\ ~Live(MAX_NPROCESS)

\* Then everybody is blocked, but for a process that is being loaded, and no two have met.
LEMMA StuckFacts ==
  ASSUME AllInv, SearchInv, WaitInv, Stuck
  PROVE  /\ \A k \in Slots : Live(k) => k \in Scanned /\ (Blocked(k) \/ status[k] = "LOADING")
         /\ \A r \in Slots, s \in Slots : \A p, c :
              WaitsFor(r, p) /\ Sends(s, pid[r], c) => p # GPID_ALL /\ p # pid[s]
         /\ \A r \in Slots : Waits(r) => syscall[r].status # "DONE"
         /\ \A s \in Slots : \A p, c : Sends(s, p, c) => \E k \in Scanned : pid[k] = p /\ Live(k)
<1> USE Numbers
<1>0. /\ IInv /\ TypeOK /\ kpc = "scan" /\ i > MAX_NPROCESS /\ next_idx = MAX_NPROCESS /\ ~Live(MAX_NPROCESS)
      /\ curr \in Scanned /\ Scanned \subseteq Slots /\ i \in Int /\ \A k \in Slots : k \in Scanned \/ k = MAX_NPROCESS
  <2>1. IInv /\ TypeOK
    BY DEF AllInv, IInv
  <2>2. curr \in Scanned /\ i \in Int
    BY <2>1 DEF TypeOK
  <2>3. \A k \in Slots : k \in Scanned \/ k = MAX_NPROCESS
    OBVIOUS
  <2> QED BY <2>1, <2>2, <2>3 DEF Stuck
<1>1. \A k : ~Ahead(k)
  BY <1>0 DEF Ahead
<1>2. \A k \in Scanned : status[k] \notin Candidates
  <2>1. \A x \in Scanned : mlfq_level[x] < MLFQ_NLEVELS
    BY <1>0, GrassAssumption DEF TypeOK
  <2>2. lowest_level = MLFQ_NLEVELS
    BY <1>0 DEF SearchInv
  <2>3. ASSUME NEW x \in Scanned, status[x] \in Candidates
        PROVE  status[curr] = "RUNNABLE" /\ x # curr
    BY <1>0, <1>1, <2>1, <2>2, <2>3 DEF SearchInv
  <2>4. status[curr] \notin Candidates
    BY <2>3, <1>0
  <2> QED BY <2>3, <2>4 DEF Candidates
<1>3. ASSUME NEW k \in Slots, Live(k) PROVE k \in Scanned /\ (Blocked(k) \/ status[k] = "LOADING")
  <2>1. k \in Scanned /\ status[k] \in Statuses
    BY <1>0, <1>3 DEF TypeOK
  <2>2. status[k] # "RUNNING" /\ status[k] # "UNUSED"
    BY <1>0, <1>3 DEF IInv, ScanInv, Live
  <2> QED BY <2>1, <2>2, <1>2 DEF Statuses, Candidates, Blocked
<1>4. ASSUME NEW r \in Slots, Waits(r) PROVE syscall[r].status = "PENDING"
  <2>1. syscall[r].status # "DONE"
    BY <1>0, <1>1, <1>4, ScanFacts DEF Waits, Received
  <2> QED BY <1>0, <2>1 DEF TypeOK, SyscallRecord
<1>5. ASSUME NEW r \in Slots, NEW s \in Slots, NEW p, NEW c, WaitsFor(r, p), Sends(s, pid[r], c)
      PROVE  p # GPID_ALL /\ p # pid[s]
  <2>1. r \in Scanned /\ s \in Scanned
    BY <1>3, <1>5 DEF WaitsFor, Waits, Sends, Blocked, Live
  <2>2. ~Rendezvous(s, r)
    BY <1>0, <1>1, <2>1, ScanFacts
  <2> QED BY <1>4, <1>5, <2>2 DEF Rendezvous, Sending, Accepts, WaitsFor, Waits, Sends
<1>6. ASSUME NEW s \in Slots, NEW p, NEW c, Sends(s, p, c) PROVE \E k \in Scanned : pid[k] = p /\ Live(k)
  <2>1. s \in Scanned
    BY <1>3, <1>6 DEF Sends, Blocked, Live
  <2> QED BY <1>0, <1>1, <1>6, <2>1 DEF WaitInv, SendTargets
<1>7. \A r \in Slots : Waits(r) => syscall[r].status # "DONE"
  BY <1>4
<1> QED BY ONLY <1>3, <1>5, <1>6, <1>7

\* Nobody but a new process is being loaded, and GPID_PROCESS is blocked.
LEMMA StuckProcess ==
  ASSUME AllInv, SearchInv, UpInv, WaitInv, Stuck
  PROVE  /\ 1 \in Slots /\ pid[1] = 1 /\ Blocked(1) /\ ~Booting
         /\ last_pid >= 4 /\ \A p \in 1..4 : p \in Slots /\ pid[p] = p /\ Blocked(p)
         /\ at[1] = "request" => WaitsFor(1, GPID_ALL) /\ \A k \in Slots : Live(k) => Blocked(k)
<1> USE Numbers
<1>1. /\ 1 \in Slots /\ pid[1] = 1 /\ Live(1) /\ last_pid \in Nat
      /\ \A p \in 1..4 : p <= last_pid => p \in Slots /\ pid[p] = p /\ Live(p)
  BY SlotFacts DEF UpInv
<1>2. \A k \in Slots : Live(k) /\ ~Blocked(k) =>
        /\ call.op \in {"loading", "loaded"} /\ pid[k] = call.arg /\ at[k] = Entry(call.arg)
        /\ at[1] \in {"boot", "load", "load_recv"} /\ call.arg = last_pid /\ last_pid > 1
        /\ at[1] = "boot" => ~Blocked(1)
        /\ at[1] # "boot" => last_pid > 4
  <2>1. \A k \in Slots : Live(k) /\ ~Blocked(k) =>
          call.op \in {"loading", "loaded"} /\ pid[k] = call.arg /\ at[k] = Entry(call.arg)
    BY StuckFacts DEF WaitInv, LoadingInv
  <2>2. call.op \in {"loading", "loaded"} =>
          /\ at[1] \in {"boot", "load", "load_recv"} /\ call.arg = last_pid /\ last_pid > 1
          /\ at[1] = "boot" => ~Blocked(1)
          /\ at[1] # "boot" => last_pid > 4
    BY <1>1 DEF UpInv, CallLabels
  <2> QED BY <2>1, <2>2
<1>3. Blocked(1)
  BY <1>1, <1>2
<1>4. ~Booting
  <2>1. SUFFICES ASSUME Booting PROVE FALSE
    OBVIOUS
  <2>2. at[1] = "boot"
    BY <1>3, <2>1 DEF Booting, UpInv, ProcLabels
  <2>3. PICK p \in Servers : last_pid = p /\ WaitsFor(1, p)
    BY <1>3, <2>2 DEF UpInv, ProcLabels
  <2>4. p \in 1..4 /\ p \in Slots /\ pid[p] = p /\ Live(p) /\ Due(p)
    BY <1>1, <1>3, <2>3 DEF Servers, Due
  <2>5. Blocked(p)
    BY <1>2, <1>3, <2>2, <2>4
  <2>6. at[p] = "init" \/ Sends(p, 1, "finish")
    BY <2>3, <2>4 DEF UpInv, BootInv
  <2>7. ServerLabels(p)
    BY <1>1, <2>3 DEF UpInv, ServerState
  <2>8. Sends(p, 1, "finish")
    BY <2>5, <2>6, <2>7 DEF ServerLabels
  <2>9. \A r \in Slots, t \in Slots : \A q, c : WaitsFor(r, q) /\ Sends(t, pid[r], c) => q # pid[t]
    BY StuckFacts
  <2> QED BY ONLY <1>1, <2>3, <2>4, <2>8, <2>9
<1>5. last_pid >= 4 /\ \A p \in 1..4 : p \in Slots /\ pid[p] = p /\ Blocked(p)
  <2>1. last_pid >= 4
    BY <1>4 DEF UpInv, CallLabels
  <2>2. ASSUME NEW p \in 1..4 PROVE p \in Slots /\ pid[p] = p /\ Blocked(p)
    <3>1. p \in Slots /\ pid[p] = p /\ Live(p)
      BY <1>1, <2>1
    <3> QED BY <1>1, <1>2, <1>4, <3>1 DEF Booting
  <2> QED BY <2>1, <2>2
<1>6. ASSUME at[1] = "request" PROVE WaitsFor(1, GPID_ALL) /\ \A k \in Slots : Live(k) => Blocked(k)
  <2>1. Waits(1)
    BY <1>3, <1>6 DEF UpInv, ProcLabels
  <2>2. syscall[1].sender = GPID_ALL
    BY <1>1, <1>3, <1>5, <1>6, <2>1, StuckFacts DEF WaitInv, AskInv, Asks
  <2> QED BY <1>2, <1>6, <2>1, <2>2 DEF WaitsFor
<1> QED BY <1>1, <1>3, <1>4, <1>5, <1>6

\* The servers wait for a request, and nobody sends one, nor is owed a reply.
LEMMA StuckServers ==
  ASSUME AllInv, SearchInv, UpInv, WaitInv, Stuck, NEW s \in Servers
  PROVE  (\A k \in Slots : \A c : ~Sends(k, s, c)) /\ \A p : ~Owes(s, p)
<1> USE Numbers
<1>1. s \in Slots /\ pid[s] = s /\ Blocked(s) /\ ~Booting /\ s <= last_pid /\ last_pid \in Nat
  BY StuckProcess, SlotFacts DEF Servers, UpInv
<1>2. ServerLabels(s)
  BY <1>1 DEF UpInv, ServerState
<1>3. ~Sends(s, 1, "finish")
  BY <1>1, BootOver DEF UpInv, BootInv
<1>4. ~Sends(s, 1, "block")
  <2>1. SUFFICES ASSUME Sends(s, 1, "block") PROVE FALSE
    OBVIOUS
  <2>2. s = 3
    BY <1>2, <2>1, <1>1 DEF ServerLabels, Sends, Waits, Servers, Known
  <2>3. AwaitsBlock
    BY <1>1, <2>1, <2>2 DEF UpInv, BlockOwed, Owes
  <2>4. WaitsFor(1, 3)
    BY <2>3, StuckProcess DEF AwaitsBlock, UpInv, ProcLabels
  <2> QED BY <1>1, <2>1, <2>2, <2>4, StuckProcess, StuckFacts
<1>5. ASSUME NEW p \in Known, NEW c \in {"block", "line"}, Sends(s, p, c) PROVE FALSE
  <2>1. PICK k \in Scanned : pid[k] = p /\ Live(k)
    BY <1>1, <1>5, StuckFacts
  <2>2. k \in Slots /\ pid[k] \in Apps
    <3>1. last_pid \in 1..MaxPid
      BY SlotFacts DEF UpInv
    <3> QED BY <1>5, <2>1, <3>1 DEF Known, Apps
  <2>3. AwaitsReply(k, s)
    <3>1. Owes(s, p)
      BY <1>5 DEF Owes
    <3>2. Owes(s, pid[k])
      BY <2>1, <3>1
    <3> QED BY <1>1, <2>1, <2>2, <3>2 DEF UpInv, ReplyOwed
  <2>4. ~WaitsFor(k, s)
    BY <1>1, <1>5, <2>1, <2>2, StuckFacts
  <2>5. ~Blocked(k) /\ at[k] # "run"
    BY <2>3, <2>4 DEF AwaitsReply
  <2>6. status[k] = "LOADING"
    BY <2>1, <2>2, <2>5, StuckFacts
  <2>7. at[k] = Entry(p)
    BY <2>1, <2>6 DEF WaitInv, LoadingInv
  <2> QED BY <2>2, <2>1, <2>5, <2>7 DEF Entry, Apps
<1>6. at[s] = "request" /\ Waits(s)
  <2>1. at[s] # "loop"
    BY <1>1, <1>2, <1>3, <1>4, <1>5 DEF ServerLabels
  <2> QED BY <1>1, <1>2, <2>1 DEF ServerLabels
<1>7. WaitsFor(s, GPID_ALL)
  BY <1>1, <1>6, StuckFacts DEF WaitInv, AskInv, Asks, WaitsFor
<1>8. \A k \in Slots : \A c : ~Sends(k, s, c)
  BY <1>1, <1>7, StuckFacts
<1>9. \A p : ~Owes(s, p)
  BY <1>1, <1>6 DEF Owes, Sends, Waits
<1> QED BY <1>8, <1>9

LEMMA NeverStuck ==
  ASSUME AllInv, SearchInv, UpInv, WaitInv
  PROVE  ~Stuck
<1> SUFFICES ASSUME Stuck PROVE FALSE
  OBVIOUS
<1> USE Numbers
<1>1. /\ 1 \in Slots /\ pid[1] = 1 /\ Blocked(1) /\ ~Booting /\ last_pid >= 4
      /\ \A p \in 1..4 : p \in Slots /\ pid[p] = p /\ Blocked(p)
      /\ at[1] = "request" => WaitsFor(1, GPID_ALL) /\ \A k \in Slots : Live(k) => Blocked(k)
  BY StuckProcess
<1>2. \A s \in {2, 3} : (\A k \in Slots : \A c : ~Sends(k, s, c)) /\ \A p : ~Owes(s, p)
  BY StuckServers DEF Servers
<1>3. ~(WaitsFor(4, 1) /\ \E c : Sends(1, 4, c))
  <2>1. 4 \in Slots /\ pid[4] = 4
    BY <1>1
  <2>2. \A r \in Slots, s \in Slots : \A p, c : WaitsFor(r, p) /\ Sends(s, pid[r], c) => p # pid[s]
    BY StuckFacts
  <2>3. \A p, c : WaitsFor(4, p) /\ Sends(1, pid[4], c) => p # pid[1]
    BY ONLY <1>1, <2>1, <2>2
  <2> QED BY ONLY <1>1, <2>1, <2>3
<1>4. ShellLabels
  BY <1>1 DEF UpInv, ShellState
<1>5. at[1] \in {"loop", "request"}
  <2>1. ~AwaitsBlock
    BY <1>2 DEF WaitInv, OwedInv
  <2> QED BY <1>1, <1>2, <2>1 DEF AwaitsBlock, UpInv, ProcLabels, Booting
<1>6. at[1] # "loop"
  <2>1. SUFFICES ASSUME at[1] = "loop" PROVE FALSE
    OBVIOUS
  <2>2. PICK c \in {"ok", "error", "exit"} : Sends(1, 4, c)
    BY <1>1, <2>1 DEF UpInv, ProcLabels
  <2>3. AwaitsAnswer \/ AwaitsEnd
    BY <2>2 DEF UpInv, TalkInv, Answers
  <2>4. WaitsFor(4, 1)
    BY <1>1, <1>4, <2>3 DEF AwaitsAnswer, AwaitsEnd, ShellLabels
  <2> QED BY <1>3, <2>2, <2>4
<1>7. /\ at[1] = "request" /\ WaitsFor(1, GPID_ALL) /\ (\A k \in Slots : Live(k) => Blocked(k))
      /\ \A k \in Slots : \A c : ~Sends(k, 1, c)
  <2>1. at[1] = "request" /\ WaitsFor(1, GPID_ALL) /\ \A k \in Slots : Live(k) => Blocked(k)
    BY <1>5, <1>6, StuckProcess
  <2> QED BY <1>1, <2>1, StuckFacts
<1>8. /\ AwaitsAnswer => AtService \/ Answers("ok") \/ Answers("error")
      /\ AwaitsEnd => at[1] = "notify" \/ Answers("exit") \/ ~Gone(app_pid)
  BY <1>1 DEF WaitInv, EndInv, AnswerDue, EndDue
<1>9. ~AtService /\ \A c : ~Answers(c)
  BY <1>1, <1>7 DEF AtService, Answers, Sends, WaitsFor, Waits
<1>10. AwaitsEnd
  BY <1>1, <1>4, <1>7, <1>8, <1>9 DEF ShellLabels, AwaitsAnswer, AwaitsEnd
<1>11. PICK k \in Slots : pid[k] = app_pid /\ Live(k)
  BY <1>7, <1>8, <1>9, <1>10 DEF Gone
<1>12. pid[k] \in Apps /\ Blocked(k)
  <2>1. pid[k] # GPID_UNUSED
    BY <1>11 DEF AllInv, IInv, PidInv
  <2> QED BY <1>7, <1>11, <2>1 DEF WaitInv
<1>13. \A s \in {2, 3} : ~AwaitsReply(k, s)
  <2>1. ASSUME NEW s \in {2, 3}, AwaitsReply(k, s) PROVE Owes(s, pid[k])
    BY <1>11, <1>12, <2>1 DEF WaitInv, OwedInv, Servers
  <2> QED BY <1>2, <2>1
<1>14. AppLabels(k)
  BY <1>11, <1>12 DEF UpInv, AppState
<1> QED BY <1>2, <1>7, <1>12, <1>13, <1>14 DEF AppLabels, AwaitsReply, Servers

\* It is only the dispatch that finds no process.
LEMMA IdleIsDispatch ==
  ASSUME IInv, [Next]_vars, kpc \notin Fatals, kpc' = "no_process"
  PROVE  Dispatch
<1>1. kpc' # kpc /\ ~UNCHANGED vars /\ ~Halted
  BY DEF Fatals, vars, Halted
<1>2. ASSUME NEW r \in SyscallRecord, r.status = "PENDING", r.type \in {"SEND", "RECV"}, Ecall(r)
      PROVE  FALSE
  BY <1>2, EcallEffect
<1>3. ~Send /\ ~Recv
  BY <1>2, RequestsAreCalls DEF Send, Recv
<1>4. ~ScanStep
  BY ScanEffect
<1>5. ~(Timer \/ Fault \/ proc_alloc \/ elf_load \/ proc_set_ready \/ (\E p \in UserPids : proc_free(p))
        \/ ProcFreeEnd \/ KillAll \/ KillAllUnmap \/ KillAllMark \/ KillAllEnd)
  BY DEF Timer, proc_yield, Fault, Panic, proc_alloc, elf_load, proc_set_ready, proc_free,
     ProcFreeEnd, KillAll, KillAllUnmap, KillAllMark, KillAllEnd, InProcess
<1> QED BY <1>1, <1>3, <1>4, <1>5 DEF Next

\* The invariant with what keeps the loop from its end.
NoDeadlockInv ==
  /\ SearchInv
  /\ kpc \notin Fatals => WaitInv
  /\ kpc # "no_process" \/ Live(MAX_NPROCESS)

LEMMA NoDeadlockStep ==
  ASSUME EInv, NoDeadlockInv, [SysNext]_sysVars
  PROVE  NoDeadlockInv'
<1>1. EInv' /\ [Next]_vars
  BY EgosStep
<1>2. AllInv /\ IInv /\ SearchInv /\ AllInv' /\ (kpc \notin Fatals => UpInv /\ WaitInv) /\ (kpc' \notin Fatals => UpInv')
  BY <1>1 DEF EInv, EgosInv, AllInv, NoDeadlockInv
<1>3. SearchInv'
  BY <1>1, <1>2, SearchStep
<1>4. CASE kpc \in Fatals
  <2>1. UNCHANGED sysVars
    BY <1>4, FatalIsEnd
  <2>2. kpc' = kpc /\ status' = status
    BY <2>1 DEF sysVars, vars, procVars
  <2> QED BY <1>3, <1>4, <2>2 DEF NoDeadlockInv, Live
<1>5. CASE kpc \notin Fatals /\ kpc' \notin Fatals
  BY <1>1, <1>2, <1>3, <1>5, WaitStep DEF NoDeadlockInv, Fatals
<1>6. CASE kpc \notin Fatals /\ kpc' \in Fatals
  <2>1. ASSUME kpc' = "no_process" PROVE Live(MAX_NPROCESS)'
    <3>1. Dispatch
      BY <1>1, <1>2, <1>6, <2>1, IdleIsDispatch
    <3>2. kpc = "scan" /\ i > MAX_NPROCESS /\ next_idx = MAX_NPROCESS /\ status' = status
      BY <1>2, <2>1, <3>1, DispatchEffect
    <3>3. Live(MAX_NPROCESS)
      BY <1>2, <1>6, <3>2, NeverStuck DEF Stuck
    <3> QED BY <3>2, <3>3 DEF Live
  <2> QED BY <1>3, <1>6, <2>1 DEF NoDeadlockInv
<1> QED BY <1>4, <1>5, <1>6

\* Whatever is typed, requested and scheduled, and whatever the size of the table: the
\* kernel finds no process to run (kernel.c:164) only when the last slot, which its loops
\* do not see, has been handed out (process.c:29); somebody sends to a process that is not
\* there (kernel.c:209) only when a server answers an application that killall has freed;
\* proc_alloc fails (process.c:60) only when every slot is in use; and an exception
\* (kernel.c:70) is one of an application.  No system call is unknown.
THEOREM EveryFatalHasCause == SysSpec => []FatalHasCause
<1>1. SysInit => EInv /\ NoDeadlockInv
  <2> SUFFICES ASSUME SysInit PROVE EInv /\ NoDeadlockInv
    OBVIOUS
  <2>1. kpc = "user"
    BY DEF SysInit, Init
  <2> QED BY <2>1, InvInit, WaitInit DEF NoDeadlockInv, SearchInv
<1>2. EInv /\ NoDeadlockInv /\ [SysNext]_sysVars => EInv' /\ NoDeadlockInv'
  BY EgosStep, NoDeadlockStep
<1>3. EInv /\ NoDeadlockInv => FatalHasCause
  BY DEF EInv, EgosInv, FatalInv, FatalHasCause, NoDeadlockInv
<1> QED BY <1>1, <1>2, <1>3, PTL DEF SysSpec
===============================================================================
