----------------------------- MODULE EgosServers -----------------------------
(***************************************************************************)
(* egos-2000 with its programs: the grass layer of module Grass, and in    *)
(* user mode GPID_PROCESS (sys_proc.c), GPID_TERMINAL (sys_terminal.c),    *)
(* GPID_FILE (sys_file.c), GPID_SHELL (sys_shell.c) and user applications  *)
(* built on library/syscall/servers.c.                                     *)
(*                                                                         *)
(* Each process has a label "at" in its program.  A step of the program is *)
(* taken by the running process; a system call moves the label to what     *)
(* follows it, which is reached when the kernel runs the process again.    *)
(***************************************************************************)
EXTENDS Grass

CONSTANTS Commands,    \* what the user types at the prompt
          MaxCommands, \* bound: commands typed after the first
          AppOps,      \* what an application does: its requests, and "crash"
          MaxOps,      \* bound: requests of one application before it exits
          LoadReads    \* file_read calls elf_load makes for one application

GPID_TERMINAL == 2
GPID_FILE == 3

ASSUME ServersAssumption ==
  /\ Commands \subseteq {"spawn_fg", "spawn_bg", "spawn_bad", "killall"}
  /\ AppOps \subseteq {"read", "print", "input", "crash"}
  /\ MaxCommands \in Nat /\ MaxOps \in Nat /\ LoadReads \in Nat
  /\ GPID_SHELL = 4 /\ GPID_USER_START = 5
  /\ Contents = {"finish", "spawn_fg", "spawn_bg", "spawn_bad", "killall", "exit",
                 "ok", "error", "read", "block", "print", "input", "line"}

VARIABLES
  at,             \* label of the process in each slot
  left,           \* file_reads or requests still to make at that label
  app_pid,        \* sys_proc.c: the application spawned last
  shell_waiting,  \* sys_proc.c: the shell waits for it
  req,            \* sys_proc.c: the request being served
  client,         \* sys_proc.c: who sent it
  cmd,            \* sys_shell.c: the command being executed
  typed           \* commands typed so far

progVars == <<at, left, app_pid, shell_waiting, req, client, cmd, typed>>
sysVars == <<vars, progVars>>

Entry(p) == IF p \in {GPID_TERMINAL, GPID_FILE} THEN "init"
            ELSE IF p = GPID_SHELL THEN "cmd" ELSE "run"

SysInit ==
  /\ Init
  /\ at = [k \in Slots |-> "boot"]
  /\ left = [k \in Slots |-> 0]
  /\ app_pid = GPID_UNUSED /\ shell_waiting = FALSE
  /\ req = NoContent /\ client = GPID_UNUSED
  /\ cmd = "spawn_fg" /\ typed = 0      \* the shell first runs "cd"

\* The running process is p, at label l of its program.
At(p, l) == kpc = "user" /\ pid[curr] = p /\ at[curr] = l
Goto(l) == at' = [at EXCEPT ![curr] = l]
Message == usr[curr]
Trap(request, l) == Ecall(request) /\ Goto(l)

-----------------------------------------------------------------------------
(* GPID_PROCESS.                                                           *)

\* sys_spawn and app_spawn: the new process starts at its entry point.
SpawnAlloc ==
  /\ \/ At(GPID_PROCESS, "boot")
     \/ At(GPID_PROCESS, "lookup") /\ left[curr] = 0 /\ req # "spawn_bad"
  /\ proc_alloc
  /\ LET new == First(FreeSlots)
         label == IF at[curr] = "boot" THEN "boot" ELSE "load"
     IN  IF FreeSlots = {} THEN UNCHANGED <<at, left, app_pid>> ELSE
         /\ at' = [at EXCEPT ![new] = Entry(last_pid + 1), ![curr] = label]
         /\ left' = [left EXCEPT ![new] = MaxOps, ![curr] = IF label = "boot" THEN 0 ELSE LoadReads]
         /\ app_pid' = IF label = "boot" THEN app_pid ELSE last_pid + 1
  /\ UNCHANGED <<shell_waiting, req, client, cmd, typed>>

SpawnLoad ==
  /\ \/ At(GPID_PROCESS, "boot")
     \/ At(GPID_PROCESS, "load") /\ left[curr] = 0
  /\ elf_load
  /\ UNCHANGED progVars

\* Mutant: the file server's "Finish initialization" is not waited for.
SpawnReadyNoWait ==
  /\ pid[curr] = GPID_PROCESS
  /\ proc_set_ready
  /\ Goto(CASE call.arg = GPID_TERMINAL -> "wait_terminal"
            [] call.arg = GPID_FILE -> "boot"
            [] call.arg = GPID_SHELL -> "loop"
            [] OTHER -> "reply")
  /\ UNCHANGED <<left, app_pid, shell_waiting, req, client, cmd, typed>>

\* Mutant: the terminal's "Finish initialization" is not waited for.
SpawnReadyNoTerminal ==
  /\ pid[curr] = GPID_PROCESS
  /\ proc_set_ready
  /\ Goto(CASE call.arg = GPID_TERMINAL -> "boot"
            [] call.arg = GPID_FILE -> "wait_file"
            [] call.arg = GPID_SHELL -> "loop"
            [] OTHER -> "reply")
  /\ UNCHANGED <<left, app_pid, shell_waiting, req, client, cmd, typed>>

SpawnReady ==
  /\ pid[curr] = GPID_PROCESS
  /\ proc_set_ready
  /\ Goto(CASE call.arg = GPID_TERMINAL -> "wait_terminal"
            [] call.arg = GPID_FILE -> "wait_file"
            [] call.arg = GPID_SHELL -> "loop"
            [] OTHER -> "reply")
  /\ UNCHANGED <<left, app_pid, shell_waiting, req, client, cmd, typed>>

\* Receive the "Finish initialization" messages, and the requests of the main loop.
ProcRecv ==
  /\ \/ At(GPID_PROCESS, "wait_terminal") /\ Trap(RecvFrom(GPID_TERMINAL), "boot")
     \/ At(GPID_PROCESS, "wait_file") /\ Trap(RecvFrom(GPID_FILE), "boot")
     \/ At(GPID_PROCESS, "loop") /\ Trap(RecvFrom(GPID_ALL), "request")
  /\ UNCHANGED <<left, app_pid, shell_waiting, req, client, cmd, typed>>

\* case PROC_SPAWN: app_spawn starts with two dir_lookups.
ProcSpawn ==
  /\ At(GPID_PROCESS, "request")
  /\ Message.content \in {"spawn_fg", "spawn_bg", "spawn_bad"}
  /\ req' = Message.content /\ client' = Message.sender
  /\ Goto("lookup") /\ left' = [left EXCEPT ![curr] = 2]
  /\ UNCHANGED <<vars, app_pid, shell_waiting, cmd, typed>>

\* file_read, from dir_lookup ("lookup") or from elf_load ("load").
ProcFileRead ==
  \/ \E l \in {"lookup", "load"} :
       /\ At(GPID_PROCESS, l) /\ left[curr] > 0
       /\ Trap(SendTo(GPID_FILE, "read"), IF l = "lookup" THEN "lookup_recv" ELSE "load_recv")
       /\ UNCHANGED <<left, app_pid, shell_waiting, req, client, cmd, typed>>
  \/ \E l \in {"lookup_recv", "load_recv"} :
       /\ At(GPID_PROCESS, l)
       /\ Trap(RecvFrom(GPID_FILE), IF l = "lookup_recv" THEN "lookup" ELSE "load")
       /\ left' = [left EXCEPT ![curr] = @ - 1]
       /\ UNCHANGED <<app_pid, shell_waiting, req, client, cmd, typed>>

\* The reply to the shell: CMD_ERROR if the command was not found.
ProcReply ==
  /\ \/ At(GPID_PROCESS, "lookup") /\ left[curr] = 0 /\ req = "spawn_bad"
     \/ At(GPID_PROCESS, "reply")
  /\ shell_waiting' = (req = "spawn_fg")
  /\ Trap(SendTo(GPID_SHELL, IF req = "spawn_bad" THEN "error" ELSE "ok"), "loop")
  /\ UNCHANGED <<left, app_pid, req, client, cmd, typed>>

\* case PROC_EXIT: free the sender, then tell the shell if it waits for this one.
ProcExit ==
  /\ At(GPID_PROCESS, "request") /\ Message.content = "exit"
  /\ proc_free(Message.sender)
  /\ req' = "exit" /\ client' = Message.sender
  /\ Goto("free")
  /\ UNCHANGED <<left, app_pid, shell_waiting, cmd, typed>>

\* Mutant: the exit notice is not compared with the application the shell waits for.
ExitTellsForAny ==
  /\ At(GPID_PROCESS, "free") /\ ProcFreeEnd
  /\ Goto(IF shell_waiting THEN "notify" ELSE "loop")
  /\ UNCHANGED <<left, app_pid, shell_waiting, req, client, cmd, typed>>

\* Mutant: the shell is never told.
ExitTellsNever ==
  /\ At(GPID_PROCESS, "free") /\ ProcFreeEnd
  /\ Goto("loop")
  /\ UNCHANGED <<left, app_pid, shell_waiting, req, client, cmd, typed>>

ProcExitEnd ==
  /\ At(GPID_PROCESS, "free")
  /\ ProcFreeEnd
  /\ Goto(IF shell_waiting /\ app_pid = client THEN "notify" ELSE "loop")
  /\ UNCHANGED <<left, app_pid, shell_waiting, req, client, cmd, typed>>

ProcNotify ==
  /\ At(GPID_PROCESS, "notify")
  /\ Trap(SendTo(GPID_SHELL, "exit"), "loop")
  /\ UNCHANGED <<left, app_pid, shell_waiting, req, client, cmd, typed>>

\* case PROC_KILLALL.
ProcKillAll ==
  /\ At(GPID_PROCESS, "request") /\ Message.content = "killall"
  /\ KillAll
  /\ req' = "killall" /\ client' = Message.sender
  /\ Goto("killall")
  /\ UNCHANGED <<left, app_pid, shell_waiting, cmd, typed>>

ProcKillAllStep ==
  /\ At(GPID_PROCESS, "killall")
  /\ \/ (KillAllUnmap \/ KillAllMark) /\ UNCHANGED at
     \/ KillAllEnd /\ Goto("loop")
  /\ UNCHANGED <<left, app_pid, shell_waiting, req, client, cmd, typed>>

ProcessStep ==
  \/ SpawnAlloc \/ SpawnLoad \/ SpawnReady \/ ProcRecv \/ ProcSpawn \/ ProcFileRead
  \/ ProcReply \/ ProcExit \/ ProcExitEnd \/ ProcNotify \/ ProcKillAll \/ ProcKillAllStep

-----------------------------------------------------------------------------
(* GPID_TERMINAL and GPID_FILE.                                            *)

\* Mutant: the server does not report that it is initialized.
ServerInitSilent(p) == At(p, "init") /\ Goto("loop") /\ UNCHANGED vars

ServerInit(p) == At(p, "init") /\ Trap(SendTo(GPID_PROCESS, "finish"), "loop")
ServerRecv(p) == At(p, "loop") /\ Trap(RecvFrom(GPID_ALL), "request")

\* TERM_INPUT and FILE_READ are answered; TERM_OUTPUT is not.
FileReply ==
  /\ At(GPID_FILE, "request") /\ Message.content = "read"
  /\ Trap(SendTo(Message.sender, "block"), "loop")
TerminalReply ==
  /\ At(GPID_TERMINAL, "request") /\ Message.content = "input"
  /\ Trap(SendTo(Message.sender, "line"), "loop")
TerminalPrint ==
  /\ At(GPID_TERMINAL, "request") /\ Message.content = "print"
  /\ Goto("loop") /\ UNCHANGED vars

ServerStep(p) ==
  /\ ServerInit(p) \/ ServerRecv(p)
     \/ (p = GPID_FILE /\ FileReply) \/ (p = GPID_TERMINAL /\ (TerminalReply \/ TerminalPrint))
  /\ UNCHANGED <<left, app_pid, shell_waiting, req, client, cmd, typed>>

-----------------------------------------------------------------------------
(* GPID_SHELL.                                                             *)

ShellSend ==
  /\ At(GPID_SHELL, "cmd")
  /\ Trap(SendTo(GPID_PROCESS, cmd), IF cmd = "killall" THEN "prompt" ELSE "recv")
  /\ UNCHANGED <<left, app_pid, shell_waiting, req, client, cmd, typed>>

ShellRecv ==
  /\ At(GPID_SHELL, "recv")
  /\ Trap(RecvFrom(GPID_PROCESS), "reply")
  /\ UNCHANGED <<left, app_pid, shell_waiting, req, client, cmd, typed>>

\* Wait for the foreground command to terminate, or go back to the prompt.
ShellReply ==
  /\ At(GPID_SHELL, "reply")
  /\ IF Message.content = "ok" /\ cmd = "spawn_fg"
     THEN Trap(RecvFrom(GPID_PROCESS), "prompt")
     ELSE Goto("prompt") /\ UNCHANGED vars
  /\ UNCHANGED <<left, app_pid, shell_waiting, req, client, cmd, typed>>

\* term_read polls the TTY; sooner or later the user types a command.
ShellPrompt ==
  /\ At(GPID_SHELL, "prompt") /\ typed < MaxCommands
  /\ \E c \in Commands : cmd' = c
  /\ typed' = typed + 1
  /\ Goto("cmd")
  /\ UNCHANGED <<vars, left, app_pid, shell_waiting, req, client>>

ShellStep == ShellSend \/ ShellRecv \/ ShellReply

-----------------------------------------------------------------------------
(* User applications.                                                      *)

AppRequest(p) ==
  /\ At(p, "run") /\ left[curr] > 0
  /\ left' = [left EXCEPT ![curr] = @ - 1]
  /\ \E op \in AppOps \ {"crash"} :
       Trap(SendTo(IF op = "read" THEN GPID_FILE ELSE GPID_TERMINAL, op),
            CASE op = "read" -> "read_recv" [] op = "input" -> "input_recv" [] OTHER -> "run")
  /\ UNCHANGED <<app_pid, shell_waiting, req, client, cmd, typed>>

AppRecv(p) ==
  /\ \/ At(p, "read_recv") /\ Trap(RecvFrom(GPID_FILE), "run")
     \/ At(p, "input_recv") /\ Trap(RecvFrom(GPID_TERMINAL), "run")
  /\ UNCHANGED <<left, app_pid, shell_waiting, req, client, cmd, typed>>

\* exit(): send PROC_EXIT, then spin in while (1).
AppExit(p) ==
  /\ At(p, "run") /\ left[curr] = 0
  /\ Trap(SendTo(GPID_PROCESS, "exit"), "spin")
  /\ UNCHANGED <<left, app_pid, shell_waiting, req, client, cmd, typed>>

\* crash1: malloc wants more than the heap, and _sbrk stores to address 0.
AppCrash(p) ==
  /\ "crash" \in AppOps /\ At(p, "run")
  /\ Fault
  /\ UNCHANGED progVars

AppStep(p) == AppRequest(p) \/ AppRecv(p) \/ AppExit(p)

Apps == GPID_USER_START..MaxPid

-----------------------------------------------------------------------------
KernelStep == (ScanStep \/ Dispatch) /\ UNCHANGED progVars
TimerStep == Timer /\ UNCHANGED progVars

SysNext ==
  \/ KernelStep \/ TimerStep
  \/ ProcessStep
  \/ \E p \in {GPID_TERMINAL, GPID_FILE} : ServerStep(p)
  \/ ShellStep \/ ShellPrompt
  \/ \E p \in Apps : AppStep(p) \/ AppCrash(p)
  \/ Halted /\ UNCHANGED progVars

SysSpec == SysInit /\ [][SysNext]_sysVars

(***************************************************************************)
(* Fairness: the kernel finishes what it starts, the timer fires, and the  *)
(* programs take steps: if some process that is run again and again could, *)
(* one does (the quantum is far longer than the few instructions of a      *)
(* step).  The user need not type anything.  A process may starve only if  *)
(* others take steps forever, which the bounds exclude.                    *)
(***************************************************************************)
ProgramStep ==
  \/ ProcessStep \/ ShellStep
  \/ \E p \in {GPID_TERMINAL, GPID_FILE} : ServerStep(p)
  \/ \E p \in Apps : AppStep(p)

SysFairness ==
  WF_sysVars(KernelStep) /\ WF_sysVars(TimerStep) /\ SF_sysVars(ProgramStep)

FairSysSpec == SysSpec /\ SysFairness

-----------------------------------------------------------------------------
(* Properties.                                                             *)

\* The process with pid p, while it exists, satisfies P at its slot.
SlotOf(p) == {k \in Slots : pid[k] = p /\ Live(k)}

\* The disk has one user at a time: while GPID_PROCESS reads a server's or the shell's
\* binary from the disk itself (sys_proc.c:98-109), GPID_FILE is not in its own disk reads
\* (treedisk_init, or serving a request), although the timer may switch between the two
\* inside the disk driver, which has neither a lock nor a queue.  Only the "Finish
\* initialization" messages see to this.
LoadsFromDisk == call.op = "loading" /\ \E k \in SlotOf(GPID_PROCESS) : at[k] = "boot"
DiskExclusive ==
  LoadsFromDisk =>
    \A k \in SlotOf(GPID_FILE) :
      status[k] \in {"READY", "RUNNING", "RUNNABLE"} => at[k] \notin {"init", "request"}

\* Whatever is typed, requested and scheduled, a FATAL has one of four causes.
\*   - exception: a user application raised it (kernel.c:70), and not the servers.
\*   - process_limit: the table is full (process.c:60).
\*   - no_process: the last slot of the table has been handed out, which the loops of
\*     the kernel do not see.  Otherwise there is always a process to run
\*     (kernel.c:164): the programs do not all wait for one another.
\*   - unknown_receiver: a server replies to an application that killall has freed while
\*     its request was being served (kernel.c:209).  The server replies now, or its reply
\*     was waiting for the application to get to sys_recv.  Nobody else ever sends to a
\*     process that is gone.
Killed(p) == p \in Apps /\ \A k \in Slots : pid[k] = p => ~Live(k) /\ at[k] # "spin"
ReplyToKilled ==
  \E s \in SlotOf(GPID_TERMINAL) \cup SlotOf(GPID_FILE) :
    \/ s = curr /\ Message.content \in {"read", "input"} /\ Killed(Message.sender)
    \/ Blocked(s) /\ syscall[s].type = "SEND" /\ Killed(syscall[s].receiver)
FatalHasCause ==
  /\ kpc # "unknown_syscall"
  /\ kpc = "exception" => UserAlive(curr)
  /\ kpc = "process_limit" => \A k \in Slots \ {0} : Live(k)
  /\ kpc = "no_process" => Live(MAX_NPROCESS)
  /\ kpc = "unknown_receiver" => ReplyToKilled

\* Every request and reply is one the receiver handles at that point: a server never
\* sees an invalid request, and a reply is never taken for another one.
Handled(p, l) ==
  CASE p = GPID_PROCESS /\ l = "request" -> {"spawn_fg", "spawn_bg", "spawn_bad", "killall", "exit"}
    [] p = GPID_PROCESS /\ (l = "load" \/ (l = "lookup" /\ left[curr] < 2)) -> {"block"}
    [] p = GPID_PROCESS /\ l = "boot" -> {"finish"}
    [] p = GPID_TERMINAL /\ l = "request" -> {"print", "input"}
    [] p = GPID_FILE /\ l = "request" -> {"read"}
    [] p = GPID_SHELL /\ l = "reply" -> {"ok", "error"}
    [] p = GPID_SHELL /\ l = "prompt" -> IF cmd = "spawn_fg" THEN {"exit", "error"} ELSE {"ok", "error"}
    [] p >= GPID_USER_START /\ l = "run" -> {"block", "line"}
    [] OTHER -> Contents      \* not a point where a message is read
MessagesHandled ==
  kpc = "user" /\ Message # NoMsg => Message.content \in Handled(pid[curr], at[curr])

\* Back at the prompt, the foreground application that the shell waited for is gone:
\* the exit notice of GPID_PROCESS is never one for another application.
ForegroundIsGone ==
  kpc = "user" /\ At(GPID_SHELL, "prompt") /\ cmd = "spawn_fg" => SlotOf(app_pid) = {}

\* A command that was started is finished and the shell prompts again, whatever the
\* background applications do and however they are interleaved.
ShellPrompts == kpc = "user" /\ At(GPID_SHELL, "prompt")
CommandCompletes == (\E k \in SlotOf(GPID_SHELL) : at[k] = "cmd") ~> ShellPrompts

\* The system boots: the shell gets to its prompt.
BootCompletes == <>ShellPrompts

=============================================================================
