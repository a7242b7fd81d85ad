----------------------------- MODULE SimpleShell -----------------------------
(***************************************************************************)
(* The shell of group-16-2: launch, launch_pipe and launch_pip2 start the  *)
(* one to three programs of a line, connect them with pipes and wait for   *)
(* them, and the history keeps a pid and a time for every line.            *)
(*                                                                         *)
(* A program is external: it writes Items items and reads until the end of *)
(* its input, or quits at once.  A pipe is the system's: a read waits for  *)
(* an item or for the last write end to be closed, a write waits for room  *)
(* or is fatal once the last read end is closed.  A write behind the       *)
(* record arrays is undefined; the model stops there.                      *)
(***************************************************************************)
EXTENDS Integers, Sequences, FiniteSets

CONSTANTS MAX_HISTORY_SIZE,   \* entries of the history
          MaxLines,           \* bound: lines entered
          Items,              \* items a program writes
          Capacity            \* items a pipe holds

ASSUME ShellAssumption ==
  /\ MAX_HISTORY_SIZE \in Nat \ {0} /\ MaxLines \in Nat
  /\ Items \in Nat /\ Capacity \in Nat \ {0}

VARIABLES pc, stages,       \* where the shell is, and how many programs the line has
          stage,            \* the program it forks or waits for next
          lineno,           \* lines put into the history so far
          history,          \* the numbers of the lines kept
          process_pid, pid_count,        \* whose pid each entry holds: a line number
          execution_time, exec_time,     \* whose times, start_time with them
          proc,             \* each program's process
          held,             \* pipe ends open in each process, 0 is the shell
          stdin, stdout,    \* the pipe at each program's standard files, 0 if none
          buf, written,     \* items in each pipe, items each program has written
          eof               \* programs that saw the end of their input

records == <<lineno, history, process_pid, pid_count, execution_time, exec_time>>
programs == <<stdin, stdout, buf, written, eof>>
vars == <<pc, stages, stage, records, proc, held, programs>>

Shell == 0
Programs == 1..3
Pipes == 1..2
Ends(n) == (1..(n - 1)) \X {"r", "w"}     \* what a line of n programs opens
Entries == 0..(MAX_HISTORY_SIZE - 1)
NoRecord == 0
ProcStates == {"none", "forked", "reads", "quits", "zombie"}
Running(k) == proc[k] \in {"reads", "quits"}

Readers(p) == {k \in {Shell} \cup Programs : <<p, "r">> \in held[k]} \cup
              {k \in Programs : Running(k) /\ stdin[k] = p}
Writers(p) == {k \in {Shell} \cup Programs : <<p, "w">> \in held[k]} \cup
              {k \in Programs : Running(k) /\ stdout[k] = p}

ShellInit ==
  /\ pc = "prompt" /\ stages = 0 /\ stage = 0 /\ lineno = 0
  /\ history = <<>>
  /\ process_pid = [e \in Entries |-> NoRecord] /\ pid_count = 0
  /\ execution_time = [e \in Entries |-> NoRecord] /\ exec_time = 0
  /\ proc = [k \in Programs |-> "none"]
  /\ held = [k \in {Shell} \cup Programs |-> {}]
  /\ stdin = [k \in Programs |-> 0] /\ stdout = [k \in Programs |-> 0]
  /\ buf = [p \in Pipes |-> 0] /\ written = [k \in Programs |-> 0]
  /\ eof = {}

-----------------------------------------------------------------------------
(* The history.                                                            *)

\* The oldest entry of a record array is dropped; the last one stays as it is.
Shifted(a) == [e \in Entries |-> IF e + 1 \in Entries THEN a[e + 1] ELSE a[e]]

addToHistory ==
  /\ lineno' = lineno + 1
  /\ IF Len(history) < MAX_HISTORY_SIZE
     THEN /\ history' = Append(history, lineno')
          /\ UNCHANGED <<process_pid, execution_time>>
     ELSE /\ history' = Append(Tail(history), lineno')
          /\ process_pid' = Shifted(process_pid)
          /\ execution_time' = Shifted(execution_time)
  /\ UNCHANGED <<pid_count, exec_time>>

RecordPid == /\ process_pid' = [process_pid EXCEPT ![pid_count] = lineno]
             /\ pid_count' = pid_count + 1
RecordTime == /\ execution_time' = [execution_time EXCEPT ![exec_time] = lineno]
              /\ exec_time' = exec_time + 1

\* Mutant: launch takes the time before the wait as well.
RecordsTimeTwice(n) == n \in 1..3

\* What is recorded once the last program of the line has been forked: launch
\* takes the time only after the wait, and launch_pip2 records no pid.
RecordsPid(n) == n \in {1, 2}
RecordsTime(n) == n \in {2, 3}
RecordLaunch(n) ==
  /\ IF RecordsPid(n) THEN RecordPid ELSE UNCHANGED <<process_pid, pid_count>>
  /\ IF RecordsTime(n) THEN RecordTime ELSE UNCHANGED <<execution_time, exec_time>>
  /\ UNCHANGED <<lineno, history>>
BehindTheArrays(n) ==
  (RecordsPid(n) /\ pid_count \notin Entries) \/ (RecordsTime(n) /\ exec_time \notin Entries)

-----------------------------------------------------------------------------
(* The shell.                                                              *)

\* "exit", or the end of the input.
Exit == /\ pc = "prompt" /\ pc' = "exited"
        /\ UNCHANGED <<stages, stage, records, proc, held, programs>>

\* A line with n programs; the pipes are made before the first fork.
Command(n) ==
  /\ pc = "prompt" /\ lineno < MaxLines
  /\ addToHistory
  /\ pc' = "fork" /\ stages' = n /\ stage' = 1
  /\ held' = [held EXCEPT ![Shell] = Ends(n)]
  /\ buf' = [p \in Pipes |-> 0] /\ written' = [k \in Programs |-> 0] /\ eof' = {}
  /\ UNCHANGED <<proc, stdin, stdout>>

\* pipe() fails.
PipeFails ==
  /\ pc = "prompt" /\ lineno < MaxLines /\ addToHistory /\ pc' = "exited"
  /\ UNCHANGED <<stages, stage, proc, held, programs>>

\* More than two "|": the line is only remembered.
TooManyPipes ==
  /\ pc = "prompt" /\ lineno < MaxLines /\ addToHistory
  /\ UNCHANGED <<pc, stages, stage, proc, held, programs>>

\* A "|" that is no word of its own: the search for it runs into the NULL at the
\* end of parameters.
GluedPipe ==
  /\ pc = "prompt" /\ lineno < MaxLines /\ addToHistory /\ pc' = "crashed"
  /\ UNCHANGED <<stages, stage, proc, held, programs>>

\* fork() fails: launch returns without a record, a pipeline ends the shell.
ForkFails ==
  /\ pc = "fork"
  /\ pc' = IF stages = 1 THEN "prompt" ELSE "exited"
  /\ held' = [held EXCEPT ![Shell] = {}]
  /\ UNCHANGED <<stages, stage, records, proc, programs>>

Fork ==
  /\ pc = "fork"
  /\ proc' = [proc EXCEPT ![stage] = "forked"]
  /\ held' = [held EXCEPT ![stage] = held[Shell]]
  /\ IF stage < stages
     THEN pc' = "fork" /\ stage' = stage + 1 /\ UNCHANGED records
     ELSE IF BehindTheArrays(stages)
     THEN pc' = "undefined" /\ UNCHANGED <<stage, records>>
     ELSE pc' = "close" /\ stage' = 1 /\ RecordLaunch(stages)
  /\ UNCHANGED <<stages, programs>>

CloseEnds ==
  /\ pc = "close" /\ pc' = "wait"
  /\ held' = [held EXCEPT ![Shell] = {}]
  /\ UNCHANGED <<stages, stage, records, proc, programs>>

\* Mutant: a pipeline is not waited for to its last program.
WaitLeavesLast ==
  /\ pc = "wait" /\ proc[stage] = "zombie"
  /\ proc' = [proc EXCEPT ![stage] = "none"]
  /\ IF stage + 1 < stages
     THEN pc' = "wait" /\ stage' = stage + 1
     ELSE pc' = "prompt" /\ stage' = 0
  /\ UNCHANGED <<stages, held, programs, records>>
\* waitpid for one program after the other; launch then takes the time.
Wait ==
  /\ pc = "wait" /\ proc[stage] = "zombie"
  /\ proc' = [proc EXCEPT ![stage] = "none"]
  /\ IF stage < stages
     THEN pc' = "wait" /\ stage' = stage + 1 /\ UNCHANGED records
     ELSE /\ stage' = 0
          /\ IF stages > 1 THEN pc' = "prompt" /\ UNCHANGED records
             ELSE IF exec_time \notin Entries THEN pc' = "undefined" /\ UNCHANGED records
             ELSE /\ pc' = "prompt" /\ RecordTime
                  /\ UNCHANGED <<lineno, history, process_pid, pid_count>>
  /\ UNCHANGED <<stages, held, programs>>

-----------------------------------------------------------------------------
(* The children.                                                           *)

\* Mutants: a child keeps the shell's standard output; the second child of three
\* keeps the write end of the pipe it reads from.
StdoutInherited(n, k) == 0
ClosesNotItsWriter(n, k) == Ends(n) \ (IF n = 3 /\ k = 2 THEN {<<1, "w">>} ELSE {})

StdinOf(n, k) == k - 1
StdoutOf(n, k) == IF k = n THEN 0 ELSE k
\* The ends a child closes before execvp, after it has duplicated its own.
Closes(n, k) == Ends(n)

Exec(k) ==
  /\ proc[k] = "forked"
  /\ \E kind \in {"reads", "quits"} : proc' = [proc EXCEPT ![k] = kind]
  /\ stdin' = [stdin EXCEPT ![k] = StdinOf(stages, k)]
  /\ stdout' = [stdout EXCEPT ![k] = StdoutOf(stages, k)]
  /\ held' = [held EXCEPT ![k] = @ \ Closes(stages, k)]
  /\ UNCHANGED <<pc, stages, stage, records, buf, written, eof>>

End(k) == /\ proc' = [proc EXCEPT ![k] = "zombie"]
          /\ held' = [held EXCEPT ![k] = {}]

\* execvp fails: no such program, or one of the arguments between the last one
\* and the NULL of command2 and command3, which are never set, is no pointer.
ExecFails(k) ==
  /\ proc[k] = "forked" /\ End(k)
  /\ UNCHANGED <<pc, stages, stage, records, programs>>

Write(k) ==
  /\ proc[k] = "reads" /\ written[k] < Items
  /\ stdout[k] # 0 => buf[stdout[k]] < Capacity /\ Readers(stdout[k]) # {}
  /\ written' = [written EXCEPT ![k] = @ + 1]
  /\ buf' = [p \in Pipes |-> IF p = stdout[k] THEN buf[p] + 1 ELSE buf[p]]
  /\ UNCHANGED <<pc, stages, stage, records, proc, held, stdin, stdout, eof>>

\* Nobody can read what it writes.
BrokenPipe(k) ==
  /\ proc[k] = "reads" /\ written[k] < Items
  /\ stdout[k] # 0 /\ Readers(stdout[k]) = {} /\ End(k)
  /\ UNCHANGED <<pc, stages, stage, records, programs>>

Read(k) ==
  /\ proc[k] = "reads" /\ written[k] = Items /\ stdin[k] # 0 /\ buf[stdin[k]] > 0
  /\ buf' = [buf EXCEPT ![stdin[k]] = @ - 1]
  /\ UNCHANGED <<pc, stages, stage, records, proc, held, stdin, stdout, written, eof>>

AtEof(k) == stdin[k] # 0 => buf[stdin[k]] = 0 /\ Writers(stdin[k]) = {}
Finish(k) ==
  /\ proc[k] = "reads" /\ written[k] = Items /\ AtEof(k) /\ End(k)
  /\ eof' = eof \cup {k}
  /\ UNCHANGED <<pc, stages, stage, records, stdin, stdout, buf, written>>

Quit(k) ==
  /\ proc[k] = "quits" /\ End(k)
  /\ UNCHANGED <<pc, stages, stage, records, programs>>

ShellNext ==
  \/ Exit \/ PipeFails \/ TooManyPipes \/ GluedPipe \/ \E n \in Programs : Command(n)
  \/ ForkFails \/ Fork \/ CloseEnds \/ Wait
Child(k) == Exec(k) \/ ExecFails(k) \/ Write(k) \/ BrokenPipe(k) \/ Read(k) \/ Finish(k) \/ Quit(k)
Next == ShellNext \/ \E k \in Programs : Child(k)

\* Once a line has been entered the shell goes on, and a program that can take a
\* step takes one: the system schedules every process.
Fairness == /\ WF_vars(Fork \/ ForkFails \/ CloseEnds \/ Wait)
            /\ \A k \in Programs : WF_vars(Child(k))
ShellSpec == ShellInit /\ [][Next]_vars /\ Fairness

-----------------------------------------------------------------------------
(* Properties.                                                             *)
\* When the prompt is back, every program of the line has ended and been waited
\* for, and no pipe end is left open in the shell (simple-shell.c.c:141-145, 224-231).
PromptIsClean ==
  pc = "prompt" => held[Shell] = {} /\ \A k \in Programs : proc[k] = "none"

\* A program sees the end of its input only when the program before it has ended:
\* the ends still open in the shell and in other children never make a pipe end
\* early, and each reads from its neighbour (simple-shell.c.c:105-142, 166-227).
EofAfterWriter ==
  \A k \in eof : k > 1 => proc[k - 1] \in {"zombie", "none"} /\ buf[k - 1] = 0

\* The first MAX_HISTORY_SIZE lines write no record behind the arrays, and the pids
\* and times printed at exit belong to their lines if there is one for every line; a
\* line that records none (a pipeline of three, more than two pipes, a failed fork)
\* is visible in the count (simple-shell.c.c:29-43, 75-82, 135-138, 219-220, 256-261).
RecordsAligned ==
  lineno <= MAX_HISTORY_SIZE =>
    /\ pc # "undefined"
    /\ pc = "prompt" =>
         \A e \in 1..Len(history) :
           /\ pid_count = Len(history) => process_pid[e - 1] = history[e]
           /\ exec_time = Len(history) => execution_time[e - 1] = history[e]

\* Every line that starts programs comes back to the prompt or ends the shell:
\* no program waits for an end of input, or for room in a pipe, that cannot come
\* because somebody keeps an end open (simple-shell.c.c:105-145, 166-231).
PromptReturns ==
  pc \in {"fork", "close", "wait"} ~> pc \in {"prompt", "exited", "undefined"}
=============================================================================
