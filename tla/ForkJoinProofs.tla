--------------------------- MODULE ForkJoinProofs ---------------------------
(***************************************************************************)
(* Theorems about the two programs that start others and wait for them:    *)
(* the shell of group-16-2 with its processes, for programs and pipes of   *)
(* any size, a history of any length and any number of lines; and          *)
(* parallel_for with its threads, for every iteration space, every number  *)
(* of threads, and whichever calls of pthread_create fail.                 *)
(***************************************************************************)
EXTENDS SimpleShell, ParallelFor, TLAPS

-----------------------------------------------------------------------------
(* The shell: the inductive invariant.                                     *)

Controls == {"prompt", "fork", "close", "wait", "exited", "crashed", "undefined"}
PipeEnds == Pipes \X {"r", "w"}
Processes == {Shell} \cup Programs
Ended(k) == proc[k] \in {"zombie", "none"}

ShellTypeOK ==
  /\ pc \in Controls /\ stages \in 0..3 /\ stage \in 0..3
  /\ lineno \in Nat /\ history \in Seq(Nat)
  /\ process_pid \in [Entries -> Nat] /\ pid_count \in Nat
  /\ execution_time \in [Entries -> Nat] /\ exec_time \in Nat
  /\ proc \in [Programs -> ProcStates]
  /\ held \in [Processes -> SUBSET PipeEnds]
  /\ stdin \in [Programs -> 0..3] /\ stdout \in [Programs -> 0..3]
  /\ buf \in [Pipes -> Nat] /\ written \in [Programs -> Nat]
  /\ eof \in SUBSET Programs

\* Where the shell is in a line: what it has forked, and the pipe ends it holds.
ControlInv ==
  /\ pc = "prompt" => held[Shell] = {} /\ \A k \in Programs : proc[k] = "none"
  /\ pc \in {"fork", "close", "wait"} =>
       stages \in Programs /\ stage \in 1..stages /\ \A k \in Programs : k > stages => proc[k] = "none"
  /\ pc \in {"fork", "close"} => held[Shell] = Ends(stages)
  /\ pc = "fork" => \A k \in Programs : k >= stage => proc[k] = "none" /\ k \notin eof
  /\ pc = "close" => stage = 1
  /\ pc = "wait" => held[Shell] = {} /\ \A k \in Programs : k < stage => proc[k] = "none"

\* A child has all ends of the line until it runs its program, and then only the pipe
\* before it and the one behind it, as its standard files.
ChildInv ==
  \A k \in Programs :
    /\ proc[k] # "none" => k <= stages
    /\ held[k] = IF proc[k] = "forked" THEN Ends(stages) ELSE {}
    /\ Running(k) => stdin[k] = k - 1 /\ stdout[k] = IF k = stages THEN 0 ELSE k

\* The lines whose pid, and whose time, has been recorded or never will be.
PidsTaken == IF pc = "fork" THEN lineno - 1 ELSE lineno
TimesTaken == IF pc = "fork" \/ (pc \in {"close", "wait"} /\ stages = 1) THEN lineno - 1 ELSE lineno

\* No line has more than one record, so a count that has kept up has missed none.
RecordInv ==
  /\ pc = "fork" \/ pc = "close" \/ pc = "wait" => lineno > 0
  /\ lineno <= MAX_HISTORY_SIZE =>
       /\ Len(history) = lineno /\ \A e \in 1..lineno : history[e] = e
       /\ pc # "undefined"
       /\ pid_count <= PidsTaken /\ exec_time <= TimesTaken
       /\ pid_count = PidsTaken => \A e \in 0..(pid_count - 1) : process_pid[e] = e + 1
       /\ exec_time = TimesTaken => \A e \in 0..(exec_time - 1) : execution_time[e] = e + 1

ShellInv == ShellTypeOK /\ ControlInv /\ ChildInv /\ EofAfterWriter /\ RecordInv

-----------------------------------------------------------------------------
(* The shell's steps.                                                      *)

\* The pipes of a line, and who needs the write end of one of them.
LEMMA EndsFacts ==
  ASSUME NEW n \in Programs
  PROVE  Ends(n) \in SUBSET PipeEnds /\ \A k \in Programs : k < n => k \in Pipes /\ <<k, "w">> \in Ends(n)
BY DEF Ends, PipeEnds, Programs, Pipes

\* addToHistory, at the prompt: until the history is full it holds all the lines so far,
\* and the records stay where they are.
LEMMA HistoryGrows ==
  ASSUME ShellTypeOK, RecordInv, pc = "prompt", addToHistory
  PROVE  /\ lineno' = lineno + 1 /\ lineno' \in Nat /\ lineno' > 0
         /\ history' \in Seq(Nat)
         /\ process_pid' \in [Entries -> Nat] /\ execution_time' \in [Entries -> Nat]
         /\ pid_count' = pid_count /\ exec_time' = exec_time
         /\ lineno' <= MAX_HISTORY_SIZE =>
              /\ Len(history') = lineno' /\ \A e \in 1..lineno' : history'[e] = e
              /\ pid_count <= lineno /\ exec_time <= lineno
              /\ pid_count = lineno => \A e \in 0..(pid_count - 1) : process_pid'[e] = e + 1
              /\ exec_time = lineno => \A e \in 0..(exec_time - 1) : execution_time'[e] = e + 1
<1>0. /\ lineno \in Nat /\ history \in Seq(Nat) /\ pid_count \in Nat /\ exec_time \in Nat
      /\ process_pid \in [Entries -> Nat] /\ execution_time \in [Entries -> Nat]
      /\ MAX_HISTORY_SIZE \in Nat \ {0} /\ Len(history) \in Nat
  BY ShellAssumption DEF ShellTypeOK
<1>1. lineno' = lineno + 1 /\ pid_count' = pid_count /\ exec_time' = exec_time
  BY DEF addToHistory
<1>2. CASE Len(history) < MAX_HISTORY_SIZE
  <2>1. history' = Append(history, lineno + 1) /\ process_pid' = process_pid /\ execution_time' = execution_time
    BY <1>2 DEF addToHistory
  <2>2. /\ history' \in Seq(Nat) /\ Len(history') = Len(history) + 1
        /\ \A e \in 1..Len(history) : history'[e] = history[e]
        /\ history'[Len(history) + 1] = lineno + 1
    BY <1>0, <2>1
  <2>3. ASSUME lineno + 1 <= MAX_HISTORY_SIZE
        PROVE  /\ Len(history') = lineno + 1 /\ \A e \in 1..(lineno + 1) : history'[e] = e
               /\ pid_count <= lineno /\ exec_time <= lineno
               /\ pid_count = lineno => \A e \in 0..(pid_count - 1) : process_pid[e] = e + 1
               /\ exec_time = lineno => \A e \in 0..(exec_time - 1) : execution_time[e] = e + 1
    <3>1. lineno <= MAX_HISTORY_SIZE
      BY <1>0, <2>3
    <3>2. Len(history) = lineno /\ \A e \in 1..lineno : history[e] = e
      BY <3>1 DEF RecordInv
    <3>3. \A e \in 1..(lineno + 1) : history'[e] = e
      BY <1>0, <2>2, <3>2
    <3>4. PidsTaken = lineno /\ TimesTaken = lineno
      BY DEF PidsTaken, TimesTaken
    <3> QED BY <2>2, <3>1, <3>2, <3>3, <3>4 DEF RecordInv
  <2> QED BY <1>0, <1>1, <2>1, <2>2, <2>3
<1>3. CASE ~(Len(history) < MAX_HISTORY_SIZE)
  <2>1. /\ history' = Append(Tail(history), lineno + 1)
        /\ process_pid' = Shifted(process_pid) /\ execution_time' = Shifted(execution_time)
    BY <1>3 DEF addToHistory
  <2>2. history' \in Seq(Nat)
    <3>1. history # <<>>
      BY <1>0, <1>3
    <3> QED BY <1>0, <2>1, <3>1
  <2>3. process_pid' \in [Entries -> Nat] /\ execution_time' \in [Entries -> Nat]
    BY <1>0, <2>1 DEF Shifted
  <2>4. ~(lineno + 1 <= MAX_HISTORY_SIZE)
    BY <1>0, <1>3 DEF RecordInv
  <2> QED BY <1>0, <1>1, <2>2, <2>3, <2>4
<1> QED BY <1>2, <1>3

\* A step that leaves the prompt or stays there, with no programs about.
LEMMA PromptInv ==
  ASSUME ShellInv, Exit \/ PipeFails \/ TooManyPipes \/ GluedPipe
  PROVE  ShellInv'
<1>0. /\ pc = "prompt" /\ pc' \in {"prompt", "exited", "crashed"}
      /\ UNCHANGED <<stages, stage, proc, held, stdin, stdout, buf, written, eof>>
      /\ (UNCHANGED records \/ addToHistory) /\ (UNCHANGED records => pc' = "exited" \/ addToHistory)
      /\ ShellTypeOK /\ RecordInv /\ ControlInv /\ ChildInv /\ EofAfterWriter
  BY DEF Exit, PipeFails, TooManyPipes, GluedPipe, programs, ShellInv
<1>1. ShellTypeOK' /\ RecordInv'
  <2>1. CASE addToHistory
    <3>1. PidsTaken' = lineno' /\ TimesTaken' = lineno'
      BY <1>0 DEF PidsTaken, TimesTaken
    <3>2. RecordInv'
      <4>1. lineno \in Nat /\ pid_count \in Nat /\ exec_time \in Nat
        BY <1>0 DEF ShellTypeOK
      <4> QED BY <1>0, <2>1, <3>1, <4>1, HistoryGrows DEF RecordInv
    <3>3. ShellTypeOK'
      BY <1>0, <2>1, HistoryGrows DEF ShellTypeOK, Controls
    <3> QED BY <3>2, <3>3
  <2>2. CASE UNCHANGED records
    BY <1>0, <2>2 DEF ShellTypeOK, Controls, RecordInv, PidsTaken, TimesTaken, records
  <2> QED BY <1>0, <2>1, <2>2
<1>2. ControlInv' /\ ChildInv' /\ EofAfterWriter'
  BY <1>0 DEF ControlInv, ChildInv, EofAfterWriter, Running
<1> QED BY <1>1, <1>2 DEF ShellInv

\* A line starts with its pipes made and nothing forked.
LEMMA CommandInv ==
  ASSUME ShellInv, NEW n \in Programs, Command(n)
  PROVE  ShellInv'
<1>0. /\ pc = "prompt" /\ addToHistory /\ pc' = "fork" /\ stages' = n /\ stage' = 1
      /\ held' = [held EXCEPT ![Shell] = Ends(n)] /\ eof' = {}
      /\ buf' = [p \in Pipes |-> 0] /\ written' = [k \in Programs |-> 0]
      /\ UNCHANGED <<proc, stdin, stdout>>
      /\ ShellTypeOK /\ RecordInv /\ ControlInv /\ ChildInv
  BY DEF Command, ShellInv
<1>1. /\ held' \in [Processes -> SUBSET PipeEnds] /\ held'[Shell] = Ends(n)
      /\ \A k \in Programs : held'[k] = held[k]
  BY <1>0, EndsFacts DEF ShellTypeOK, Processes, Programs, Shell
<1>2. ShellTypeOK'
  <2>1. /\ lineno' \in Nat /\ history' \in Seq(Nat)
        /\ process_pid' \in [Entries -> Nat] /\ pid_count' \in Nat
        /\ execution_time' \in [Entries -> Nat] /\ exec_time' \in Nat
    BY <1>0, HistoryGrows DEF ShellTypeOK
  <2>2. buf' \in [Pipes -> Nat] /\ written' \in [Programs -> Nat]
    BY <1>0
  <2>3. pc' \in Controls /\ stages' \in 0..3 /\ stage' \in 0..3 /\ eof' \in SUBSET Programs
    BY <1>0 DEF Controls, Programs
  <2> QED BY <1>0, <1>1, <2>1, <2>2, <2>3 DEF ShellTypeOK
<1>3. RecordInv'
  <2>1. PidsTaken' = lineno /\ TimesTaken' = lineno
    BY <1>0, HistoryGrows DEF PidsTaken, TimesTaken, ShellTypeOK
  <2>2. lineno \in Nat /\ pid_count \in Nat /\ exec_time \in Nat
    BY <1>0 DEF ShellTypeOK
  <2> QED BY <1>0, <2>1, <2>2, HistoryGrows DEF RecordInv
<1>4. ControlInv'
  BY <1>0, <1>1 DEF ControlInv, Programs
<1>5. ChildInv' /\ EofAfterWriter'
  BY <1>0, <1>1 DEF ControlInv, ChildInv, EofAfterWriter, Running
<1> QED BY <1>2, <1>3, <1>4, <1>5 DEF ShellInv

\* The shell closes its ends, or gives the line up.
LEMMA CloseInv ==
  ASSUME ShellInv, ForkFails \/ CloseEnds
  PROVE  ShellInv'
<1>0. /\ \/ pc = "fork" /\ pc' = IF stages = 1 THEN "prompt" ELSE "exited"
         \/ pc = "close" /\ pc' = "wait"
      /\ held' = [held EXCEPT ![Shell] = {}]
      /\ UNCHANGED <<stages, stage, lineno, history, process_pid, pid_count, execution_time,
                     exec_time, proc, stdin, stdout, buf, written, eof>>
      /\ ShellTypeOK /\ RecordInv /\ ControlInv /\ ChildInv /\ EofAfterWriter
  BY DEF ForkFails, CloseEnds, programs, records, ShellInv
<1>1. /\ held' \in [Processes -> SUBSET PipeEnds] /\ held'[Shell] = {}
      /\ \A k \in Programs : held'[k] = held[k]
  BY <1>0 DEF ShellTypeOK, Processes, Programs, Shell
<1>2. ShellTypeOK'
  BY <1>0, <1>1 DEF ShellTypeOK, Controls
<1>3. RecordInv'
  <2>1. lineno \in Nat /\ pid_count \in Nat /\ exec_time \in Nat /\ stages \in Programs
    BY <1>0 DEF ShellTypeOK, ControlInv
  <2>2. CASE pc = "fork"
    <3>1. PidsTaken = lineno - 1 /\ TimesTaken = lineno - 1 /\ PidsTaken' = lineno /\ TimesTaken' = lineno
      BY <1>0, <2>2 DEF PidsTaken, TimesTaken
    <3> QED BY <1>0, <2>1, <2>2, <3>1 DEF RecordInv
  <2>3. CASE pc = "close"
    <3>1. PidsTaken' = PidsTaken /\ TimesTaken' = TimesTaken
      BY <1>0, <2>3 DEF PidsTaken, TimesTaken
    <3> QED BY <1>0, <2>1, <2>3, <3>1 DEF RecordInv
  <2> QED BY <1>0, <2>2, <2>3
<1>4. ControlInv'
  BY <1>0, <1>1 DEF ControlInv, Programs
<1>5. ChildInv' /\ EofAfterWriter'
  BY <1>0, <1>1 DEF ChildInv, EofAfterWriter, Running
<1> QED BY <1>2, <1>3, <1>4, <1>5 DEF ShellInv

\* The entries up to and with one of an array are that one and the ones before it.
LEMMA UpToEntry ==
  ASSUME NEW c \in Entries
  PROVE  \A e \in 0..((c + 1) - 1) : e \in Entries /\ (e = c \/ e \in 0..(c - 1))
BY ShellAssumption DEF Entries

LEMMA ForkInv ==
  ASSUME ShellInv, Fork
  PROVE  ShellInv'
<1>0. /\ pc = "fork" /\ proc' = [proc EXCEPT ![stage] = "forked"]
      /\ held' = [held EXCEPT ![stage] = held[Shell]]
      /\ UNCHANGED <<stages, stdin, stdout, buf, written, eof>>
      /\ ShellTypeOK /\ RecordInv /\ ControlInv /\ ChildInv /\ EofAfterWriter
  BY DEF Fork, programs, ShellInv
<1>1. /\ stages \in Programs /\ stage \in 1..stages /\ stage \in Programs /\ held[Shell] = Ends(stages)
      /\ stage \notin eof /\ \A k \in eof : k < stage
      /\ lineno \in Nat /\ pid_count \in Nat /\ exec_time \in Nat /\ lineno > 0
      /\ MAX_HISTORY_SIZE \in Nat \ {0}
  BY <1>0, ShellAssumption DEF ControlInv, ShellTypeOK, Programs, RecordInv
<1>2. /\ proc' \in [Programs -> ProcStates] /\ held' \in [Processes -> SUBSET PipeEnds]
      /\ proc'[stage] = "forked" /\ held'[stage] = Ends(stages)
      /\ \A k \in Programs : k # stage => proc'[k] = proc[k] /\ held'[k] = held[k]
      /\ held'[Shell] = held[Shell]
  BY <1>0, <1>1 DEF ShellTypeOK, Processes, Programs, Shell, ProcStates
<1>3. \/ /\ stage < stages /\ pc' = "fork" /\ stage' = stage + 1 /\ UNCHANGED records
      \/ /\ stage = stages /\ BehindTheArrays(stages) /\ pc' = "undefined" /\ UNCHANGED <<stage, records>>
      \/ /\ stage = stages /\ ~BehindTheArrays(stages)
         /\ pc' = "close" /\ stage' = 1 /\ RecordLaunch(stages)
  BY <1>1 DEF Fork, Programs
<1>4. ChildInv' /\ EofAfterWriter'
  <2>1. ChildInv'
    BY <1>0, <1>1, <1>2 DEF ChildInv, Running
  <2>2. EofAfterWriter'
    <3> SUFFICES ASSUME NEW k \in eof, k > 1
                 PROVE  proc'[k - 1] \in {"zombie", "none"} /\ buf[k - 1] = 0
      BY <1>0 DEF EofAfterWriter
    <3>1. k \in Programs /\ k - 1 \in Programs /\ k - 1 # stage
      BY <1>0, <1>1 DEF ShellTypeOK, Programs
    <3> QED BY <1>0, <1>2, <3>1 DEF EofAfterWriter
  <2> QED BY <2>1, <2>2
<1>5. ControlInv'
  BY <1>0, <1>1, <1>2, <1>3 DEF ControlInv, Programs
<1>6. /\ PidsTaken = lineno - 1 /\ TimesTaken = lineno - 1
  BY <1>0 DEF PidsTaken, TimesTaken
<1>7. ShellTypeOK' /\ RecordInv'
  <2>1. CASE stage < stages /\ pc' = "fork" /\ stage' = stage + 1 /\ UNCHANGED records
    <3>1. ShellTypeOK'
      BY <1>0, <1>1, <1>2, <2>1 DEF ShellTypeOK, Controls, records, Programs
    <3>2. RecordInv'
      BY <1>0, <1>1, <2>1 DEF RecordInv, PidsTaken, TimesTaken, records
    <3> QED BY <3>1, <3>2
  <2>2. CASE BehindTheArrays(stages) /\ pc' = "undefined" /\ UNCHANGED <<stage, records>>
    <3>1. ShellTypeOK'
      BY <1>0, <1>1, <1>2, <2>2 DEF ShellTypeOK, Controls, records
    <3>2. ~(lineno <= MAX_HISTORY_SIZE)
      BY <1>0, <1>1, <1>6, <2>2 DEF RecordInv, BehindTheArrays, Entries
    <3>3. RecordInv'
      BY <2>2, <3>2 DEF RecordInv, records
    <3> QED BY <3>1, <3>3
  <2>3. CASE ~BehindTheArrays(stages) /\ pc' = "close" /\ stage' = 1 /\ RecordLaunch(stages)
    <3>1. /\ pid_count' \in Nat /\ process_pid' \in [Entries -> Nat] /\ lineno' = lineno /\ history' = history
          /\ lineno <= MAX_HISTORY_SIZE =>
               /\ pid_count' <= lineno
               /\ pid_count' = lineno => \A e \in 0..(pid_count' - 1) : process_pid'[e] = e + 1
      <4>0. process_pid \in [Entries -> Nat] /\ lineno' = lineno /\ history' = history
        BY <1>0, <2>3 DEF ShellTypeOK, RecordLaunch
      <4>1. CASE RecordsPid(stages)
        <5>1. /\ pid_count \in Entries /\ process_pid' = [process_pid EXCEPT ![pid_count] = lineno]
              /\ pid_count' = pid_count + 1
          BY <2>3, <4>1 DEF RecordLaunch, RecordPid, BehindTheArrays
        <5>2. process_pid' \in [Entries -> Nat]
          BY <1>1, <4>0, <5>1
        <5>3. (pid_count = lineno - 1 /\ \A e \in 0..(pid_count - 1) : process_pid[e] = e + 1) =>
                \A e \in 0..((pid_count + 1) - 1) : process_pid'[e] = e + 1
          <6>1. \A e \in 0..((pid_count + 1) - 1) :
                  e \in Entries /\ (e = pid_count \/ e \in 0..(pid_count - 1))
            BY ONLY <5>1, UpToEntry
          <6>2. /\ process_pid'[pid_count] = lineno
                /\ \A e \in Entries : e # pid_count => process_pid'[e] = process_pid[e]
            BY ONLY <1>1, <4>0, <5>1, <5>2
          <6> QED BY ONLY <1>1, <6>1, <6>2
        <5>4. lineno <= MAX_HISTORY_SIZE =>
                /\ pid_count <= lineno - 1
                /\ pid_count = lineno - 1 => \A e \in 0..(pid_count - 1) : process_pid[e] = e + 1
          BY <1>0, <1>6 DEF RecordInv
        <5> QED BY ONLY <1>1, <4>0, <5>1, <5>2, <5>3, <5>4
      <4>2. CASE ~RecordsPid(stages)
        <5>1. process_pid' = process_pid /\ pid_count' = pid_count
          BY <2>3, <4>2 DEF RecordLaunch
        <5> QED BY <1>0, <1>1, <1>6, <4>0, <5>1 DEF RecordInv
      <4> QED BY <4>1, <4>2
    <3>2. /\ exec_time' \in Nat /\ execution_time' \in [Entries -> Nat]
          /\ lineno <= MAX_HISTORY_SIZE =>
               /\ exec_time' <= TimesTaken'
               /\ exec_time' = TimesTaken' => \A e \in 0..(exec_time' - 1) : execution_time'[e] = e + 1
      <4>0. execution_time \in [Entries -> Nat] /\ lineno' = lineno
            /\ TimesTaken' = IF stages = 1 THEN lineno - 1 ELSE lineno
        BY <1>0, <2>3 DEF ShellTypeOK, RecordLaunch, TimesTaken
      <4>1. CASE RecordsTime(stages)
        <5>1. /\ exec_time \in Entries /\ execution_time' = [execution_time EXCEPT ![exec_time] = lineno]
              /\ exec_time' = exec_time + 1 /\ stages # 1
          BY <2>3, <4>1 DEF RecordLaunch, RecordTime, RecordsTime, BehindTheArrays
        <5>2. execution_time' \in [Entries -> Nat]
          BY <1>1, <4>0, <5>1
        <5>3. (exec_time = lineno - 1 /\ \A e \in 0..(exec_time - 1) : execution_time[e] = e + 1) =>
                \A e \in 0..((exec_time + 1) - 1) : execution_time'[e] = e + 1
          <6>1. \A e \in 0..((exec_time + 1) - 1) :
                  e \in Entries /\ (e = exec_time \/ e \in 0..(exec_time - 1))
            BY ONLY <5>1, UpToEntry
          <6>2. /\ execution_time'[exec_time] = lineno
                /\ \A e \in Entries : e # exec_time => execution_time'[e] = execution_time[e]
            BY ONLY <1>1, <4>0, <5>1, <5>2
          <6> QED BY ONLY <1>1, <6>1, <6>2
        <5>4. lineno <= MAX_HISTORY_SIZE =>
                /\ exec_time <= lineno - 1
                /\ exec_time = lineno - 1 => \A e \in 0..(exec_time - 1) : execution_time[e] = e + 1
          BY <1>0, <1>6 DEF RecordInv
        <5> QED BY ONLY <1>1, <4>0, <5>1, <5>2, <5>3, <5>4
      <4>2. CASE ~RecordsTime(stages)
        <5>1. execution_time' = execution_time /\ exec_time' = exec_time
          BY <2>3, <4>2 DEF RecordLaunch
        <5> QED BY <1>0, <1>1, <1>6, <4>0, <5>1 DEF RecordInv
      <4> QED BY <4>1, <4>2
    <3>3. ShellTypeOK'
      BY <1>0, <1>1, <1>2, <2>3, <3>1, <3>2 DEF ShellTypeOK, Controls
    <3>4. RecordInv'
      <4>1. PidsTaken' = lineno
        BY <2>3, <3>1 DEF PidsTaken
      <4> QED BY <1>0, <1>1, <2>3, <3>1, <3>2, <4>1 DEF RecordInv
    <3> QED BY <3>3, <3>4
  <2> QED BY <1>3, <2>1, <2>2, <2>3
<1> QED BY <1>4, <1>5, <1>7 DEF ShellInv

LEMMA WaitInv ==
  ASSUME ShellInv, Wait
  PROVE  ShellInv'
<1>0. /\ pc = "wait" /\ proc[stage] = "zombie" /\ proc' = [proc EXCEPT ![stage] = "none"]
      /\ UNCHANGED <<stages, held, stdin, stdout, buf, written, eof>>
      /\ ShellTypeOK /\ RecordInv /\ ControlInv /\ ChildInv /\ EofAfterWriter
  BY DEF Wait, programs, ShellInv
<1>1. /\ stages \in Programs /\ stage \in 1..stages /\ stage \in Programs /\ held[Shell] = {}
      /\ lineno \in Nat /\ pid_count \in Nat /\ exec_time \in Nat /\ lineno > 0
      /\ MAX_HISTORY_SIZE \in Nat \ {0}
  BY <1>0, ShellAssumption DEF ControlInv, ShellTypeOK, Programs, RecordInv
<1>2. /\ proc' \in [Programs -> ProcStates] /\ proc'[stage] = "none"
      /\ \A k \in Programs : k # stage => proc'[k] = proc[k]
  BY <1>0, <1>1 DEF ShellTypeOK, ProcStates
<1>3. \/ stage < stages /\ pc' = "wait" /\ stage' = stage + 1 /\ UNCHANGED records
      \/ stage = stages /\ stage' = 0 /\ stages > 1 /\ pc' = "prompt" /\ UNCHANGED records
      \/ /\ stage = stages /\ stage' = 0 /\ stages = 1 /\ exec_time \notin Entries
         /\ pc' = "undefined" /\ UNCHANGED records
      \/ /\ stage = stages /\ stage' = 0 /\ stages = 1 /\ exec_time \in Entries /\ pc' = "prompt"
         /\ RecordTime /\ UNCHANGED <<lineno, history, process_pid, pid_count>>
  BY <1>1 DEF Wait, Programs
<1>4. ChildInv' /\ EofAfterWriter'
  <2>1. ChildInv'
    BY <1>0, <1>1, <1>2 DEF ChildInv, Running
  <2>2. EofAfterWriter'
    <3> SUFFICES ASSUME NEW k \in eof, k > 1
                 PROVE  proc'[k - 1] \in {"zombie", "none"} /\ buf[k - 1] = 0
      BY <1>0 DEF EofAfterWriter
    <3>1. k - 1 \in Programs
      BY <1>0 DEF ShellTypeOK, Programs
    <3> QED BY <1>0, <1>2, <3>1 DEF EofAfterWriter
  <2> QED BY <2>1, <2>2
<1>5. ControlInv'
  BY <1>0, <1>1, <1>2, <1>3 DEF ControlInv, Programs
<1>6. ShellTypeOK' /\ RecordInv'
  <2>1. CASE UNCHANGED records /\ pc' = "wait" /\ stage' = stage + 1 /\ stage < stages
    <3>1. ShellTypeOK'
      BY <1>0, <1>1, <1>2, <2>1 DEF ShellTypeOK, Controls, records, Programs
    <3>2. RecordInv'
      BY <1>0, <1>1, <2>1 DEF RecordInv, PidsTaken, TimesTaken, records
    <3> QED BY <3>1, <3>2
  <2>2. CASE UNCHANGED records /\ pc' = "prompt" /\ stages > 1 /\ stage' = 0
    <3>1. ShellTypeOK'
      BY <1>0, <1>1, <1>2, <2>2 DEF ShellTypeOK, Controls, records
    <3>2. RecordInv'
      BY <1>0, <1>1, <2>2 DEF RecordInv, PidsTaken, TimesTaken, records
    <3> QED BY <3>1, <3>2
  <2>3. CASE UNCHANGED records /\ exec_time \notin Entries /\ pc' = "undefined" /\ stages = 1 /\ stage' = 0
    <3>1. ShellTypeOK'
      BY <1>0, <1>1, <1>2, <2>3 DEF ShellTypeOK, Controls, records
    <3>2. ~(lineno <= MAX_HISTORY_SIZE)
      BY <1>0, <1>1, <2>3 DEF RecordInv, TimesTaken, Entries
    <3>3. RecordInv'
      BY <2>3, <3>2 DEF RecordInv, records
    <3> QED BY <3>1, <3>3
  <2>4. CASE /\ stages = 1 /\ exec_time \in Entries /\ pc' = "prompt" /\ stage' = 0
             /\ RecordTime /\ UNCHANGED <<lineno, history, process_pid, pid_count>>
    <3>1. /\ execution_time' = [execution_time EXCEPT ![exec_time] = lineno]
          /\ exec_time' = exec_time + 1 /\ execution_time \in [Entries -> Nat]
      BY <1>0, <2>4 DEF RecordTime, ShellTypeOK
    <3>2. execution_time' \in [Entries -> Nat]
      BY <1>1, <2>4, <3>1
    <3>3. (exec_time = lineno - 1 /\ \A e \in 0..(exec_time - 1) : execution_time[e] = e + 1) =>
            \A e \in 0..((exec_time + 1) - 1) : execution_time'[e] = e + 1
      <4>1. \A e \in 0..((exec_time + 1) - 1) :
              e \in Entries /\ (e = exec_time \/ e \in 0..(exec_time - 1))
        BY ONLY <2>4, UpToEntry
      <4>2. /\ execution_time'[exec_time] = lineno
            /\ \A e \in Entries : e # exec_time => execution_time'[e] = execution_time[e]
        BY ONLY <1>1, <2>4, <3>1, <3>2
      <4> QED BY ONLY <1>1, <4>1, <4>2
    <3>4. /\ PidsTaken = lineno /\ TimesTaken = lineno - 1 /\ PidsTaken' = lineno /\ TimesTaken' = lineno
      BY <1>0, <2>4 DEF PidsTaken, TimesTaken
    <3>5. ShellTypeOK'
      <4>1. /\ exec_time' \in Nat /\ stages' = stages /\ stage' = 0 /\ pc' = "prompt"
            /\ lineno' \in Nat /\ pid_count' \in Nat
        BY <1>0, <1>1, <2>4, <3>1
      <4> QED BY <1>0, <1>2, <2>4, <3>2, <4>1 DEF ShellTypeOK, Controls
    <3>6. RecordInv'
      BY <1>0, <1>1, <2>4, <3>1, <3>3, <3>4 DEF RecordInv
    <3> QED BY <3>5, <3>6
  <2> QED BY <1>3, <2>1, <2>2, <2>3, <2>4
<1> QED BY <1>4, <1>5, <1>6 DEF ShellInv

-----------------------------------------------------------------------------
(* The children's steps.                                                   *)

\* A step of a child changes neither the shell nor its records.
ShellKept == UNCHANGED <<pc, stages, stage, lineno, history, process_pid, pid_count,
                         execution_time, exec_time>>

LEMMA RecordsKept == ASSUME RecordInv, ShellKept PROVE RecordInv'
BY DEF RecordInv, PidsTaken, TimesTaken, ShellKept

LEMMA ExecInv ==
  ASSUME ShellInv, NEW k \in Programs, Exec(k)
  PROVE  ShellInv'
<1>0. PICK kind \in {"reads", "quits"} :
        /\ proc[k] = "forked" /\ proc' = [proc EXCEPT ![k] = kind]
        /\ stdin' = [stdin EXCEPT ![k] = k - 1]
        /\ stdout' = [stdout EXCEPT ![k] = IF k = stages THEN 0 ELSE k]
        /\ held' = [held EXCEPT ![k] = @ \ Ends(stages)]
        /\ ShellKept /\ UNCHANGED <<buf, written, eof>>
  BY DEF Exec, StdinOf, StdoutOf, Closes, ShellKept, records
<1>1. ShellTypeOK /\ RecordInv /\ ControlInv /\ ChildInv /\ EofAfterWriter
  BY DEF ShellInv
<1>2. k <= stages /\ held[k] = Ends(stages)
  BY <1>0, <1>1 DEF ChildInv
<1>3. /\ proc' \in [Programs -> ProcStates] /\ held' \in [Processes -> SUBSET PipeEnds]
      /\ proc'[k] = kind /\ held'[k] = {} /\ held'[Shell] = held[Shell]
      /\ \A j \in Programs : j # k => proc'[j] = proc[j] /\ held'[j] = held[j]
  BY <1>0, <1>1, <1>2 DEF ShellTypeOK, Processes, Programs, Shell, ProcStates
<1>4. /\ stdin' \in [Programs -> 0..3] /\ stdout' \in [Programs -> 0..3]
      /\ stdin'[k] = k - 1 /\ stdout'[k] = IF k = stages THEN 0 ELSE k
      /\ \A j \in Programs : j # k => stdin'[j] = stdin[j] /\ stdout'[j] = stdout[j]
  BY <1>0, <1>1 DEF ShellTypeOK, Programs
<1>5. ShellTypeOK'
  BY <1>0, <1>1, <1>3, <1>4 DEF ShellTypeOK, ShellKept
<1>6. ControlInv'
  BY <1>0, <1>1, <1>3 DEF ControlInv, ShellKept
<1>7. ChildInv'
  <2> SUFFICES ASSUME NEW j \in Programs
               PROVE  /\ proc'[j] # "none" => j <= stages
                      /\ held'[j] = IF proc'[j] = "forked" THEN Ends(stages) ELSE {}
                      /\ proc'[j] \in {"reads", "quits"} =>
                           stdin'[j] = j - 1 /\ stdout'[j] = IF j = stages THEN 0 ELSE j
    BY <1>0 DEF ChildInv, Running, ShellKept
  <2>1. CASE j = k
    BY <1>0, <1>2, <1>3, <1>4, <2>1
  <2>2. CASE j # k
    BY <1>1, <1>3, <1>4, <2>2 DEF ChildInv, Running
  <2> QED BY <2>1, <2>2
<1>8. EofAfterWriter'
  <2> SUFFICES ASSUME NEW j \in eof, j > 1
               PROVE  proc'[j - 1] \in {"zombie", "none"} /\ buf[j - 1] = 0
    BY <1>0 DEF EofAfterWriter
  <2>1. j - 1 \in Programs /\ proc[j - 1] \in {"zombie", "none"} /\ buf[j - 1] = 0
    BY <1>1 DEF ShellTypeOK, Programs, EofAfterWriter
  <2> QED BY <1>0, <1>3, <2>1
<1> QED BY <1>0, <1>1, <1>5, <1>6, <1>7, <1>8, RecordsKept DEF ShellInv

\* A child ends; if it has seen the end of its input, its neighbour has ended before.
LEMMA EndInv ==
  ASSUME ShellInv, NEW k \in Programs, End(k), proc[k] \in {"forked", "reads", "quits"},
         ShellKept, UNCHANGED <<stdin, stdout, buf, written>>,
         \/ eof' = eof
         \/ eof' = eof \cup {k} /\ (k > 1 => Ended(k - 1) /\ buf[k - 1] = 0)
  PROVE  ShellInv'
<1>1. ShellTypeOK /\ RecordInv /\ ControlInv /\ ChildInv /\ EofAfterWriter
  BY DEF ShellInv
<1>2. /\ proc' \in [Programs -> ProcStates] /\ held' \in [Processes -> SUBSET PipeEnds]
      /\ proc'[k] = "zombie" /\ held'[k] = {} /\ held'[Shell] = held[Shell]
      /\ \A j \in Programs : j # k => proc'[j] = proc[j] /\ held'[j] = held[j]
  BY <1>1 DEF End, ShellTypeOK, Processes, Programs, Shell, ProcStates
<1>3. ShellTypeOK'
  BY <1>1, <1>2 DEF ShellTypeOK, ShellKept
<1>4. ControlInv'
  BY <1>1, <1>2 DEF ControlInv, ShellKept
<1>5. ChildInv'
  <2> SUFFICES ASSUME NEW j \in Programs
               PROVE  /\ proc'[j] # "none" => j <= stages
                      /\ held'[j] = IF proc'[j] = "forked" THEN Ends(stages) ELSE {}
                      /\ proc'[j] \in {"reads", "quits"} =>
                           stdin[j] = j - 1 /\ stdout[j] = IF j = stages THEN 0 ELSE j
    BY DEF ChildInv, Running, ShellKept
  <2>1. CASE j = k
    BY <1>1, <1>2, <2>1 DEF ChildInv
  <2>2. CASE j # k
    BY <1>1, <1>2, <2>2 DEF ChildInv, Running
  <2> QED BY <2>1, <2>2
<1>6. EofAfterWriter'
  <2> SUFFICES ASSUME NEW j \in eof', j > 1
               PROVE  proc'[j - 1] \in {"zombie", "none"} /\ buf[j - 1] = 0
    BY DEF EofAfterWriter
  <2>1. j \in Programs
    BY <1>1 DEF ShellTypeOK
  <2>2. j - 1 \in Programs
    BY <2>1 DEF Programs
  <2>3. proc[j - 1] \in {"zombie", "none"} /\ buf[j - 1] = 0
    BY <1>1 DEF EofAfterWriter, Ended
  <2> QED BY <1>2, <2>2, <2>3
<1> QED BY <1>1, <1>3, <1>4, <1>5, <1>6, RecordsKept DEF ShellInv

\* An empty pipe without writers: the program before is past its own writing.
LEMMA EofNeighbour ==
  ASSUME ShellInv, NEW k \in Programs, proc[k] = "reads", AtEof(k), k > 1
  PROVE  Ended(k - 1) /\ buf[k - 1] = 0
<1>1. ShellTypeOK /\ ChildInv
  BY DEF ShellInv
<1>2. k <= stages /\ stdin[k] = k - 1 /\ k - 1 \in Programs /\ stages \in Programs
  BY <1>1 DEF ChildInv, Running, ShellTypeOK, Programs
<1>3. buf[k - 1] = 0 /\ Writers(k - 1) = {}
  BY <1>2 DEF AtEof, Programs
<1>4. <<k - 1, "w">> \notin held[k - 1] /\ ~(Running(k - 1) /\ stdout[k - 1] = k - 1)
  BY <1>2, <1>3 DEF Writers
<1>5. proc[k - 1] # "forked"
  BY <1>1, <1>2, <1>4, EndsFacts DEF ChildInv, Programs
<1>6. ~Running(k - 1)
  BY <1>1, <1>2, <1>4 DEF ChildInv, Programs
<1>7. proc[k - 1] \in ProcStates
  BY <1>1, <1>2 DEF ShellTypeOK
<1> QED BY <1>3, <1>5, <1>6, <1>7 DEF Ended, Running, ProcStates

\* An item goes into the pipe behind a program, or comes out of the one before it.
LEMMA TransferInv ==
  ASSUME ShellInv, NEW k \in Programs, Write(k) \/ Read(k)
  PROVE  ShellInv'
<1>0. /\ proc[k] = "reads" /\ ShellKept /\ UNCHANGED <<proc, held, stdin, stdout, eof>>
      /\ ShellTypeOK /\ RecordInv /\ ControlInv /\ ChildInv /\ EofAfterWriter
  BY DEF Write, Read, ShellKept, records, ShellInv
<1>1. k <= stages /\ stdin[k] = k - 1 /\ stdout[k] = IF k = stages THEN 0 ELSE k
  BY <1>0 DEF ChildInv, Running
<1>2. /\ buf' \in [Pipes -> Nat] /\ written' \in [Programs -> Nat]
      /\ \A p \in Pipes : buf[p] = 0 /\ p # k => buf'[p] = 0
  <2>1. CASE Write(k)
    <3>1. /\ written' = [written EXCEPT ![k] = @ + 1]
          /\ buf' = [p \in Pipes |-> IF p = stdout[k] THEN buf[p] + 1 ELSE buf[p]]
          /\ buf \in [Pipes -> Nat] /\ written \in [Programs -> Nat]
      BY <2>1, <1>0 DEF Write, ShellTypeOK
    <3>2. \A p \in Pipes : p = stdout[k] => p = k
      BY <1>1 DEF Pipes
    <3> QED BY <3>1, <3>2
  <2>2. CASE Read(k)
    <3>1. stdin[k] \in Pipes /\ buf[stdin[k]] > 0 /\ buf' = [buf EXCEPT ![stdin[k]] = @ - 1] /\ written' = written
      BY <2>2, <1>1 DEF Read, Programs, Pipes
    <3> QED BY <1>0, <3>1 DEF ShellTypeOK
  <2> QED BY <2>1, <2>2
<1>3. ShellTypeOK'
  BY <1>0, <1>2 DEF ShellTypeOK, ShellKept
<1>4. ControlInv' /\ ChildInv'
  BY <1>0 DEF ControlInv, ChildInv, Running, ShellKept
<1>5. EofAfterWriter'
  <2> SUFFICES ASSUME NEW j \in eof, j > 1
               PROVE  proc[j - 1] \in {"zombie", "none"} /\ buf'[j - 1] = 0
    BY <1>0 DEF EofAfterWriter
  <2>1. j - 1 \in Pipes /\ proc[j - 1] \in {"zombie", "none"} /\ buf[j - 1] = 0
    BY <1>0 DEF ShellTypeOK, Programs, Pipes, EofAfterWriter
  <2> QED BY <1>0, <1>2, <2>1
<1> QED BY <1>0, <1>3, <1>4, <1>5, RecordsKept DEF ShellInv

LEMMA ChildStepInv ==
  ASSUME ShellInv, NEW k \in Programs, Child(k)
  PROVE  ShellInv'
<1>1. CASE ExecFails(k) \/ BrokenPipe(k) \/ Quit(k)
  BY <1>1, EndInv DEF ExecFails, BrokenPipe, Quit, programs, ShellKept, records
<1>2. CASE Finish(k)
  <2>1. k > 1 => Ended(k - 1) /\ buf[k - 1] = 0
    BY <1>2, EofNeighbour DEF Finish
  <2>2. /\ End(k) /\ proc[k] \in {"forked", "reads", "quits"} /\ ShellKept /\ eof' = eof \cup {k}
        /\ UNCHANGED <<stdin, stdout, buf, written>>
    BY <1>2 DEF Finish, ShellKept, records
  <2> QED BY <2>1, <2>2, EndInv
<1> QED BY <1>1, <1>2, ExecInv, TransferInv DEF Child

-----------------------------------------------------------------------------
(* The theorems.                                                           *)

LEMMA ShellInitInv == ShellInit => ShellInv
<1> SUFFICES ASSUME ShellInit PROVE ShellInv
  OBVIOUS
<1>1. ShellTypeOK
  BY ShellAssumption DEF ShellInit, ShellTypeOK, Controls, Entries, NoRecord, Processes, Programs, Pipes,
     ProcStates
<1>2. ControlInv /\ EofAfterWriter
  BY DEF ShellInit, ControlInv, EofAfterWriter, Programs, Shell
<1>3. ChildInv
  BY DEF ShellInit, ChildInv, Running, Programs, Shell
<1>4. RecordInv
  BY ShellAssumption DEF ShellInit, RecordInv, PidsTaken, TimesTaken
<1> QED BY <1>1, <1>2, <1>3, <1>4 DEF ShellInv

LEMMA ShellStepInv == ShellInv /\ [Next]_vars => ShellInv'
<1> SUFFICES ASSUME ShellInv, [Next]_vars PROVE ShellInv'
  OBVIOUS
<1>1. CASE ShellNext
  BY <1>1, PromptInv, CommandInv, CloseInv, ForkInv, WaitInv DEF ShellNext
<1>2. CASE \E k \in Programs : Child(k)
  BY <1>2, ChildStepInv
<1>3. CASE UNCHANGED vars
  BY <1>3 DEF vars, records, programs, ShellInv, ShellTypeOK, ControlInv, ChildInv, EofAfterWriter,
     RecordInv, PidsTaken, TimesTaken, Running
<1> QED BY <1>1, <1>2, <1>3 DEF Next

\* The invariant holds of every behaviour of the shell and its children.
THEOREM ShellInvariant == ShellSpec => []ShellInv
BY ShellInitInv, ShellStepInv, PTL DEF ShellSpec

\* The prompt comes back only after every program of the line has been waited for, and
\* with no pipe end left open, however many programs failed to start
\* (simple-shell.c.c:141-145, 224-231).
THEOREM PromptAfterAll == ShellSpec => []PromptIsClean
<1>1. ShellInv => PromptIsClean
  BY DEF ShellInv, ControlInv, PromptIsClean
<1> QED BY <1>1, ShellInvariant, PTL

\* No program sees the end of its input before its neighbour has ended, for any amount
\* of data and any size of the pipes (simple-shell.c.c:105-142, 166-227).
THEOREM NoEarlyEof == ShellSpec => []EofAfterWriter
<1>1. ShellInv => EofAfterWriter
  BY DEF ShellInv
<1> QED BY <1>1, ShellInvariant, PTL

\* Until the history is full no record is written behind the arrays, and records that are
\* complete belong to their lines, for every length of the history
\* (simple-shell.c.c:29-43, 75-82, 135-138, 219-220).
THEOREM RecordsBelong == ShellSpec => []RecordsAligned
<1>1. ShellInv => RecordsAligned
  <2> SUFFICES ASSUME ShellInv, lineno <= MAX_HISTORY_SIZE
               PROVE  /\ pc # "undefined"
                      /\ pc = "prompt" =>
                           \A e \in 1..Len(history) :
                             /\ pid_count = Len(history) => process_pid[e - 1] = history[e]
                             /\ exec_time = Len(history) => execution_time[e - 1] = history[e]
    BY DEF RecordsAligned
  <2>1. /\ Len(history) = lineno /\ \A e \in 1..lineno : history[e] = e
        /\ pc # "undefined"
        /\ pid_count = PidsTaken => \A e \in 0..(pid_count - 1) : process_pid[e] = e + 1
        /\ exec_time = TimesTaken => \A e \in 0..(exec_time - 1) : execution_time[e] = e + 1
        /\ lineno \in Nat
    BY DEF ShellInv, RecordInv, ShellTypeOK
  <2>2. pc = "prompt" => PidsTaken = lineno /\ TimesTaken = lineno
    BY DEF PidsTaken, TimesTaken
  <2>3. \A e \in 1..lineno : e - 1 \in 0..(lineno - 1) /\ (e - 1) + 1 = e
    BY <2>1
  <2> QED BY <2>1, <2>2, <2>3
<1> QED BY <1>1, ShellInvariant, PTL

-----------------------------------------------------------------------------
(* parallel_for: the inductive invariant.                                  *)

PForTypeOK ==
  /\ arg \in Calls
  /\ main \in {"split", "join", "done", "crashed"}
  /\ count \in 0..N
  /\ current \in Int
  /\ data \in [Threads -> [low : Int, high : Int]]
  /\ thread \in [Threads -> {"none", "failed", "runs", "ended"}]
  /\ row \in [Threads -> Int] /\ col \in [Threads -> Int]
  /\ calls \in [Rows \X Cols -> Nat]

\* The rows that the first c threads leave to the others.
Left(c) == (N - c) * base + (IF c < extra THEN extra - c ELSE 0)

\* The threads that have got their chunk.
Given == {t \in Threads : main # "split" \/ t < count}
InChunk(r, t) == data[t].low <= r /\ r < data[t].high

\* The chunks that were given away follow each other, and cover the rows up to current.
ChunkInv ==
  /\ main = "split" => arg.high1 - current = Left(count)
  /\ main # "split" => current = arg.high1
  /\ arg.low1 <= current /\ current <= arg.high1
  /\ \A t \in Given :
       arg.low1 <= data[t].low /\ data[t].low <= data[t].high /\ data[t].high <= current
  /\ \A t, u \in Given : t < u => data[t].high <= data[u].low
  /\ \A r \in arg.low1..(current - 1) : \E t \in Given : InChunk(r, t)

\* Where a thread is in its chunk.
ThreadInv ==
  /\ \A t \in Threads : thread[t] = "none" <=> t \notin Given
  /\ \A t \in Threads : thread[t] \in {"runs", "ended"} =>
       /\ data[t].low <= row[t] /\ row[t] <= data[t].high
       /\ arg.low2 <= col[t] /\ col[t] <= arg.high2
       /\ row[t] = data[t].high => col[t] = arg.low2
  /\ \A t \in Threads : thread[t] = "ended" => row[t] = data[t].high

\* Thread t has called the lambda for r, c.
Called(t, r, c) ==
  thread[t] \in {"runs", "ended"} /\ (r < row[t] \/ (r = row[t] /\ c < col[t]))
CallInv ==
  \A r \in Rows, c \in Cols :
    /\ calls[<<r, c>>] \in {0, 1}
    /\ calls[<<r, c>>] = 1 <=> \E t \in Given : InChunk(r, t) /\ Called(t, r, c)

\* The threads that were joined have ended, or never began.
JoinInv ==
  /\ main = "join" => \A t \in Threads : t < count => thread[t] \in {"ended", "failed"}
  /\ main = "done" => \A t \in Threads : thread[t] \in {"ended", "failed"}

PForInv ==
  /\ PForTypeOK
  /\ Empty => main = "done" /\ \A t \in Threads : thread[t] = "none"
  /\ ~Empty => ChunkInv /\ ThreadInv /\ CallInv /\ JoinInv

-----------------------------------------------------------------------------
(* The arithmetic of the split.                                            *)

\* The types of what a call computes from its arguments.
LEMMA ArgFacts ==
  ASSUME arg \in Calls
  PROVE  /\ arg.low1 \in Int /\ arg.high1 \in Int /\ arg.low2 \in Int /\ arg.high2 \in Int
         /\ N \in Nat \ {0} /\ total \in Int
         /\ Threads = 0..(N - 1)
         /\ \A r \in Rows, c \in Cols : r \in Int /\ c \in Int
<1> QED BY ParallelForAssumption DEF N, total, Threads, Rows, Cols

\* What division and remainder promise.
LEMMA Division ==
  ASSUME NEW n \in Nat \ {0}, NEW x \in Nat
  PROVE  /\ x \div n \in Nat /\ x % n \in 0..(n - 1)
         /\ x = n * (x \div n) + (x % n)
<1>1. x \div n \in Int /\ x % n \in Int
  OBVIOUS
<1>2. x % n \in 0..(n - 1)
  OBVIOUS
<1>3. x = n * (x \div n) + (x % n)
  OBVIOUS
<1>4. x \div n >= 0
  OBVIOUS
<1> QED BY <1>1, <1>2, <1>3, <1>4

\* The chunks of all threads are together all the rows: nothing is left after the last
\* thread, and never less than nothing before.
LEMMA LeftFacts ==
  ASSUME arg \in Calls, ~Empty
  PROVE  /\ Left(0) = arg.high1 - arg.low1
         /\ Left(N) = 0
         /\ \A c \in 0..(N - 1) : /\ ChunkLen(c) \in Nat /\ Left(c + 1) \in Nat
                                  /\ Left(c) = ChunkLen(c) + Left(c + 1)
<1>1. N \in Nat \ {0} /\ total \in Nat
  BY ArgFacts DEF Empty, total
<1>2. base \in Nat /\ extra \in 0..(N - 1) /\ total = N * base + extra
  BY <1>1, Division DEF base, extra
<1>3. ASSUME NEW n \in Nat, NEW b \in Nat, NEW e \in Nat, NEW c \in 0..(n - 1)
      PROVE  /\ (n - c) * b = b + (n - (c + 1)) * b
             /\ (n - (c + 1)) * b \in Nat
  <2>1. n - (c + 1) \in Nat
    OBVIOUS
  <2>2. \A m \in Nat : (m + 1) * b = b + m * b /\ m * b \in Nat
    OBVIOUS
  <2>3. n - c = (n - (c + 1)) + 1
    OBVIOUS
  <2> QED BY <2>1, <2>2, <2>3
<1>4. Left(0) = arg.high1 - arg.low1
  BY <1>1, <1>2 DEF Left, total
<1>5. Left(N) = 0
  BY <1>1, <1>2 DEF Left
<1>6. ASSUME NEW c \in 0..(N - 1)
      PROVE  /\ ChunkLen(c) \in Nat /\ Left(c + 1) \in Nat
             /\ Left(c) = ChunkLen(c) + Left(c + 1)
  <2>1. (N - c) * base = base + (N - (c + 1)) * base /\ (N - (c + 1)) * base \in Nat
    BY <1>1, <1>2, <1>3
  <2> DEFINE p == (N - (c + 1)) * base
             q == (N - c) * base
  <2> HIDE DEF p, q
  <2>2. q = base + p /\ p \in Nat
    BY <2>1 DEF p, q
  <2>3. /\ Left(c) = q + (IF c < extra THEN extra - c ELSE 0)
        /\ Left(c + 1) = p + (IF c + 1 < extra THEN extra - (c + 1) ELSE 0)
    BY DEF Left, p, q
  <2> QED BY <2>2, <2>3, <1>2 DEF ChunkLen
<1> QED BY <1>4, <1>5, <1>6

-----------------------------------------------------------------------------
(* The steps.                                                              *)

\* The arguments are the caller's and do not change.
LEMMA SameCall ==
  ASSUME arg' = arg
  PROVE  /\ N' = N /\ Threads' = Threads /\ Rows' = Rows /\ Cols' = Cols
         /\ Empty' <=> Empty
         /\ base' = base /\ extra' = extra
<1> QED BY DEF N, Threads, Rows, Cols, Empty, base, extra, total

LEMMA PForInitial == PForInit => PForInv
<1> SUFFICES ASSUME PForInit PROVE PForInv
  OBVIOUS
<1>1. arg \in Calls
  BY DEF PForInit
<1>2. /\ arg.low1 \in Int /\ arg.high1 \in Int /\ arg.low2 \in Int /\ arg.high2 \in Int
      /\ N \in Nat \ {0} /\ Threads = 0..(N - 1)
  BY <1>1, ArgFacts
<1>3. PForTypeOK
  BY <1>1, <1>2 DEF PForInit, PForTypeOK
<1>4. CASE Empty
  BY <1>3, <1>4 DEF PForInit, PForInv
<1>5. CASE ~Empty
  <2>1. Left(0) = arg.high1 - arg.low1
    BY <1>1, <1>5, LeftFacts
  <2>2. Given = {}
    BY <1>2, <1>5 DEF Given, PForInit
  <2>3. ChunkInv
    BY <2>1, <2>2, <1>2, <1>5 DEF PForInit, ChunkInv, Empty
  <2>4. ThreadInv
    BY <2>2 DEF PForInit, ThreadInv
  <2>5. CallInv
    BY <2>2 DEF PForInit, CallInv
  <2>6. JoinInv
    BY <1>5 DEF PForInit, JoinInv
  <2> QED BY <2>3, <2>4, <2>5, <2>6, <1>3, <1>5 DEF PForInv
<1> QED BY <1>4, <1>5

\* The next chunk begins where the last one ended, and is not longer than what is left.
LEMMA CreateKeeps == PForInv /\ Create => PForInv'
<1> SUFFICES ASSUME PForInv, Create PROVE PForInv'
  OBVIOUS
<1> DEFINE x == current + ChunkLen(count)
<1>1. /\ main = "split" /\ count < N /\ main' = main /\ arg' = arg /\ calls' = calls
      /\ data' = [data EXCEPT ![count] = [low |-> current, high |-> x]]
      /\ current' = x /\ count' = count + 1
      /\ \/ /\ thread' = [thread EXCEPT ![count] = "runs"]
            /\ row' = [row EXCEPT ![count] = current]
            /\ col' = [col EXCEPT ![count] = arg.low2]
         \/ /\ thread' = [thread EXCEPT ![count] = "failed"]
            /\ row' = row /\ col' = col
  BY DEF Create
<1>2. ~Empty /\ arg \in Calls /\ PForTypeOK /\ ChunkInv /\ ThreadInv /\ CallInv
  BY <1>1 DEF PForInv, PForTypeOK
<1>3. /\ arg.low1 \in Int /\ arg.high1 \in Int /\ arg.low2 \in Int /\ arg.high2 \in Int
      /\ arg.low2 < arg.high2
      /\ N \in Nat \ {0} /\ Threads = 0..(N - 1)
      /\ \A r \in Rows, c \in Cols : r \in Int /\ c \in Int
  BY <1>2, ArgFacts DEF Empty
<1>4. /\ count \in 0..(N - 1) /\ count \in Threads /\ count + 1 \in 0..N /\ current \in Int
  BY <1>1, <1>2, <1>3 DEF PForTypeOK
<1>5. /\ ChunkLen(count) \in Nat /\ Left(count + 1) \in Nat
      /\ Left(count) = ChunkLen(count) + Left(count + 1)
      /\ arg.high1 - current = Left(count)
  BY <1>1, <1>2, <1>4, LeftFacts DEF ChunkInv
<1>6. x \in Int /\ current <= x /\ arg.high1 - x = Left(count + 1) /\ x <= arg.high1
  <2> DEFINE l == ChunkLen(count)
             m == Left(count + 1)
  <2>1. l \in Nat /\ m \in Nat /\ arg.high1 - current = l + m
    BY <1>5
  <2> HIDE DEF l, m
  <2>2. current + l \in Int /\ current <= current + l /\ arg.high1 - (current + l) = m
        /\ current + l <= arg.high1
    BY <2>1, <1>3, <1>4
  <2> QED BY <2>2 DEF l, m
<1> HIDE DEF x
<1>7. N' = N /\ Threads' = Threads /\ Rows' = Rows /\ Cols' = Cols /\ ~Empty'
      /\ Left(count)' = Left(count + 1)
  BY <1>1, <1>2, SameCall DEF Left
<1>8. /\ Given' = Given \cup {count} /\ count \notin Given
      /\ \A t \in Given : t \in Threads /\ t < count /\ t # count
      /\ Given \subseteq Threads
  <2>1. \A t \in Threads : t < count + 1 <=> t < count \/ t = count
    BY <1>3, <1>4
  <2> QED BY <2>1, <1>1, <1>3, <1>4, <1>7 DEF Given
<1>9. /\ data'[count].low = current /\ data'[count].high = x
      /\ \A t \in Given : data'[t] = data[t]
      /\ \A t \in Given : thread'[t] = thread[t] /\ row'[t] = row[t] /\ col'[t] = col[t]
      /\ \A t \in Threads : t # count => thread'[t] = thread[t] /\ row'[t] = row[t] /\ col'[t] = col[t]
  BY <1>1, <1>4, <1>8, <1>2 DEF PForTypeOK
<1>10. \/ thread'[count] = "runs" /\ row'[count] = current /\ col'[count] = arg.low2
       \/ thread'[count] = "failed"
  BY <1>1, <1>2, <1>4 DEF PForTypeOK
<1>11. PForTypeOK'
  <2>1. data' \in [Threads -> [low : Int, high : Int]]
    BY <1>1, <1>2, <1>4, <1>6 DEF PForTypeOK
  <2>2. thread' \in [Threads -> {"none", "failed", "runs", "ended"}]
    BY <1>1, <1>2 DEF PForTypeOK
  <2>3. row' \in [Threads -> Int]
    BY <1>1, <1>2, <1>4 DEF PForTypeOK
  <2>4. col' \in [Threads -> Int]
    BY <1>1, <1>2, <1>3 DEF PForTypeOK
  <2> QED BY <2>1, <2>2, <2>3, <2>4, <1>1, <1>2, <1>4, <1>6, <1>7 DEF PForTypeOK
<1>12. \A t \in Given : /\ data[t].low \in Int /\ data[t].high \in Int
                        /\ arg.low1 <= data[t].low /\ data[t].low <= data[t].high
                        /\ data[t].high <= current /\ data[t].high <= x
  <2>1. \A t \in Given : data[t].low \in Int /\ data[t].high \in Int
    BY <1>2, <1>8 DEF PForTypeOK
  <2>2. \A t \in Given : /\ arg.low1 <= data[t].low /\ data[t].low <= data[t].high
                         /\ data[t].high <= current
    BY <1>2 DEF ChunkInv
  <2> QED BY <2>1, <2>2, <1>4, <1>6
<1>13. ChunkInv'
  <2>1. arg.high1 - x = Left(count)' /\ arg.low1 <= x /\ x <= arg.high1
    <3>1. arg.low1 <= current
      BY <1>2 DEF ChunkInv
    <3>2. arg.low1 <= x
      BY <3>1, <1>3, <1>4, <1>6
    <3> QED BY <3>2, <1>6, <1>7
  <2>2. \A t \in Given' :
          arg.low1 <= data'[t].low /\ data'[t].low <= data'[t].high /\ data'[t].high <= x
    <3>1. arg.low1 <= current /\ x <= x
      BY <1>2, <1>6 DEF ChunkInv
    <3> QED BY <3>1, <1>6, <1>8, <1>9, <1>12
  <2>3. ASSUME NEW t \in Given', NEW u \in Given', t < u PROVE data'[t].high <= data'[u].low
    <3>1. t \in Given
      <4>1. u \in Threads /\ t \in Threads /\ ~(count < u)
        BY <1>3, <1>4, <1>8
      <4>2. t # count
        BY <4>1, <2>3
      <4> QED BY <4>2, <1>8
    <3>2. CASE u = count
      BY <3>1, <3>2, <1>9, <1>12
    <3>3. CASE u \in Given
      BY <3>1, <3>3, <2>3, <1>2, <1>9 DEF ChunkInv
    <3> QED BY <3>2, <3>3, <1>8
  <2>4. ASSUME NEW r \in arg.low1..(x - 1)
        PROVE  \E t \in Given' : data'[t].low <= r /\ r < data'[t].high
    <3>1. CASE r < current
      <4>1. r \in arg.low1..(current - 1)
        BY <3>1, <1>3, <1>4, <1>6
      <4>2. PICK t \in Given : data[t].low <= r /\ r < data[t].high
        BY <4>1, <1>2 DEF ChunkInv, InChunk
      <4> QED BY <4>2, <1>8, <1>9
    <3>2. CASE ~(r < current)
      <4>1. current <= r /\ r < x
        BY <3>2, <1>3, <1>4, <1>6
      <4> QED BY <4>1, <1>8, <1>9
    <3> QED BY <3>1, <3>2
  <2> QED BY <2>1, <2>2, <2>3, <2>4, <1>1, <1>7 DEF ChunkInv, InChunk
<1>14. ThreadInv'
  <2>1. \A t \in Threads : thread'[t] = "none" <=> t \notin Given'
    BY <1>2, <1>8, <1>9, <1>10 DEF ThreadInv
  <2>2. ASSUME NEW t \in Threads, thread'[t] \in {"runs", "ended"}
        PROVE  /\ data'[t].low <= row'[t] /\ row'[t] <= data'[t].high
               /\ arg.low2 <= col'[t] /\ col'[t] <= arg.high2
               /\ row'[t] = data'[t].high => col'[t] = arg.low2
    <3>1. CASE t = count
      <4>1. row'[t] = current /\ col'[t] = arg.low2 /\ data'[t].low = current /\ data'[t].high = x
        BY <3>1, <2>2, <1>9, <1>10
      <4> QED BY <4>1, <1>3, <1>4, <1>6
    <3>2. CASE t # count
      <4>1. t \in Given
        BY <2>1, <2>2, <3>2, <1>8
      <4> QED BY <4>1, <2>2, <1>2, <1>8, <1>9 DEF ThreadInv
    <3> QED BY <3>1, <3>2
  <2>3. ASSUME NEW t \in Threads, thread'[t] = "ended" PROVE row'[t] = data'[t].high
    <3>1. t # count
      BY <2>3, <1>10
    <3>2. t \in Given
      BY <3>1, <2>1, <2>3, <1>8
    <3> QED BY <3>2, <2>3, <1>2, <1>8, <1>9 DEF ThreadInv
  <2> QED BY <2>1, <2>2, <2>3, <1>1, <1>7 DEF ThreadInv
<1>15. CallInv'
  <2> SUFFICES ASSUME NEW r \in Rows, NEW c \in Cols
               PROVE  /\ calls[<<r, c>>] \in {0, 1}
                      /\ calls[<<r, c>>] = 1 <=>
                           \E t \in Given' : InChunk(r, t)' /\ Called(t, r, c)'
    BY <1>1, <1>7 DEF CallInv
  <2>1. /\ calls[<<r, c>>] \in {0, 1}
        /\ calls[<<r, c>>] = 1 <=> \E t \in Given : InChunk(r, t) /\ Called(t, r, c)
    BY <1>2 DEF CallInv
  <2>2. \A t \in Given : /\ InChunk(r, t)' <=> InChunk(r, t)
                         /\ Called(t, r, c)' <=> Called(t, r, c)
    BY <1>9 DEF InChunk, Called
  <2>3. ASSUME NEW t \in Threads, t = count, InChunk(r, t)', Called(t, r, c)' PROVE FALSE
    <3>1. /\ current <= r /\ row'[t] = current /\ col'[t] = arg.low2
          /\ r < current \/ c < arg.low2
      BY <2>3, <1>9, <1>10 DEF InChunk, Called
    <3>2. c \in Cols /\ arg.low2 <= c /\ r \in Int /\ c \in Int
      BY <1>3 DEF Cols
    <3> QED BY <3>1, <3>2, <1>3, <1>4
  <2>4. \A t \in Given' : t \in Given \/ (t \in Threads /\ t = count)
    BY <1>4, <1>8
  <2>5. (\E t \in Given' : InChunk(r, t)' /\ Called(t, r, c)') <=>
          \E t \in Given : InChunk(r, t) /\ Called(t, r, c)
    BY <2>2, <2>3, <2>4, <1>8
  <2> QED BY <2>1, <2>5
<1>16. JoinInv'
  BY <1>1 DEF JoinInv
<1> QED BY <1>7, <1>11, <1>13, <1>14, <1>15, <1>16 DEF PForInv

\* No row is in two chunks.
LEMMA OneChunk ==
  ASSUME PForTypeOK, ChunkInv, NEW r \in Int, NEW t \in Given, NEW u \in Given,
         InChunk(r, t), InChunk(r, u)
  PROVE  t = u
<1>1. t \in Threads /\ u \in Threads /\ t \in Int /\ u \in Int
  BY ArgFacts DEF Given, PForTypeOK
<1>2. /\ data[t].low \in Int /\ data[t].high \in Int
      /\ data[u].low \in Int /\ data[u].high \in Int
  BY <1>1 DEF PForTypeOK
<1>3. ~(t < u)
  <2>1. t < u => data[t].high <= data[u].low
    BY DEF ChunkInv
  <2> QED BY <2>1, <1>2 DEF InChunk
<1>4. ~(u < t)
  <2>1. u < t => data[u].high <= data[t].low
    BY DEF ChunkInv
  <2> QED BY <2>1, <1>2 DEF InChunk
<1> QED BY <1>1, <1>3, <1>4

\* A thread that runs has its chunk, and is in it.
LEMMA RunnerFacts ==
  ASSUME PForInv, NEW t \in Threads, thread[t] = "runs"
  PROVE  /\ ~Empty /\ PForTypeOK /\ ChunkInv /\ ThreadInv /\ CallInv /\ JoinInv
         /\ t \in Given
         /\ data[t].low \in Int /\ data[t].high \in Int /\ row[t] \in Int /\ col[t] \in Int
         /\ data[t].low <= row[t] /\ row[t] <= data[t].high
         /\ arg.low2 <= col[t] /\ col[t] <= arg.high2
         /\ row[t] = data[t].high => col[t] = arg.low2
         /\ arg.low1 <= data[t].low /\ data[t].high <= arg.high1
         /\ arg.low1 \in Int /\ arg.high1 \in Int /\ arg.low2 \in Int /\ arg.high2 \in Int
<1>1. ~Empty /\ PForTypeOK /\ ChunkInv /\ ThreadInv /\ CallInv /\ JoinInv
  BY DEF PForInv
<1>2. t \in Given
  BY <1>1 DEF ThreadInv
<1>3. data[t].low \in Int /\ data[t].high \in Int /\ row[t] \in Int /\ col[t] \in Int
  BY <1>1 DEF PForTypeOK
<1>4. arg.low1 \in Int /\ arg.high1 \in Int /\ arg.low2 \in Int /\ arg.high2 \in Int
  BY <1>1, ArgFacts DEF PForTypeOK
<1>5. /\ data[t].low <= row[t] /\ row[t] <= data[t].high
      /\ arg.low2 <= col[t] /\ col[t] <= arg.high2
      /\ row[t] = data[t].high => col[t] = arg.low2
  BY <1>1 DEF ThreadInv
<1>6. arg.low1 <= data[t].low /\ data[t].high <= current /\ current <= arg.high1
  BY <1>1, <1>2 DEF ChunkInv
<1>7. current \in Int
  BY <1>1 DEF PForTypeOK
<1>8. data[t].high <= arg.high1
  BY <1>3, <1>4, <1>6, <1>7
<1> QED BY <1>1, <1>2, <1>3, <1>4, <1>5, <1>6, <1>8

\* The lambda is called for an iteration that no thread has called it for.
LEMMA CallKeeps == ASSUME NEW t \in Threads, PForInv, Call(t) PROVE PForInv'
<1>1. /\ thread[t] = "runs" /\ row[t] < data[t].high /\ col[t] < arg.high2
      /\ calls' = [calls EXCEPT ![<<row[t], col[t]>>] = @ + 1]
      /\ col' = [col EXCEPT ![t] = @ + 1]
      /\ UNCHANGED <<arg, main, count, current, data, thread, row>>
  BY DEF Call
<1>2. /\ ~Empty /\ PForTypeOK /\ ChunkInv /\ ThreadInv /\ CallInv /\ JoinInv
      /\ t \in Given
      /\ data[t].low \in Int /\ data[t].high \in Int /\ row[t] \in Int /\ col[t] \in Int
      /\ data[t].low <= row[t] /\ arg.low2 <= col[t]
      /\ arg.low1 <= data[t].low /\ data[t].high <= arg.high1
      /\ arg.low1 \in Int /\ arg.high1 \in Int /\ arg.low2 \in Int /\ arg.high2 \in Int
  BY <1>1, RunnerFacts
<1>3. N' = N /\ Threads' = Threads /\ Rows' = Rows /\ Cols' = Cols /\ ~Empty' /\ Given' = Given
  BY <1>1, <1>2, SameCall DEF Given
<1>4. row[t] \in Rows /\ col[t] \in Cols
  BY <1>1, <1>2 DEF Rows, Cols
<1>5. /\ col'[t] = col[t] + 1
      /\ \A u \in Threads : u # t => col'[u] = col[u]
      /\ col' \in [Threads -> Int]
  BY <1>1, <1>2 DEF PForTypeOK
<1>6. PForTypeOK'
  <2>1. calls' \in [Rows \X Cols -> Nat]
    BY <1>1, <1>2, <1>4 DEF PForTypeOK
  <2> QED BY <2>1, <1>1, <1>2, <1>3, <1>5 DEF PForTypeOK
<1>7. ChunkInv'
  BY <1>1, <1>2, <1>3 DEF ChunkInv, InChunk, Left, base, extra, total
<1>8. JoinInv'
  BY <1>1, <1>2, <1>3 DEF JoinInv
<1>9. ThreadInv'
  <2>1. arg.low2 <= col[t] + 1 /\ col[t] + 1 <= arg.high2 /\ row[t] # data[t].high
    BY <1>1, <1>2
  <2> QED BY <2>1, <1>1, <1>2, <1>3, <1>5 DEF ThreadInv
<1>10. calls[<<row[t], col[t]>>] = 0
  <2>1. ASSUME NEW u \in Given, InChunk(row[t], u), Called(u, row[t], col[t]) PROVE FALSE
    <3>1. InChunk(row[t], t)
      BY <1>1, <1>2 DEF InChunk
    <3>2. u = t
      BY <3>1, <2>1, <1>2, OneChunk
    <3> QED BY <3>2, <2>1, <1>2 DEF Called
  <2> QED BY <2>1, <1>2, <1>4 DEF CallInv
<1>11. CallInv'
  <2> SUFFICES ASSUME NEW r \in Rows, NEW c \in Cols
               PROVE  /\ calls'[<<r, c>>] \in {0, 1}
                      /\ calls'[<<r, c>>] = 1 <=>
                           \E u \in Given : InChunk(r, u)' /\ Called(u, r, c)'
    BY <1>3 DEF CallInv
  <2>1. r \in Int /\ c \in Int
    BY <1>2, ArgFacts DEF PForTypeOK
  <2>2. /\ calls[<<r, c>>] \in {0, 1}
        /\ calls[<<r, c>>] = 1 <=> \E u \in Given : InChunk(r, u) /\ Called(u, r, c)
    BY <1>2 DEF CallInv
  <2>3. \A u \in Given : InChunk(r, u)' <=> InChunk(r, u)
    BY <1>1 DEF InChunk
  <2>4. \A u \in Given : u # t => (Called(u, r, c)' <=> Called(u, r, c))
    BY <1>1, <1>5 DEF Called, Given
  <2>5. CASE r = row[t] /\ c = col[t]
    <3>1. calls'[<<r, c>>] = 1
      <4>1. calls'[<<row[t], col[t]>>] = calls[<<row[t], col[t]>>] + 1
        BY <1>1, <1>2, <1>4 DEF PForTypeOK
      <4> QED BY <4>1, <1>10, <2>5
    <3>2. InChunk(r, t) /\ Called(t, r, c)'
      BY <2>5, <2>1, <1>1, <1>2, <1>5 DEF InChunk, Called
    <3> QED BY <3>1, <3>2, <2>3, <1>2
  <2>6. CASE ~(r = row[t] /\ c = col[t])
    <3>1. calls'[<<r, c>>] = calls[<<r, c>>]
      BY <2>6, <1>1, <1>2, <1>4 DEF PForTypeOK
    <3>2. Called(t, r, c)' <=> Called(t, r, c)
      <4>1. c < col[t] + 1 <=> c < col[t] \/ c = col[t]
        BY <2>1, <1>2
      <4> QED BY <4>1, <2>6, <1>1, <1>5 DEF Called
    <3>3. \A u \in Given : (InChunk(r, u)' /\ Called(u, r, c)') <=>
                             (InChunk(r, u) /\ Called(u, r, c))
      BY <3>2, <2>3, <2>4
    <3> QED BY <3>1, <3>3, <2>2
  <2> QED BY <2>5, <2>6
<1> QED BY <1>3, <1>6, <1>7, <1>8, <1>9, <1>11 DEF PForInv

\* The next row begins when the columns of this one are all done.
LEMMA NextRowKeeps == ASSUME NEW t \in Threads, PForInv, NextRow(t) PROVE PForInv'
<1>1. /\ thread[t] = "runs" /\ row[t] < data[t].high /\ col[t] = arg.high2
      /\ row' = [row EXCEPT ![t] = @ + 1] /\ col' = [col EXCEPT ![t] = arg.low2]
      /\ UNCHANGED <<arg, main, count, current, data, thread, calls>>
  BY DEF NextRow
<1>2. /\ ~Empty /\ PForTypeOK /\ ChunkInv /\ ThreadInv /\ CallInv /\ JoinInv
      /\ t \in Given
      /\ data[t].low \in Int /\ data[t].high \in Int /\ row[t] \in Int /\ col[t] \in Int
      /\ data[t].low <= row[t]
      /\ arg.low2 \in Int /\ arg.high2 \in Int
  BY <1>1, RunnerFacts
<1>3. N' = N /\ Threads' = Threads /\ Rows' = Rows /\ Cols' = Cols /\ ~Empty' /\ Given' = Given
  BY <1>1, <1>2, SameCall DEF Given
<1>4. /\ row'[t] = row[t] + 1 /\ col'[t] = arg.low2
      /\ \A u \in Threads : u # t => row'[u] = row[u] /\ col'[u] = col[u]
      /\ row' \in [Threads -> Int] /\ col' \in [Threads -> Int]
  BY <1>1, <1>2 DEF PForTypeOK
<1>5. PForTypeOK'
  BY <1>1, <1>2, <1>3, <1>4 DEF PForTypeOK
<1>6. ChunkInv'
  BY <1>1, <1>2, <1>3 DEF ChunkInv, InChunk, Left, base, extra, total
<1>7. JoinInv'
  BY <1>1, <1>2, <1>3 DEF JoinInv
<1>8. ThreadInv'
  <2>1. /\ data[t].low <= row[t] + 1 /\ row[t] + 1 <= data[t].high
        /\ arg.low2 <= arg.low2 /\ arg.low2 <= arg.high2
    BY <1>1, <1>2 DEF Empty
  <2> QED BY <2>1, <1>1, <1>2, <1>3, <1>4 DEF ThreadInv
<1>9. CallInv'
  <2> SUFFICES ASSUME NEW r \in Rows, NEW c \in Cols, NEW u \in Given
               PROVE  /\ InChunk(r, u)' <=> InChunk(r, u)
                      /\ Called(u, r, c)' <=> Called(u, r, c)
    BY <1>1, <1>2, <1>3 DEF CallInv
  <2>1. InChunk(r, u)' <=> InChunk(r, u)
    BY <1>1 DEF InChunk
  <2>2. CASE u = t
    <3>1. r \in Int /\ ~(c < arg.low2) /\ c < arg.high2
      BY <1>2, ArgFacts, SMTT(30) DEF PForTypeOK, Cols
    <3>2. r < row[t] + 1 <=> r < row[t] \/ r = row[t]
      BY <3>1, <1>2
    <3> QED BY <3>1, <3>2, <2>1, <2>2, <1>1, <1>4 DEF Called
  <2>3. CASE u # t
    BY <2>1, <2>3, <1>1, <1>4 DEF Called, Given
  <2> QED BY <2>2, <2>3
<1> QED BY <1>3, <1>5, <1>6, <1>7, <1>8, <1>9 DEF PForInv

LEMMA TaskEndKeeps == ASSUME NEW t \in Threads, PForInv, TaskEnd(t) PROVE PForInv'
<1>1. /\ thread[t] = "runs" /\ row[t] >= data[t].high
      /\ thread' = [thread EXCEPT ![t] = "ended"]
      /\ UNCHANGED <<arg, main, count, current, data, row, col, calls>>
  BY DEF TaskEnd
<1>2. /\ ~Empty /\ PForTypeOK /\ ChunkInv /\ ThreadInv /\ CallInv /\ JoinInv
      /\ row[t] = data[t].high
  BY <1>1, RunnerFacts
<1>3. N' = N /\ Threads' = Threads /\ Rows' = Rows /\ Cols' = Cols /\ ~Empty' /\ Given' = Given
  BY <1>1, <1>2, SameCall DEF Given
<1>4. /\ thread'[t] = "ended" /\ \A u \in Threads : u # t => thread'[u] = thread[u]
      /\ thread' \in [Threads -> {"none", "failed", "runs", "ended"}]
  BY <1>1, <1>2 DEF PForTypeOK
<1>5. PForTypeOK'
  BY <1>1, <1>2, <1>3, <1>4 DEF PForTypeOK
<1>6. ChunkInv'
  BY <1>1, <1>2, <1>3 DEF ChunkInv, InChunk, Left, base, extra, total
<1>7. JoinInv'
  BY <1>1, <1>2, <1>3, <1>4 DEF JoinInv
<1>8. ThreadInv'
  BY <1>1, <1>2, <1>3, <1>4 DEF ThreadInv
<1>9. CallInv'
  <2>1. \A r, c : \A u \in Given : /\ InChunk(r, u)' <=> InChunk(r, u)
                                   /\ Called(u, r, c)' <=> Called(u, r, c)
    BY <1>1, <1>4 DEF InChunk, Called, Given
  <2> QED BY <2>1, <1>1, <1>2, <1>3 DEF CallInv
<1> QED BY <1>3, <1>5, <1>6, <1>7, <1>8, <1>9 DEF PForInv

\* The caller's loops end with all rows given away, and with all threads joined.
LEMMA CallerKeeps == PForInv /\ (SplitEnd \/ Join \/ JoinEnd) => PForInv'
<1> SUFFICES ASSUME PForInv, SplitEnd \/ Join \/ JoinEnd PROVE PForInv'
  OBVIOUS
<1>1. /\ UNCHANGED <<arg, current, data, thread, row, col, calls>>
      /\ main \in {"split", "join"} /\ main' \in {"join", "done", "crashed"}
      /\ main = "split" => main' = "join" /\ count = N /\ count' = 0
      /\ main = "join" /\ main' # "done" => /\ count < N /\ count' = count + 1
                                            /\ thread[count] \in {"ended", "failed"}
      /\ main = "join" /\ main' = "done" => count = N /\ count' = count
  BY DEF SplitEnd, Join, JoinEnd
<1>2. ~Empty /\ arg \in Calls /\ PForTypeOK /\ ChunkInv /\ ThreadInv /\ CallInv /\ JoinInv
  BY <1>1 DEF PForInv, PForTypeOK
<1>3. /\ N \in Nat \ {0} /\ Threads = 0..(N - 1) /\ count \in 0..N
      /\ arg.high1 \in Int /\ current \in Int
  BY <1>2, ArgFacts DEF PForTypeOK
<1>4. N' = N /\ Threads' = Threads /\ Rows' = Rows /\ Cols' = Cols /\ ~Empty'
  BY <1>1, <1>2, SameCall
<1>5. Given = Threads /\ Given' = Threads
  BY <1>1, <1>3, <1>4 DEF Given
<1>6. PForTypeOK'
  <2>1. count' \in 0..N
    BY <1>1, <1>3
  <2> QED BY <2>1, <1>1, <1>2, <1>4 DEF PForTypeOK
<1>7. current = arg.high1
  <2>1. CASE main = "split"
    <3>1. arg.high1 - current = 0
      BY <2>1, <1>1, <1>2, LeftFacts DEF ChunkInv
    <3> QED BY <3>1, <1>3
  <2>2. CASE main = "join"
    BY <2>2, <1>2 DEF ChunkInv
  <2> QED BY <2>1, <2>2, <1>1
<1>8. ChunkInv'
  BY <1>1, <1>2, <1>5, <1>7 DEF ChunkInv, InChunk
<1>9. ThreadInv'
  BY <1>1, <1>2, <1>4, <1>5 DEF ThreadInv
<1>10. CallInv'
  <2>1. \A r, c : \A u \in Given : /\ InChunk(r, u)' <=> InChunk(r, u)
                                   /\ Called(u, r, c)' <=> Called(u, r, c)
    BY <1>1 DEF InChunk, Called
  <2> QED BY <2>1, <1>1, <1>2, <1>4, <1>5 DEF CallInv
<1>11. JoinInv'
  <2>1. CASE main = "split"
    BY <2>1, <1>1, <1>3, <1>4 DEF JoinInv
  <2>2. CASE main = "join" /\ main' # "done"
    <3>1. \A t \in Threads : t < count + 1 => t < count \/ t = count
      BY <1>3
    <3> QED BY <3>1, <2>2, <1>1, <1>2, <1>4 DEF JoinInv
  <2>3. CASE main = "join" /\ main' = "done"
    BY <2>3, <1>1, <1>2, <1>3, <1>4 DEF JoinInv
  <2> QED BY <2>1, <2>2, <2>3, <1>1
<1> QED BY <1>4, <1>6, <1>8, <1>9, <1>10, <1>11 DEF PForInv

LEMMA PForStep == PForInv /\ [PForNext]_pfVars => PForInv'
<1> SUFFICES ASSUME PForInv, [PForNext]_pfVars PROVE PForInv'
  OBVIOUS
<1>1. CASE UNCHANGED pfVars
  <2> USE <1>1 DEF pfVars
  <2>1. N' = N /\ Threads' = Threads /\ Rows' = Rows /\ Cols' = Cols /\ Given' = Given
        /\ base' = base /\ extra' = extra /\ (Empty' <=> Empty)
    BY SameCall DEF Given
  <2>2. PForTypeOK' <=> PForTypeOK
    BY <2>1 DEF PForTypeOK
  <2>3. ChunkInv' <=> ChunkInv
    BY <2>1 DEF ChunkInv, InChunk, Left
  <2>4. ThreadInv' <=> ThreadInv
    BY <2>1 DEF ThreadInv
  <2>5. CallInv' <=> CallInv
    BY <2>1 DEF CallInv, InChunk, Called
  <2>6. JoinInv' <=> JoinInv
    BY <2>1 DEF JoinInv
  <2> QED BY <2>1, <2>2, <2>3, <2>4, <2>5, <2>6 DEF PForInv
<1>2. CASE Caller
  BY <1>2, CreateKeeps, CallerKeeps DEF Caller
<1>3. CASE \E t \in Threads : Task(t)
  BY <1>3, CallKeeps, NextRowKeeps, TaskEndKeeps DEF Task
<1> QED BY <1>1, <1>2, <1>3 DEF PForNext, Returned

LEMMA PForInvariant == PForSpec => []PForInv
<1> QED BY PForInitial, PForStep, PTL DEF PForSpec

-----------------------------------------------------------------------------
(* The theorems.                                                           *)

\* parallel_for calls the lambda exactly once for every iteration, whatever the space and
\* the number of threads, and leaves out only the chunks of threads that pthread_create
\* did not create (simple-multithreader.h:148-186).
THEOREM EveryIterationOnce == PForSpec => []EachExactlyOnce
<1>1. PForInv => EachExactlyOnce
  <2> SUFFICES ASSUME PForInv, main = "done", NEW p \in Rows \X Cols
               PROVE  \/ calls[p] = 1
                      \/ /\ calls[p] = 0
                         /\ \E t \in Threads : /\ thread[t] = "failed"
                                               /\ data[t].low <= p[1] /\ p[1] < data[t].high
    BY DEF EachExactlyOnce
  <2>1. PICK r \in Rows, c \in Cols : p = <<r, c>>
    OBVIOUS
  <2>2. arg \in Calls /\ arg.low1 \in Int /\ arg.high1 \in Int /\ arg.low2 \in Int /\ arg.high2 \in Int
    BY ArgFacts DEF PForInv, PForTypeOK
  <2>3. ~Empty /\ r \in arg.low1..(arg.high1 - 1)
    BY <2>1, <2>2 DEF Rows, Cols, Empty
  <2>4. PForTypeOK /\ ChunkInv /\ ThreadInv /\ CallInv /\ JoinInv
    BY <2>3 DEF PForInv
  <2>5. PICK t \in Given : InChunk(r, t)
    BY <2>3, <2>4 DEF ChunkInv
  <2>6. t \in Threads /\ thread[t] \in {"ended", "failed"}
    BY <2>4, <2>5 DEF JoinInv, Given
  <2>7. calls[<<r, c>>] \in {0, 1}
    BY <2>1, <2>4 DEF CallInv
  <2>8. CASE thread[t] = "ended"
    <3>1. Called(t, r, c)
      BY <2>4, <2>5, <2>6, <2>8 DEF Called, InChunk, ThreadInv
    <3> QED BY <3>1, <2>1, <2>4, <2>5 DEF CallInv
  <2>9. CASE thread[t] = "failed"
    BY <2>1, <2>5, <2>6, <2>7, <2>9 DEF InChunk
  <2> QED BY <2>6, <2>8, <2>9
<1> QED BY <1>1, PForInvariant, PTL

\* When parallel_for returns, no thread still uses the data and the lambda on its stack
\* (simple-multithreader.h:183-186).
THEOREM ThreadsEndFirst == PForSpec => []NoThreadOutlivesCall
<1>1. PForInv => NoThreadOutlivesCall
  BY DEF PForInv, JoinInv, NoThreadOutlivesCall
<1> QED BY <1>1, PForInvariant, PTL
=============================================================================
