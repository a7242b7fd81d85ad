--------------------------- MODULE SchedulerProofs ---------------------------
(***************************************************************************)
(* Theorems about SimpleScheduler, for every size of the job table and     *)
(* every number of processors, whatever an earlier session has left in     *)
(* the shared table and wherever shell and scheduler meet.                 *)
(***************************************************************************)
EXTENDS SimpleScheduler, FiniteSetTheorems, TLAPS

-----------------------------------------------------------------------------
(* The inductive invariant.                                                *)

Checking == sched \in {"check", "stop", "requeue", "finish", "kill"}
InRound == sched \in {"resume", "mark", "quantum"} \/ Checking
Increasing(q, len) == \A x, y \in 1..len : x < y => q[x] < q[y]

SchedulerTypeOK ==
  /\ job_count \in 0..MAX_JOBS
  /\ pid \in [Jobs -> OldPids \cup Jobs]
  /\ state \in [Jobs -> 0..2]
  /\ scheduler_running \in BOOLEAN
  /\ shell \in {"prompt", "count", "pid", "ready", "wait", "done"}
  /\ child \in {NoPid, ForkFailed} \cup Jobs
  /\ sched \in {"test", "build", "exited"} \/ InRound
  /\ queue \in Seq(Jobs)
  /\ k \in Nat \ {0} /\ queue_len \in Nat /\ running \in Nat /\ new_len \in Nat
  /\ run \in [Jobs -> {"none", "paused", "running", "exited"}]
  /\ stopped \in [Shell..Scheduler -> BOOLEAN]
  /\ resumed \in SUBSET Jobs /\ woken \in SUBSET Jobs

\* The entries in use name their own job, or say that it has no process; only the last
\* one may still hold what an earlier session left, until the shell stores the pid.
Unnamed(j) == j > job_count \/ (j = job_count /\ shell = "pid")
TableInv ==
  /\ \A j \in Jobs :
       /\ pid[j] \in OldPids \cup {j}
       /\ ~Unnamed(j) => pid[j] = j \/ (pid[j] = ForkFailed /\ run[j] = "none")
       /\ j > job_count /\ run[j] # "none" => shell = "count" /\ child = j
  /\ shell = "count" => /\ job_count < MAX_JOBS /\ child \in {ForkFailed, job_count + 1}
                        /\ child = ForkFailed => run[job_count + 1] = "none"
  /\ shell = "pid" => /\ job_count > 0 /\ child \in {ForkFailed, job_count}
                      /\ child = ForkFailed => run[job_count] = "none"
  /\ shell = "ready" => job_count > 0
  /\ ~scheduler_running => shell \in {"wait", "done"}

\* A job that was given a quantum is in the table, and a signal to its entry reaches it.
ResumedInv ==
  \A j \in resumed : j <= job_count /\ run[j] # "none" /\ pid[j] \in {NoPid, j}

\* An entry is marked running only in its quantum, or by an earlier session.
MarkedInv ==
  \A j \in Jobs : j <= job_count /\ state[j] = 1 =>
    \/ /\ InRound
       /\ \E n \in 1..running :
            /\ queue[n] = j
            /\ Checking => n >= k
            /\ sched = "kill" => n > k
    \/ j = job_count /\ shell \in {"pid", "ready"} /\ j \notin resumed

\* The queue is in table order, as far as the loop that builds it has come.
QueueInv ==
  /\ sched = "build" \/ InRound =>
       /\ Len(queue) = queue_len /\ Increasing(queue, queue_len)
       /\ \A n \in 1..queue_len : queue[n] <= job_count
  /\ sched = "build" => k <= job_count + 1 /\ \A n \in 1..queue_len : queue[n] < k
  /\ InRound => /\ running <= ncpu /\ running <= queue_len /\ k <= running + 1
                /\ sched \notin {"resume", "quantum", "check"} => k <= running
                /\ sched = "quantum" => k = 1
  /\ sched \in {"finish", "kill"} => queue[k] \notin resumed \/ ~scheduler_running

\* A live job that was given a quantum is ready or marked, so every queue has it, and what
\* the end of a quantum has seen of it is ready again.
ReadyInv ==
  /\ \A j \in resumed \cap LiveJobs :
       /\ sched \in {"test", "build"} => state[j] = 0
       /\ sched = "build" /\ j < k => \E n \in 1..queue_len : queue[n] = j
       /\ InRound => \E n \in 1..queue_len :
                       /\ queue[n] = j
                       /\ n > running => state[j] = 0
                       /\ Checking /\ n < k => state[j] = 0 /\ new_len > 0
       /\ sched \in {"test", "exited"} => queue_len > 0
  /\ sched = "exited" => queue_len = 0

\* Who runs without a SIGCONT to -1 is in this quantum, and its end has yet to come.
AwakeInv ==
  \A j \in resumed \ woken : run[j] = "running" /\ ~stopped[j] =>
    /\ InRound
    /\ \E n \in 1..running :
         /\ queue[n] = j
         /\ Checking => n >= k
         /\ sched = "requeue" => n > k

SchedInv ==
  SchedulerTypeOK /\ TableInv /\ ResumedInv /\ MarkedInv /\ QueueInv /\ ReadyInv /\ AwakeInv

-----------------------------------------------------------------------------
(* Facts about the operators.                                              *)

First(q, n) == {q[m] : m \in 1..n}

\* The first n entries of an increasing queue are n many.
LEMMA Places ==
  ASSUME NEW len \in Nat, NEW q \in [1..len -> Jobs], Increasing(q, len), NEW n \in 0..len
  PROVE  IsFiniteSet(First(q, n)) /\ Cardinality(First(q, n)) = n
<1> DEFINE T == {q[m] : m \in 1..n}
           f == [m \in 1..n |-> q[m]]
<1>1. IsFiniteSet(1..n) /\ Cardinality(1..n) = n
  BY FS_Interval
<1>2. f \in Bijection(1..n, T)
  <2>1. f \in [1..n -> T]
    OBVIOUS
  <2>2. \A x, y \in 1..n : f[x] = f[y] => x = y
    <3>1. \A x, y \in 1..n : x \in Nat /\ y \in Nat /\ x \in 1..len /\ y \in 1..len
      OBVIOUS
    <3>2. \A x \in 1..n : f[x] = q[x] /\ q[x] \in Int
      BY <3>1, SchedulerAssumption DEF Jobs
    <3>3. \A x, y \in 1..n : x < y => f[x] < f[y]
      BY <3>1, <3>2 DEF Increasing
    <3> HIDE DEF f
    <3> QED BY <3>1, <3>2, <3>3
  <2>3. \A t \in T : \E x \in 1..n : f[x] = t
    OBVIOUS
  <2> QED BY <2>1, <2>2, <2>3 DEF Bijection, Injection, Surjection, IsInjective
<1> HIDE DEF T, f
<1>3. ExistsBijection(1..n, T)
  BY <1>2 DEF ExistsBijection
<1>4. T = First(q, n)
  BY DEF T, First
<1> QED BY <1>1, <1>3, <1>4, FS_Bijection

-----------------------------------------------------------------------------
(* The steps of the shell.                                                 *)

\* The invariant holds when the scheduler starts, whatever the old table holds.
LEMMA SchedInitial == SchedulerInit => SchedInv
<1> SUFFICES ASSUME SchedulerInit PROVE SchedInv
  OBVIOUS
<1> USE SchedulerAssumption
<1>1. /\ pid \in [Jobs -> OldPids] /\ state \in [Jobs -> 0..2]
  <2>1. PICK old \in 0..MAX_JOBS : \E entry \in [1..old -> OldEntries] :
          /\ pid = [j \in Jobs |-> IF j <= old THEN entry[j][1] ELSE NoPid]
          /\ state = [j \in Jobs |-> IF j <= old THEN entry[j][2] ELSE 0]
    BY DEF SchedulerInit
  <2>2. PICK entry \in [1..old -> OldEntries] :
          /\ pid = [j \in Jobs |-> IF j <= old THEN entry[j][1] ELSE NoPid]
          /\ state = [j \in Jobs |-> IF j <= old THEN entry[j][2] ELSE 0]
    BY <2>1
  <2>3. ASSUME NEW j \in Jobs, j <= old PROVE entry[j] \in OldPids \X (0..2)
    BY <2>1, <2>2, <2>3 DEF Jobs
  <2>4. \A e \in OldPids \X (0..2) : e[1] \in OldPids /\ e[2] \in 0..2
    OBVIOUS
  <2>5. NoPid \in OldPids
    BY DEF OldPids
  <2> QED BY <2>2, <2>3, <2>4, <2>5
<1>2. SchedulerTypeOK
  BY <1>1 DEF SchedulerInit, SchedulerTypeOK, Shell, Scheduler, NoPid
<1>3. TableInv
  BY <1>1 DEF SchedulerInit, TableInv, Unnamed, Jobs
<1>4. ResumedInv /\ MarkedInv /\ QueueInv /\ ReadyInv /\ AwakeInv
  BY DEF SchedulerInit, ResumedInv, MarkedInv, QueueInv, ReadyInv, AwakeInv, InRound, Checking,
         Jobs
<1> QED BY <1>2, <1>3, <1>4 DEF SchedInv

\* fork makes a process that no entry names yet.
LEMMA SubmitForkKeeps == SchedInv /\ SubmitFork => SchedInv'
<1> SUFFICES ASSUME SchedInv, SubmitFork PROVE SchedInv'
  OBVIOUS
<1> USE SchedulerAssumption
<1>1. /\ job_count < MAX_JOBS /\ shell = "prompt" /\ shell' = "count"
      /\ UNCHANGED <<shm, schedVars, stopped, history>>
      /\ \/ child' = job_count + 1 /\ \E f \in {"paused", "running"} : run' = [run EXCEPT ![child'] = f]
         \/ child' = ForkFailed /\ run' = run
  BY DEF SubmitFork, ShellRuns
<1>2. /\ job_count + 1 \in Jobs /\ job_count \in Nat
      /\ run' \in [Jobs -> {"none", "paused", "running", "exited"}]
      /\ \A j \in Jobs : j # job_count + 1 => run'[j] = run[j]
      /\ child' = ForkFailed => run' = run
      /\ child' \in {ForkFailed, job_count + 1}
      /\ run[job_count + 1] = "none"
  BY <1>1 DEF SchedInv, SchedulerTypeOK, TableInv, Jobs, ForkFailed
<1>3. SchedulerTypeOK'
  BY <1>1, <1>2 DEF SchedInv, SchedulerTypeOK, InRound, Checking, shm, schedVars, history
<1>4. TableInv'
  BY <1>1, <1>2 DEF SchedInv, TableInv, Unnamed, SchedulerTypeOK, shm, Jobs, ForkFailed
<1>5. \A j \in resumed : j \in Jobs /\ run'[j] = run[j]
  BY <1>2 DEF SchedInv, ResumedInv, SchedulerTypeOK
<1>6. ResumedInv'
  BY <1>1, <1>5 DEF SchedInv, ResumedInv, shm, history
<1>7. MarkedInv' /\ QueueInv'
  BY <1>1 DEF SchedInv, MarkedInv, QueueInv, InRound, Checking, shm, schedVars, history
<1>8. resumed' \cap LiveJobs' = resumed \cap LiveJobs
  BY <1>1, <1>5 DEF LiveJobs, history
<1>9. ReadyInv'
  BY <1>1, <1>8 DEF SchedInv, ReadyInv, InRound, Checking, shm, schedVars
<1>10. AwakeInv'
  BY <1>1, <1>5 DEF SchedInv, AwakeInv, InRound, Checking, schedVars, history
<1> QED BY <1>3, <1>4, <1>6, <1>7, <1>9, <1>10 DEF SchedInv

\* The entry is published with the pid and the state of an earlier session.
LEMMA SubmitCountKeeps == SchedInv /\ SubmitCount => SchedInv'
<1> SUFFICES ASSUME SchedInv, SubmitCount PROVE SchedInv'
  OBVIOUS
<1> USE SchedulerAssumption
<1>1. /\ shell = "count" /\ shell' = "pid" /\ job_count' = job_count + 1
      /\ UNCHANGED <<pid, state, scheduler_running, child, schedVars, jobVars, history>>
  BY DEF SubmitCount, ShellRuns
<1>2. /\ job_count \in Nat /\ job_count < MAX_JOBS /\ job_count + 1 \in Jobs
      /\ child \in {ForkFailed, job_count + 1}
      /\ child = ForkFailed => run[job_count + 1] = "none"
      /\ job_count + 1 \notin resumed
  BY <1>1 DEF SchedInv, SchedulerTypeOK, TableInv, ResumedInv, Jobs
<1>3. SchedulerTypeOK'
  BY <1>1, <1>2 DEF SchedInv, SchedulerTypeOK, InRound, Checking, schedVars, jobVars, history
<1>4. TableInv'
  BY <1>1, <1>2 DEF SchedInv, TableInv, Unnamed, SchedulerTypeOK, jobVars, Jobs, ForkFailed
<1>5. ResumedInv'
  BY <1>1, <1>2 DEF SchedInv, ResumedInv, SchedulerTypeOK, Jobs, jobVars, history
<1>6. MarkedInv'
  BY <1>1, <1>2 DEF SchedInv, MarkedInv, InRound, Checking, Jobs, schedVars, history
<1>7. QueueInv'
  <2>1. /\ \A n \in 1..Len(queue) : queue[n] \in Jobs
        /\ \A j \in Jobs : j <= job_count => j <= job_count + 1
        /\ k \in Nat /\ (k <= job_count + 1 => k <= job_count + 1 + 1)
    BY <1>2 DEF SchedInv, SchedulerTypeOK, Jobs
  <2> QED BY <2>1, <1>1 DEF SchedInv, QueueInv, InRound, Checking, schedVars, history
<1>8. ReadyInv' /\ AwakeInv'
  BY <1>1 DEF SchedInv, ReadyInv, AwakeInv, InRound, Checking, LiveJobs, schedVars, jobVars,
              history
<1> QED BY <1>3, <1>4, <1>5, <1>6, <1>7, <1>8 DEF SchedInv

\* The pid is stored: a job that was resumed as "pid 0" is now named by its entry.
LEMMA SubmitPidKeeps == SchedInv /\ SubmitPid => SchedInv'
<1> SUFFICES ASSUME SchedInv, SubmitPid PROVE SchedInv'
  OBVIOUS
<1> USE SchedulerAssumption
<1>1. /\ shell = "pid" /\ shell' = "ready" /\ pid' = [pid EXCEPT ![job_count] = child]
      /\ UNCHANGED <<job_count, state, scheduler_running, child, schedVars, jobVars, history>>
  BY DEF SubmitPid, ShellRuns
<1>2. /\ job_count \in Jobs /\ child \in {ForkFailed, job_count}
      /\ child = ForkFailed => run[job_count] = "none"
      /\ \A j \in Jobs : pid'[j] = IF j = job_count THEN child ELSE pid[j]
      /\ ForkFailed \in OldPids
  BY <1>1 DEF SchedInv, SchedulerTypeOK, TableInv, Jobs, OldPids
<1>3. SchedulerTypeOK'
  BY <1>1, <1>2 DEF SchedInv, SchedulerTypeOK, InRound, Checking, schedVars, jobVars, history
<1>4. TableInv'
  BY <1>1, <1>2 DEF SchedInv, TableInv, Unnamed, SchedulerTypeOK, jobVars, Jobs
<1>5. ResumedInv'
  BY <1>1, <1>2 DEF SchedInv, ResumedInv, SchedulerTypeOK, jobVars, history
<1>6. MarkedInv' /\ QueueInv'
  BY <1>1, <1>2 DEF SchedInv, MarkedInv, QueueInv, InRound, Checking, schedVars, history
<1>7. ReadyInv' /\ AwakeInv'
  BY <1>1 DEF SchedInv, ReadyInv, AwakeInv, InRound, Checking, LiveJobs, schedVars, jobVars,
              history
<1> QED BY <1>3, <1>4, <1>5, <1>6, <1>7 DEF SchedInv

\* The entry is made ready, also if the scheduler has marked it in between.
LEMMA SubmitReadyKeeps == SchedInv /\ SubmitReady => SchedInv'
<1> SUFFICES ASSUME SchedInv, SubmitReady PROVE SchedInv'
  OBVIOUS
<1> USE SchedulerAssumption
<1>1. /\ shell = "ready" /\ shell' = "prompt" /\ state' = [state EXCEPT ![job_count] = 0]
      /\ UNCHANGED <<job_count, pid, scheduler_running, child, schedVars, jobVars, history>>
  BY DEF SubmitReady, ShellRuns
<1>2. /\ job_count \in Jobs
      /\ \A j \in Jobs : state'[j] = IF j = job_count THEN 0 ELSE state[j]
      /\ \A j \in Jobs : state[j] = 0 => state'[j] = 0
  BY <1>1 DEF SchedInv, SchedulerTypeOK, TableInv, Jobs
<1>3. SchedulerTypeOK'
  BY <1>1, <1>2 DEF SchedInv, SchedulerTypeOK, InRound, Checking, schedVars, jobVars, history
<1>4. TableInv' /\ ResumedInv'
  BY <1>1, <1>2 DEF SchedInv, TableInv, ResumedInv, Unnamed, jobVars, history
<1>5. MarkedInv'
  BY <1>1, <1>2 DEF SchedInv, MarkedInv, InRound, Checking, schedVars, history
<1>6. QueueInv'
  BY <1>1 DEF SchedInv, QueueInv, InRound, Checking, schedVars, history
<1>7. ReadyInv'
  <2>1. \A j \in resumed \cap LiveJobs : j \in Jobs
    BY DEF LiveJobs
  <2> QED BY <2>1, <1>1, <1>2 DEF SchedInv, ReadyInv, InRound, Checking, LiveJobs, schedVars,
                                  jobVars, history
<1>8. AwakeInv'
  BY <1>1 DEF SchedInv, AwakeInv, InRound, Checking, schedVars, jobVars, history
<1> QED BY <1>3, <1>4, <1>5, <1>6, <1>7, <1>8 DEF SchedInv

\* exit clears the flag, and the scheduler may find it so at any of its tests.
LEMMA ExitKeeps == SchedInv /\ (Exit \/ ExitEnd) => SchedInv'
<1> SUFFICES ASSUME SchedInv, Exit \/ ExitEnd PROVE SchedInv'
  OBVIOUS
<1>1. /\ shell \notin {"pid", "ready", "count"} /\ shell' \in {"wait", "done"}
      /\ scheduler_running' = FALSE \/ scheduler_running' = scheduler_running
      /\ UNCHANGED <<job_count, pid, state, child, schedVars, jobVars, history>>
  BY DEF Exit, ExitEnd, ShellRuns, shm
<1>2. SchedulerTypeOK'
  BY <1>1 DEF SchedInv, SchedulerTypeOK, InRound, Checking, schedVars, jobVars, history
<1>3. TableInv' /\ ResumedInv' /\ MarkedInv'
  BY <1>1 DEF SchedInv, TableInv, ResumedInv, MarkedInv, Unnamed, InRound, Checking, schedVars,
              jobVars, history
<1>4. QueueInv'
  BY <1>1 DEF SchedInv, QueueInv, InRound, Checking, schedVars, history
<1>5. ReadyInv' /\ AwakeInv'
  BY <1>1 DEF SchedInv, ReadyInv, AwakeInv, InRound, Checking, LiveJobs, schedVars, jobVars,
              history
<1> QED BY <1>2, <1>3, <1>4, <1>5 DEF SchedInv

-----------------------------------------------------------------------------
(* The steps of the scheduler.                                             *)

\* The entries of a round are entries in use, each in one place.
LEMMA RoundFacts ==
  ASSUME SchedInv, InRound
  PROVE  /\ running \in Nat /\ queue_len \in Nat /\ running <= queue_len /\ running <= ncpu
         /\ k \in 1..(running + 1)
         /\ queue \in [1..queue_len -> Jobs] /\ Increasing(queue, queue_len)
         /\ \A n \in 1..queue_len : queue[n] <= job_count
         /\ \A n \in 1..running : n \in 1..queue_len
         /\ \A m, n \in 1..queue_len : queue[m] = queue[n] => m = n
<1> USE SchedulerAssumption
<1>1. /\ running \in Nat /\ queue_len \in Nat /\ k \in Nat \ {0}
      /\ queue \in Seq(Jobs) /\ Len(queue) = queue_len /\ Increasing(queue, queue_len)
      /\ running <= ncpu /\ running <= queue_len /\ k <= running + 1
      /\ \A n \in 1..queue_len : queue[n] <= job_count
  BY DEF SchedInv, SchedulerTypeOK, QueueInv
<1>2. queue \in [1..queue_len -> Jobs]
  BY <1>1
<1>3. \A n \in 1..queue_len : queue[n] \in Nat
  BY <1>2 DEF Jobs
<1>4. ASSUME NEW m \in 1..queue_len, NEW n \in 1..queue_len, queue[m] = queue[n] PROVE m = n
  <2>1. ~(m < n) /\ ~(n < m)
    BY <1>1, <1>3, <1>4 DEF Increasing
  <2> QED BY <2>1, <1>1
<1> QED BY <1>1, <1>2, <1>4

\* A signal to the entry of a resumed job reaches it; one to the entry of another job
\* reaches that job at most, or every job, through 0 or -1.  Only the last entry holds 0.
LEMMA SignalReaches ==
  ASSUME SchedInv
  PROVE  /\ \A j \in resumed \cap LiveJobs : j \in Targets(pid[j])
         /\ \A j \in Jobs : pid[j] # ForkFailed /\ j \in Targets(pid[j]) =>
              run[j] # "none" /\ pid[j] \in {NoPid, j}
         /\ \A j \in Jobs : j <= job_count /\ pid[j] = NoPid => j = job_count
         /\ \A j, i \in Jobs : pid[j] \notin {NoPid, ForkFailed} /\ i \in Targets(pid[j]) =>
              i = j
         /\ Targets(ForkFailed) \cap Jobs = LiveJobs
<1> USE SchedulerAssumption
<1>1. \A j \in Jobs : j # NoPid /\ j # ForkFailed /\ j # Stale /\ j # Shell /\ j # Scheduler
  BY DEF Jobs, NoPid, ForkFailed, Stale, Shell, Scheduler
<1>2. NoPid # ForkFailed /\ Stale # NoPid /\ Stale # ForkFailed
  BY DEF NoPid, ForkFailed, Stale
<1>3. \A j \in Jobs : pid[j] \in {NoPid, ForkFailed, Stale, j}
  BY DEF SchedInv, TableInv, OldPids
<1>4. LiveJobs \subseteq Jobs
  BY DEF LiveJobs
<1>5. ASSUME NEW j \in resumed \cap LiveJobs PROVE j \in Targets(pid[j])
  <2>1. pid[j] \in {NoPid, j} /\ j \in Jobs
    BY <1>4 DEF SchedInv, ResumedInv
  <2> QED BY <2>1, <1>1, <1>2 DEF Targets
<1>6. ASSUME NEW j \in Jobs, pid[j] # ForkFailed, j \in Targets(pid[j])
      PROVE  run[j] # "none" /\ pid[j] \in {NoPid, j}
  <2>1. CASE pid[j] = Stale
    BY <2>1, <1>1, <1>2, <1>6 DEF Targets
  <2>2. j \in LiveJobs
    BY <1>1, <1>2, <1>3, <1>6 DEF Targets
  <2> QED BY <2>1, <2>2, <1>3, <1>6 DEF LiveJobs
<1>7. ASSUME NEW j \in Jobs, j <= job_count, pid[j] = NoPid PROVE j = job_count
  <2>1. Unnamed(j)
    BY <1>7, <1>1, <1>2 DEF SchedInv, TableInv
  <2> QED BY <2>1, <1>7 DEF Unnamed, Jobs, SchedInv, SchedulerTypeOK
<1>8. ASSUME NEW j \in Jobs, NEW i \in Jobs, pid[j] \notin {NoPid, ForkFailed},
             i \in Targets(pid[j])
      PROVE  i = j
  <2>1. Stale \notin Jobs
    BY <1>1
  <2>2. i \in {pid[j]} \cap LiveJobs
    BY <1>8 DEF Targets
  <2> QED BY <2>1, <2>2, <1>3, <1>8
<1>9. Targets(ForkFailed) \cap Jobs = LiveJobs
  BY <1>1, <1>2, <1>4 DEF Targets
<1> QED BY <1>5, <1>6, <1>7, <1>8, <1>9

LEMMA TestKeeps == SchedInv /\ Test => SchedInv'
<1> SUFFICES ASSUME SchedInv, Test PROVE SchedInv'
  OBVIOUS
<1> USE SchedulerAssumption
<1>1. /\ sched = "test"
      /\ \/ sched' = "build" /\ queue' = <<>> /\ queue_len' = 0 /\ k' = 1
         \/ sched' = "exited" /\ ~(queue_len > 0) /\ UNCHANGED <<queue, queue_len, k>>
      /\ UNCHANGED <<shm, shell, child, running, new_len, jobVars, history>>
  BY DEF Test, SchedRuns
<1>2. ~InRound /\ ~InRound' /\ job_count \in Nat /\ queue_len \in Nat
  BY <1>1 DEF InRound, Checking, SchedInv, SchedulerTypeOK
<1>3. SchedulerTypeOK'
  <2>1. queue' \in Seq(Jobs) /\ queue_len' \in Nat /\ k' \in Nat \ {0}
    <3>1. CASE sched' = "build"
      <4>1. queue' = <<>> /\ queue_len' = 0 /\ k' = 1
        BY <3>1, <1>1
      <4> QED BY <4>1
    <3>2. CASE sched' # "build"
      BY <3>2, <1>1 DEF SchedInv, SchedulerTypeOK
    <3> QED BY <3>1, <3>2
  <2>2. sched' \in {"test", "build", "exited"}
    BY <1>1
  <2> QED BY <2>1, <2>2, <1>1 DEF SchedInv, SchedulerTypeOK, shm, jobVars, history
<1>4. TableInv' /\ ResumedInv'
  BY <1>1 DEF SchedInv, TableInv, ResumedInv, Unnamed, shm, jobVars, history
<1>5. MarkedInv'
  BY <1>1, <1>2 DEF SchedInv, MarkedInv, shm, history
<1>6. QueueInv'
  BY <1>1, <1>2 DEF QueueInv, Increasing, shm
<1>7. ReadyInv'
  <2>1. \A j \in resumed \cap LiveJobs : j \in Nat /\ ~(j < 1)
    BY DEF LiveJobs, Jobs
  <2>2. \A j \in resumed \cap LiveJobs : state[j] = 0 /\ queue_len > 0
    BY <1>1 DEF SchedInv, ReadyInv
  <2>3. resumed' = resumed /\ LiveJobs' = LiveJobs /\ state' = state
    BY <1>1 DEF LiveJobs, shm, jobVars, history
  <2> QED BY <2>1, <2>2, <2>3, <1>1, <1>2 DEF ReadyInv
<1>8. AwakeInv'
  BY <1>1, <1>2 DEF SchedInv, AwakeInv, jobVars, history
<1> QED BY <1>3, <1>4, <1>5, <1>6, <1>7, <1>8 DEF SchedInv

\* One turn of the loop: the entry is queued if it is ready, and a live job that was given
\* a quantum is.
LEMMA BuildKeeps == SchedInv /\ Build => SchedInv'
<1> SUFFICES ASSUME SchedInv, Build PROVE SchedInv'
  OBVIOUS
<1> USE SchedulerAssumption
<1>1. /\ sched = "build" /\ sched' = "build" /\ k <= job_count /\ k' = k + 1
      /\ \/ state[k] = 0 /\ queue' = Append(queue, k) /\ queue_len' = queue_len + 1
         \/ state[k] # 0 /\ queue' = queue /\ queue_len' = queue_len
      /\ UNCHANGED <<shm, shell, child, running, new_len, jobVars, history>>
  BY DEF Build, SchedRuns
<1>2. /\ ~InRound /\ ~InRound'
      /\ k \in Jobs /\ k \in Nat /\ job_count \in Nat /\ queue_len \in Nat
      /\ queue \in Seq(Jobs) /\ Len(queue) = queue_len /\ Increasing(queue, queue_len)
      /\ \A n \in 1..queue_len : queue[n] \in Jobs /\ queue[n] <= job_count /\ queue[n] < k
  BY <1>1 DEF InRound, Checking, SchedInv, SchedulerTypeOK, QueueInv, Jobs
<1>3. /\ queue' \in Seq(Jobs) /\ Len(queue') = queue_len' /\ queue_len' \in Nat
      /\ queue_len <= queue_len' /\ queue_len' <= queue_len + 1
      /\ \A n \in 1..queue_len : queue'[n] = queue[n]
      /\ queue_len' = queue_len + 1 => queue'[queue_len + 1] = k /\ state[k] = 0
      /\ state[k] = 0 => queue_len' = queue_len + 1
  <2>1. CASE state[k] = 0
    <3>1. queue' = Append(queue, k) /\ queue_len' = queue_len + 1
      BY <2>1, <1>1
    <3>2. /\ Append(queue, k) \in Seq(Jobs) /\ Len(Append(queue, k)) = queue_len + 1
          /\ \A n \in 1..queue_len : Append(queue, k)[n] = queue[n]
          /\ Append(queue, k)[queue_len + 1] = k
      BY <1>2
    <3> QED BY <3>1, <3>2, <2>1, <1>2
  <2>2. CASE state[k] # 0
    <3>1. queue' = queue /\ queue_len' = queue_len
      BY <2>2, <1>1
    <3> QED BY <3>1, <2>2, <1>2
  <2> QED BY <2>1, <2>2
<1>4. ASSUME NEW n \in 1..queue_len'
      PROVE  n \in 1..queue_len \/ (n = queue_len + 1 /\ queue_len' = queue_len + 1)
  <2>1. queue_len \in Nat /\ queue_len' \in Nat /\ queue_len' <= queue_len + 1
    BY <1>2, <1>3
  <2> QED BY <2>1
<1>5. SchedulerTypeOK'
  <2>1. k' \in Nat \ {0}
    BY <1>1, <1>2
  <2> QED BY <2>1, <1>1, <1>3 DEF SchedInv, SchedulerTypeOK, shm, jobVars, history
<1>6. TableInv' /\ ResumedInv'
  BY <1>1 DEF SchedInv, TableInv, ResumedInv, Unnamed, shm, jobVars, history
<1>7. MarkedInv'
  BY <1>1, <1>2 DEF SchedInv, MarkedInv, shm, history
<1>8. QueueInv'
  <2>1. ASSUME NEW n \in 1..queue_len' PROVE queue'[n] <= job_count /\ queue'[n] < k'
    <3>1. CASE n \in 1..queue_len
      BY <3>1, <1>1, <1>2, <1>3 DEF Jobs
    <3>2. CASE n = queue_len + 1 /\ queue_len' = queue_len + 1
      BY <3>2, <1>1, <1>2, <1>3
    <3> QED BY <3>1, <3>2, <1>4
  <2>2. ASSUME NEW x \in 1..queue_len', NEW y \in 1..queue_len', x < y
        PROVE  queue'[x] < queue'[y]
    <3>1. x \in 1..queue_len
      BY <2>2, <1>2, <1>3
    <3>2. CASE y \in 1..queue_len
      BY <2>2, <3>1, <3>2, <1>2, <1>3 DEF Increasing
    <3>3. CASE y = queue_len + 1 /\ queue_len' = queue_len + 1
      BY <3>1, <3>3, <1>2, <1>3
    <3> QED BY <3>2, <3>3, <1>4
  <2>3. Increasing(queue', queue_len')
    BY <2>2 DEF Increasing
  <2>4. k' <= job_count + 1
    BY <1>1, <1>2
  <2>5. job_count' = job_count
    BY <1>1 DEF shm
  <2> QED BY <2>1, <2>3, <2>4, <2>5, <1>1, <1>2, <1>3 DEF QueueInv
<1>9. ReadyInv'
  <2>1. resumed' = resumed /\ LiveJobs' = LiveJobs /\ state' = state
    BY <1>1 DEF LiveJobs, shm, jobVars, history
  <2>2. ASSUME NEW j \in resumed \cap LiveJobs
        PROVE  state[j] = 0 /\ (j < k' => \E n \in 1..queue_len' : queue'[n] = j)
    <3>1. j \in Jobs /\ state[j] = 0 /\ (j < k => \E n \in 1..queue_len : queue[n] = j)
      BY <1>1 DEF SchedInv, ReadyInv, LiveJobs
    <3>2. CASE j = k
      <4>1. queue_len' = queue_len + 1 /\ queue'[queue_len + 1] = j
        BY <3>1, <3>2, <1>3
      <4> QED BY <4>1, <3>1, <1>2
    <3>3. CASE j < k
      <4>1. PICK n \in 1..queue_len : queue[n] = j
        BY <3>1, <3>3
      <4>2. n \in 1..queue_len' /\ queue'[n] = j
        BY <4>1, <1>2, <1>3
      <4> QED BY <4>2, <3>1
    <3>4. j < k' => j = k \/ j < k
      BY <3>1, <1>1, <1>2 DEF Jobs
    <3> QED BY <3>1, <3>2, <3>3, <3>4
  <2> QED BY <2>1, <2>2, <1>1, <1>2 DEF ReadyInv
<1>10. AwakeInv'
  BY <1>1, <1>2 DEF SchedInv, AwakeInv, jobVars, history
<1> QED BY <1>5, <1>6, <1>7, <1>8, <1>9, <1>10 DEF SchedInv

\* The queue is complete: every live job that was given a quantum is in it.
LEMMA BuildEndKeeps == SchedInv /\ BuildEnd => SchedInv'
<1> SUFFICES ASSUME SchedInv, BuildEnd PROVE SchedInv'
  OBVIOUS
<1> USE SchedulerAssumption
<1>1. /\ sched = "build" /\ k > job_count
      /\ running' = Pick(queue_len) /\ new_len' = 0 /\ k' = 1
      /\ sched' = IF queue_len = 0 THEN "test" ELSE "resume"
      /\ UNCHANGED <<shm, shell, child, queue, queue_len, jobVars, history>>
  BY DEF BuildEnd, SchedRuns
<1>2. /\ ~InRound /\ ~Checking' /\ job_count \in Nat /\ queue_len \in Nat /\ k \in Nat
      /\ running' \in Nat /\ running' <= ncpu /\ running' <= queue_len
  BY <1>1 DEF InRound, Checking, Pick, SchedInv, SchedulerTypeOK
<1>3. SchedulerTypeOK'
  BY <1>1, <1>2 DEF SchedInv, SchedulerTypeOK, InRound, shm, jobVars, history
<1>4. TableInv' /\ ResumedInv'
  BY <1>1 DEF SchedInv, TableInv, ResumedInv, Unnamed, shm, jobVars, history
<1>5. MarkedInv'
  BY <1>1, <1>2 DEF SchedInv, MarkedInv, shm, history
<1>6. QueueInv'
  <2>1. k' <= running' + 1 /\ sched' \in {"test", "resume"}
    BY <1>1, <1>2
  <2>2. Len(queue) = queue_len /\ Increasing(queue, queue_len)
        /\ \A n \in 1..queue_len : queue[n] <= job_count
    BY <1>1 DEF SchedInv, QueueInv
  <2>3. queue' = queue /\ queue_len' = queue_len /\ job_count' = job_count
    BY <1>1 DEF shm
  <2>4. (Len(queue) = queue_len /\ Increasing(queue, queue_len))'
    BY <2>2, <2>3 DEF Increasing
  <2> QED BY <2>1, <2>2, <2>3, <2>4, <1>2 DEF QueueInv, InRound
<1>7. ReadyInv'
  <2>1. resumed' = resumed /\ LiveJobs' = LiveJobs /\ state' = state
    BY <1>1 DEF LiveJobs, shm, jobVars, history
  <2>2. ASSUME NEW j \in resumed \cap LiveJobs
        PROVE  state[j] = 0 /\ queue_len > 0 /\ \E n \in 1..queue_len : queue[n] = j
    <3>1. j \in Jobs /\ j <= job_count
      BY DEF SchedInv, ResumedInv, LiveJobs
    <3>2. j < k
      BY <3>1, <1>1, <1>2 DEF Jobs
    <3>3. state[j] = 0 /\ \E n \in 1..queue_len : queue[n] = j
      BY <3>2, <1>1 DEF SchedInv, ReadyInv
    <3> QED BY <3>3, <1>2
  <2> QED BY <2>1, <2>2, <1>1, <1>2 DEF ReadyInv
<1>8. AwakeInv'
  BY <1>1, <1>2 DEF SchedInv, AwakeInv, jobVars, history
<1> QED BY <1>3, <1>4, <1>5, <1>6, <1>7, <1>8 DEF SchedInv

\* SIGCONT.  To 0 it comes from the last entry of the table: then this is the last of the
\* queue, and all who were ever given a quantum are in this one.
LEMMA ResumeKeeps == SchedInv /\ Resume => SchedInv'
<1> SUFFICES ASSUME SchedInv, Resume PROVE SchedInv'
  OBVIOUS
<1> USE SchedulerAssumption
<1>1. /\ sched = "resume" /\ sched' \in {"mark", "quantum"}
      /\ UNCHANGED <<shm, shell, child, queue, queue_len, running, new_len, run>>
      /\ InRound /\ InRound' /\ ~Checking /\ ~Checking'
  BY DEF Resume, SchedRuns, SIGCONT, jobVars, InRound, Checking
<1>2. /\ k \in 1..(running + 1) /\ running \in Nat /\ queue_len \in Nat /\ k \in Nat
      /\ running <= queue_len /\ Increasing(queue, queue_len)
      /\ \A n \in 1..queue_len : queue[n] \in Jobs /\ queue[n] <= job_count
      /\ job_count \in Nat
  BY <1>1, RoundFacts DEF SchedInv, SchedulerTypeOK
<1>3. LiveJobs' = LiveJobs /\ LiveJobs \subseteq Jobs /\ resumed \subseteq Jobs
  BY <1>1 DEF LiveJobs, SchedInv, SchedulerTypeOK
<1>4. TableInv'
  BY <1>1 DEF SchedInv, TableInv, Unnamed, shm
<1>5. CASE k > running
  <2>1. sched' = "quantum" /\ k' = 1 /\ UNCHANGED <<jobVars, history>>
    BY <1>2, <1>5 DEF Resume
  <2>2. SchedulerTypeOK'
    BY <2>1, <1>1 DEF SchedInv, SchedulerTypeOK, shm, jobVars, history
  <2>3. ResumedInv' /\ MarkedInv'
    BY <2>1, <1>1 DEF SchedInv, ResumedInv, MarkedInv, shm, jobVars, history
  <2>4. QueueInv'
    <3>1. k' <= running + 1
      BY <2>1, <1>2
    <3> QED BY <3>1, <2>1, <1>1 DEF SchedInv, QueueInv, shm, history
  <2>5. ReadyInv' /\ AwakeInv'
    BY <2>1, <1>1, <1>3 DEF SchedInv, ReadyInv, AwakeInv, shm, jobVars, history
  <2> QED BY <2>2, <2>3, <2>4, <2>5, <1>4 DEF SchedInv
<1>6. CASE k <= running
  <2> DEFINE e == queue[k]
  <2>1. /\ e \in Jobs /\ e <= job_count /\ k \in 1..running /\ k \in 1..queue_len
    BY <1>2, <1>6
  <2>2. /\ sched' = "mark" /\ k' = k
        /\ stopped' = [x \in DOMAIN stopped |-> IF x \in Targets(pid[e]) THEN FALSE ELSE stopped[x]]
        /\ woken' = IF pid[e] = ForkFailed THEN woken \cup LiveJobs ELSE woken \ Targets(pid[e])
        /\ resumed' = IF pid[e] = ForkFailed THEN resumed
                      ELSE resumed \cup ({e} \cap Targets(pid[e]))
    BY <1>2, <1>6 DEF Resume, SIGCONT
  <2>3. /\ resumed \subseteq resumed'
        /\ \A j \in resumed' : j \in resumed \/
              (j = e /\ run[e] # "none" /\ pid[e] \in {NoPid, e})
    BY <2>1, <2>2, SignalReaches
  <2> HIDE DEF e
  <2>4. SchedulerTypeOK'
    <3>1. stopped' \in [Shell..Scheduler -> BOOLEAN]
      BY <2>2 DEF SchedInv, SchedulerTypeOK
    <3>2. resumed' \in SUBSET Jobs
      BY <2>1, <2>3, <1>3
    <3>3. woken' \in SUBSET Jobs
      BY <2>2, <1>3 DEF SchedInv, SchedulerTypeOK
    <3> QED BY <3>1, <3>2, <3>3, <2>2, <1>1 DEF SchedInv, SchedulerTypeOK, shm
  <2>5. ResumedInv'
    BY <2>1, <2>3, <1>1 DEF SchedInv, ResumedInv, shm
  <2>6. MarkedInv'
    <3>1. ASSUME NEW j \in Jobs, j <= job_count, state[j] = 1
          PROVE  \/ \E n \in 1..running : queue[n] = j
                 \/ j = job_count /\ shell \in {"pid", "ready"} /\ j \notin resumed'
      <4>1. CASE j = e
        BY <4>1, <2>1 DEF e
      <4>2. CASE j # e
        <5>1. j \in resumed' => j \in resumed
          BY <4>2, <2>3
        <5>2. MarkedInv
          BY DEF SchedInv
        <5> QED BY <5>1, <5>2, <3>1 DEF MarkedInv
      <4> QED BY <4>1, <4>2
    <3> QED BY <3>1, <2>2, <1>1 DEF MarkedInv, shm
  <2>7. QueueInv'
    BY <2>2, <1>1, <1>6 DEF SchedInv, QueueInv, shm
  <2>8. ASSUME NEW j \in resumed' \cap LiveJobs
        PROVE  \E n \in 1..queue_len : queue[n] = j /\ (n > running => state[j] = 0)
    <3>1. CASE j \in resumed
      BY <2>8, <3>1, <1>1 DEF SchedInv, ReadyInv
    <3>2. CASE j = e
      <4>1. ~(k > running)
        BY <1>2, <1>6
      <4> QED BY <4>1, <3>2, <2>1 DEF e
    <3> QED BY <3>1, <3>2, <2>3, <2>8
  <2>9. ReadyInv'
    BY <2>2, <2>8, <1>1, <1>3 DEF ReadyInv, shm
  <2>10. AwakeInv'
    <3> SUFFICES ASSUME NEW j \in resumed' \ woken', run[j] = "running", ~stopped'[j]
                 PROVE  \E n \in 1..running : queue[n] = j
      BY <2>2, <1>1 DEF AwakeInv
    <3>1. j \in Jobs /\ j \in LiveJobs
      BY <2>4 DEF SchedulerTypeOK, LiveJobs
    <3>2. j \in DOMAIN stopped
      BY <3>1 DEF SchedInv, SchedulerTypeOK, Jobs, Shell, Scheduler
    <3>3. pid[e] # ForkFailed
      BY <3>1, <2>2
    <3>4. CASE j = e
      BY <3>4, <2>1 DEF e
    <3>5. CASE j # e /\ pid[e] = NoPid
      <4>1. e = job_count
        BY <3>5, <2>1, SignalReaches
      <4>2. PICK n \in 1..queue_len : queue[n] = j
        BY <3>1, <2>8
      <4>3. ~(k < n)
        <5>1. k < n => e < queue[n]
          BY <2>1, <1>2 DEF Increasing, e
        <5> QED BY <5>1, <4>1, <1>2, <2>1 DEF Jobs
      <4>4. n \in 1..running
        BY <4>3, <2>1, <1>2
      <4> QED BY <4>2, <4>4
    <3>6. CASE j # e /\ pid[e] # NoPid
      <4>1. j \notin Targets(pid[e])
        BY <3>1, <3>3, <3>6, <2>1, SignalReaches
      <4>2. j \in resumed \ woken /\ ~stopped[j]
        BY <4>1, <3>2, <3>3, <3>6, <2>2, <2>3
      <4>3. AwakeInv
        BY DEF SchedInv
      <4> QED BY <4>2, <4>3 DEF AwakeInv
    <3> QED BY <3>4, <3>5, <3>6
  <2> QED BY <2>4, <2>5, <2>6, <2>7, <2>9, <2>10, <1>4 DEF SchedInv
<1> QED BY <1>2, <1>5, <1>6

\* The entry is marked in its place of the quantum.
LEMMA MarkKeeps == SchedInv /\ Mark => SchedInv'
<1> SUFFICES ASSUME SchedInv, Mark PROVE SchedInv'
  OBVIOUS
<1> USE SchedulerAssumption
<1>1. /\ sched = "mark" /\ sched' = "resume" /\ k' = k + 1
      /\ state' = [state EXCEPT ![queue[k]] = 1]
      /\ UNCHANGED <<job_count, pid, scheduler_running, shell, child, queue, queue_len, running,
                     new_len, jobVars, history>>
      /\ InRound /\ InRound' /\ ~Checking /\ ~Checking'
  BY DEF Mark, SchedRuns, InRound, Checking
<1>2. /\ k \in 1..running /\ running \in Nat /\ queue_len \in Nat /\ k \in 1..queue_len
      /\ queue[k] \in Jobs /\ k \in Nat
      /\ \A j \in Jobs : state'[j] = IF j = queue[k] THEN 1 ELSE state[j]
  <2>1. k <= running
    BY <1>1 DEF SchedInv, QueueInv
  <2>2. k \in 1..running /\ queue[k] \in Jobs
    BY <2>1, <1>1, RoundFacts
  <2> QED BY <2>2, <1>1, RoundFacts DEF SchedInv, SchedulerTypeOK
<1>3. SchedulerTypeOK'
  BY <1>1, <1>2 DEF SchedInv, SchedulerTypeOK, jobVars, history
<1>4. TableInv' /\ ResumedInv'
  BY <1>1 DEF SchedInv, TableInv, ResumedInv, Unnamed, jobVars, history
<1>5. MarkedInv'
  <2>1. ASSUME NEW j \in Jobs, j <= job_count, state'[j] = 1
        PROVE  \/ \E n \in 1..running : queue[n] = j
               \/ j = job_count /\ shell \in {"pid", "ready"} /\ j \notin resumed
    <3>1. CASE j = queue[k]
      BY <3>1, <1>2
    <3>2. CASE j # queue[k]
      <4>1. MarkedInv /\ state[j] = 1
        BY <3>2, <2>1, <1>2 DEF SchedInv
      <4> QED BY <4>1, <2>1 DEF MarkedInv
    <3> QED BY <3>1, <3>2
  <2> QED BY <2>1, <1>1 DEF MarkedInv, history
<1>6. QueueInv'
  <2>1. k' <= running + 1
    BY <1>1, <1>2
  <2> QED BY <2>1, <1>1 DEF SchedInv, QueueInv, Increasing, history
<1>7. ReadyInv'
  <2>1. ASSUME NEW j \in resumed \cap LiveJobs
        PROVE  \E n \in 1..queue_len : queue[n] = j /\ (n > running => state'[j] = 0)
    <3>1. PICK n \in 1..queue_len : queue[n] = j /\ (n > running => state[j] = 0)
      BY <1>1 DEF SchedInv, ReadyInv
    <3>2. n > running => queue[n] # queue[k]
      BY <1>1, <1>2, RoundFacts
    <3>3. j \in Jobs
      BY DEF LiveJobs
    <3> QED BY <3>1, <3>2, <3>3, <1>2
  <2>2. resumed' = resumed /\ LiveJobs' = LiveJobs
    BY <1>1 DEF LiveJobs, jobVars, history
  <2> QED BY <2>1, <2>2, <1>1 DEF ReadyInv
<1>8. AwakeInv'
  BY <1>1 DEF SchedInv, AwakeInv, jobVars, history
<1> QED BY <1>3, <1>4, <1>5, <1>6, <1>7, <1>8 DEF SchedInv

LEMMA QuantumEndKeeps == SchedInv /\ QuantumEnd => SchedInv'
<1> SUFFICES ASSUME SchedInv, QuantumEnd PROVE SchedInv'
  OBVIOUS
<1>1. /\ sched = "quantum" /\ sched' = "check" /\ k = 1 /\ InRound /\ InRound'
      /\ UNCHANGED <<shm, shell, child, queue, queue_len, k, running, new_len, jobVars, history>>
  BY DEF QuantumEnd, SchedRuns, InRound, Checking, SchedInv, QueueInv
<1>2. SchedulerTypeOK'
  BY <1>1 DEF SchedInv, SchedulerTypeOK, shm, jobVars, history
<1>3. TableInv' /\ ResumedInv'
  BY <1>1 DEF SchedInv, TableInv, ResumedInv, Unnamed, shm, jobVars, history
<1>4. queue_len \in Nat /\ running \in Nat
  BY DEF SchedInv, SchedulerTypeOK
<1>5. MarkedInv'
  <2>1. \A n \in 1..running : n >= 1
    BY <1>4
  <2> QED BY <2>1, <1>1 DEF SchedInv, MarkedInv, shm, history
<1>6. QueueInv'
  BY <1>1 DEF SchedInv, QueueInv, Increasing, shm, history
<1>7. ReadyInv'
  <2>1. \A n \in 1..queue_len : ~(n < 1)
    BY <1>4
  <2> QED BY <2>1, <1>1 DEF SchedInv, ReadyInv, LiveJobs, shm, jobVars, history
<1>8. AwakeInv'
  <2>1. \A n \in 1..running : n >= 1
    BY <1>4
  <2> QED BY <2>1, <1>1 DEF SchedInv, AwakeInv, jobVars, history
<1> QED BY <1>2, <1>3, <1>5, <1>6, <1>7, <1>8 DEF SchedInv

\* The loop after the quantum goes to the next job, or it has seen them all: then each
\* is ready again or gone, and none is awake.
LEMMA CheckKeeps == SchedInv /\ Check => SchedInv'
<1> SUFFICES ASSUME SchedInv, Check PROVE SchedInv'
  OBVIOUS
<1> USE SchedulerAssumption
<1>1. /\ sched = "check" /\ InRound /\ Checking
      /\ UNCHANGED <<shm, shell, child, queue, k, running, new_len, jobVars, history>>
  BY DEF Check, SchedRuns, InRound, Checking
<1>2. /\ running \in Nat /\ queue_len \in Nat /\ running <= queue_len
      /\ k \in 1..(running + 1) /\ k \in Nat /\ new_len \in Nat
  BY <1>1, RoundFacts DEF SchedInv, SchedulerTypeOK
<1>3. TableInv' /\ ResumedInv'
  BY <1>1 DEF SchedInv, TableInv, ResumedInv, Unnamed, shm, jobVars, history
<1>4. resumed' = resumed /\ LiveJobs' = LiveJobs
  BY <1>1 DEF LiveJobs, jobVars, history
<1>5. CASE k <= running
  <2>1. /\ sched' \in {"finish", "stop"} /\ queue_len' = queue_len
        /\ sched' = "finish" => pid[queue[k]] = ForkFailed \/ ~scheduler_running
    BY <1>2, <1>5 DEF Check, waitpid, ForkFailed
  <2>2. InRound' /\ Checking'
    BY <2>1 DEF InRound, Checking
  <2>3. SchedulerTypeOK'
    BY <2>1, <2>2, <1>1 DEF SchedInv, SchedulerTypeOK, shm, jobVars, history
  <2>4. MarkedInv'
    BY <2>1, <2>2, <1>1 DEF SchedInv, MarkedInv, shm, history
  <2>5. QueueInv'
    <3>1. sched' = "finish" => queue[k] \notin resumed \/ ~scheduler_running
      <4>1. \A j \in resumed : j \in Jobs /\ pid[j] \in {NoPid, j}
        BY DEF SchedInv, ResumedInv, SchedulerTypeOK
      <4>2. NoPid # ForkFailed /\ \A j \in Jobs : j # ForkFailed
        BY DEF NoPid, ForkFailed, Jobs
      <4> QED BY <4>1, <4>2, <2>1
    <3> QED BY <3>1, <2>1, <2>2, <1>1, <1>5 DEF SchedInv, QueueInv, Increasing, shm, history
  <2>6. ReadyInv' /\ AwakeInv'
    BY <2>1, <2>2, <1>1, <1>4 DEF SchedInv, ReadyInv, AwakeInv, shm, jobVars, history
  <2> QED BY <2>3, <2>4, <2>5, <2>6, <1>3 DEF SchedInv
<1>6. CASE k > running
  <2>1. sched' = "test" /\ queue_len' = new_len + (queue_len - running) /\ queue_len' \in Nat
    BY <1>2, <1>6 DEF Check
  <2>2. ~InRound' /\ ~Checking' /\ \A n \in 1..running : ~(n >= k)
    BY <2>1, <1>2, <1>6 DEF InRound, Checking
  <2>3. SchedulerTypeOK'
    BY <2>1, <1>1, <1>2 DEF SchedInv, SchedulerTypeOK, shm, jobVars, history
  <2>4. MarkedInv'
    BY <2>1, <2>2, <1>1 DEF SchedInv, MarkedInv, shm, history
  <2>5. QueueInv'
    BY <2>1, <2>2 DEF QueueInv
  <2>6. ReadyInv'
    <3>1. ASSUME NEW j \in resumed \cap LiveJobs PROVE state[j] = 0 /\ queue_len' > 0
      <4>1. PICK n \in 1..queue_len : /\ n > running => state[j] = 0
                                      /\ n < k => state[j] = 0 /\ new_len > 0
        BY <1>1 DEF SchedInv, ReadyInv
      <4>2. n > running \/ n < k
        BY <1>2, <1>6
      <4>3. n > running => queue_len > running
        BY <1>2
      <4>4. new_len > 0 \/ queue_len > running => queue_len' > 0
        BY <2>1, <1>2
      <4> QED BY <4>1, <4>2, <4>3, <4>4
    <3>2. state' = state
      BY <1>1 DEF shm
    <3> QED BY <3>1, <3>2, <2>1, <2>2, <1>4 DEF ReadyInv
  <2>7. AwakeInv'
    BY <2>1, <2>2, <1>1 DEF SchedInv, AwakeInv, jobVars, history
  <2> QED BY <2>3, <2>4, <2>5, <2>6, <2>7, <1>3 DEF SchedInv
<1> QED BY <1>2, <1>5, <1>6

\* SIGSTOP reaches the entry's job, if that was ever given a quantum.
LEMMA StopKeeps == SchedInv /\ Stop => SchedInv'
<1> SUFFICES ASSUME SchedInv, Stop PROVE SchedInv'
  OBVIOUS
<1> USE SchedulerAssumption
<1>1. /\ sched = "stop" /\ sched' = "requeue" /\ InRound /\ InRound' /\ Checking /\ Checking'
      /\ stopped' = [x \in DOMAIN stopped |->
                       IF x \in Targets(pid[queue[k]]) THEN TRUE ELSE stopped[x]]
      /\ woken' = woken \ Targets(pid[queue[k]])
      /\ UNCHANGED <<shm, shell, child, queue, queue_len, k, running, new_len, run, resumed>>
  BY DEF Stop, SchedRuns, InRound, Checking, SIGSTOP
<1>2. LiveJobs' = LiveJobs
  BY <1>1 DEF LiveJobs
<1>3. SchedulerTypeOK'
  <2>1. stopped' \in [Shell..Scheduler -> BOOLEAN]
    BY <1>1 DEF SchedInv, SchedulerTypeOK
  <2> QED BY <2>1, <1>1 DEF SchedInv, SchedulerTypeOK, shm
<1>4. TableInv' /\ ResumedInv'
  BY <1>1 DEF SchedInv, TableInv, ResumedInv, Unnamed, shm
<1>5. MarkedInv'
  BY <1>1 DEF SchedInv, MarkedInv, shm
<1>6. QueueInv'
  BY <1>1 DEF SchedInv, QueueInv, Increasing, shm
<1>7. ReadyInv'
  BY <1>1, <1>2 DEF SchedInv, ReadyInv, shm
<1>8. AwakeInv'
  <2> SUFFICES ASSUME NEW j \in resumed \ woken', run[j] = "running", ~stopped'[j]
               PROVE  \E n \in 1..running : queue[n] = j /\ n >= k /\ n > k
    BY <1>1 DEF AwakeInv
  <2>1. j \in Jobs /\ j \in LiveJobs /\ j \in DOMAIN stopped
    BY DEF SchedInv, SchedulerTypeOK, LiveJobs, Jobs, Shell, Scheduler
  <2>2. j \notin Targets(pid[queue[k]])
    BY <2>1, <1>1
  <2>3. j \in resumed \ woken /\ ~stopped[j]
    BY <2>1, <2>2, <1>1
  <2>4. PICK n \in 1..running : queue[n] = j /\ n >= k
    <3>1. AwakeInv
      BY DEF SchedInv
    <3> QED BY <3>1, <2>3, <1>1 DEF AwakeInv
  <2>5. n # k
    BY <2>1, <2>2, <2>4, SignalReaches
  <2>6. n > k
    BY <2>4, <2>5, <1>1, RoundFacts
  <2> QED BY <2>4, <2>6
<1> QED BY <1>3, <1>4, <1>5, <1>6, <1>7, <1>8 DEF SchedInv

\* Back to ready: the next place.
LEMMA RequeueKeeps == SchedInv /\ Requeue => SchedInv'
<1> SUFFICES ASSUME SchedInv, Requeue PROVE SchedInv'
  OBVIOUS
<1> USE SchedulerAssumption
<1>1. /\ sched = "requeue" /\ sched' = "check" /\ InRound /\ InRound' /\ Checking /\ Checking'
      /\ state' = [state EXCEPT ![queue[k]] = 0]
      /\ k' = k + 1 /\ new_len' = new_len + 1
      /\ UNCHANGED <<job_count, pid, scheduler_running, shell, child, queue, queue_len, running,
                     jobVars, history>>
  BY DEF Requeue, SchedRuns, InRound, Checking
<1>2. /\ k \in 1..running /\ running \in Nat /\ queue_len \in Nat /\ k \in Nat
      /\ new_len \in Nat /\ queue[k] \in Jobs
      /\ \A j \in Jobs : state'[j] = IF j = queue[k] THEN 0 ELSE state[j]
  <2>1. k <= running
    BY <1>1 DEF SchedInv, QueueInv
  <2>2. k \in 1..running /\ queue[k] \in Jobs
    BY <2>1, <1>1, RoundFacts
  <2> QED BY <2>2, <1>1, RoundFacts DEF SchedInv, SchedulerTypeOK
<1>3. SchedulerTypeOK'
  BY <1>1, <1>2 DEF SchedInv, SchedulerTypeOK, jobVars, history
<1>4. TableInv' /\ ResumedInv'
  BY <1>1 DEF SchedInv, TableInv, ResumedInv, Unnamed, jobVars, history
<1>5. \A n \in 1..running : n >= k /\ n # k => n >= k'
  BY <1>1, <1>2
<1>6. MarkedInv'
  <2>1. ASSUME NEW j \in Jobs, j <= job_count, state'[j] = 1
        PROVE  \/ \E n \in 1..running : queue[n] = j /\ n >= k'
               \/ j = job_count /\ shell \in {"pid", "ready"} /\ j \notin resumed
    <3>1. j # queue[k] /\ state[j] = 1 /\ MarkedInv
      BY <2>1, <1>2 DEF SchedInv
    <3> QED BY <3>1, <2>1, <1>1, <1>5 DEF MarkedInv
  <2> QED BY <2>1, <1>1 DEF MarkedInv, history
<1>7. QueueInv'
  <2>1. k' <= running + 1
    BY <1>1, <1>2
  <2> QED BY <2>1, <1>1 DEF SchedInv, QueueInv, Increasing, history
<1>8. ReadyInv'
  <2>1. ASSUME NEW j \in resumed \cap LiveJobs
        PROVE  \E n \in 1..queue_len : /\ queue[n] = j
                                       /\ n > running => state'[j] = 0
                                       /\ n < k' => state'[j] = 0 /\ new_len' > 0
    <3>1. PICK n \in 1..queue_len : /\ queue[n] = j
                                    /\ n > running => state[j] = 0
                                    /\ n < k => state[j] = 0 /\ new_len > 0
      BY <1>1 DEF SchedInv, ReadyInv
    <3>2. new_len' > 0 /\ (n < k' => n < k \/ n = k)
      BY <1>1, <1>2
    <3>3. j \in Jobs
      BY DEF LiveJobs
    <3> QED BY <3>1, <3>2, <3>3, <1>2
  <2>2. resumed' = resumed /\ LiveJobs' = LiveJobs
    BY <1>1 DEF LiveJobs, jobVars, history
  <2> QED BY <2>1, <2>2, <1>1 DEF ReadyInv
<1>9. AwakeInv'
  <2>1. \A n \in 1..running : n > k => n >= k'
    BY <1>1, <1>2
  <2> QED BY <2>1, <1>1 DEF SchedInv, AwakeInv, jobVars, history
<1> QED BY <1>3, <1>4, <1>6, <1>7, <1>8, <1>9 DEF SchedInv

\* The entry is taken out of the queue; with the flag set it is one that was never given
\* a quantum.
LEMMA FinishKeeps == SchedInv /\ Finish => SchedInv'
<1> SUFFICES ASSUME SchedInv, Finish PROVE SchedInv'
  OBVIOUS
<1> USE SchedulerAssumption
<1>1. /\ sched = "finish" /\ sched' = "kill" /\ InRound /\ InRound' /\ Checking /\ Checking'
      /\ state' = [state EXCEPT ![queue[k]] = 2]
      /\ UNCHANGED <<job_count, pid, scheduler_running, shell, child, queue, queue_len, k, running,
                     new_len, jobVars, history>>
  BY DEF Finish, SchedRuns, InRound, Checking
<1>2. /\ k \in 1..running /\ running \in Nat /\ queue_len \in Nat /\ k \in 1..queue_len
      /\ queue[k] \in Jobs /\ k \in Nat
      /\ \A j \in Jobs : state'[j] = IF j = queue[k] THEN 2 ELSE state[j]
  <2>1. k <= running
    BY <1>1 DEF SchedInv, QueueInv
  <2>2. k \in 1..running /\ queue[k] \in Jobs
    BY <2>1, <1>1, RoundFacts
  <2> QED BY <2>2, <1>1, RoundFacts DEF SchedInv, SchedulerTypeOK
<1>3. SchedulerTypeOK'
  BY <1>1, <1>2 DEF SchedInv, SchedulerTypeOK, jobVars, history
<1>4. TableInv' /\ ResumedInv'
  BY <1>1 DEF SchedInv, TableInv, ResumedInv, Unnamed, jobVars, history
<1>5. MarkedInv'
  <2>1. ASSUME NEW j \in Jobs, j <= job_count, state'[j] = 1
        PROVE  \/ \E n \in 1..running : queue[n] = j /\ n >= k /\ n > k
               \/ j = job_count /\ shell \in {"pid", "ready"} /\ j \notin resumed
    <3>1. j # queue[k] /\ state[j] = 1 /\ MarkedInv
      BY <2>1, <1>2 DEF SchedInv
    <3>2. \A n \in 1..running : n >= k /\ n # k => n > k
      BY <1>2
    <3> QED BY <3>1, <3>2, <2>1, <1>1 DEF MarkedInv
  <2> QED BY <2>1, <1>1 DEF MarkedInv, history
<1>6. QueueInv'
  BY <1>1 DEF SchedInv, QueueInv, Increasing, history
<1>7. ReadyInv'
  <2>1. ASSUME NEW j \in resumed \cap LiveJobs
        PROVE  \E n \in 1..queue_len : /\ queue[n] = j
                                       /\ n > running => state'[j] = 0
                                       /\ n < k => state'[j] = 0 /\ new_len > 0
    <3>1. PICK n \in 1..queue_len : /\ queue[n] = j
                                    /\ n > running => state[j] = 0
                                    /\ n < k => state[j] = 0 /\ new_len > 0
      BY <1>1 DEF SchedInv, ReadyInv
    <3>2. n > running \/ n < k => queue[n] # queue[k]
      <4>1. n > running \/ n < k => n # k
        BY <1>2
      <4> QED BY <4>1, <1>1, <1>2, RoundFacts
    <3>3. j \in Jobs
      BY DEF LiveJobs
    <3> QED BY <3>1, <3>2, <3>3, <1>2
  <2>2. resumed' = resumed /\ LiveJobs' = LiveJobs
    BY <1>1 DEF LiveJobs, jobVars, history
  <2> QED BY <2>1, <2>2, <1>1 DEF ReadyInv
<1>8. AwakeInv'
  BY <1>1 DEF SchedInv, AwakeInv, jobVars, history
<1> QED BY <1>3, <1>4, <1>5, <1>6, <1>7, <1>8 DEF SchedInv

\* SIGKILL reaches the entry's job, if that was ever given a quantum.
LEMMA KillKeeps == SchedInv /\ Kill => SchedInv'
<1> SUFFICES ASSUME SchedInv, Kill PROVE SchedInv'
  OBVIOUS
<1> USE SchedulerAssumption
<1>1. /\ sched = "kill" /\ sched' = "check" /\ InRound /\ InRound' /\ Checking /\ Checking'
      /\ k' = k + 1
      /\ stopped' = stopped /\ woken' = woken
      /\ run' = IF scheduler_running THEN run
                ELSE [j \in Jobs |-> IF j \in Targets(pid[queue[k]]) THEN "exited" ELSE run[j]]
      /\ shell' = shell \/ (~scheduler_running /\ shell' = "done")
      /\ UNCHANGED <<shm, child, queue, queue_len, running, new_len, resumed>>
  BY DEF Kill, SchedRuns, InRound, Checking, SIGKILL, jobVars
<1>2. /\ k \in 1..running /\ running \in Nat /\ queue_len \in Nat /\ k \in 1..queue_len
      /\ queue[k] \in Jobs /\ k \in Nat
  <2>1. k <= running
    BY <1>1 DEF SchedInv, QueueInv
  <2>2. k \in 1..running /\ queue[k] \in Jobs
    BY <2>1, <1>1, RoundFacts
  <2> QED BY <2>2, <1>1, RoundFacts DEF SchedInv, SchedulerTypeOK
<1>3. /\ run \in [Jobs -> {"none", "paused", "running", "exited"}]
      /\ \A j \in Jobs : run'[j] = run[j] \/ (j \in LiveJobs /\ run'[j] = "exited")
      /\ run' \in [Jobs -> {"none", "paused", "running", "exited"}]
  <2>1. ASSUME NEW j \in Jobs, j \in Targets(pid[queue[k]]) PROVE j \in LiveJobs
    BY <2>1 DEF Targets, LiveJobs, Jobs, Shell, Scheduler
  <2>2. run \in [Jobs -> {"none", "paused", "running", "exited"}]
    BY DEF SchedInv, SchedulerTypeOK
  <2> QED BY <2>1, <2>2, <1>1
<1>4. /\ LiveJobs' \subseteq LiveJobs
      /\ \A j \in Jobs : run'[j] = "running" => run[j] = "running" /\ j \in LiveJobs'
      /\ \A j \in Jobs : run'[j] = "none" <=> run[j] = "none"
  BY <1>3 DEF LiveJobs
<1>5. queue[k] \notin resumed \cap LiveJobs'
  <2>1. CASE scheduler_running
    BY <2>1, <1>1 DEF SchedInv, QueueInv
  <2>2. CASE ~scheduler_running
    <3>1. queue[k] \in resumed \cap LiveJobs => run'[queue[k]] = "exited"
      BY <2>2, <1>1, <1>2, SignalReaches
    <3> QED BY <3>1, <1>4 DEF LiveJobs
  <2> QED BY <2>1, <2>2
<1>6. SchedulerTypeOK'
  <2>1. k' \in Nat \ {0} /\ shell' \in {"prompt", "count", "pid", "ready", "wait", "done"}
    BY <1>1, <1>2 DEF SchedInv, SchedulerTypeOK
  <2> QED BY <2>1, <1>1, <1>3 DEF SchedInv, SchedulerTypeOK, shm
<1>7. shell' = shell \/ (shell = "wait" /\ shell' = "done")
  BY <1>1 DEF SchedInv, TableInv
<1>8. TableInv'
  <2>1. ~scheduler_running => shell' \in {"wait", "done"}
    BY <1>7 DEF SchedInv, TableInv
  <2>2. job_count < MAX_JOBS => job_count + 1 \in Jobs
    BY DEF SchedInv, SchedulerTypeOK, Jobs
  <2>3. job_count > 0 => job_count \in Jobs
    BY DEF SchedInv, SchedulerTypeOK, Jobs
  <2> QED BY <2>1, <2>2, <2>3, <1>1, <1>4, <1>7 DEF SchedInv, TableInv, Unnamed, shm
<1>9. ResumedInv'
  BY <1>1, <1>4 DEF SchedInv, ResumedInv, SchedulerTypeOK, shm
<1>10. \A n \in 1..queue_len : (n >= k /\ n # k => n >= k') /\ (n < k' => n < k \/ n = k)
                              /\ (n > k => n >= k')
  BY <1>1, <1>2
<1>11. MarkedInv'
  <2>1. ASSUME NEW j \in Jobs, j <= job_count, state[j] = 1
        PROVE  \/ \E n \in 1..running : queue[n] = j /\ n >= k'
               \/ j = job_count /\ shell' \in {"pid", "ready"} /\ j \notin resumed
    <3>1. MarkedInv
      BY DEF SchedInv
    <3>2. \A n \in 1..running : n > k => n >= k'
      BY <1>1, <1>2
    <3> QED BY <3>1, <3>2, <2>1, <1>1, <1>7 DEF MarkedInv
  <2> QED BY <2>1, <1>1 DEF MarkedInv, shm
<1>12. QueueInv'
  <2>1. k' <= running + 1
    BY <1>1, <1>2
  <2> QED BY <2>1, <1>1 DEF SchedInv, QueueInv, Increasing, shm
<1>13. ReadyInv'
  <2>1. ASSUME NEW j \in resumed \cap LiveJobs'
        PROVE  \E n \in 1..queue_len : /\ queue[n] = j
                                       /\ n > running => state[j] = 0
                                       /\ n < k' => state[j] = 0 /\ new_len > 0
    <3>1. PICK n \in 1..queue_len : /\ queue[n] = j
                                    /\ n > running => state[j] = 0
                                    /\ n < k => state[j] = 0 /\ new_len > 0
      BY <2>1, <1>1, <1>4 DEF SchedInv, ReadyInv
    <3>2. n # k
      BY <3>1, <2>1, <1>5
    <3> QED BY <3>1, <3>2, <1>10
  <2> QED BY <2>1, <1>1 DEF ReadyInv, shm
<1>14. AwakeInv'
  <2> SUFFICES ASSUME NEW j \in resumed \ woken, run'[j] = "running", ~stopped[j]
               PROVE  \E n \in 1..running : queue[n] = j /\ n >= k'
    BY <1>1 DEF AwakeInv
  <2>1. j \in Jobs /\ j \in LiveJobs' /\ run[j] = "running"
    BY <1>4 DEF SchedInv, SchedulerTypeOK
  <2>2. PICK n \in 1..running : queue[n] = j /\ n >= k
    <3>1. AwakeInv
      BY DEF SchedInv
    <3> QED BY <3>1, <2>1, <1>1 DEF AwakeInv
  <2>3. n # k
    BY <2>1, <2>2, <1>5
  <2>4. n >= k'
    BY <2>2, <2>3, <1>1, <1>2
  <2> QED BY <2>2, <2>4
<1> QED BY <1>6, <1>8, <1>9, <1>11, <1>12, <1>13, <1>14 DEF SchedInv

-----------------------------------------------------------------------------
(* A job ends by itself; every step; the theorems.                         *)

LEMMA JobEndsKeeps == ASSUME NEW j \in Jobs, SchedInv, JobEnds(j) PROVE SchedInv'
<1>1. /\ run[j] = "running" /\ run' = [run EXCEPT ![j] = "exited"]
      /\ UNCHANGED <<shm, shell, child, schedVars, stopped, history>>
  BY DEF JobEnds
<1>2. /\ run' \in [Jobs -> {"none", "paused", "running", "exited"}]
      /\ \A i \in Jobs : run'[i] = run[i] \/ (run[i] = "running" /\ run'[i] = "exited")
  BY <1>1 DEF SchedInv, SchedulerTypeOK
<1>3. /\ LiveJobs' \subseteq LiveJobs
      /\ \A i \in Jobs : run'[i] = "running" => run[i] = "running"
      /\ \A i \in Jobs : run'[i] = "none" <=> run[i] = "none"
  BY <1>2 DEF LiveJobs
<1>4. resumed \subseteq Jobs
  BY DEF SchedInv, SchedulerTypeOK
<1>5. SchedulerTypeOK'
  BY <1>1, <1>2 DEF SchedInv, SchedulerTypeOK, InRound, Checking, shm, schedVars, history
<1>6. TableInv'
  <2>1. job_count < MAX_JOBS => job_count + 1 \in Jobs
    BY SchedulerAssumption DEF Jobs, SchedInv, SchedulerTypeOK
  <2>2. job_count > 0 => job_count \in Jobs
    BY SchedulerAssumption DEF Jobs, SchedInv, SchedulerTypeOK
  <2> QED BY <2>1, <2>2, <1>1, <1>3 DEF SchedInv, TableInv, Unnamed, shm
<1>7. ResumedInv'
  BY <1>1, <1>3, <1>4 DEF SchedInv, ResumedInv, shm, history
<1>8. MarkedInv' /\ QueueInv'
  BY <1>1 DEF SchedInv, MarkedInv, QueueInv, Increasing, InRound, Checking, shm, schedVars,
              history
<1>9. ReadyInv'
  BY <1>1, <1>3 DEF SchedInv, ReadyInv, InRound, Checking, shm, schedVars, history
<1>10. AwakeInv'
  BY <1>1, <1>3, <1>4 DEF SchedInv, AwakeInv, InRound, Checking, schedVars, history
<1> QED BY <1>5, <1>6, <1>7, <1>8, <1>9, <1>10 DEF SchedInv

LEMMA SchedStep == SchedInv /\ [SchedulerNext]_ssVars => SchedInv'
<1> SUFFICES ASSUME SchedInv, [SchedulerNext]_ssVars PROVE SchedInv'
  OBVIOUS
<1>1. CASE UNCHANGED ssVars
  <2> USE <1>1 DEF ssVars, shm, schedVars, jobVars, history, SchedInv
  <2>1. SchedulerTypeOK'
    BY DEF SchedulerTypeOK, InRound, Checking
  <2>2. TableInv' /\ ResumedInv'
    BY DEF TableInv, ResumedInv, Unnamed
  <2>3. MarkedInv' /\ QueueInv'
    BY DEF MarkedInv, QueueInv, Increasing, InRound, Checking
  <2>4. ReadyInv' /\ AwakeInv'
    BY DEF ReadyInv, AwakeInv, InRound, Checking, LiveJobs
  <2> QED BY <2>1, <2>2, <2>3, <2>4
<1>2. CASE SubmitFork \/ Exit \/ ShellStep
  BY <1>2, SubmitForkKeeps, SubmitCountKeeps, SubmitPidKeeps, SubmitReadyKeeps, ExitKeeps
     DEF ShellStep
<1>3. CASE SchedulerStep
  BY <1>3, TestKeeps, BuildKeeps, BuildEndKeeps, ResumeKeeps, MarkKeeps, QuantumEndKeeps,
     CheckKeeps, StopKeeps, RequeueKeeps, FinishKeeps, KillKeeps DEF SchedulerStep
<1>4. CASE \E j \in Jobs : JobEnds(j)
  BY <1>4, JobEndsKeeps
<1> QED BY <1>1, <1>2, <1>3, <1>4 DEF SchedulerNext, AtRest

LEMMA SchedInvariant == SchedulerSpec => []SchedInv
<1> QED BY SchedInitial, SchedStep, PTL DEF SchedulerSpec

\* However the shell's writes to the table fall between the scheduler's steps, those of
\* its loop over the table included, and whatever an earlier session left in it, the
\* scheduler never has more than ncpu jobs marked running (scheduler.c:121-137).
THEOREM NeverMoreThanNcpu == SchedulerSpec => []AtMostNcpu
<1>1. SchedInv => AtMostNcpu
  <2> SUFFICES ASSUME SchedInv PROVE AtMostNcpu
    OBVIOUS
  <2> USE SchedulerAssumption
  <2> DEFINE M == {j \in resumed : state[j] = 1}
             Quantum == First(queue, running)
  <2>1. \A j \in M : InRound /\ j \in Quantum
    <3>1. \A j \in resumed : j \in Jobs /\ j <= job_count
      BY DEF SchedInv, SchedulerTypeOK, ResumedInv
    <3> QED BY <3>1 DEF SchedInv, MarkedInv, First
  <2>2. CASE InRound
    <3>1. /\ running \in Nat /\ queue_len \in Nat /\ running \in 0..queue_len /\ running <= ncpu
          /\ queue \in [1..queue_len -> Jobs] /\ Increasing(queue, queue_len)
      BY <2>2, RoundFacts
    <3>2. IsFiniteSet(Quantum) /\ Cardinality(Quantum) = running
      BY <3>1, Places
    <3>3. M \in SUBSET Quantum
      BY <2>1
    <3> HIDE DEF M, Quantum
    <3>4. IsFiniteSet(M) /\ Cardinality(M) <= running
      BY <3>2, <3>3, FS_Subset
    <3>5. Cardinality(M) \in Nat
      BY <3>4, FS_CardinalityType
    <3>6. Cardinality(M) <= ncpu
      BY <3>1, <3>4, <3>5
    <3> QED BY <3>6 DEF AtMostNcpu, M
  <2>3. CASE ~InRound
    <3>1. M = {}
      BY <2>1, <2>3
    <3>2. Cardinality(M) = 0
      BY <3>1, FS_EmptySet
    <3> QED BY <3>2 DEF AtMostNcpu
  <2> QED BY <2>2, <2>3
<1> QED BY <1>1, SchedInvariant, PTL

\* Between two quanta every job that was given one is stopped or has ended, also if it was
\* resumed through the zero pid of an entry the shell was still filling in, or is missing
\* from a queue; unless a SIGCONT to -1 woke it (scheduler.c:121-158, simple-shell.c:196-200).
THEOREM StoppedBetweenQuanta == SchedulerSpec => []RunsOnlyInQuantum
<1>1. SchedInv => RunsOnlyInQuantum
  <2> SUFFICES ASSUME SchedInv, sched \in {"test", "build"}, NEW j \in resumed,
                      run[j] = "running", j \notin woken
               PROVE  stopped[j]
    BY DEF RunsOnlyInQuantum
  <2>1. ~InRound
    BY DEF InRound, Checking
  <2> QED BY <2>1 DEF SchedInv, AwakeInv
<1> QED BY <1>1, SchedInvariant, PTL

\* When the scheduler leaves its loop after exit, no job that it gave a quantum is left
\* behind: the queue it emptied held all of them (scheduler.c:118, 143-149).
THEOREM NoneLeftBehind == SchedulerSpec => []ResumedAreKilled
<1>1. SchedInv => ResumedAreKilled
  <2> SUFFICES ASSUME SchedInv, sched = "exited", NEW j \in resumed
               PROVE  run[j] \in {"none", "exited"}
    BY DEF ResumedAreKilled
  <2>1. j \notin LiveJobs
    BY DEF SchedInv, ReadyInv
  <2> QED BY <2>1 DEF LiveJobs, SchedInv, SchedulerTypeOK
<1> QED BY <1>1, SchedInvariant, PTL
=============================================================================
