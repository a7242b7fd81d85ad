--------------------------- MODULE SimpleScheduler ---------------------------
(***************************************************************************)
(* SimpleShell and SimpleScheduler (group-16-3): two processes that share  *)
(* a job table in System V shared memory without any lock, and the jobs,   *)
(* which are children of the shell and are run and stopped by signals.     *)
(*                                                                         *)
(* The steps of shell and scheduler are their accesses to the shared       *)
(* table; a loop over it is one step per iteration.  Signals, waitpid and  *)
(* the zeroed segment are the system's (external).  The slice counters are *)
(* only printed and are left out.                                          *)
(*                                                                         *)
(* The segment outlives its processes: Ctrl-C ends shell, scheduler and    *)
(* jobs, which are one process group, and the next shell gets the old      *)
(* table, of which it only resets the counter.                             *)
(***************************************************************************)
EXTENDS Integers, Sequences, FiniteSets

CONSTANTS MAX_JOBS,   \* scheduler_shm.h: size of the job table
          ncpu,       \* jobs the scheduler runs in one quantum
          OldEntries  \* what an earlier session may leave in an entry: its pid and state

Jobs == 1..MAX_JOBS        \* table entries; the child of entry j has pid j
Shell == 0                 \* the other two processes of the group
Scheduler == MAX_JOBS + 1
NoPid == 0                 \* the entry's zero, before the pid is stored
ForkFailed == -1
Stale == MAX_JOBS + 2      \* the pid of a job of an earlier session, now nobody's
OldPids == {NoPid, ForkFailed, Stale}

ASSUME SchedulerAssumption ==
  /\ MAX_JOBS \in Nat \ {0} /\ ncpu \in Nat \ {0}
  /\ OldEntries \subseteq OldPids \X (0..2)

VARIABLES
  job_count, pid, state, scheduler_running,   \* SharedData
  shell,      \* where the shell is: "prompt", "count", "pid", "ready", "wait", "done"
  child,      \* the shell's local result of fork
  sched,      \* where the scheduler is: "test", "build", "resume", "mark", "quantum",
              \* "check", "stop", "requeue", "finish", "kill", "exited"
  queue, k,   \* ready_queue, and the index of the loop the scheduler is in
  queue_len,  \* its length, as the outer loop's test sees it
  running,    \* the scheduler's local number of jobs in this quantum
  new_len,    \* how many of them it found unfinished
  run,        \* each job: "none", "paused" (in dummy_main's pause), "running", "exited"
  stopped,    \* whether each process is stopped by a signal
  resumed,    \* history: jobs that were given a quantum, by their own pid or by pid 0
  woken       \* history: jobs whose last signal was a SIGCONT to pid -1

shm == <<job_count, pid, state, scheduler_running>>
schedVars == <<sched, queue, queue_len, k, running, new_len>>
jobVars == <<run, stopped>>
history == <<resumed, woken>>
ssVars == <<shm, shell, child, schedVars, jobVars, history>>

SchedulerInit ==
  /\ job_count = 0 /\ scheduler_running = TRUE
  /\ \E old \in 0..MAX_JOBS :         \* jobs of the session that Ctrl-C ended
     \E entry \in [1..old -> OldEntries] :
       /\ pid = [j \in Jobs |-> IF j <= old THEN entry[j][1] ELSE NoPid]
       /\ state = [j \in Jobs |-> IF j <= old THEN entry[j][2] ELSE 0]
  /\ shell = "prompt" /\ child = NoPid
  /\ sched = "test" /\ queue = <<>> /\ k = 1 /\ queue_len = 0 /\ running = 0 /\ new_len = 0
  /\ run = [j \in Jobs |-> "none"]
  /\ stopped = [p \in Shell..Scheduler |-> FALSE]
  /\ resumed = {} /\ woken = {}

-----------------------------------------------------------------------------
(* Signals sent by the scheduler: 0 names its process group, -1 every      *)
(* process but itself.                                                     *)
LiveJobs == {j \in Jobs : run[j] \in {"paused", "running"}}
Targets(p) == CASE p = NoPid -> LiveJobs \cup {Shell, Scheduler}
                [] p = ForkFailed -> LiveJobs \cup {Shell}
                [] OTHER -> {p} \cap LiveJobs
SIGCONT(p) ==
  /\ stopped' = [x \in DOMAIN stopped |-> IF x \in Targets(p) THEN FALSE ELSE stopped[x]]
  /\ woken' = IF p = ForkFailed THEN woken \cup LiveJobs ELSE woken \ Targets(p)
  /\ UNCHANGED run
SIGSTOP(p) ==
  /\ stopped' = [x \in DOMAIN stopped |-> IF x \in Targets(p) THEN TRUE ELSE stopped[x]]
  /\ woken' = woken \ Targets(p)
  /\ UNCHANGED run
SIGKILL(p) ==
  /\ run' = [j \in Jobs |-> IF j \in Targets(p) THEN "exited" ELSE run[j]]
  /\ UNCHANGED <<stopped, woken>>

-----------------------------------------------------------------------------
(* The shell.                                                              *)
ShellRuns(l) == shell = l /\ ~stopped[Shell]

\* submit: fork, and the child's execlp.  A program built with dummy_main.h pauses.
SubmitFork ==
  /\ ShellRuns("prompt")
  /\ job_count < MAX_JOBS                       \* else "Max job limit reached."
  /\ \/ /\ child' = job_count + 1
        /\ \E first \in {"paused", "running"} : run' = [run EXCEPT ![child'] = first]
     \/ child' = ForkFailed /\ UNCHANGED run
  /\ shell' = "count"
  /\ UNCHANGED <<shm, schedVars, stopped, history>>

SubmitCount ==
  /\ ShellRuns("count")
  /\ job_count' = job_count + 1
  /\ shell' = "pid"
  /\ UNCHANGED <<pid, state, scheduler_running, child, schedVars, jobVars, history>>

SubmitPid ==
  /\ ShellRuns("pid")
  /\ pid' = [pid EXCEPT ![job_count] = child]
  /\ shell' = "ready"
  /\ UNCHANGED <<job_count, state, scheduler_running, child, schedVars, jobVars, history>>

SubmitReady ==
  /\ ShellRuns("ready")
  /\ state' = [state EXCEPT ![job_count] = 0]
  /\ shell' = "prompt"
  /\ UNCHANGED <<job_count, pid, scheduler_running, child, schedVars, jobVars, history>>

\* exit: clear the flag and wait for the scheduler.
Exit ==
  /\ ShellRuns("prompt")
  /\ scheduler_running' = FALSE
  /\ shell' = "wait"
  /\ UNCHANGED <<job_count, pid, state, child, schedVars, jobVars, history>>

ExitEnd ==
  /\ ShellRuns("wait") /\ sched = "exited"
  /\ shell' = "done"
  /\ UNCHANGED <<shm, child, schedVars, jobVars, history>>

ShellStep == SubmitCount \/ SubmitPid \/ SubmitReady \/ ExitEnd

-----------------------------------------------------------------------------
(* The scheduler.                                                          *)
SchedRuns(l) == sched = l /\ ~stopped[Scheduler]

\* Mutant: the loop ends as soon as the flag is cleared.
TestFlagOnly ==
  /\ SchedRuns("test")
  /\ IF scheduler_running
     THEN sched' = "build" /\ queue' = <<>> /\ queue_len' = 0 /\ k' = 1
     ELSE sched' = "exited" /\ UNCHANGED <<queue, queue_len, k>>
  /\ UNCHANGED <<shm, shell, child, running, new_len, jobVars, history>>

Test ==
  /\ SchedRuns("test")
  /\ IF scheduler_running \/ queue_len > 0
     THEN sched' = "build" /\ queue' = <<>> /\ queue_len' = 0 /\ k' = 1
     ELSE sched' = "exited" /\ UNCHANGED <<queue, queue_len, k>>
  /\ UNCHANGED <<shm, shell, child, running, new_len, jobVars, history>>

\* Mutant: every ready job is run, however many processors there are.
PickAll(ready) == ready
\* Mutant: a full round leaves out its last job.
PickOneLess(ready) == IF ready < ncpu THEN ready ELSE ncpu - 1
Pick(ready) == IF ready < ncpu THEN ready ELSE ncpu

\* One turn of the loop that rebuilds the ready queue.  The shell may publish entries and
\* make them ready before and behind the loop's index: job_count and the state are read in
\* each turn.  (job_count never falls, so a test that succeeds may as well come last.)
Build ==
  /\ SchedRuns("build") /\ k <= job_count
  /\ IF state[k] = 0 THEN queue' = Append(queue, k) /\ queue_len' = queue_len + 1
                     ELSE UNCHANGED <<queue, queue_len>>
  /\ k' = k + 1
  /\ UNCHANGED <<shm, shell, child, sched, running, new_len, jobVars, history>>

\* Its end: pick up to ncpu jobs, or sleep and try again.
BuildEnd ==
  /\ SchedRuns("build") /\ k > job_count
  /\ running' = Pick(queue_len) /\ new_len' = 0 /\ k' = 1
  /\ sched' = IF queue_len = 0 THEN "test" ELSE "resume"
  /\ UNCHANGED <<shm, shell, child, queue, queue_len, jobVars, history>>

Resume ==
  /\ SchedRuns("resume")
  /\ IF k <= running
     THEN /\ SIGCONT(pid[queue[k]])
          /\ resumed' = IF pid[queue[k]] = ForkFailed THEN resumed
                        ELSE resumed \cup ({queue[k]} \cap Targets(pid[queue[k]]))
          /\ sched' = "mark" /\ UNCHANGED k
     ELSE sched' = "quantum" /\ k' = 1 /\ UNCHANGED <<jobVars, history>>
  /\ UNCHANGED <<shm, shell, child, queue, queue_len, running, new_len>>

Mark ==
  /\ SchedRuns("mark")
  /\ state' = [state EXCEPT ![queue[k]] = 1]
  /\ k' = k + 1 /\ sched' = "resume"
  /\ UNCHANGED <<job_count, pid, scheduler_running, shell, child, queue, queue_len, running,
                 new_len, jobVars, history>>

QuantumEnd ==
  /\ SchedRuns("quantum")
  /\ sched' = "check"
  /\ UNCHANGED <<shm, shell, child, queue, queue_len, k, running, new_len, jobVars, history>>

\* waitpid: the jobs are not the scheduler's children, so the result is always -1.
waitpid == -1

\* After the last job of the quantum the queue is the unfinished jobs, then the rest:
\* of it only the length is used, since the next turn builds a new one.
Check ==
  /\ SchedRuns("check")
  /\ IF k > running
     THEN queue_len' = new_len + (queue_len - running) /\ sched' = "test"
     ELSE /\ sched' = IF waitpid = pid[queue[k]] \/ ~scheduler_running THEN "finish" ELSE "stop"
          /\ UNCHANGED queue_len
  /\ UNCHANGED <<shm, shell, child, queue, k, running, new_len, jobVars, history>>

\* Mutant: the signal is forgotten.
StopUnsignalled ==
  /\ SchedRuns("stop")
  /\ sched' = "requeue"
  /\ UNCHANGED <<shm, shell, child, queue, queue_len, k, running, new_len, jobVars, history>>

\* The job is stopped (and with it the scheduler itself, if the pid is still 0), ...
Stop ==
  /\ SchedRuns("stop")
  /\ SIGSTOP(pid[queue[k]])
  /\ sched' = "requeue"
  /\ UNCHANGED <<shm, shell, child, queue, queue_len, k, running, new_len, resumed>>

\* ... and back to ready.
Requeue ==
  /\ SchedRuns("requeue")
  /\ state' = [state EXCEPT ![queue[k]] = 0]
  /\ k' = k + 1 /\ new_len' = new_len + 1 /\ sched' = "check"
  /\ UNCHANGED <<job_count, pid, scheduler_running, shell, child, queue, queue_len, running,
                 jobVars, history>>

\* Mutant: the job is killed but stays ready.
FinishStillReady ==
  /\ SchedRuns("finish")
  /\ state' = [state EXCEPT ![queue[k]] = 0]
  /\ sched' = "kill"
  /\ UNCHANGED <<job_count, pid, scheduler_running, shell, child, queue, queue_len, k, running,
                 new_len, jobVars, history>>

\* The job has ended or is to be ended: state 2, then the flag is read again.
Finish ==
  /\ SchedRuns("finish")
  /\ state' = [state EXCEPT ![queue[k]] = 2]
  /\ sched' = "kill"
  /\ UNCHANGED <<job_count, pid, scheduler_running, shell, child, queue, queue_len, k, running,
                 new_len, jobVars, history>>

Kill ==
  /\ SchedRuns("kill")
  /\ IF scheduler_running THEN UNCHANGED <<jobVars, woken>> ELSE SIGKILL(pid[queue[k]])
  /\ shell' = IF ~scheduler_running /\ Shell \in Targets(pid[queue[k]]) THEN "done" ELSE shell
  /\ k' = k + 1 /\ sched' = "check"
  /\ UNCHANGED <<shm, child, queue, queue_len, running, new_len, resumed>>

SchedulerStep ==
  \/ Test \/ Build \/ BuildEnd \/ Resume \/ Mark \/ QuantumEnd
  \/ Check \/ Stop \/ Requeue \/ Finish \/ Kill

-----------------------------------------------------------------------------
\* A job's own progress: it ends.  SIGCONT with SIG_DFL does not end pause(), so a
\* paused job stays where it is.
JobEnds(j) ==
  /\ run[j] = "running" /\ ~stopped[j]
  /\ run' = [run EXCEPT ![j] = "exited"]
  /\ UNCHANGED <<shm, shell, child, schedVars, stopped, history>>

\* The shell is gone, or the group was stopped by a signal to pid 0.
AtRest ==
  /\ shell = "done" \/ stopped[Shell]
  /\ UNCHANGED ssVars

SchedulerNext ==
  \/ SubmitFork \/ Exit \/ ShellStep \/ SchedulerStep
  \/ \E j \in Jobs : JobEnds(j)
  \/ AtRest

SchedulerSpec == SchedulerInit /\ [][SchedulerNext]_ssVars
\* Shell and scheduler go on when they can; the user need not type, jobs need not end.
FairSchedulerSpec ==
  SchedulerSpec /\ WF_ssVars(ShellStep) /\ WF_ssVars(SchedulerStep)

-----------------------------------------------------------------------------
(* Properties.                                                             *)

\* Never more than ncpu jobs are marked running, although the shell writes states while
\* the scheduler does, and the table may hold those of an earlier session
\* (scheduler.c:131, simple-shell.c:199).
AtMostNcpu == Cardinality({j \in resumed : state[j] = 1}) <= ncpu

\* A job that was given a quantum runs only in a quantum: between two of them it is
\* stopped or has ended, even if it was resumed before its pid was in the table, and
\* although the queue may miss an entry that the shell makes ready behind the loop's
\* index (scheduler.c:121-123).  There is one way out, the SIGCONT to "pid -1" that an
\* entry without a process causes, after which nobody is stopped.
RunsOnlyInQuantum ==
  sched \in {"test", "build"} =>
    \A j \in resumed : run[j] = "running" => stopped[j] \/ j \in woken

\* When the scheduler has exited, no job that it ever ran is left behind; one that was
\* submitted just before exit, and never queued, may be (scheduler.c:118).
ResumedAreKilled ==
  sched = "exited" => \A j \in resumed : run[j] \in {"none", "exited"}

\* exit always gets to its end: the scheduler empties its queue and the shell returns.
ExitTerminates == (shell = "wait") ~> (shell = "done")

\* The first ncpu jobs of the table always come to their turn, wherever the scheduler is
\* when they are submitted, in the middle of its loop over the table (scheduler.c:121-123)
\* as well, and also when exit comes first.  Later jobs may starve: the queue is rebuilt in
\* table order after every quantum, so its rotation at 160-166 has no effect.  A signal to
\* pid 0 stops the scheduler itself; a job counted after the last queue was built is lost,
\* and so is one that is taken for ended because its entry still had the -1 of an earlier
\* session's failed fork (scheduler.c:149-150 on simple-shell.c:196-199).
TakenForEnded(j) == state[j] = 2 /\ ~(j = job_count /\ shell \in {"pid", "ready"})
FirstJobsGetQuantum ==
  \A j \in Jobs \cap 1..ncpu :
    (job_count >= j) ~>
      \/ j \in resumed \/ j \notin LiveJobs \/ TakenForEnded(j)
      \/ sched = "exited" \/ stopped[Scheduler]

\* What the comment on the queue says (scheduler.c:119, "all jobs with state 0"): what is
\* queued is a job, with a process.
QueuedAreJobs ==
  sched = "resume" => \A n \in k..running : pid[queue[n]] \notin {NoPid, Stale}

=============================================================================
