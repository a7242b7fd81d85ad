# Verification of the Operating-Systems-Components-Suite

The repository holds a teaching operating system, `egos-2000`, with a preemptive MLFQ
scheduler added to it, and five smaller programs (`group-16` ... `group-16-5`): a Unix
shell, a job scheduler that uses shared memory and signals, a lazy ELF loader and a
header-only multithreader. This directory models them in TLA+, checks the models with TLC
on small instances and proves the central theorems with TLAPS for every instance.

## 1. Inventory

### egos-2000

| Part | State | Operations | Talks to |
|---|---|---|---|
| kernel (`grass/kernel.c`) | `core_to_proc_idx`, per process: pid, status, system call, saved registers | `excp_entry`, `intr_entry`, `proc_yield`, `proc_try_send`, `proc_try_recv` | every process (traps) |
| process table (`grass/process.c`) | `proc_set[MAX_NPROCESS + 1]`, pid counter | `proc_alloc`, `proc_free`, `proc_set_*` | called by GPID_PROCESS and by the kernel |
| MLFQ (`grass/process.c`, `kernel.c`) | level, quota, runtimes, time of the last reset | `mlfq_update_level`, `mlfq_reset_level`, the choice of `proc_yield` | the clock, the TTY |
| GPID_PROCESS (`apps/system/sys_proc.c`) | last application, whether the shell waits | boot, spawn, exit, killall | kernel (direct calls), GPID_FILE, shell |
| GPID_TERMINAL, GPID_FILE | none between requests | input, output, read | their clients |
| shell (`sys_shell.c`) | the current command | send to GPID_PROCESS, wait | GPID_PROCESS |
| applications (`apps/user`) | - | `file_read`, `term_read`, `term_write`, `exit` | the servers |
| file systems (`library/file`) | superblock, inodes, free list | read, write, create | the disk |
| MMU (`earth/cpu_mmu.c`) and ELF loader (`library/elf`) | `page_info_table`, whose pages are in the user region, page tables | `mmu_alloc`, `mmu_map`, `mmu_free`, `mmu_switch`, `mmu_translate`, `elf_load` | called by GPID_PROCESS (interruptible) and by the kernel (not) |
| timer (`earth/cpu_intr.c`) | the 64-bit clock and its compare register | `mtime_get`, `timer_reset` | hardware; called by kernel and process table |
| other devices (`earth/dev_*`) | - | `tty_*`, `disk_*` | hardware |

What is hard here: IPC is a rendezvous implemented by polling, one try of every pending
system call per `proc_yield`; a message crosses in two halves (`proc_try_send` marks the
receiver, `proc_try_recv` wakes both); tables are searched by pid while freed slots keep
their old pid and system call; `proc_alloc` and `proc_free` run with interrupts on; the
quota of a level is unsigned; all processes run at the same addresses, and their pages are
copied in and out while the table that says which ones is being written; the clock is read
in two halves; and everybody may be blocked on everybody.

### The programs of group-16 to group-16-5

| Part | State | Operations | Talks to |
|---|---|---|---|
| SimpleScheduler and its shell (`group-16-3`) | job table, `job_count`, `scheduler_running` in shared memory; the scheduler's ready queue | submit, exit; the scheduler's round: build the queue, resume, sleep, stop | each other through the unlocked table, the jobs through signals |
| multithreader (`group-16-5`) | per thread: its chunk | `parallel_for` (1D, 2D), `runTask1`, `runTask2` | pthreads |
| SimpleSmartLoader (`group-16-4`) | list of mapped pages, three counters | the SIGSEGV handler, cleanup | the loaded program |
| Unix shell (`group-16`, `group-16-2`, the same file) | history tables | launch, pipes, history, exit | child processes |
| starter loader (`group-16/starter`) | - | read, map, jump | - |

What is hard here: shell and scheduler share a table without a lock, so every access is a
step of its own; an entry is published before it is filled; a pid of 0 or -1 changes what
`kill` means; the table outlives the processes that use it; threads may not be created; a page is mapped on the first touch of any of its
bytes, and which byte that is decides what the page holds; a pipe ends only when its last
write end, in whatever process, is closed.

### Properties that make the parts correct

* kernel: no possible exchange of a message is overlooked; a message that was handed over
  is completed; it reaches exactly the process it was for; only the current process is
  RUNNING; the best level is chosen; callers see synchronous message passing.
* process table: a slot goes through its life cycle only; a process without pages exists
  only while it is being freed; a new process in an old slot sees nothing of the old one.
* MLFQ: quota accounting is conserved; nobody waits for ever.
* servers and shell: each FATAL has one of four known causes (see section 5), and the system
  is never deadlocked; a message is never misread; the disk has one user at a time; the
  prompt and the foreground application exclude each other; the system boots and commands
  complete.
* MMU: each process finds its own memory, whoever ran in between; pages are neither lost nor
  shared; a program is complete before it runs; page tables are never handed out.
* timer: a reading is a time the clock showed; the timer does not expire before a quantum.
* treedisk: what was written is read; no block is lost or used twice.
* scheduler: at most `ncpu` jobs run; a job runs only in its quantum (with one way out, see
  section 5), and gets one; exit ends and leaves no scheduled job behind.
* Unix shell: the prompt comes back, with every child waited for and every pipe closed; an
  input ends only with its writer; the records of the history belong to its lines.
* multithreader: each iteration once, and no thread left.
* loader: memory is the image of the file; writes survive; the statistics are right.

## 2. Modules

* `Grass` - kernel and process table. The state is `proc_set` field by field, the index of
  the current process, the pids that own pages, and two program counters: `kpc` for the
  kernel (`"user"`, `"scan"` while in the loop of `proc_yield`, or the FATAL it stopped
  in) and `call` for GPID_PROCESS inside `proc_alloc` ... `proc_free`. One action per trap
  handler, one per iteration of the scheduling loop (each may complete a system call that
  changes what the next one sees), one per interruptible piece of `proc_free`. Clients are
  arbitrary: any process may make any system call at any time. Levels change as the
  accounting may change them; `Mlfq` computes it.
* `SyncIPC` - what `sys_send` and `sys_recv` promise: synchronous message passing, without
  tables, polling or scheduling. `GrassRefinement` maps `Grass` to it: a handed-over
  message counts as received although its receiver is still blocked.
* `GrassProofs` - the theorems about `Grass`, and that it implements `SyncIPC`. `EgosProofs`,
  `SoftTlbProofs`, `MlfqProofs`, `SchedulerProofs`, `SmartLoaderProofs`, `ForkJoinProofs` and
  `TreeDiskProofs` are the same for `EgosServers`, `SoftTlb`, `Mlfq` (and `MTimer`),
  `SimpleScheduler`, `SmartLoader`, `ParallelFor` and `SimpleShell` (both fork and join), and
  `TreeDisk`. For each model there is first the inductive invariant, part by part, and at the
  end the theorems.
* `EgosServers` - the programs of GPID_PROCESS, GPID_TERMINAL, GPID_FILE, the shell and
  the applications on top of the actions of `Grass`: the label `at` of each process is
  where it is in its `main()`. An application makes requests and exits, or crashes
  (`AppCrash`), which `excp_entry` answers with a FATAL. `AppOps` selects what it may do.
* `Mlfq` - the accounting that `Grass` leaves open, with a clock. Only time differences
  matter, so the state is finite; the unsigned fields are kept modulo `Width`.
* `SoftTlb` - page allocator, software TLB, identity map and `elf_load`. `window` is the
  address range all processes share, `store` the physical pages. Each store of GPID_PROCESS
  to `page_info_table` is a step, after which the timer may let anybody run; the kernel's
  switches are atomic. What a page holds is abstracted to who wrote it. The history `mem` is
  each process's memory as it was last written by itself, the loader or the kernel for it;
  scheduling and IPC, which `Grass` models, are reduced to who is blocked.
* `MTimer` - the clock and the compare register, half by half. A time is its two words, so
  that the proofs, in `MlfqProofs`, need no multiplication.
* `TreeDisk` - treedisk. A block is `REFS_PER_BLOCK` numbers, however it is used; one step
  is one turn of a loop of `treedisk_create` or `treedisk_write`. `treedisk_read` is an
  operator that reads the disk as it is.
* `SimpleScheduler` - shell, scheduler and jobs. The steps of the first two are their
  accesses to the shared table; each loop of the scheduler is one step per turn, also the one
  that builds the queue (`Build`), which reads `job_count` and one state in each turn while
  the shell writes them. Signals are the system's. The table is fresh, or as a session
  ended by Ctrl-C left it: `OldEntries` says which pids and states an entry may hold, and the
  run chooses one for each entry. Two histories are kept: the jobs that were given a quantum
  (`resumed`), and those whose last signal was a SIGCONT to pid -1 (`woken`).
* `ParallelFor` - `parallel_for` with its threads; one column is the 1D version.
* `SmartLoader` - the fault handler with an arbitrary program. A byte of memory is the file
  offset it came from, zero, or written by the program.
* `SimpleShell` - the Unix shell: a line of one to three programs, the pipe ends each process
  holds, and the history with its records, in which a pid or a time is the number of the
  line it belongs to. The programs and the pipes are the system's. A child is one step from
  `fork` to `execvp`: until it is taken the child holds every end it inherited.
* `MC*` - the modules TLC is run on, with the sets that a `.cfg` cannot write.

A definition whose comment begins with "Mutant" is not part of a specification: it is the
definition below it with one plausible mistake, kept to show that a property would notice.

## 3. Runs

| Run | Bounds | Shows |
|---|---|---|
| `grass_ipc` | 3 pids in 4 slots, 2 levels, 1 message | `NoMissedRendezvous`, `IdleOnlyWhenAllBlocked`, `PicksBestLevel`, `NoStrandedMessage`, `UnmappedOnlyWhileFreed`, `DeliveryIsFaithful`, `LifeCycle`, `ImplementsSyncIPC` |
| `soft_tlb` | 3 processes, 20 pages, 2 blocks per page, both translations, 6 regions | `RunningSeesOwnMemory`, `DormantMemoryKept`, `PagesAccounted`, `ImageComplete`, `TablesIntact` |
| `egos_safety` | 4 servers, 3 slots and 4 pids for applications, which read files or crash, the first command (`cd`) and 3 more | `DiskExclusive`, `FatalHasCause`, `MessagesHandled`, `ForegroundIsGone` |
| `egos_liveness` | 4 servers, 3 applications, which use the terminal, `cd` and 2 more commands | `BootCompletes`, `CommandCompletes` |
| `mlfq_safety` | 3 processes, 2 levels, slices of up to twice the first quota | `QuotaBooks`, `BoundedWait`, types |
| `mlfq_quota` | the same | violates `QuotaEnforced` |
| `treedisk` | 2 files, 7 blocks, offsets 0 to 4, 2 references per block | `ReadsBack`, `NothingLostOrShared` |
| `scheduler` | 3 jobs, 2 processors, every table of 0 to 3 old entries of 3 kinds (`UsedTable`) | `AtMostNcpu`, `RunsOnlyInQuantum`, `ResumedAreKilled`, `ExitTerminates`, `FirstJobsGetQuantum` |
| `sched_publish` | 2 jobs, 1 processor | violates `QueuedAreJobs` |
| `parallel_for` | 108 calls, -1 to 4 threads, up to 5 rows, 2 columns | `EachExactlyOnce`, `NoThreadOutlivesCall`, `PForEnds` |
| `simple_shell` | lines of up to 3 programs, 5 lines for a history of 3, pipes of 1 item, 2 items written | `PromptReturns`, `PromptIsClean`, `EofAfterWriter`, `RecordsAligned` |
| `smart_loader` | 5 pages of 2 bytes, 2 segments, 6 faults | `ImageUnlessBssFirst`, `StatisticsExact`, `WritesSurvive`, `InstructionCompletes` |

Why the bounds are enough. An exchange involves a sender, a receiver and the process whose
`proc_yield` visits them, so three processes give every order in which a loop can meet
them; a competing sender or receiver is the third. `proc_alloc` takes the first free slot, so a
process killed before the last one is created makes a slot be reused. Messages are copied
and never looked into; that the right one arrives is `DeliveryFaithful`, proved for any set
of messages, so the run has one. Two
levels are the least with a best one. In `grass_ipc` states that differ only in what no
step reads any more (the statistics flag, the level of a free slot, what its last process
had received) are one state (`GrassView`). In `soft_tlb` the programs differ in size, so that a
page that one maps another does not, and end on full and on partly filled pages; with page
tables, memory runs out while the third process is loaded, and its pid is beyond the limit
of `page_table_map`; a freed process's pages are reused while it was the last in the window. With the `cd` of the start and three more commands, killall
meets two applications, one of which may be in the middle of a request, a background
application exits while the shell waits for another, and two background commands leave the last slot of the
table for a foreground one. Of the four causes in `FatalHasCause` the exception, the killed client and
the last slot occur; the full table takes one command more, which is too many states, and is
left to the proof (`EveryFatalHasCause`). The applications of this run read files; that the terminal
serves them is in `egos_liveness`, where two
more commands after `cd` are enough for a background application that runs, makes its
request and exits while the shell waits for a foreground one; killall and crashes are left out, because
their FATAL ends everything. In treedisk, offsets up to 4 with two
references per block give trees of zero to three levels, and seven blocks run out in the
middle of a write; the values written are block numbers too, so data taken for a reference
would be followed. Three jobs on two processors leave one waiting. In `scheduler` each of
them may have an old entry of a kind that changes what the scheduler does with a new job: a state
that hides it until the shell writes 0, a ready state with the pid of an old job, and a pid for
which it is taken for ended; the proofs take any old table. The calls of
`parallel_for` have empty spaces, fewer rows than threads, remainders, and no threads. The
segments of `smart_loader` start and end, and BSS starts, in the middle of a page; six
faults are one more than there are pages.

Fairness. `egos_liveness`: the kernel finishes what it starts (interrupts are off in it),
the timer fires (it is reset on every return to user mode), and if programs that could take a
step are run again and again, one of them does: a quantum is far longer than the few
instructions between two system calls. This is less than fairness for each process, and
here enough: within the bounds the programs take finitely many steps, so none of them can go
on for ever at the cost of another. The user need not type; an
application makes a bounded number of requests. The run has one level; that processes on several levels
are run again and again is `BoundedWait`. `scheduler`: shell and scheduler, ordinary
processes, go on unless a signal has stopped them; jobs need not end. `simple_shell`: the system schedules the shell
and every program that can take a step; the user need not type. `parallel_for`: the
caller and the threads that can go on do. `smart_loader`: the processor goes on with the
instruction it is at.

Deadlock is checked in every run except `simple_shell`, where the shell may exit while
programs are left and `PromptReturns` says what must not block: where a system stops for good (a FATAL, the end of a
program, a panic) the specification says so with a step of its own.

## 4. Proofs

Every theorem holds for all values of the constants that satisfy the named assumption of the
module. The inductive invariants were first checked by TLC on the instance of the run, except
two: that of `MTimer`, which has no run, and `TreeInv`, whose witnesses are functions on
infinite sets.

### The clock: `MlfqProofs`

For every width `Word > 2` of a register and every quantum that fits in one
(`ClockAssumption`):

* `ClockReadIsAtomic`: what `mtime_get` returns is a time the clock showed during the call;
* `QuantumIsWhole`: no interrupt while the compare register is half written, and none before
  a full quantum after the call of `timer_reset`.

The invariant `TInv` says of a reading in progress that its upper word is between that of
the call and that of the clock, and that, if it still is the clock's, the pair read is not
before the call and not after the clock: the third read establishes the premise. The clock's
upper word is assumed to stay below its maximum. `MTimer` has no run: the proofs leave
nothing for TLC to say.

### The kernel: `GrassProofs`

For every `MAX_NPROCESS >= 2`, number of levels, set of messages and bound on pids
(`GrassAssumption`):

* `GrassInvariant`: `Spec => []IInv`;
* `GrassTypeCorrect`, `RendezvousNeverMissed`, `MessageNeverStranded`, `RunningIsCurrent`:
  the invariants `TypeOK`, `NoMissedRendezvous`, `NoStrandedMessage`, `OneRunning`;
* `IdleIsHonest`, `BestLevelPicked`, `PagesUntilFreed`: the invariants
  `IdleOnlyWhenAllBlocked`, `PicksBestLevel`, `UnmappedOnlyWhileFreed`;
* `DeliveryFaithful`, `LifeCycleKept`: the action properties `DeliveryIsFaithful` and
  `LifeCycle`.

The properties of user mode are not inductive: nothing is said of the kernel while it is in
the loop of `proc_yield`. `IInv` adds what holds there:

* `PidInv`: live slots have different pids, which `proc_set_status` and `proc_try_send`
  rely on when they search by pid although freed slots keep theirs;
* `CallInv`: GPID_PROCESS is never the one being killed;
* `ScanInv`: nobody is RUNNING; an exchange that is possible has the current process as its
  receiver and a sender that is still ahead in the loop; a message that was handed over has
  a receiver that is still ahead, and a sender that is blocked on exactly this message.

The heart of the argument is the order of the loop. It visits every slot once and the
current process last (`NthCovers`). Before the trap no exchange was possible, so one that is
possible now involves the current process. If it sends, `proc_try_send` has already handed
the message over at the trap and the receiver is ahead. If it receives, its sender is ahead,
and it comes last itself, so it sees what the sender hands over. When the loop ends, nothing
is ahead (`DispatchInv`), which is what user mode promises.

The choice of a level needs `SearchInv`: a process the loop has passed that is a better
candidate than the one chosen was woken by the last iteration, with the current process.
That it was the last one is where the order of the loop is used again: a message handed over
to anybody else is the current process's, so the sender it wakes is not behind. Pages need
`LoadInv`: the process being loaded is not started, and has its pages when it is made ready.

### Callers see synchronous message passing: `GrassProofs`

`GrassImplementsSyncIPC` is `Spec => ImplementsSyncIPC`. The mapping is followed slot by
slot: each of the states that a slot can be in (handed a message, having passed one on,
executing, blocked in a receive or a send) has a lemma that says what `SyncIPC` sees of it.
The trap of a receive is `Receive` (`RecvView`); that of a send is `SendNow` when
`proc_try_send` finds its receiver waiting, and `SendAndWait` otherwise (`SendView`); an
iteration of the loop in which a blocked sender hands its message to the current process is
`Exchange` (`ScanView`). Allocating a slot is `Create`, freeing and killing are `Destroy`
(`CreateView`, `FreeView`, `DestroyView`). Everything else is invisible (`SilentView`), also
the iteration in which `proc_try_recv` wakes both sides: for the callers the exchange took
place when the message was handed over. `MapInv` is what this needs beyond
`IInv` and `LoadInv`: the last slot never starts, a blocked process is in one of the two
system calls, and a new process in an old slot has received nothing.

### The programs of egos-2000: `EgosProofs`

For every size of the process table, every subset of the commands and of the applications'
requests, and every bound on them (`ServersAssumption`, on top of `GrassAssumption`):

* `SysImplementsGrass`: `SysSpec => Spec`. The programs are among the clients of `Grass`, so
  every theorem of `GrassProofs` holds of the whole system too;
* `EgosInvariant`, the inductive invariant, and from it `OneDiskUser` (`DiskExclusive`),
  `EveryMessageHandled` (`MessagesHandled`) and `ForegroundHasEnded` (`ForegroundIsGone`);
* `EveryFatalHasCause`: the invariant `FatalHasCause`. This includes that `proc_yield` always
  finds a process to run, unless the last slot of the table, which the loops do not see, has
  been handed out: otherwise the system is never deadlocked. The exception is needed. The
  process in the last slot is never started, and if it is the shell's foreground application
  everybody waits for it (`egos_safety` gets there).

`UpInv` holds as long as there was no FATAL. `SlotInv`: a server is in the slot of its pid,
and never ends. `ProcLabels`, `ServerLabels`, `ShellLabels` and `AppLabels` say for each
label what the process may be blocked on there, `ProcInbox` ... `AppState` what it has
received where it reads it; `CallLabels` ties the labels of GPID_PROCESS to the grass calls. On this
rest the three protocols:

* `BootInv` - the "Finish initialization" of a server is outstanding exactly while
  GPID_PROCESS is yet to receive it (`Due`), so there is none that a later receive could take for a reply, and
  as long as the boot lasts the file server has no request. `DiskExclusive` follows.
* `BlockOwed`, `ReplyOwed` - a server owes a reply only to a client that is about to take
  it, or that is gone. So a reply is never taken for another one, and a reply nobody takes
  means that killall freed the client (`OwedToKilled`).
* `TalkInv` - the shell waits for the answer while GPID_PROCESS serves its command, and for the
  end of a foreground application until that is gone; the notice of an end is for this
  application, since a background application's end leaves `app_pid` another.

`KernelView` reduces the kernel to what the programs can notice: a step of it changes nothing
that `UpInv` speaks of, or it wakes one receiver with one sender, of whom each was blocked on
the other. `WhoWaits` and `WhoSends` list who that can be, and there is one lemma for each
pair, and one for each step of each program (`...Keeps`).

That the programs are never all blocked needs the converse of some parts of `UpInv`: not only
is a reply owed to nobody but who waits for it, whoever waits is owed one. `WaitInv` says so:

* `LoadingInv` - who is not blocked and not ready is the process being loaded;
* `AskInv` - at "request" a receive takes a message from anybody;
* `OwedInv` - whoever waits for a server's reply is owed it by this server;
* `EndInv` - while the shell waits for an answer, GPID_PROCESS serves its command or is
  answering; while it waits for an end, the application is there or its notice is coming;
* `SendTargets` - a blocked sender that the loop has passed has a receiver, or there was a FATAL.

Suppose the loop ends with nobody to run (`Stuck`). Nobody can exchange a message then, by the
invariants of `Grass` (`StuckFacts`), and the boot is over (`StuckProcess`). The servers are at
"request", where nobody sends to them, and owe nothing (`StuckServers`). So GPID_PROCESS
waits for a request, and the shell for the end of an application that is there; this one is
blocked as well, and there is nobody left that it could be waiting for (`NeverStuck`).

### The memory of egos-2000: `SoftTlbProofs`

For any number of pages and processes, programs of any size and any regions
(`SoftTlbAssumption`), if the pages that `elf_load` maps for one program have different
addresses in the user region (`PlanAssumption`: `app.lds` puts code and data into separate
page-aligned regions below the arguments and the stack): `OwnMemorySeen`
(`RunningSeesOwnMemory`), `MemoryKept` (`DormantMemoryKept`), `NoPageLost` (`PagesAccounted`),
`PageTablesIntact` (`TablesIntact`) and `ProgramLoaded` (`ImageComplete`). All follow from
`TlbInv`:

* `MemInv` - the memory of a process is in the window if it is `curr_vm_pid`, and in its
  physical pages otherwise. A switch keeps it (`SwitchKeeps`) because
* `PageInv` - no process has two pages for one address, a free page has nobody's name on it,
  and only the page the loader is at may have a pid and no address yet. Without the last part
  the copy loops of `soft_tlb_switch` would move a page to or from address 0; and
* `ProcInv` - whoever is in the window was made ready and is never the process being loaded, so
  the loader's stores, which go to physical addresses, are not overwritten by a switch.
* `LoadInv` - where `elf_load` is: the pages of the plan up to there exist and hold their
  blocks of the file and zeros, whoever has run since. `OwnInv` is what remains of it once the
  process is ready, until it is freed.
* `TableInv`, `RootInv` - the page tables are exactly the pages in use without a pid, other than
  the one just allocated; so nothing that goes by pid ever touches one, and each leaf holds the
  entries of all regions mapped so far.

`SegmentCovered` is the arithmetic of `elf_load`: its two loops, with a last page that is only
partly filled and `end_pageno` rounded down, allocate every page that `ImageComplete` asks for
and read into it exactly the blocks of the file that lie there.

### The scheduler's accounting: `MlfqProofs`

For any number of processes, levels, and every width of the unsigned fields that holds the
quota of a level and a slice (`MlfqAssumption`): `MlfqTypeCorrect`, `BooksBalance`
(`QuotaBooks`) and `WaitIsBounded` (`BoundedWait`). The first two are inductive together. The
bound on waiting is not: `WaitInv` says that somebody waits for at most the time since the
last reset and one slice, or is on the best level, and then for each process that is before
it in the round there is a slice left below the bound. The proof's measure is the number of
processes ahead; a reset may put everybody on the best level, and from there on the measure
falls with every slice.

### The job scheduler: `SchedulerProofs`

For any number of jobs and processors, any table left by an old session, and every
interleaving of the shell's and the scheduler's accesses, those in the middle of the loop that
builds the queue included: `NeverMoreThanNcpu` (`AtMostNcpu`), `StoppedBetweenQuanta`
(`RunsOnlyInQuantum`) and `NoneLeftBehind` (`ResumedAreKilled`). The difficulties are the entry
that is counted before its pid is stored, whose signals go to pid 0, and the entry that the
loop reads before the shell makes it ready, which the queue then misses although it has later
ones. `TableInv` says what an entry may hold at each label of the shell, `ResumedInv` that a
signal to the entry of a job that was once given a quantum still reaches it, `MarkedInv` which
entries are marked running, and that they are in this quantum, `QueueInv` that the queue is in
table order.

`ReadyInv` and `AwakeInv` are the key. An entry the queue misses is the last of the table, and
its job has had no quantum yet. So a live job that once had one is ready or marked, and every queue has it
(`ReadyInv`): none is left when the scheduler finds its queue empty. And such a job runs only
in this quantum, before the scheduler has stopped it (`AwakeInv`). A SIGCONT to its own pid is
sent because it is in the quantum. One to pid 0 comes from the last entry of the table, which
is last in the queue as well, so when it is in the quantum everybody in the queue is. The
SIGCONT to pid -1 of a failed fork is the exception: it may come from an entry in front of jobs that are not in the quantum, which
`woken` records.

### The multithreader: `ForkJoinProofs`

For every call, with any number of threads, and whichever threads cannot be created:
`EveryIterationOnce` (`EachExactlyOnce`) and `ThreadsEndFirst` (`NoThreadOutlivesCall`).
`ChunkInv` says that the chunks given away so far follow each other and cover the rows up to
`current`, and that what is left is what the remaining threads get: the remainder of the
division goes to the last. `ThreadInv` and `CallInv` say that a thread has called the lambda
for exactly the part of its chunk that is behind it, `JoinInv` that a joined thread has ended.

### The lazy loader: `SmartLoaderProofs`

For any page size and any segments as the linker makes them (`LoaderAssumption`: offset and
address agree within a page, only writable segments have BSS, no page has bytes of two
segments; the address space consists of whole pages): `ImageIsTheFile`
(`ImageUnlessBssFirst`), `StatisticsAreExact` (`StatisticsExact`) and the action property
`WritesAreKept` (`WritesSurvive`). `MemInv` says that memory consists of whole pages, each
mapped by one fault in one segment (`From`), which is what makes a second fault on a mapped
page impossible for a legal access and so keeps what was written; `CountInv` that the counters
are the cardinalities of the pages and of the bytes that belong to no segment.

### The Unix shell: `ForkJoinProofs`

For any capacity of the pipes, any output of the programs, any size of the history and any number
of lines (`ShellAssumption`): `PromptAfterAll` (`PromptIsClean`), `NoEarlyEof` (`EofAfterWriter`) and
`RecordsBelong` (`RecordsAligned`), from `ShellInvariant`. `ControlInv` says at each point of
`launch` and the pipe functions which children have been forked and which pipe ends the shell
holds; `ChildInv` that a child that has been forked and not yet replaced holds every end the
shell had then, and a running program only those of its own pipes. So the last write end of a pipe is
its writer's, and no end is left when the shell has waited for everybody. `RecordInv`: no
line has more than one record of a kind, so a counter that has kept up with the lines has
missed none.

### treedisk: `TreeDiskProofs`

For any size of a block (`REFS_PER_BLOCK > 1`) and of the disk, any inodes, values and largest
offset, and a write that may find the disk full at every allocation (`TreeDiskAssumption`):
`TreeDiskInvariant`, and from it `FilesReadBack` (`ReadsBack`) and `NoBlockLostOrShared`
(`NothingLostOrShared`).

`TreeInv` says that the disk has a layout. A place `<<file, level, number>>` of a tree has one
block or is a hole, and the function `T` says which: the code has no such table, it is what the
references on the disk amount to. The other witnesses are the height of each file's tree as the
write in progress has made it, the contents `e` that each block counts as, the one block
`F` that was just taken and still has its entry of the free list in it, and the blocks that
hold the free list (`Heads`) or are referred to on it (`Items`). Of these:

* `Placed`, `Rooted`, `Linked` - no block is at two places, each root is at its inode, and a block of
  references refers to the places below its own. Without the first, a write through one
  place would show at another;
* `Stored` - what was written is in the blocks of level 0, and a hole has nothing written to it;
* `Chain`, `InOrder`, `Apart`, `Kept` - the free list has each block once and goes down from
  head to head, so it ends; none of its blocks is in a tree; and no block that was once put on it has
  gone from both;
* `Pending`, `GrowInv`, `WalkInv` - where `treedisk_write` is: the new roots are not in the inode
  yet, `b` is the block at the place the walk has reached, `tib` the contents of its parent.
  That the block just taken is written before anybody follows its references is `Pending`.

The steps are followed in `GrowTreeInv`, `WalkTakeTreeInv` and so on, with `Allocate` for what
`treedisk_alloc_block` does to the list, whether it takes the last item of a head or the
head itself. What the recursive functions of `TreeDisk` compute is proved with sets of naturals
in place of predicates: `UpTo` is induction up to a bound, from the least
element of a set. It shows that the equations of `log_shift_r`, `ReadFrom`, `ListFrom` and
`TreeFrom` have a solution, so each function is what its equation says (`ShiftDef`, `ReadDef`,
`ListDef`, `TreeDef`), that a read follows the places (`ReadsTree`), and that the blocks found by following
the list or a tree are the heads and the places (`ListIsHeads`, `TreeIsPlaces`).

### Only model-checked

* Liveness under fairness (`BootCompletes`, `CommandCompletes`, `ExitTerminates`,
  `FirstJobsGetQuantum`, `PForEnds`, `InstructionCompletes`, `PromptReturns`): out of the
  prover's reach. Every safety property of a passing run is stated by a theorem.

## 5. What the checks found

* The quota of a level is unsigned. A slice longer than what is left wraps it, and the test
  `<= 0` of `mlfq_update_level` (`process.c:151`) is false: the process is not demoted
  (`mlfq_quota`).
* `simple-shell.c:196` increases `job_count` before it stores the pid. A scheduler that
  builds its queue in between sends its signals to pid 0: to the shell, the jobs and itself
  (`sched_publish`). No job is run outside a quantum by this, and exit still ends, but the
  SIGSTOP that follows may stop shell and scheduler.
* The end of a quantum, commented "Stop jobs" (`scheduler.c:142`), does not stop all that run.
  An entry whose fork failed has the pid -1, for which the SIGCONT goes to every process of the
  user; it wakes jobs that are not in this quantum. The entry itself is then taken for ended, since
  `waitpid` returns -1 as well, and nobody is stopped (`woken` in `RunsOnlyInQuantum`).

Passing properties that are weaker than one would expect, because the code is:

* `FatalHasCause`: four FATALs can be reached. An exception in an application, as `crash1.c`
  raises it, ends the system (`kernel.c:70`). killall while a server works for an application ends in
  the FATAL of `kernel.c:209` when the server replies. A full table ends in that of
  `process.c:60`. And the last slot that `proc_alloc` hands out is not in the range of the
  loops of `proc_set_status` and `proc_yield`: an application there never starts, and the
  system ends in the FATAL of `kernel.c:164` when the shell waits for it.
* `ImageUnlessBssFirst`: the loader asks whether the faulting address, not the page, is
  behind the file data (`SimpleSmartLoader.c:69`). When the page with the end of the data is
  first touched in its BSS part, the data in it is lost.
* `EachExactlyOnce`: the result of `pthread_create` is ignored, so the chunk of a thread
  that cannot be created is skipped.
* `RunsOnlyInQuantum`: not for jobs that were woken by the SIGCONT to pid -1 (see above).
* `ResumedAreKilled`: a job submitted between the scheduler's last look at the table and
  exit is neither run nor killed, although "All jobs completed" is printed
  (`scheduler.c:118, 168`).
* `RecordsAligned`: `launch_pip2` stores no pid, and a failed fork or a line with too many
  pipes stores nothing, after which all later pids and times are printed with the wrong
  lines (`simple-shell.c.c:217-221, 256-261`). When the history wraps, the tables are shifted
  but their counters are not, and the next record is written behind the arrays
  (`simple-shell.c.c:35-40, 75`); the model stops there.
* `FirstJobsGetQuantum`: only the first `ncpu` entries are sure to run. The queue is rebuilt in
  table order after every quantum, and since `waitpid` on another process's child never
  reports an end, ended jobs stay in front for ever. Even of these, one is lost whose entry still had the -1 of
  an earlier session's failed fork when the scheduler looked: it is taken for ended
  (`TakenForEnded`).
* `ImageComplete`: `end_pageno` is rounded down (`elf.c:32`), so the last page of a `.bss`
  that does not fill it is not mapped. Processes then share what is at that address.
* `PicksBestLevel`: a sender that is woken by the receive of the current process, after the
  loop has passed it, is not a candidate of this round.
* `ReadsBack`: when the disk fills up in the middle of a write, holes of that file may show
  a block of the free list.

Seen while modelling, without a property: `proc_free(pid)` prints the
statistics of the first live application; a shell of `group-16-3` that is killed alone leaves
its scheduler behind, and the next one starts a second on the same table; `pause()` in `dummy_main.h` is not ended
by a SIGCONT with its default action; `command2` and `command3` of the Unix shell get their
NULL at `counter` instead of their own length (`simple-shell.c.c:302, 323, 328`), so that
`execvp` may see arguments that were never set (a case of `ExecFails`); the execution time of
a pipeline is taken before it is waited for.

## 6. What is not modelled

* The text that is printed, parsed or stored (commands, paths, directories, statistics).
* `kernel.s`, `boot.s` and the boot code: registers are saved and restored, and one core is
  started (the other three wait for a lock that this repository never releases).
* The device drivers of the earth layer (`dev_disk.c`, `dev_tty.c`): sequences of register
  accesses whose outcome is the device's. What the layers above must see to, that the disk
  has one user at a time, is `DiskExclusive`. Cache and TLB flushes have no counterpart in
  a model without caches.
* `udp_demo.c` and the video demo: straight lines of register accesses, one process.
* `mydisk`, an exercise that is empty here; `mkfs`, of which `TreeDisk` has the creation of
  the file system, and which otherwise copies files; the starter loader, a straight line of
  system calls.
* What goes on after a FATAL. The model stops; in the code that of `proc_alloc` is an endless
  loop of GPID_PROCESS with interrupts on, beside which the others still run.
* `loop.c`, an application that never ends, and `crash2.c`, which overwrites memory of others
  that nothing protects.
* A second scheduler on the shared table of `group-16-3`, pids that the system hands out
  again, and the halves of `scheduler.c` and `simple-shell.c` that are commented out.
* `group-16/simple-shell.c.c` is the same file as the one in `group-16-2` that `SimpleShell`
  models.

## 7. Plan

Done, in this order: `Grass` with its refinement and proofs, `EgosServers`, `Mlfq`,
`SimpleScheduler`, `ParallelFor`, `SmartLoader`, `TreeDisk`, `SimpleShell`, `SoftTlb`, `MTimer`
with its proofs; the remaining safety properties of `Grass` and its refinement, and the safety
properties of `SoftTlb`, `Mlfq`, `SimpleScheduler`, `ParallelFor`, `SmartLoader`, `SimpleShell`,
`EgosServers` and `TreeDisk`, proved, among them that the programs of egos-2000 are never all
blocked.

What remains is in section 6, and the liveness properties, which stay with TLC.
