CONSTANTS
  MAX_JOBS = 2
  ncpu = 1
  OldEntries <- FreshTable
SPECIFICATION SchedulerSpec
INVARIANT QueuedAreJobs
