CONSTANTS
  MAX_JOBS = 3
  ncpu = 2
  OldEntries <- UsedTable
SPECIFICATION FairSchedulerSpec
INVARIANTS AtMostNcpu RunsOnlyInQuantum ResumedAreKilled
PROPERTIES ExitTerminates FirstJobsGetQuantum
