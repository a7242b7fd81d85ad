CONSTANTS
  MAX_NPROCESS = 7
  MLFQ_NLEVELS = 1
  GPID_SHELL = 4
  GPID_USER_START = 5
  Contents <- MCContents
  NoContent = "none"
  MaxPid = 7
  Commands = {"spawn_fg", "spawn_bg", "spawn_bad"}
  MaxCommands = 2
  AppOps = {"input", "print"}
  MaxOps = 1
  LoadReads = 0
SPECIFICATION FairSysSpec
PROPERTIES CommandCompletes BootCompletes
