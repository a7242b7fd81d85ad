CONSTANTS
  MAX_NPROCESS = 7
  MLFQ_NLEVELS = 1
  GPID_SHELL = 4
  GPID_USER_START = 5
  Contents <- MCContents
  NoContent = "none"
  MaxPid = 8
  Commands = {"spawn_fg", "spawn_bg", "killall"}
  MaxCommands = 3
  AppOps = {"read", "crash"}
  MaxOps = 1
  LoadReads = 1
SPECIFICATION SysSpec
INVARIANTS DiskExclusive FatalHasCause MessagesHandled ForegroundIsGone
