CONSTANTS
  MAX_NPROCESS = 4
  MLFQ_NLEVELS = 2
  MLFQ_RESET_PERIOD = 4
  LevelUnit = 1
  MaxSlice = 2
  ShellSlot = 2
  Width = 4
SPECIFICATION MlfqSpec
INVARIANT QuotaEnforced
