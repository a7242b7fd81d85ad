CONSTANTS
  MAX_HISTORY_SIZE = 3
  MaxLines = 5
  Items = 2
  Capacity = 1
SPECIFICATION ShellSpec
INVARIANTS PromptIsClean EofAfterWriter RecordsAligned
PROPERTY PromptReturns
CHECK_DEADLOCK FALSE
