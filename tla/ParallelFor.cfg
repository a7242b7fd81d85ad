CONSTANTS
  Calls <- MCCalls
  CreateFails = TRUE
SPECIFICATION FairPForSpec
INVARIANTS NoThreadOutlivesCall EachExactlyOnce
PROPERTY PForEnds
