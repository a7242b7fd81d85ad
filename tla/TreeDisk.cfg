CONSTANTS
  REFS_PER_BLOCK = 2
  nblocks = 9
  n_inodeblocks = 1
  Inodes <- MCInodes
  MaxOffset = 4
  Values <- MCValues
SPECIFICATION TreeSpec
INVARIANTS ReadsBack NothingLostOrShared
