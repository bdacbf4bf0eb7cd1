SPECIFICATION FairSpec
CONSTANTS
  RankSize = 4
  Numel <- Calls
  SHM_BLOCK_SIZE_L = 1
  SHM_BLOCK_SIZE_S = 2
  SmallNumel = 2
  MAX_SHM_BLOCK_COUNT = 3
INVARIANTS TypeOK AllReduced NoStaleFlag ExclusiveBlock
PROPERTY AllEnd
CHECK_DEADLOCK FALSE
