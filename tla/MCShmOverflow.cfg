SPECIFICATION Spec
CONSTANTS
  RankSize = 2
  Numel <- OverflowCalls
  SHM_BLOCK_SIZE_L = 1
  SHM_BLOCK_SIZE_S = 2
  SmallNumel = 2
  MAX_SHM_BLOCK_COUNT = 3
INVARIANT AllReduced
CHECK_DEADLOCK FALSE
