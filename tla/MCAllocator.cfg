SPECIFICATION PlainSpec
CONSTANTS
  BlockId = {1, 2, 3, 4, 5, 6}
  Device <- TwoDevices
  Queue = {1, 2, 3}
  QueueObject = {1, 2}
  DeviceOf <- TwoDevicesOf
  CallSite <- TwoCallSites
  NeverUsed <- ThirdOnFirst
  Mempool = {}
  ASize = {1, 9}
  Bases = {0, 16}
  Capacity <- TightCapacity
  Has2DBlockArray = {0}
  MaxGraphs = 0
  MaxActive = 2
  kMinBlockSize = 2
  kSmallSize = 4
  kSmallBuffer = 8
  kLargeBuffer = 16
  kMinLargeAlloc = 8
  kRoundLarge = 8
  kStatefulLimit = 8
  NULL = NULL
  Destroyed = Destroyed
INVARIANTS TypeOK NoOverlap BlocksTileSegments EventBlocksHeld OnePlace NoLostBlock NoUseAfterFree Coalesced StatsMatch
PROPERTIES EmptyCacheReleases CallsReturn ImplementsAbstract
