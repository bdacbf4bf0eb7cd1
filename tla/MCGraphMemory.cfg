SPECIFICATION Spec
CONSTANTS
  BlockId = {1, 2, 3, 4, 5, 6, 7, 8}
  Device <- OneDevice
  Queue = {q1}
  QueueObject = {q1}
  DeviceOf <- OneDeviceOf
  CallSite <- OwnDevice
  NeverUsed = {}
  Mempool = {m1}
  ASize = {3, 5}
  Bases = {0, 8}
  Capacity <- TightCapacity
  Has2DBlockArray = {}
  MaxGraphs = 2
  MaxActive = 2
  kMinBlockSize = 2
  kSmallSize = 4
  kSmallBuffer = 8
  kLargeBuffer = 16
  kMinLargeAlloc = 8
  kRoundLarge = 8
  kStatefulLimit = 8
  NULL = NULL
  Destroyed = Destroyed
INVARIANT GraphMemoryRetained
