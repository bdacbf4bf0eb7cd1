SPECIFICATION Spec
CONSTANTS
  BlockId = {1, 2, 3, 4, 5, 6}
  Device <- OneDevice
  Queue = {q1, q2}
  QueueObject = {q1, q2}
  DeviceOf <- OneDeviceOf
  CallSite <- OwnDevice
  NeverUsed = {}
  Mempool = {}
  ASize = {1, 5, 9}
  Bases = {0, 8}
  Capacity <- TightCapacity
  Has2DBlockArray = {}
  MaxGraphs = 0
  MaxActive = 2
  kMinBlockSize = 2
  kSmallSize = 4
  kSmallBuffer = 8
  kLargeBuffer = 16
  kMinLargeAlloc = 8
  kRoundLarge = 8
  kStatefulLimit = 8
  NULL = NULL
  Destroyed = Destroyed
INVARIANT OutOfMemoryOnlyWhenExhausted
