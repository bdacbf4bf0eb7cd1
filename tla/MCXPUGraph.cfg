SPECIFICATION GraphSpec
CONSTANTS
  BlockId = {1, 2, 3}
  Device <- OneDevice
  Queue = {q1, q2}
  QueueObject = {q1, q2}
  DeviceOf <- OneDeviceOf
  CallSite <- AnyQueue
  NeverUsed = {}
  HeldQueue <- OwnQueue
  Graph = {g1, g2}
  Mempool = {m1}
  ASize = {3}
  Bases = {0}
  Capacity <- TightCapacity
  Has2DBlockArray = {}
  MaxGraphs = 2
  MaxActive = 1
  kMinBlockSize = 2
  kSmallSize = 4
  kSmallBuffer = 8
  kLargeBuffer = 16
  kMinLargeAlloc = 4
  kRoundLarge = 8
  kStatefulLimit = 8
  NULL = NULL
  Destroyed = Destroyed
SYMMETRY Symmetric
INVARIANTS StatsMatch GraphPoolsReferenced OwnersCounted
PROPERTIES UsesAllocatorAsSpecified CapturedByObject
