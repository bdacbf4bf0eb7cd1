SPECIFICATION FairSpec
CONSTANTS
  Client = {c1, c2}
  Input = {i1, i2, i3}
  Kind = {"script", "python", "cpp"}
  NULL = NULL
INVARIANTS StopDrains NoLostWakeup
PROPERTIES ImplementsAsyncTask FuturesReady ClientsReturn
CHECK_DEADLOCK FALSE
