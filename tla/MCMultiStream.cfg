SPECIFICATION FairSpec
CONSTANTS
  Available = {1, 2, 3}
  Unpinned = Unpinned
  CoreLists <- Lists
  Streams = {0, 1, 2, 5}
  Mode = {"concat", "raw", "benchmark"}
  Batches = {0, 1, 2, 3, 5}
  MaxCalls = 2
  MaxPins = 1
INVARIANTS CoresPartitioned RowsPartitioned OwnRowsInOrder
PROPERTIES ForwardEnds SyncOnItsCores
