SPECIFICATION FairSpec
CONSTANTS
  w1 = w1
  h1 = h1
  Writer = {w1}
  Holder = {h1}
  FirstChunkBytes = 2
  ChunkSizes = {1, 2}
  ImageSizes = {1, 3}
  Supplied <- MCSupplied
  MaxInstances = 2
  MaxCheckpoints = 2
  MaxRestores = 2
  MaxRecycles = 1
  MaxCrashes = 1
  MaxFaults = 1
  MaxEvents = 2
INVARIANTS
  StoreReadsBack
  AnsweredIsDurable
  PendingRestoreFences
  OneLiveImageUnlessCrossed
PROPERTIES
  ReplaceOnlyExpected
  OperationsSettle
CHECK_DEADLOCK FALSE
