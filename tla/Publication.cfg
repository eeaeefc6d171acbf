SPECIFICATION MCSpec
CONSTANTS
  i1 = i1
  i2 = i2
  i3 = i3
  Indices <- MCIndices
  Fetches <- MCFetches
  Held <- MCFetches
  NBlocks = 4
  NFlows = 2
  NIndices = 2
INVARIANTS
  ReadsPublished
  ReleasedAfterReads
  DataOutlivesFlows
PROPERTIES
  EveryFetchServed
CHECK_DEADLOCK FALSE
