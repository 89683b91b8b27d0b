SPECIFICATION Spec
CONSTANTS
  Protocol = "MOESI"
  CacheHitCycleCost = 1
  CacheResponseCycleCost = 2
  MemoryResponseCycleCost = 4
  NumProcessors = 2
  NumSets = 1
  NumLinesInSet = 1
  Blocks <- TwoTags
  TraceLength = 3
  TraceLines <- Accesses
CHECK_DEADLOCK FALSE
INVARIANTS
  HitsUseNoMemory
