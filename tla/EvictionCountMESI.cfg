SPECIFICATION Spec
CONSTANTS
  Protocol = "MESI"
  CacheHitCycleCost = 1
  CacheResponseCycleCost = 2
  MemoryResponseCycleCost = 3
  NumProcessors = 2
  NumSets = 1
  NumLinesInSet = 2
  Blocks <- ThreeTags
  TraceLength = 3
  TraceLines <- Accesses
CHECK_DEADLOCK FALSE
PROPERTIES
  EvictionsCounted
