SPECIFICATION Spec
CONSTANTS
  Protocol = "MOESI"
  CacheHitCycleCost = 1
  CacheResponseCycleCost = 2
  MemoryResponseCycleCost = 4
  NumProcessors = 3
  NumSets = 1
  NumLinesInSet = 1
  Blocks <- TwoTags
  TraceLength = 4
  TraceLines <- Accesses
CHECK_DEADLOCK FALSE
INVARIANTS
  StatsAddUp
  OneSourcePerMiss
  RequestTakesTime
PROPERTIES
  ImplementsCoherence
