SPECIFICATION Spec
CONSTANTS
  Protocol = "MSI"
  CacheHitCycleCost = 1
  CacheResponseCycleCost = 2
  MemoryResponseCycleCost = 3
  NumProcessors = 3
  NumSets = 1
  NumLinesInSet = 1
  Blocks <- TwoTags
  TraceLength = 3
  TraceLines <- AnyLines
CHECK_DEADLOCK FALSE
INVARIANTS
  NoRequestLeftWaiting
  OneJobAtATime
  JobsTakeBoundedTime
  OneSourcePerMiss
PROPERTIES
  ImplementsCoherence
  LineWithoutAccess
  Termination
