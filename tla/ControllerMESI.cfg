SPECIFICATION Spec
CONSTANTS
  Protocol = "MESI"
  CacheHitCycleCost = 1
  CacheResponseCycleCost = 2
  MemoryResponseCycleCost = 3
  NumProcessors = 2
  NumSets = 2
  NumLinesInSet = 2
  Blocks <- ThreeTagsOneShared
  TraceLength = 4
  TraceLines <- Accesses
CHECK_DEADLOCK FALSE
INVARIANTS
  TypeOK
  SetsAreSound
  VictimIsDetermined
  LastJobIsMostRecent
  StatsAddUp
PROPERTIES
  FlushPaidIsFlushDone
  ImplementsCoherence
  ImplementsLRU
