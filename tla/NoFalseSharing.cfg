SPECIFICATION Spec
CONSTANTS
  NumThreads = 3
  NumElements = 1
CHECK_DEADLOCK FALSE
INVARIANTS
  TypeOK
  AllArrived
  BarrierInTrace
PROPERTIES
  Ends
  ReturnsBeforeOrAfter
