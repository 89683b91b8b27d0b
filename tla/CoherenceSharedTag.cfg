SPECIFICATION Spec
CONSTANTS
  Protocol = "MESI"
  c1 = c1
  c2 = c2
  c3 = c3
  Procs <- Procs3
  Blocks <- SharedTag
INVARIANTS
  HitIsHeld
