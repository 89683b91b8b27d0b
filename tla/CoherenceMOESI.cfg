SPECIFICATION Spec
CONSTANTS
  Protocol = "MOESI"
  c1 = c1
  c2 = c2
  c3 = c3
  Procs <- Procs3
  Blocks <- EvictionAndSharedTag
SYMMETRY ProcSymmetry
INVARIANTS
  OneOwner
  CoherenceInv
PROPERTIES
  DirtyKeptUnlessFlushed
