SPECIFICATION Spec
CONSTANTS
  LineBytes = 2
  NumSets = 2
  NumTagBits = 5
  NumTags <- WideTags
  IntBits = 4
  Addresses <- SpreadAddresses
INVARIANTS
  FoundLineIsAlias
  MemoryIsHeldOnce
