CONSTANTS
  LineSize = 2
  NrSets = 2
  NrWays = 2
  NrBlocks = 5
  Lens <- ShortLens
  Byte <- Bits
  Written <- SomeBytes
SPECIFICATION KeptSpec
CHECK_DEADLOCK FALSE
INVARIANT Coherent
PROPERTY ImplementsFlatMemory
