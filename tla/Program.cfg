CONSTANTS
  PageLen = 2
  NrPTE = 2
  NrPDE = 13
  Directories <- KernelDirs
  Tables <- KernelTables
  TlbSize = 2
  None = None
  PhyFrames = 10
  KMEM = 5
  KOFFSET = 16
  VideoPage = 1
  StackPages = 1
  Segments <- TwoSegments
  MaxBrk = 29
  Byte <- Bits
  Lens <- ShortLens
  Written <- WrittenAddr
  KernelPages <- SomeKernel
  Builds <- BothBuilds
SPECIFICATION Spec
CHECK_DEADLOCK FALSE
INVARIANTS FramesPrivate NoFault TlbAgrees
PROPERTY ImplementsFlatMemory
