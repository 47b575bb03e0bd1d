CONSTANTS
  LongHalf = 8
  ByteHalf = 4
  ExpBits = 3
  FracBits = 4
  WideBits = 16
  MaxDepth = 2
  Jobs <- ComputeJobs
  Left <- AnyLeft
SPECIFICATION Spec
INVARIANTS WideExact RoutinesRight ComparesRight FloatsRounded
PROPERTY ContextRestored
CHECK_DEADLOCK FALSE
