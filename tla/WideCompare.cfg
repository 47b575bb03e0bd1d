CONSTANTS
  LongHalf = 8
  ByteHalf = 4
  ExpBits = 3
  FracBits = 4
  WideBits = 16
  MaxDepth = 2
  Jobs <- WideCompareJobs
  Left <- AnyLeft
SPECIFICATION Spec
INVARIANT WideCompareRight
CHECK_DEADLOCK FALSE
