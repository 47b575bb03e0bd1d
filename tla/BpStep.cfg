CONSTANTS
  NR_BP = 2
  Addr <- LoopAddr
  Code <- LoopCode
  Succ <- LoopSucc
  Start = 0
  Handler = 4
  Vals = {0, 1}
  Sessions <- AllSessions
  MaxSi = 2
  Duplicates = FALSE
  None = None
SPECIFICATION Spec
CHECK_DEADLOCK FALSE
INVARIANTS BreakpointsArmed
