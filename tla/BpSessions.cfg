CONSTANTS
  NR_BP = 3
  Addr <- LoopAddr
  Code <- LoopCode
  Succ <- LoopSucc
  Start = 0
  Handler = 4
  Vals = {0, 1}
  Sessions <- BothSessions
  MaxSi = 2
  Duplicates = FALSE
  None = None
SPECIFICATION Spec
CHECK_DEADLOCK FALSE
INVARIANTS TypeOK PoolPartition CodeRecoverable ArmedOnContinue
PROPERTIES HitMakesProgress ChangePauses
