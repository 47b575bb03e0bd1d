CONSTANTS
  Irqs <- DeviceIrqs
  Main = Main
  Free = Free
  Destroyed = Destroyed
  Raisers = {t1, t2}
  HasKeyboard = TRUE
SPECIFICATION FairSpec
CHECK_DEADLOCK FALSE
INVARIANTS TypeOK QueryFindsVector PinMatchesSlot AckCoversQueried
PROPERTIES PriorityKept HaltedCpuWakes
