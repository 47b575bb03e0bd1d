CONSTANTS
  Irqs <- SoundIrqs
  Main = Main
  Monitor = Monitor
  Callback = Callback
  Free = Free
  NrBuffers = 3
  BufferLen = 2
SPECIFICATION Spec
CHECK_DEADLOCK FALSE
INVARIANTS RefillRequested
