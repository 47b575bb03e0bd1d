CONSTANTS
  Irqs <- SoundIrqs
  Main = Main
  Monitor = Monitor
  Callback = Callback
  Free = Free
  NrBuffers = 3
  BufferLen = 2
SPECIFICATION FairSpec
CHECK_DEADLOCK FALSE
INVARIANT FillsLockedChunk
PROPERTIES PlayedInOrder StopCloses
