CONSTANTS
  Irqs <- DiskIrqs
  NrSectors = 3
  NrWords = 2
  PortBase = 2
  NrSecCache = 2
  TicksPerSync = 2
  CounterMod = 4
  MaxDepth = 3
  Uses <- ExportedUses
  Written = Written
  NoRequest = NoRequest
SPECIFICATION FairSpec
CHECK_DEADLOCK FALSE
PROPERTIES ImplementsStore
