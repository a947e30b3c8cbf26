SPECIFICATION DiskSpec
CONSTANTS
  i1 = i1  i2 = i2
  Incidents = {i1, i2}
  Connected = {i1}
  Batch = 1
  MaxPending = 1
  MaxVersion = 2
  MaxStops = 1
INVARIANTS NewestKept IdentifierKept
PROPERTIES ReclaimedWhenDone KeepsHistory WriterFreed QueueEmpties
CHECK_DEADLOCK FALSE
