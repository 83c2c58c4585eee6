SPECIFICATION Spec
CONSTANTS
  Size = 4
  BEATSIZE = 2
  Byte = {0}
  WriteReq = {}
  ReadReq <- WrapReads
  WriteBeat = {}
  memoryWriteDepth = 0
  memoryReadDepth = 0
  memoryWriteLatency = 0
  memoryReadLatency = 0
  memoryOOOR = FALSE
  EarlyW = FALSE
  SharedID = FALSE
INVARIANTS InBoundsAccepted
