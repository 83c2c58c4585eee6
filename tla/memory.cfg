SPECIFICATION FairSpec
CONSTANTS
  Size = 4
  BEATSIZE = 2
  Byte = {0, 1}
  WriteReq <- Writes
  ReadReq <- Reads
  WriteBeat <- LaneBeats
  memoryWriteDepth = 2
  memoryReadDepth = 2
  memoryWriteLatency = 0
  memoryReadLatency = 1
  memoryOOOR = TRUE
  EarlyW = FALSE
  SharedID = FALSE
INVARIANTS TypeOK NoAssertion DepthsKept
PROPERTIES IsAXIMemory RequestsAnswered
