SPECIFICATION Spec
CONSTANTS
  Hosts = {"v3"}
  Groups <- Reads
  memoryWriteDepth = 2
  memoryReadDepth = 2
  RStall = TRUE
INVARIANT BeatsAgree
CHECK_DEADLOCK FALSE
