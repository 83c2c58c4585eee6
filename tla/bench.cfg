SPECIFICATION FairSpec
CONSTANTS
  Hosts = {"v3", "dpi"}
  Groups <- ChannelGroups
  memoryWriteDepth = 2
  memoryReadDepth = 2
  RStall = FALSE
INVARIANTS
  BeatsAgree
  ReportTruthful
PROPERTY RunEnds
CHECK_DEADLOCK FALSE
