SPECIFICATION FairSpec
CONSTANTS
  cAgentCount = 2
  size = 8
  thresholdR = 7
  thresholdB = 8
  widthB = 1
  epochs = 2
  ulAgents = TRUE
  Ids <- TwoAndOne
INVARIANT StagesInOrder
PROPERTY EpochsEnd
CHECK_DEADLOCK FALSE
