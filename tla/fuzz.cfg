SPECIFICATION FairSpec
CONSTANTS
  Kind <- CAndUL
  Modes <- ModePairs
  startupCycle = 1
  maximumCycles = {0, 31}
  fuzzARIInterval = 9
  fuzzARITarget = 6
  fuzzStreamStep = 2
  fuzzStreamInterval = 4
  fuzzStreamStart = 4
  fuzzStreamEnd = 20
  BWPROF_STRIDE_ELEMENT = 2
  ProfileBytes = 4
  Times = {1, 2}
  timeStep = 2
  Draws = {0, 5}
  MaxDenied = 3
  MaxTime = 200
INVARIANTS RangesInTime ProfileAddsUp
PROPERTY FuzzEnds
CHECK_DEADLOCK FALSE
