SPECIFICATION Spec
CONSTANTS
  NCore = 1
  Addr = {a0, a1}
  Alias = {x0}
  SourceID = {0, 1}
  Data = {z}
  Zero = z
  Ops <- Flushes
  cmoParallelDepth = 1
  memorySyncStrict = FALSE
  CStall = TRUE
  EStall = TRUE
  Unfiltered = FALSE
  CleanToT = FALSE
  Overtake = {}
INVARIANTS OnlyStallsFail StatusTracksMessages
CHECK_DEADLOCK FALSE
