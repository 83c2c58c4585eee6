SPECIFICATION Spec
CONSTANTS
  NCore = 2
  Addr = {a0}
  Alias = {x0}
  SourceID = {0}
  Data = {z}
  Zero = z
  Ops <- Acquires
  cmoParallelDepth = 0
  memorySyncStrict = FALSE
  CStall = TRUE
  EStall = FALSE
  Unfiltered = FALSE
  CleanToT = FALSE
  Overtake = {}
INVARIANT ProbeAckMayWait
