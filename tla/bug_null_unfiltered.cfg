SPECIFICATION Spec
CONSTANTS
  NCore = 2
  Addr = {a0}
  Alias = {x0}
  SourceID = {0}
  Data = {z}
  Zero = z
  Ops <- CMOs
  cmoParallelDepth = 0
  memorySyncStrict = FALSE
  CStall = FALSE
  EStall = FALSE
  Unfiltered = TRUE
  CleanToT = FALSE
  Overtake = {}
INVARIANT ProbeFindsData
