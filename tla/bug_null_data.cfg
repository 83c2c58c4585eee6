SPECIFICATION Spec
CONSTANTS
  NCore = 2
  Addr = {a0}
  Alias = {x0}
  SourceID = {0}
  Data = {z}
  Zero = z
  Ops <- Reads
  cmoParallelDepth = 0
  memorySyncStrict = FALSE
  CStall = FALSE
  EStall = FALSE
  Unfiltered = FALSE
  CleanToT = FALSE
  Overtake = {"others"}
INVARIANT ProbeFindsData
