SPECIFICATION Spec
CONSTANTS
  NCore = 1
  Addr = {a0}
  Alias = {x0}
  SourceID = {0, 1}
  Data = {z}
  Zero = z
  Ops <- Cleans
  cmoParallelDepth = 0
  memorySyncStrict = FALSE
  CStall = FALSE
  EStall = FALSE
  Unfiltered = FALSE
  CleanToT = TRUE
  Overtake = {}
INVARIANT NoAcquireOnT
