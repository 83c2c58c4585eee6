SPECIFICATION Spec
CONSTANTS
  NCore = 1
  Addr = {a0}
  Alias = {x0, x1}
  SourceID = {0, 1}
  Data = {z}
  Zero = z
  Ops <- Reads
  cmoParallelDepth = 0
  memorySyncStrict = FALSE
  CStall = FALSE
  EStall = FALSE
  Unfiltered = FALSE
  CleanToT = FALSE
  Overtake = {"own"}
INVARIANT StampFound
