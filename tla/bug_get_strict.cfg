SPECIFICATION ULSpec
CONSTANTS
  NCore = 1
  Addr = {a0}
  Alias = {x0}
  SourceID = {0}
  Data = {z, d}
  Zero = z
  Ops <- ReadsAndInvals
  cmoParallelDepth = 0
  memorySyncStrict = TRUE
  CStall = FALSE
  EStall = FALSE
  Unfiltered = FALSE
  CleanToT = FALSE
  Overtake = {}
  NUL = 1
  ULSourceID = {0, 1}
  InvalRace = FALSE
INVARIANTS GetMayReturn
\* A failed assertion ends the run.
CHECK_DEADLOCK FALSE
