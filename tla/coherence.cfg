SPECIFICATION Spec
CONSTANTS
  NCore = 2
  Addr = {a0}
  Alias = {x0}
  SourceID = {0}
  Data = {z, d}
  Zero = z
  Ops <- CMOs
  cmoParallelDepth = 0
  memorySyncStrict = FALSE
  CStall = FALSE
  EStall = FALSE
  Unfiltered = FALSE
  CleanToT = FALSE
  Overtake = {}
INVARIANTS NoAssertion SingleWriter OracleSound OracleExact AltCountsInvals
PROPERTIES IsCoherentMemory
