SPECIFICATION Spec
CONSTANTS
  NCore = 1
  Addr = {a0}
  Alias = {x0, x1}
  SourceID = {0, 1}
  Data = {z}
  Zero = z
  Ops <- AllOps
  cmoParallelDepth = 0
  memorySyncStrict = FALSE
  CStall = FALSE
  EStall = FALSE
  Unfiltered = TRUE
  CleanToT = FALSE
  Overtake = {}
INVARIANTS TypeOK NoAssertion StatusTracksMessages AnswersFindTheirBlock ReportsTruthful AnswersStamped IdsConserved
