SPECIFICATION Spec
CONSTANTS
  NCore = 2
  Word = {w0}
  Byte = {0, 1}
  Size = {1, 2}
  PutOffset = {0, 1}
  SourceID = {0}
  Data = {z, d}
  Zero = z
  AStall = FALSE
INVARIANT MismatchIsReal
