SPECIFICATION FairSpec
CONSTANTS
  NCore = 3
  Word = {w0}
  Byte = {0, 1}
  Size = {1}
  PutOffset = {1}
  SourceID = {0}
  Data = {z, d}
  Zero = z
  AStall = FALSE
INVARIANTS TypeOK OnlyCrossedMismatch MarkHasOwner CopyCurrent
PROPERTIES RequestTaken
\* A mismatch stops the tester.
CHECK_DEADLOCK FALSE
