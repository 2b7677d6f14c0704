\* No attempt fails before it opens a destination that held another file, and
\* local files can be read.
SPECIFICATION Spec
CONSTANTS
  Kinds = {"Download", "Upload"}
  MaxSize = 5
  ChunkSize = 2
  MaxAttempts = 3
  None = None
  Old = Old
  OldMayStay = FALSE
  ReadErrors = FALSE
INVARIANTS DoneMeansCopied SkipsOnlyItsOwn
PROPERTY NothingMovedIsLost
CHECK_DEADLOCK FALSE
