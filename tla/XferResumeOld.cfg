\* The code as it is: a download that never got to open its file is resumed.
SPECIFICATION Spec
CONSTANTS
  Kinds = {"Download", "Upload"}
  MaxSize = 5
  ChunkSize = 2
  MaxAttempts = 3
  None = None
  Old = Old
  OldMayStay = TRUE
  ReadErrors = FALSE
INVARIANT DoneMeansCopied
CHECK_DEADLOCK FALSE
