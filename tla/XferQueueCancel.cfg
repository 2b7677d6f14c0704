\* The user cancels a running transfer and removes one that waits ahead of it.
SPECIFICATION Spec
CONSTANTS
  MaxOps = 2
  RingCap = 2
  HardCap = 1
  Kinds = {"Download", "Upload"}
  MaxIds = 2
  MaxChunks = 0
  RemoveAhead = TRUE
PROPERTY CancelSettles
CHECK_DEADLOCK FALSE
