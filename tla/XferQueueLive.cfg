SPECIFICATION Spec
CONSTANTS
  MaxOps = 2
  RingCap = 1
  HardCap = 1
  Kinds = {"Download", "Upload"}
  MaxIds = 2
  MaxChunks = 0
  RemoveAhead = FALSE
PROPERTIES
  RunningSettles
  UiComesBack
  QueueDrains
  LedgerSpec
