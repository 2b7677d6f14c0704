SPECIFICATION Spec
CONSTANTS
  MaxOps = 2
  RingCap = 2
  HardCap = 1
  Kinds = {"Download", "Upload"}
  MaxIds = 2
  MaxChunks = 1
  RemoveAhead = FALSE
INVARIANT EveryEndIsSeen
