\* The user removes no operation that stands ahead of a running one.
SPECIFICATION Spec
CONSTANTS
  MaxOps = 2
  RingCap = 2
  HardCap = 2
  Kinds = {"Download", "Upload"}
  MaxIds = 3
  MaxChunks = 1
  RemoveAhead = FALSE
INVARIANTS
  ThreadOwnsSlot
  RingIsOwn
  JoinIsShort
  TypeOK
  AttemptsAreApart
PROPERTIES
  StartsWithinLimit
