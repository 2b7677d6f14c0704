\* The code as it is; listings are empty (SftpSessionLive.cfg fills them).  A request written to an in ring that is full and read no
\* more stops the UI thread, so the system really may stop.
SPECIFICATION Spec
CONSTANTS
  Targets = {h1, h2}
  Keys = {k1, k2}
  None = None
  OutCap = 1
  InCap = 1
  MaxRows = 0
  MaxEntries = 0
  MaxSessions = 2
  RoomFirst = FALSE
SYMMETRY Symmetric
INVARIANTS
  TrustComesFirst
  RingsOutliveThreads
  GateIsVisible
  OnlyLossIsRetried
CHECK_DEADLOCK FALSE
