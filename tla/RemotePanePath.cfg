\* The connection is lost and comes back; nobody is impatient.
SPECIFICATION PanesSpec
CONSTANTS
  Dirs = {1, 2}
  Files = {3, 4}
  Root = 1
  Garbled = Garbled
  DirSent <- MCDirSent
  FileSent <- MCFileSent
  MaxRows = 3
  InCap = 3
  OutCap = 2
  MaxUploads = 1
  MaxLosses = 1
  OneAtATime = TRUE
  LocalFiles = {}
  TopOnly = {}
  Far = {}
INVARIANT PathSurvives
CHECK_DEADLOCK FALSE
