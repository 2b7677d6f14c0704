\* The code as it is: a directory is opened while another is being listed.
SPECIFICATION PanesSpec
CONSTANTS
  Dirs = {1, 2}
  Files = {3, 4}
  Root = 1
  Garbled = Garbled
  DirSent <- MCDirSent
  FileSent <- MCFileSent
  MaxRows = 3
  InCap = 3
  OutCap = 2
  MaxUploads = 0
  MaxLosses = 0
  OneAtATime = FALSE
  LocalFiles = {}
  TopOnly = {}
  Far = {}
INVARIANT PaneShowsPath
CHECK_DEADLOCK FALSE
