SPECIFICATION PanesSpec
CONSTANTS
  Dirs = {1, 2}
  Files = {3, 4}
  Root = 1
  Garbled = Garbled
  DirSent <- MCDirSent
  FileSent <- MCFileSent
  MaxRows = 2
  InCap = 4
  OutCap = 2
  MaxUploads = 2
  MaxLosses = 2
  OneAtATime = TRUE
  LocalFiles = {2, 3}
  TopOnly = {3}
  Far = {5}
INVARIANTS PanesTypeOK PaneShowsPath DeletesWhatIsNamed
PROPERTIES LocalDeletesWhatIsNamed OpensWhatWasClicked
CHECK_DEADLOCK FALSE
