\* The UI asks only when there is room, so that it is never caught in a write.
SPECIFICATION Spec
CONSTANTS
  Targets = {h1}
  Keys = {k1, k2}
  None = None
  OutCap = 2
  InCap = 4
  MaxRows = 2
  MaxEntries = 2
  MaxSessions = 1
  RoomFirst = TRUE
PROPERTIES
  UiComesBack
  ListingsEnd
