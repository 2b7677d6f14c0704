\* The code as it is: requests are written whether or not there is room.
SPECIFICATION Spec
CONSTANTS
  Targets = {h1}
  Keys = {k1}
  None = None
  OutCap = 2
  InCap = 2
  MaxRows = 3
  MaxEntries = 3
  MaxSessions = 1
  RoomFirst = FALSE
PROPERTY UiComesBack
CHECK_DEADLOCK FALSE
