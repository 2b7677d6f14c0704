SPECIFICATION Spec
CONSTANTS
  Procs = {"p", "q"}
  Ends = {"e1", "e2", "e3"}
  Keys = {"k1", "k2"}
  Names = {"n"}
  Typed = {2222, 70000}
  ExistingDirs <- MCDirs
  Home <- MCHome
  MaxHosts = 2
  MaxProfiles = 2
  HardCap = 2
  MaxDir = 3
  Found <- MCFound
  MaxEdits = 3
  MaxStarts = 3
INVARIANTS OnlyTrusted RestartShows SelectionIsReal PinsAreRemembered
CHECK_DEADLOCK FALSE
