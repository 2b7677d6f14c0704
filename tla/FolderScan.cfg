SPECIFICATION Spec
CONSTANTS
  MaxScans = 2
  RingCap = 1
  MaxOps = 1
  Tree <- MCTree
  Files = {"f1", "f1long", "f2"}
  Paths = {"f1", "f1long", "f2"}
  Cut <- MCCut
  Unsafe = {"bad"}
  LocalFiles = 2
  MaxStarts = 2
INVARIANTS OnlyItsFilesOnce CompleteMeansAll SlotsAreQuiet
PROPERTIES ScansEnd
