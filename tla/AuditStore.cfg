SPECIFICATION Spec
CONSTANTS
  Texts = {"plain", "U+FFFD", "cut", "full", "over"}
  Faults = {"none", "torn", "noeol", "unsynced"}
  MaxAppends = 4
  MaxBoots = 4
INVARIANTS
  AckedSurvive
  MemoryIsChain
  WrittenIsReadable
CHECK_DEADLOCK FALSE
