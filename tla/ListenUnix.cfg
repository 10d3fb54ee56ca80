SPECIFICATION Spec
CONSTANTS
  Procs = {q1, q2, q3}
  Overlap = FALSE
  None = None
  File = File
INVARIANTS
  ServingIsReachable
PROPERTIES
  OnlyAFileRefuses
CHECK_DEADLOCK FALSE
