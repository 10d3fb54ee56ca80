SPECIFICATION Spec
CONSTANTS
  Procs = {q1, q2}
  Overlap = TRUE
  None = None
  File = File
PROPERTIES
  RemovesOnlyStale
CHECK_DEADLOCK FALSE
