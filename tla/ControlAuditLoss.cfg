SPECIFICATION Spec
CONSTANTS
  Plans = {p1}
  Reqs = {r1, r2}
  AuditMayFail = TRUE
  None = None
INVARIANTS
  TrailBeforeAction
