SPECIFICATION Spec
CONSTANTS
  Plans = {p1}
  Reqs = {r1, r2, r3}
  AuditMayFail = FALSE
  None = None
INVARIANTS
  TypeOK
  TrailBeforeAction
  ResultsAreTrue
  OneResult
  NoSilentTransaction
PROPERTIES
  QcoredSingleUse
  AttemptIsSettled
