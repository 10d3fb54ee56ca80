SPECIFICATION Spec
CONSTANTS
  Plans <- MCPlans
  Actors <- MCActors
  Tokens = {t1, t2}
  Requests = {r1, r2}
  TTL = 2
  MaxTime = 4
  LoadLimit = 2
  None = None
INVARIANTS
  TypeOK
  MemoryIsDisk
  SingleUse
  AcceptedIsDurable
  OneGrantPerPlan
  GrantWindow
PROPERTIES
  DiskMovesForward
  LockReleased
  ImplementsSingleUse
