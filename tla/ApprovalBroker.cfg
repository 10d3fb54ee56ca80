SPECIFICATION BrokerSpec
CONSTANTS
  Plans <- MCPlans
  Actors <- MCActors
  Tokens = {t1, t2}
  Requests = {r1, r2}
  TTL = 1
  MaxTime = 2
  LoadLimit = 2
  Skew = 0
  MaxLifetime = 1
  CompiledUnits <- MCUnits
  None = None
INVARIANTS
  BrokerTypeOK
  AtMostOnce
  Authorised
  WrittenLoads
PROPERTIES
  UsesStoreProperly
  EveryRequestEnds
