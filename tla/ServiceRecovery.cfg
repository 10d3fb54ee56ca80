SPECIFICATION Spec
CONSTANTS
  Txs = {x1}
  Units = {web, db}
  Targets = {web}
  HealthUnits = {web}
  None = None
INVARIANTS
  FailureIsRecovered
