SPECIFICATION Spec
CONSTANTS
  Txs = {x1, x2}
  Units = {web, db}
  Targets = {web}
  HealthUnits = {web}
  None = None
INVARIANTS
  TypeOK
  CompletedWasSeen
  OneStepBack
  RecoveryToldTruly
  ReportStands
PROPERTIES
  EveryTransactionEnds
