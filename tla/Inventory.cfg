SPECIFICATION Spec
CONSTANTS
  Definitions <- MCDefinitions
  Units = {"php8.service"}
  Versions = {"v1", "v2"}
  None = None
INVARIANTS
  OwnershipIsBacked
  OnlyWhatWasSeen
  SnapshotIsWhole
