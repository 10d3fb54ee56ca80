SPECIFICATION Spec
CONSTANTS
  Definitions <- MCScantDefinitions
  Units = {"php8.service"}
  Versions = {"v1", "v2"}
  None = None
INVARIANTS
  NeverOptimistic
