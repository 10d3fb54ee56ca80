SPECIFICATION Spec
CONSTANTS
  t1 = t1
  t2 = t2
  t3 = t3
  Tokens = {t1, t2, t3}
  ActorFiles <- MCActorFiles
  Environments <- MCEnvironments
  Requests <- MCRequests
  Allowed = {"web"}
  Malformed = Malformed
  Short = Short
  Garbled = Garbled
  Placeholder = Placeholder
  NoId = NoId
  None = None
INVARIANTS
  TciStaysOut
  AnonymousOnlyOnLoopback
  FourEyes
