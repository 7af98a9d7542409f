SPECIFICATION Spec
CONSTANTS
  NoName = NoName
  None = None
  Environments <- ReuseEnvironments
INVARIANTS
  NoneStoppedAlive
