SPECIFICATION FairSpec
CONSTANTS
  NoName = NoName
  None = None
  Environments <- MCEnvironments
INVARIANTS
  TypeOK
  Reconciled
  StoppedHasEnded
  ParentsAreReal
PROPERTIES
  EventuallyAgrees
