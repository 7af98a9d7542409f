SPECIFICATION Spec
CONSTANTS
  Connections <- MCConnections
  MaxOpens = 3
INVARIANT TypeOK
PROPERTIES
  NewlyObserved
  OpenIsReported
