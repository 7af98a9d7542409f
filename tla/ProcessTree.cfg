SPECIFICATION Spec
CONSTANTS
  NoName = NoName
  Reports <- MCReports
  MaxReports = 3
INVARIANTS
  TypeOK
  TreeIsFaithful
PROPERTY BuildEnds
\* The bound on the reports ends the behaviour.
CHECK_DEADLOCK FALSE
