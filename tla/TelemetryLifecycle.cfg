SPECIFICATION Spec
INVARIANTS
  TypeOK
  CollectorsHaveMeans
  NothingHeldAtExit
PROPERTIES
  WindowCloses
\* The program ends.
CHECK_DEADLOCK FALSE
