SPECIFICATION Spec
CONSTANTS
  NoName = NoName
  cmd = cmd
  Reports <- MCReports
  FirstEvents = 1
  FirstProcesses = 1
  AllocMayFail = TRUE
  MaxEvents = 4
INVARIANTS
  StorageOK
  ActiveCountExact
  RecordsDistinct
  OneLifePerIdentity
  CountersMatchHistory
PROPERTIES
  RecordsOnlyLearn
  ImplementsLedger
CHECK_DEADLOCK FALSE
