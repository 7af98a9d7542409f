SPECIFICATION Spec
CONSTANTS
  None = None
  Events <- MCEvents
  Paths <- MCPaths
  OldFiles <- MCOldFiles
  Rooms = {5, 100}
  MaxEvents = 2
  MaxWindows = 1
  MaxExports = 1
INVARIANTS
  TypeOK
  BlocksOwned
  ExportTruthful
PROPERTIES
  ExportEnds
\* The window closes.
CHECK_DEADLOCK FALSE
