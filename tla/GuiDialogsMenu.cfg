SPECIFICATION Spec
CONSTANTS
  None = None
  Events <- MCEvents
  Paths <- MCPaths
  OldFiles <- MCOldFiles
  Rooms = {100}
  MaxEvents = 2
  MaxWindows = 0
  MaxExports = 0
PROPERTY CopiesChosenRow
CHECK_DEADLOCK FALSE
