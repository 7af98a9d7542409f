SPECIFICATION Spec
CONSTANTS
  OfficeNames = {"winword"}
  InterpreterNames = {"cmd", "pwsh"}
  TempPaths = {"temp"}
  Arrivals <- MCArrivals
  NameOrder <- MCNameOrder
  Searches = {"", "pwsh"}
  RecentEvents = 1
  RecentAlerts = 1
  MaxArrivals = 2
  MaxInputs = 3
  MayRefuse <- MCMayRefuse
INVARIANTS
  TypeOK
  ShowsExactly
  SortedAsChosen
  AlertsFollowCause
PROPERTY SearchApplied
\* The bounds end the behaviour.
CHECK_DEADLOCK FALSE
