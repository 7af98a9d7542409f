SPECIFICATION FairSpec
CONSTANTS
  Null = Null
  Producers = {etw, poller}
  Nodes = {n1, n2, n3}
  MaxPushes = 2
  AllocMayFail = FALSE
  PostMayFail = TRUE
PROPERTIES
  PushedIsDelivered
CHECK_DEADLOCK FALSE
