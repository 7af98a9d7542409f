SPECIFICATION FairSpec
CONSTANTS
  Null = Null
  Producers = {etw, poller}
  Nodes = {n1, n2, n3}
  MaxPushes = 2
  AllocMayFail = TRUE
  PostMayFail = FALSE
INVARIANTS
  TypeOK
  NotificationsExact
  ListIntact
  NodesOwnedOnce
  NothingOutlivesTheQueue
PROPERTIES
  ImplementsFifo
  PushedIsDelivered
  ShutdownCompletes
CHECK_DEADLOCK FALSE
