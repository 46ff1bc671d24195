SPECIFICATION Spec
CONSTANTS
  Peers <- TwoClients
  First = 1
  kCheapPrepend = 1
  kInitialSize = 4
  MaxConns = 2
  MaxData = 1
  MaxSends = 2
  ThreadCounts <- NoneOrOne
  Refuses = FALSE
INVARIANTS TypeOK PollerMeetsLiveConnections EstablishedAndDestroyedOnce OutputIsOwed ShutdownAfterOutput IdsIdentifyClients
PROPERTIES ConnectionsSettle
CHECK_DEADLOCK FALSE
