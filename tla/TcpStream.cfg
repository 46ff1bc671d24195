SPECIFICATION Spec
CONSTANTS
  Peers <- TwoClients
  First = 1
  kCheapPrepend = 1
  kInitialSize = 4
  MaxConns = 2
  MaxData = 1
  MaxSends = 2
  ThreadCounts <- NoneOrOne
  Refuses = TRUE
INVARIANT OutputIsOwed
CHECK_DEADLOCK FALSE
