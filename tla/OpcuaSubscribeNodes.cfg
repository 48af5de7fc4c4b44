SPECIFICATION Spec
CONSTANTS
  n1 = n1
  n2 = n2
  Node = {n1, n2}
  nodesToCollect <- MCTwoNodes
  MaxTriesToReconnect = 2
  RetryOnErrorCount = 1
  ChanCap = 2
  PanicChanges = {2}
  MaxClients = 1
  MaxChanges = 3
INVARIANTS
  HandleNamesNode
  InOrder
PROPERTY ImplementsFeed
CHECK_DEADLOCK FALSE
