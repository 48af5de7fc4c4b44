SPECIFICATION Spec
CONSTANTS
  n1 = n1
  n2 = n2
  Node = {n1}
  nodesToCollect <- MCOneNode
  MaxTriesToReconnect = 2
  RetryOnErrorCount = 1
  ChanCap = 1
  PanicChanges = {}
  MaxClients = 2
  MaxChanges = 1
INVARIANT SilenceIsBounded
CHECK_DEADLOCK FALSE
