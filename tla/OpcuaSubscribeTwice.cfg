SPECIFICATION Spec
CONSTANTS
  n1 = n1
  n2 = n2
  Node = {n1}
  nodesToCollect <- MCOneNode
  MaxTriesToReconnect = 1
  RetryOnErrorCount = 1
  ChanCap = 2
  PanicChanges = {}
  MaxClients = 2
  MaxChanges = 1
INVARIANT OneEventPerChange
CHECK_DEADLOCK FALSE
