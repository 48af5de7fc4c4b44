SPECIFICATION FairSpec
CONSTANTS
  n1 = n1
  n2 = n2
  Node = {n1}
  nodesToCollect <- MCOneNode
  MaxTriesToReconnect = 2
  RetryOnErrorCount = 2
  ChanCap = 1
  PanicChanges = {}
  MaxClients = 2
  MaxChanges = 1
INVARIANTS
  TypeOK
  OneEventUnlessAbandoned
  OpenSubscriptionIsCurrent
  ConnectionsAccounted
PROPERTIES
  PatientTearDown
  ImplementsFeed
  ArmedWatchdogFires
  CollectedIsReported
CHECK_DEADLOCK FALSE
