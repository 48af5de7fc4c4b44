SPECIFICATION FairSpec
CONSTANTS
  Instances = 2
  EventsCap = 2
  MaxConnects = 2
  MaxMessages = 3
INVARIANTS
  TypeOK
  ReportedInOrder
  ReportedOnce
PROPERTIES
  ImplementsQueue
  CurrentChannelIsDrained
CHECK_DEADLOCK FALSE
