SPECIFICATION FairSpec
CONSTANTS
  Instances = 1
  EventsCap = 1
  MaxConnects = 1
  MaxMessages = 1
PROPERTY HandlersReturn
CHECK_DEADLOCK FALSE
