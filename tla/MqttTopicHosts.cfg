SPECIFICATION Spec
CONSTANTS
  Instances = 2
  EventsCap = 1
  MaxConnects = 2
  MaxMessages = 1
INVARIANT EachHostConnects
CHECK_DEADLOCK FALSE
