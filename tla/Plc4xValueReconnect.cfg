SPECIFICATION FairSpec
CONSTANTS
  NodeCount = 1
  RetryOnErrorCount = 2
PROPERTY ReconnectsAfterError
CHECK_DEADLOCK FALSE
