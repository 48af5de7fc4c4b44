SPECIFICATION Spec
CONSTANTS
  NodeCount = 8
  RetryOnErrorCount = 2
INVARIANTS
  TypeOK
  ReportsAPrefix
CHECK_DEADLOCK FALSE
