SPECIFICATION FairSpec
CONSTANTS
  NodeCount = 2
  MaxThreads = 2
  RetryOnErrorCount = 2
  MaxClients = 2
  MaxSamples = 3
INVARIANTS
  TypeOK
  PermitsAccounted
  ReconnectsJustified
  PublishedInReadOrder
PROPERTIES
  ImplementsReadLog
  WaitingFetchResumes
CHECK_DEADLOCK FALSE
