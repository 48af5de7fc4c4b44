SPECIFICATION FairSpec
CONSTANTS
  n1 = n1
  n2 = n2
  Unparsable = Unparsable
  NilNodeId = NilNodeId
  Node = {n1, n2}
  NodeLists <- MCNodeLists
  DefaultRoots <- MCDefaultRoots
  MaxLevel = 1
  MaxNodePerParent = 1
  ReferenceLists <- MCReferenceLists
  MaxFailures = 2
INVARIANTS
  TypeOK
  FindsWithinLimits
  CollectedInOrder
PROPERTY NewReturns
CHECK_DEADLOCK FALSE
