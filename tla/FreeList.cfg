SPECIFICATION FairSpec
CONSTANTS
  t1 = t1  t2 = t2  t3 = t3
  n1 = n1  n2 = n2
  Threads <- ThreadsDef
  Nodes <- NodesDef
  Null = Null
  SHOULD_BE_ON_FREELIST = 8
  MaxCalls = 2
INVARIANTS
  References
  ListIntact
PROPERTIES
  LeftIsAdded
CHECK_DEADLOCK FALSE
