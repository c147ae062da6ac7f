SPECIFICATION FairSpec
CONSTANTS
  c1 = c1  c2 = c2
  b1 = b1  b2 = b2 
  Consumers <- ConsumersDef
  InitialBlocks <- InitialBlocksDef
  OtherBlocks <- OtherBlocksDef
  Null = Null
  BLOCK_SIZE = 2
  IMPLICIT_INITIAL_INDEX_SIZE = 1
  MaxEnqueues = 4
  MaxClaims = 6
  MallocFails = TRUE
INVARIANTS
  Counters
  BlocksInPlace
PROPERTIES
  ImplementsFifo
  SolePollerDrains
CHECK_DEADLOCK FALSE
