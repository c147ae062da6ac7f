SPECIFICATION FairSpec
CONSTANTS
  t1 = t1  t2 = t2
  Threads <- ThreadsDef
  HashOf <- HashDef
  INITIAL_IMPLICIT_PRODUCER_HASH_SIZE = 2
  invalid_thread_id = invalid_thread_id
  invalid_thread_id2 = invalid_thread_id2
  MallocFails = TRUE
  MaxThreads = 4
  MaxEnqueues = 4
INVARIANTS
  OneStreamEach
  InTableOnce
  FreedUnused
PROPERTIES
  EnqueueReturns
CHECK_DEADLOCK FALSE
