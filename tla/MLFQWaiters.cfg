SPECIFICATION FairSpec
CONSTANTS
  t1 = t1
  t2 = t2
  t3 = t3
  NoThread = NoThread
  Threads <- ThreeThreads
  NumLevels = 2
  Quantum = 4
  Second = 4
  HoldTimes <- ASecond
  Rounds = 2
  Printers <- None
  RehashAt <- NeverRehash
  PastEnd <- LooksEmpty
INVARIANTS
  EveryWaiterAccountedFor
  QueuedAtOwnLevel
PROPERTIES
  ImplementsPriorityLock
  HandOffArrives
  EndsFree
CHECK_DEADLOCK FALSE
