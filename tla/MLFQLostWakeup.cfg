SPECIFICATION FairSpec
CONSTANTS
  t1 = t1
  t2 = t2
  t3 = t3
  NoThread = NoThread
  Threads <- TwoThreads
  NumLevels = 1
  Quantum = 4
  Second = 4
  HoldTimes <- UnderASecond
  Rounds = 1
  Printers <- None
  RehashAt <- NeverRehash
  PastEnd <- LooksEmpty
PROPERTIES
  AllFinish
CHECK_DEADLOCK FALSE
