SPECIFICATION Spec
CONSTANTS
  t1 = t1
  t2 = t2
  t3 = t3
  NoThread = NoThread
  Threads <- ThreeThreads
  NumLevels = 2
  Quantum = 4
  Second = 4
  HoldTimes <- NothingOrASecond
  Rounds = 2
  Printers <- OnePrinter
  RehashAt <- RehashAtOne
  PastEnd <- AnyMemory
SYMMETRY OthersSymmetry
INVARIANTS
  MutualExclusion
  OneToken
PROPERTIES
  LostOnlyInRaces
CHECK_DEADLOCK FALSE
