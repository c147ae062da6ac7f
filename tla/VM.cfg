SPECIFICATION FairSpec
CONSTANTS
    MaxProcs = 5
    MaxAllocs = 1
    MaxSteps = 3
    Sizes <- MCSizes
    Pointers <- MCPointers
    Pids <- MCPids
    Programs <- MCPrograms
    Inputs <- MCInputs
    Image <- MCImage
INVARIANTS
  KernelIntact
  MainRunsNothing
  FreesMagicSize
PROPERTIES
  TurnsInOrder
  SearchEndsIffLive
  MainFaults
CHECK_DEADLOCK FALSE
