SPECIFICATION TreeFairSpec
CONSTANTS
  MaxDepths <- AnyDepth
  Inputs <- SomeInputs
  Deepest = 3
INVARIANTS
  PipesPrivate
  FinalIsTreeValue
  DeepTreesHang
PROPERTIES
  ShallowTreesEnd
CHECK_DEADLOCK FALSE
