SPECIFICATION Spec
CONSTANTS
  p1 = p1
  p2 = p2
  c1 = c1
  c2 = c2
  n1 = n1
  n2 = n2
  n3 = n3
  n4 = n4
  Producers <- TwoProducers
  Consumers <- TwoConsumers
  NoCaller = NoCaller
  Nodes <- FourNodes
  Null = Null
  Puts = 2
  Gets = 2
SYMMETRY NodeSymmetry
INVARIANTS
  ListSound
PROPERTIES
  ImplementsFifo
CHECK_DEADLOCK FALSE
