SPECIFICATION FairSpec
CONSTANTS
  p1 = p1
  p2 = p2
  c1 = c1
  c2 = c2
  Producers <- TwoProducers
  Consumers <- TwoConsumers
  Size = 2
  Width = 4
  Pushes = 3
  Tries = 3
  Disciplined = TRUE
INVARIANTS
  SlotExclusive
PROPERTIES
  ImplementsFifo
  ClaimedIsDelivered
CHECK_DEADLOCK FALSE
