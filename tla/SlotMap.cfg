SPECIFICATION Spec
CONSTANTS
  ShuffleBits = 6
  Requests <- SomeRequests
INVARIANTS
  OneSlotPerTicket
CHECK_DEADLOCK FALSE
