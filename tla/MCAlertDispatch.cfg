SPECIFICATION FairAllSpec
CONSTANTS
  Deliveries = {d1, d2}
  Batch = 2
  MaxAttempts = 2
  MaxFaults = 2
INVARIANTS
  CorrelatedExactlyOnce
PROPERTIES
  ImplementsOutbox
  StreamIsComplete
CHECK_DEADLOCK FALSE
