SPECIFICATION Spec
CONSTANTS
  Loop = Loop
  Drain = Drain
  MaxAttempts = 2
  Batch = 2
  GuardAfter = 1
  Grace = 1
  Horizon = 1
  Window = 1
  MaxInputs = 3
  MaxIncidents = 2
  MaxClaims = 2
  MaxFaults = 1
SYMMETRY Symmetry
CHECK_DEADLOCK FALSE
INVARIANTS
  EveryInputCountsOnce
PROPERTIES
  
  FollowsLifecycle
