SPECIFICATION MCSpec
CONSTANTS
  Hashes = {h1, h2}
  StormHash = h3
  MaxAttempts = 2
  GuardAfter = 1
  MaxInputs = 1
  MaxClaims = 3
  MaxOutages = 0
  MaxFaults = 1
SYMMETRY Symmetric
CHECK_DEADLOCK FALSE
INVARIANTS
  CoordinatesAreFresh
PROPERTIES
  PaidCallsAreKept
  
