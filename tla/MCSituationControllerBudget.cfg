SPECIFICATION Spec
CONSTANTS
  Hashes = {h1, h2}
  MaxAttempts = 1
  GuardAfter = 1
  MaxInputs = 1
  MaxClaims = 3
  MaxOutages = 0
  MaxFaults = 0
CHECK_DEADLOCK FALSE
INVARIANT BudgetParkNamesItsEnd
