SPECIFICATION FairAllSpec
CONSTANTS
  Assessments = {a1, a2}
  Profiles = {p1, p2}
  Capacity = 2
  TotalTokens = 4
  CallLimits = {1, 2}
  Allowance = 2
  Hour = 2
  Usages = {0, 3}
  MaxFaults = 1
  Critical = {}
  Advisory = {"profile"}
  Subjects = {s1, s2}
  MaxOutages = 2
  MaxCalls = 1
  MaxCrashes = 1
  Inputs = {"i1", "i2"}
  SignatureOf <- SameSignature
  Situations = {1}
  Workers = {"w1", "w2"}
  MaxAttempts = 1
  BatchSize = 1
  MaxRecoveries = 1
  MaxCorrections = 0
  MaxDeferrals = 1
INVARIANTS
  OutagesAreReported
  LimiterIsExact
  BudgetIsExact
  SpendPerRecovery
PROPERTIES
  
  EveryJobSettles
CHECK_DEADLOCK FALSE
