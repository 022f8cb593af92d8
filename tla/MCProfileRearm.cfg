SPECIFICATION FairSpec
CONSTANTS
  Inputs = {"i1", "i2"}
  SignatureOf <- OneSignature
  Situations = {1}
  Workers = {"w1"}
  MaxAttempts = 1
  BatchSize = 1
  MaxOutages = 1
  MaxCorrections = 0
  MaxDeferrals = 0
  MaxFaults = 0
CHECK_DEADLOCK FALSE
PROPERTIES
  ExhaustionIsReconsidered
