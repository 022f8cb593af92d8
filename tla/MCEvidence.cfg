SPECIFICATION FairAllSpec
CONSTANTS
  Slots = {"m", "q"}
  PhaseOf <- Phase
  TierOf <- Tier
  CycleCap = 1
  MaxCommits = 2
  MaxCalls = 1
  MaxDisturbances = 0
  Inputs = {"i1"}
  SignatureOf <- OneSignature
  Situations = {1, 2}
  Workers = {"w1"}
  MaxAttempts = 1
  BatchSize = 1
  MaxOutages = 0
  MaxCorrections = 1
  MaxDeferrals = 0
  MaxFaults = 0
INVARIANTS
  EvidenceIsKept
  LinksResolve
  NoSilentChange
PROPERTIES
  ViewIsStable
  
  EveryInputSettles
CHECK_DEADLOCK FALSE
