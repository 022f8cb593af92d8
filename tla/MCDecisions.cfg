SPECIFICATION AllSpec
CONSTANTS
  Alerts = {"x"}
  Incidents = {"i"}
  Severities = {"warning", "critical"}
  Ages = {16, 21}
  Prior <- TenMinutes
  Phases = {"settled", "awaiting_decision"}
  Claims = {"unknown", "supported", "operator_confirmed"}
  MaxAttempts = 2
  MaxChanges = 2
  Symptoms = {"x", "y"}
  Critical = {}
  Impacts = {1, 2}
  Definitions = {1}
  Envelopes = {}
  MaxTime = 1
  MaxWrites = 2
  MaxInputs = 1
  MaxCycles = 2
  DayLength = 4
  LastDate = 1
  Shifts <- ClockChanges
  Advance = 1
  Reach = 2
  MaxTolerance = 1
  MaxDuration = 2
  Triaged = {1, 2}
  Drills = {}
  Verification = TRUE
  HasPromQL = TRUE
  HasZabbix = FALSE
  MaxVerdicts = 1
  Requests = {1, 2}
  Queries = {"q"}
  Situations = {1}
  Batches <- Pushed
  Policies <- Sinks
  NoTopic = "none"
  MaxCommits = 2
  MaxClaims = 2
  MaxStarts = 2
  Times = {1, 2}
  PruneStep = 1
  MaxEntries = 5
  MaxHarm = 1
INVARIANTS
  NoSilentQuiet
  
  ConfidenceIsEarned
  ConclusionIsGrounded
  ContractIsHonest
  
  EventsAreKept
  
PROPERTIES
  
  MarksMoveOnGrounds
  
  ShutdownIsQuiet
  
  PushIsTimely
CHECK_DEADLOCK FALSE
