SPECIFICATION LiveSpec
CONSTANTS
  Alerts = {a1, a2}
  Legacy = {}
  MaxAttempts = 2
  MinMembers = 2
  MaxIncidents = 1
  MaxDeliveries = 4
PROPERTIES
  FindingIsCurrent
  TriageSettles

