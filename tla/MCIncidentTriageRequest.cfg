SPECIFICATION LiveSpec
CONSTANTS
  Alerts = {a1}
  Legacy = {}
  MaxAttempts = 1
  MinMembers = 1
  MaxIncidents = 2
  MaxDeliveries = 2
PROPERTIES
  RequestedWorkIsTried
