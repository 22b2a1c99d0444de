SPECIFICATION LiveSpec
CONSTANTS
  Connectors = {1}
  MaxConnections = 2
  MaxCalls = 1
  MaxInFlight = 2
  MaxLag = 2
  MaxFaults = 1
INVARIANTS
  TypeOK
  LastReportWins
  IdleIsAvailable
PROPERTIES
  GoneIsOffline
CHECK_DEADLOCK FALSE
