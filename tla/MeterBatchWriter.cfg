SPECIFICATION LiveSpec
CONSTANTS
  BatchSize = 2
  MaxRows = 5
  MaxErrors = 1
  MaxCrashes = 1
INVARIANTS
  NothingDropped
  StoredAgainOnlyByFaults
PROPERTIES
  FillsTableInOrder
  HandedOverIsStored
CHECK_DEADLOCK FALSE
