SPECIFICATION Spec
CONSTANTS
  BatchSize = 2
  MaxRows = 6
  MaxErrors = 0
  MaxCrashes = 0
INVARIANTS
  FlushedBeforeExit
CHECK_DEADLOCK FALSE
