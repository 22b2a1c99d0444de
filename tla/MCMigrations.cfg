SPECIFICATION LiveSpec
CONSTANTS
  Runners = {r1, r2}
  r1 = r1
  r2 = r2
  LastFile = 4
  Script <- Files4
  Needs <- References
  Probe <- Tables
  Repeatable = {0, 3, 4}
  MaxFailures = 2
INVARIANTS
  RecordedIsComplete
  BuiltOnWhole
PROPERTIES
  MigratedInTheEnd
