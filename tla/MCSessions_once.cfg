SPECIFICATION Spec
CONSTANTS
  k1 = k1
  k2 = k2
  c1 = c1
  c2 = c2
  u1 = u1
  p1 = p1
  p2 = p2
  Keys = {k1, k2}
  Chargers = {c1, c2}
  Users = {u1}
  WalletOwners = {u1}
  InitBalance <- MCBalance
  ChargerOf <- OneCharger
  UserOf <- OneUser
  Calls = {p1}
  HoldAmount = 2
  Charges <- MCCharges
  NoKey = NoKey
  MaxReading = 1
  MaxStarts = 2
  MaxSends = 1
  MaxCrashes = 0
  MaxErrors = 1
INVARIANTS
  BoundToOwnCharger
  SettledOnce
  OneSessionPerOcppId
  QuietSessionsAgree
  HoldsCoverOpenSessions
  LedgerExplainsBalance
PROPERTIES
  ImplementsLifecycle
CONSTRAINT NothingCommitted
SYMMETRY Symmetry
CHECK_DEADLOCK FALSE
