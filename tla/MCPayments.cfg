SPECIFICATION PaymentsLiveSpec
CONSTANTS
  u1 = u1
  u2 = u2
  o1 = o1
  hold1 = hold1
  Users = {u1, u2}
  WalletOwners = {u1}
  InitBalance <- MCBalance
  Orders = {o1}
  SessionRefs = {hold1}
  Refs <- MCRefs
  Amounts = {1, 3}
  MaxBalance = 2
  MaxClock = 1
  MaxReports = 3
  MaxCrashes = 1
INVARIANTS
  PaymentsTypeOK
  CreditFollowsReport
PROPERTIES
  OverdrawnOnlyByDebit
  CapturedIsCredited
