SPECIFICATION Spec
SYMMETRY Interchangeable
CONSTANTS
  staff = staff
  customer = customer
  o1 = o1
  c1 = c1
  c2 = c2
  NoOrg = NoOrg
  Unset = Unset
  Phones = {staff, customer}
  Staff = {staff}
  Orgs = {o1}
  Calls = {c1, c2}
  Ceiling <- MCCeiling
  MaxInvites = 2
  MaxCrashes = 1
INVARIANTS
  TypeOK
  AcceptedTookEffect
  RolesWereOffered
  ConfiguredStays
