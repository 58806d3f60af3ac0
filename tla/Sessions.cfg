CONSTANTS
  t1 = t1
  u1 = u1
  u2 = u2
  i1 = i1
  r1 = r1
  r2 = r2
  None = None
  Request = {r1, r2}
  Tenant = {t1}
  User = {u1, u2}
  Ip = {i1}
  MaxFailed = 2
  MaxRequests = 5
  TenantOf <- MCTenantOf
SYMMETRY MCSymmetry
SPECIFICATION Spec
CHECK_DEADLOCK FALSE
INVARIANTS
  TypeOK
  OneSessionUnlessRaced
  SuspendedHasNoSession
  ReusedFamilyIsDead
  AuditTellsTheState
  GuessesAreBounded
PROPERTY
  NoAccessWhileSuspended
