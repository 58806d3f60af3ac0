CONSTANTS
  a1 = a1
  a2 = a2
  f1 = f1
  f2 = f2
  t1 = t1
  i1 = i1
  i2 = i2
  i3 = i3
  Account = {a1, a2}
  Tenant = {t1}
  Form = {f1, f2}
  AccountTenant <- MCAccountTenant
  FormTenant <- MCFormTenant
  FormOrder <- MCFormOrder
  Assignment <- MCAssignment
  Size <- MCSize
  Task = {k1, k2}
  Budget = 2
  PerPass = 1
  MaxEvents = 3
  Nobody = Nobody
  Photo = {i1}
  Inspection = {i1, i2, i3}
  Finding = {f1}
  Unframed = {i3}
  Unexportable = {i3}
  Upload = {k1, k2}
  Mime <- MCMime
  BaseName <- MCBaseName
  Nothing = Nothing
  TopeLote = 2
  MaxWrites = 1
  MaxUploads = 2
  MaxReports = 1
SYMMETRY Symmetry
SPECIFICATION MCSpec
INVARIANTS
  FormsTypeOK
  FormsAreOwn
  DraftIsNotReframed
  PurgeIsLeast
  PhotoHasItsFile
  LotAccountsForAll
  ReportIsOfOneMoment
PROPERTY
  DraftKeepsItsOriginal
CHECK_DEADLOCK FALSE
