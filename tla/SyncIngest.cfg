SPECIFICATION Spec
CONSTANTS
  Request = {r1, r2, r3}
  insp = insp
  find = find
  photo = photo
  x = x
  y = y
  Id = {insp, find, photo}
  Payload = {x, y}
  NoRow = NoRow
  MaxErrors = 1
  TypeOf <- MCTypeOf
  Refs <- MCRefs
  Sent <- MCSent
  Bodies <- MCBodies
SYMMETRY Symmetry
INVARIANTS
  TypeOK
  BothVersionsKept
  NewestUnlessRaced
  AppliedOnce
  ReferencesHold
  ParentsComeFirst
  LogTellsTheTruth
CHECK_DEADLOCK FALSE
