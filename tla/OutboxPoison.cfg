SPECIFICATION Spec
CONSTANTS
  insp = insp
  resp = resp
  find = find
  photo = photo
  Inspection = {insp}
  Response = {resp}
  Finding = {find}
  Attachment = {photo}
  LogEntry = {entry}
  None = None
  MaxBatch = 5
  RootOf <- MCRootOf
  OwnerOf <- MCOwnerOf
  AboutOf <- MCAboutOf
INVARIANTS
  DiscardedIsNotQueued
