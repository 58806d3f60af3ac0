SPECIFICATION Spec
CONSTANTS
  insp = insp
  resp = resp
  find = find
  photo = photo
  Inspection = {insp}
  Response = {resp}
  Finding = {find}
  Attachment = {photo}
  LogEntry = {entry}
  None = None
  MaxBatch = 2
  RootOf <- MCRootOf
  OwnerOf <- MCOwnerOf
  AboutOf <- MCAboutOf
INVARIANTS
  FailedRowsHaveRetry
