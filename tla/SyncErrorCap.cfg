SPECIFICATION SystemSpec
CONSTANTS
  insp = insp
  resp = resp
  find = find
  photo = photo
  Inspection = {insp}
  Response = {resp}
  Finding = {find}
  Attachment = {}
  LogEntry = {}
  None = None
  MaxBatch = 3
  MaxErrors = 1
  RootOf <- MCRootOf
  OwnerOf <- MCNothing
  AboutOf <- MCAboutOf
INVARIANTS
  SyncedMeansStored
