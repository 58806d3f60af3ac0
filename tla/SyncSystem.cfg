SPECIFICATION SystemSpec
CONSTANTS
  insp = insp
  resp = resp
  find = find
  photo = photo
  Inspection = {insp}
  Response = {resp}
  Finding = {}
  Attachment = {photo}
  LogEntry = {}
  None = None
  MaxBatch = 2
  MaxErrors = 1
  RootOf <- MCRootOfResponse
  OwnerOf <- MCPhotoOfResponse
  AboutOf <- MCNothing
INVARIANTS
  SystemTypeOK
  SyncedUnlessCut
PROPERTIES
  KeepsPromise
