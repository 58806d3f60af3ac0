SPECIFICATION FairSystemSpec
CONSTANTS
  insp = insp
  resp = resp
  find = find
  photo = photo
  Inspection = {insp}
  Response = {}
  Finding = {find}
  Attachment = {photo}
  LogEntry = {}
  None = None
  MaxBatch = 3
  MaxErrors = 3
  RootOf <- MCRootOfFinding
  OwnerOf <- MCPhotoOfFinding
  AboutOf <- MCAboutNone
PROPERTIES
  FailedIsRetried
  FailedIsDelivered
