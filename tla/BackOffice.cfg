CONSTANTS
  Revision = {v1, v2, v3}
  Template = {m, n}
  Definition = {d1, d2}
  Import = {i1}
  Tx = {x, y}
  Nothing = Nothing
  MaxRequests = 5
  Filter = {d1, d2}
  Row = {r1, r2}
  Load = {x, y}
  NoFilter = NoFilter
  NoRow = NoRow
  MaxLoads = 3
  MaxClicks = 2
  Workbook = {d1, d2}
  NoBook = NoBook
  MaxEdits = 1
  MaxSends = 4
  SampleBook <- MCSampleBook
  Numero <- MCNumero
  Dia = {2, 4}
  MaxColumna = 4
  UmbralSelect = 12
  MaxChanges = 1
  MaxAnswers = 2
SYMMETRY Symmetry
SPECIFICATION MCSpec
INVARIANTS
  CatalogTypeOK
  CatalogMatchesUnlessEdited
  ImportConfirmedOnce
  DeltaMissesNothing
  PublishedIsWhatWasConfirmed
  ScreenIsOfTheFilter
  DocumentCarriesTheAnswers
PROPERTY
  AppendsToTheLog
CHECK_DEADLOCK FALSE
