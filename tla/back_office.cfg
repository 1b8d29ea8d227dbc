SPECIFICATION Spec
CONSTANTS
  Catalogue <- MCFormOf
  Desks <- MCDesks
  Signed <- MCSigned
  Numbers = {1, 2}
INVARIANTS
  BackOfficeTypeOK
  CheckedReferencesStayInCompany
  AuditTellsTruth
  VersionsAreComplete
  FilesShowTheirSource
  FormStoredOnce
  DefaultSurvives
PROPERTIES
  RecordsAreKept
CHECK_DEADLOCK FALSE
