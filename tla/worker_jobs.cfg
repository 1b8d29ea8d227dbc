SPECIFICATION WorkerSpec
CONSTANTS
  NoJob = NoJob
  ImportJobs = {1, 2}
  ExportJobs = {3, 4}
  Codes <- MCCodes
  NoCode = none
  FileOf <- MCFileOf
  SourceFile <- MCSourceFile
  LowerCase <- MCLower
  UpperCase <- MCUpper
  Words <- MCWords
  Tables <- MCTables
  Runs = {r1, r2}
  Stale = 2
  MaxClaimDelay = 1
  MaxFaults = 2
CONSTRAINT OneKind
INVARIANTS
  WorkerTypeOK
  OneFreshRun
  SucceededJobLeftItsResult
  TablesAreReadAlike
PROPERTIES
  FinishedStaysFinished
  LoneRunTellsRows
  EveryJobFinishes
CHECK_DEADLOCK FALSE
