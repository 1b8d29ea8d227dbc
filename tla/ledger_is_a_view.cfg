SPECIFICATION LedgerSpec
CONSTANTS
  Companies <- MCCompanies
  PolicyCodes <- MCCodes
  Shifts <- MCShifts
  Creates <- MCCreates
  Updates <- MCUpdates
  PolicySlots = {1}
  SeededPolicies <- MCSeeded
  MaxVersion = 2
  Company = "c"
  Assigned <- MCAssigned
  NoPolicy = none
  Events <- MCEvents
  EventType <- MCType
  EventTime <- MCTime
  Days <- MCDays
  DayLength = 24
  Offset = 9
  NightStart = 22
  NightEnd = 6
  BatchSize = 2
  LedgerRuns = {1, 2}
  MaxRestarts = 1
INVARIANT
  LedgerIsViewOfItsSources
CHECK_DEADLOCK FALSE
