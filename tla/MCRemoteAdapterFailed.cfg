SPECIFICATION RemoteSpec
CONSTANTS
  Names <- MCNames
  policy <- MCPolicy
  Reports <- MCReports
  HttpTimeout = 6
  Grace = 6
  Limit = 360
  ScanBudget = 420
INVARIANTS FailedScanNeverPasses
CHECK_DEADLOCK FALSE
