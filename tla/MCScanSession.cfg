SPECIFICATION Spec
CONSTANTS
  Names <- MCNames
  policy <- MCPolicy
  Reports <- MCReports
  HttpTimeout = 2
  Grace = 2
  Limit = 4
  ScanBudget = 9
INVARIANTS TypeOK StaysWithinBudget NoReportLost LeavesWhenAllIsShown PassTakesAFinishedScan
PROPERTIES SessionEnds ImplementsTuiSession
CHECK_DEADLOCK FALSE
