SPECIFICATION Spec
CONSTANTS
  Names <- MCNames
  MaxConcurrency = 2
  OutcomesOf <- MCOutcomes
INVARIANTS SlotsBounded NoScannerOutlivesRun CleanRunIsComplete
PROPERTIES RunReturns
CHECK_DEADLOCK FALSE
