SPECIFICATION PipelineSpec
CONSTANTS
  Names <- MCNames
  MaxConcurrency = 1
  OutcomesOf <- MCOutcomes
  Targets <- MCTargets
  Policies <- MCPolicies
INVARIANTS PipelineTypeOK BudgetSuffices ProxyReadsTheVerdict OnlyPassesAreCached
PROPERTIES ImplementsGate ScanEndsEventually
CHECK_DEADLOCK FALSE
