SPECIFICATION Spec
CONSTANTS
  Names <- MCNames
  Reports <- MCReports
  Rules <- MCRules
  Policies <- MCPolicies
  MaxFindings = 3
  MaxRules = 3
INVARIANTS FloorsHold OrderIrrelevant
PROPERTIES FindingsNeverRelax RulesNeverRelax
CHECK_DEADLOCK FALSE
