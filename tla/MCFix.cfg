SPECIFICATION Spec
CONSTANTS
  Sessions = {s1, s2}
  Modes <- AllModes
  Files <- MCFiles
  Secrets <- MCSecrets
  Trees <- MCTrees
  Reports <- MCReports
INVARIANTS TypeOK EveryFindingIsFixed ReferencesResolve
PROPERTIES SuppressionsKept
CHECK_DEADLOCK FALSE
