SPECIFICATION Spec
CONSTANTS
  p1 = p1
  p2 = p2
  r1 = r1
  new = new
  feat = feat
  old = old
  PushIds = {p1, p2}
  Repos = {r1}
  Objects = {new}
  KindOf <- MCKindOf
  RefLists <- MCOneRef
  TTL = 2
  ScanMax = 1
  MaxNow = 3
  Modes <- MCModes
  NoRequest = NoRequest
  NoEvidence = NoEvidence
INVARIANTS TypeOK KnownBadNeverLands
PROPERTY ImplementsVerifiedPush
CHECK_DEADLOCK FALSE
