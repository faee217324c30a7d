SPECIFICATION Spec
CONSTANTS
  p1 = p1
  p2 = p2
  r1 = r1
  new = new
  feat = feat
  old = old
  PushIds = {p1, p2}
  Repos = {r1}
  Objects = {new, feat}
  KindOf <- MCKindOf
  RefLists <- MCRefLists
  TTL = 1
  ScanMax = 1
  MaxNow = 0
  Modes <- MCBothScans
  NoRequest = NoRequest
  NoEvidence = NoEvidence
INVARIANT EvidenceCoversPush
PROPERTY PushesAreAnswered
CHECK_DEADLOCK FALSE
