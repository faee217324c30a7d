SPECIFICATION Spec
CONSTANTS
  p1 = p1
  p2 = p2
  r1 = r1
  new = new
  feat = feat
  old = old
  PushIds = {p1}
  Repos = {r1}
  Objects = {new, old}
  KindOf <- MCKindOf
  RefLists <- MCOldRefs
  TTL = 1
  ScanMax = 1
  MaxNow = 1
  Modes <- MCModes
  NoRequest = NoRequest
  NoEvidence = NoEvidence
INVARIANT UnscannableRefsAreRefused
CHECK_DEADLOCK FALSE
