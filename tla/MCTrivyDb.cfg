SPECIFICATION Spec
CONSTANTS
  Updaters = {u1, u2}
  Scans = {s1}
  MaxAge = 2
  NextAfter = 2
  MaxNow = 3
INVARIANTS TypeOK OneUpdater NewestIsInPlace UsedIsNoOlder
PROPERTIES LockIsReleased
CHECK_DEADLOCK FALSE
