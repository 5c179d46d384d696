SPECIFICATION FairSpec
CONSTANTS
  r1 = r1
  r2 = r2
  r3 = r3
  Requests = {r1, r2}
  MustRevalidate = {r1}
  Indexed = TRUE
  Reloads = TRUE
  LockTimeouts = TRUE
  Gone = {2}
  MaxChanges = 2
CHECK_DEADLOCK FALSE
INVARIANTS TypeOK WaitersHaveLock
PROPERTY AllAnswered
