SPECIFICATION Spec
CONSTANTS
  r1 = r1
  r2 = r2
  r3 = r3
  Requests = {r1, r2, r3}
  MustRevalidate = {r1}
  Indexed = TRUE
  Reloads = FALSE
  LockTimeouts = FALSE
  Gone = {}
  MaxChanges = 3
CHECK_DEADLOCK FALSE
SYMMETRY Symmetry
INVARIANTS ValidIsCurrent AnswersAreCurrent SingleResolution
