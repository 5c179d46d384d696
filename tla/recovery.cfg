SPECIFICATION RecoverSpec
CONSTANTS
  N = 3
  Contents <- Both
  Repeats = 1
  MaxCrashes = 2
  Allowed = {}
CHECK_DEADLOCK FALSE
INVARIANT NewestRestored
PROPERTIES Restored StillKnown
