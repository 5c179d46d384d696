SPECIFICATION Spec
CONSTANTS
  k1 = k1
  k2 = k2
  s1 = s1
  s2 = s2
  NaN = NaN
  NDbs = 1
  Keys = {k1, k2}
  Scans = {}
  Kinds = {"put", "update"}
  LoadsSource = FALSE
  HooksAsync = TRUE
  MayReject = FALSE
  MayAbort = FALSE
  ClosedUse = TRUE
  Timeouts = FALSE
  ConflictDbs = {1}
  MaxOther = 1
CHECK_DEADLOCK FALSE
SYMMETRY Symmetry
INVARIANTS StoredOnce
