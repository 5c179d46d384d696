SPECIFICATION Spec
CONSTANTS
  k1 = k1
  k2 = k2
  s1 = s1
  s2 = s2
  NaN = NaN
  NDbs = 2
  Keys = {k1, k2}
  Scans = {}
  Kinds = {"update", "put", "event"}
  LoadsSource = FALSE
  HooksAsync = FALSE
  MayReject = FALSE
  MayAbort = FALSE
  ClosedUse = FALSE
  Timeouts = FALSE
  ConflictDbs = {2}
  MaxOther = 1
CHECK_DEADLOCK FALSE
SYMMETRY Symmetry
INVARIANT ResolvedMeansCommitted
