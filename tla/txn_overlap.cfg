SPECIFICATION Spec
CONSTANTS
  k1 = k1
  k2 = k2
  s1 = s1
  s2 = s2
  NaN = NaN
  NDbs = 1
  Keys = {k1}
  Scans = {s1}
  Kinds = {"update", "putLoaded"}
  LoadsSource = TRUE
  HooksAsync = TRUE
  MayReject = TRUE
  MayAbort = TRUE
  ClosedUse = TRUE
  Timeouts = TRUE
  ConflictDbs = {}
  MaxOther = 0
CHECK_DEADLOCK FALSE
INVARIANT TransactionIsOpen
