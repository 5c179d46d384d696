SPECIFICATION FairSpec
CONSTANTS
  k1 = k1
  k2 = k2
  s1 = s1
  s2 = s2
  NaN = NaN
  NDbs = 1
  Keys = {k1, k2}
  Scans = {s1, s2}
  Kinds = {"update", "put"}
  LoadsSource = FALSE
  HooksAsync = TRUE
  MayReject = FALSE
  MayAbort = TRUE
  ClosedUse = FALSE
  Timeouts = FALSE
  ConflictDbs = {1}
  MaxOther = 2
CHECK_DEADLOCK FALSE
INVARIANTS TypeOK NoLostUpdate LogMatchesStore AbortedNeverCommits
PROPERTIES ResolvesStoredOrLingering CommitsAfterHooks LingeringCommits
