SPECIFICATION Spec
CONSTANTS
  N = 4
  Contents <- Mixed
  Repeats = 1
CHECK_DEADLOCK FALSE
INVARIANTS TypeOK InOrderConverges NewestPrevails CountersExact LogSuffices
PROPERTY DuplicatesIgnored
