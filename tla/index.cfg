SPECIFICATION FairSpec
CONSTANTS
  Threads = {main, worker}
  Main = main
  LastKey = 2
  Values = {a}
  MaxTime = 3
  MaxWrites = 1
  MaxRestarts = 1
  Interrupts = FALSE
  Excused = {"delete", "evict", "scan", "unaware", "lost"}
CHECK_DEADLOCK FALSE
INVARIANTS TypeOK IndexExact
PROPERTY IndexingCompletes
