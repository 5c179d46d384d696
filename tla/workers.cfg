SPECIFICATION FairSpec
CONSTANTS
    Threads = 2
    MaxWorkers = 9
    MaxJobs = 1
    MaxExits = 2
    Calls <- RestartsAndShutdown
    MaxWorkersDown = 1
    MAX_UNEXPECTED_RESTARTS = 1
    Allowed = {}
INVARIANT TypeOK
INVARIANT AtMostDown
INVARIANT NoneLeftBehind
INVARIANT WorkersRestored
INVARIANT ShutdownIsFinal
PROPERTY RestartCompletes
