SPECIFICATION Spec
CONSTANTS
    t1 = t1 t2 = t2 t3 = t3
    Threads = {t1, t2}
    MaxId = 127
    Starts = {20, 70}
    Others = {27}
    MaxIds = 8
    MaxSaves = 1
    MaxRestarts = 1
    RangeSize = 6
    Extension = 5
    Ahead = 3
    Near = 2
    SafeDistance = 6
    Excused = {"collide", "infringe", "together", "moved", "behind"}
SYMMETRY Symmetry
CONSTRAINT OneCause
CHECK_DEADLOCK FALSE
INVARIANT GivenOnce
 
