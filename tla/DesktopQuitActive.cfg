SPECIFICATION Spec
CONSTANTS
    t1 = t1
    t2 = t2
    t3 = t3
    NoThread = NoThread
    Threads <- TwoThreads
    MaxClicks = 4
    Hasty = FALSE
SYMMETRY Symmetry
CHECK_DEADLOCK FALSE
INVARIANT QuitWaits
