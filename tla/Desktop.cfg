SPECIFICATION FairSpec
CONSTANTS
    t1 = t1
    t2 = t2
    t3 = t3
    NoThread = NoThread
    Threads <- ThreeThreads
    MaxClicks = 3
    Hasty = TRUE
CHECK_DEADLOCK FALSE
INVARIANTS OneCapture TriggersDisabled OwnedUntilFinished NeverStuck
PROPERTY QuitHappens
