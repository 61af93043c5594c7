SPECIFICATION FairSpec
CONSTANTS
    p1 = p1
    p2 = p2
    k1 = k1
    k2 = k2
    Procs <- OneProc
    Keys <- OneKey
    NoKey = NoKey
    Nobody = Nobody
    MaxRows = 1
    MaxFaults = 1
PROPERTY RestartConverges
