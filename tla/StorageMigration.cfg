SPECIFICATION FairSpec
CONSTANTS
    p1 = p1
    p2 = p2
    k1 = k1
    k2 = k2
    Procs <- MCProcs
    Keys <- MCKeys
    NoKey = NoKey
    Nobody = Nobody
    MaxRows = 2
    MaxFaults = 3
INVARIANTS TypeOK NothingLost SecretKept OpenedMeansSealed RecoveryDefined
PROPERTIES ImplementsStore OpensUnlessMarkerTorn
