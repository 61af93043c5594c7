SPECIFICATION FairSpec
CONSTANTS
    i1 = i1
    d1 = d1
    d2 = d2
    d3 = d3
    Nobody = Nobody
    Elsewhere = Elsewhere
    Instances <- OneInstance
    Devices <- ThreeDevices
    ChunkSize = 2
    Budget = 4
    Reserve = 2
    RemoteMax = 2
    SaveMax = 2
    InterruptRows = 2
INVARIANTS ReportedIsSaved OncePerRun ResponsesWhole PresentIsListed SupportedBeforeSaved LockShared
PROPERTIES ReserveKept RunsEnd
