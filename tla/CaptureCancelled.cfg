SPECIFICATION Spec
CONSTANTS
    i1 = i1
    d1 = d1
    d2 = d2
    d3 = d3
    Nobody = Nobody
    Elsewhere = Elsewhere
    Instances <- OneInstance
    Devices <- TwoDevices
    ChunkSize = 2
    Budget = 3
    Reserve = 1
    RemoteMax = 1
    SaveMax = 1
    InterruptRows = 2
INVARIANT CancelKeepsResponse
