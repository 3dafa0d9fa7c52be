SPECIFICATION FairSpec
CONSTANTS
    Workers = {w1}
    Clients = {c1}
    Requests <- BeyondCapacity
    Malformed = Malformed
    None = None
    PyClients = {c1}
    MaxTables = 100
    Hwm = 1
    MayThrow = FALSE
    SimdLanes = 1
PROPERTIES
    EveryRequestAnswered
