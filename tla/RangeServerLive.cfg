SPECIFICATION FairSpec
CONSTANTS
    Workers = {w1, w2}
    Clients = {c1, c2}
    Requests <- LiveRequests
    Malformed = Malformed
    None = None
    PyClients = {c1}
    MaxTables = 3
    Hwm = 1
    MayThrow = TRUE
    SimdLanes = 2
PROPERTIES
    Implements
    FittingRequestsAnswered
    ShutdownCompletes
