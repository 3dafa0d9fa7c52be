SPECIFICATION Spec
CONSTANTS
    Workers = {w1}
    Clients = {c1}
    Requests <- LiveRequests
    Malformed = Malformed
    None = None
    PyClients = {c1}
    MaxTables = 100
    Hwm = 1
    MayThrow = FALSE
    SimdLanes = 2
INVARIANTS
    BatchCarriesParams
