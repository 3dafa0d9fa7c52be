SPECIFICATION Spec
CONSTANTS
    Workers = {w1}
    Clients = {c1, c2, c3}
    Requests <- CapacityRequests
    Malformed = Malformed
    None = None
    PyClients = {}
    MaxTables = 2
    Hwm = 3
    MayThrow = FALSE
    SimdLanes = 2
SYMMETRY ClientSymmetry
INVARIANTS
    NoWedge
    OnlyFittingAnswered
PROPERTIES
    Implements
