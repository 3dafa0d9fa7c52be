SPECIFICATION Spec
CONSTANTS
    Workers = {w1, w2}
    Clients = {c1, c2}
    Requests <- AllRequests
    Malformed = Malformed
    None = None
    PyClients = {c1}
    MaxTables = 5
    Hwm = 1
    MayThrow = FALSE
    SimdLanes = 2
SYMMETRY WorkerSymmetry
INVARIANTS
    TypeOK
    NoChunkTwice
    NoChunkLost
    QuiescentBetweenRequests
    OnlyHugeRepliesRefused
    OnlyWedgedOrStranded
PROPERTIES
    Implements
