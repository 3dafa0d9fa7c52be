SPECIFICATION Spec
CONSTANTS
    Clients <- TwoClients
    Significands <- FloatAndDouble
    Eps = 1
    Los <- SomeLos
    Spans <- SomeSpans
    Steps <- SomeSteps
    MaxPoints = 250
INVARIANTS
    GridEnds
    GridSize
