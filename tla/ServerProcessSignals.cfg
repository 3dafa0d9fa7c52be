SPECIFICATION Spec
CONSTANTS
    Workers = {w1, w2}
    Signals <- BothSignals
INVARIANTS
    SignalsReachMonitor
