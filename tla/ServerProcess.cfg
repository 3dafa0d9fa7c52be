SPECIFICATION FairSpec
CONSTANTS
    Workers = {w1, w2}
    Signals <- BothSignals
INVARIANTS
    TypeOK
    NoLogAfterShutdown
    ExitFlushes
PROPERTIES
    SignalEndsProcess
