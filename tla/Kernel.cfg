SPECIFICATION FairSpec
CONSTANTS
    Counts <- SmallCounts
    Widths <- LaneCounts
    Align = 4
INVARIANTS
    StoresInBounds
    AllStored
    TailIsRemainder
    FaultNeedsWideVector
PROPERTIES
    KernelEnds
