SPECIFICATION Spec
CONSTANTS
    Counts <- SmallCounts
    Widths <- LaneCounts
    Align = 4
INVARIANTS
    NoFault
