SPECIFICATION Spec
CONSTANTS
    Threads = {t1, t2}
    MaxSize = 2
    MaxFiles = 2
    Sizes = {1, 3}
    MaxLines = 5
    Absent = Absent
SYMMETRY ThreadSymmetry
INVARIANTS
    DiskIsSuffix
    SizeBound
    WarnFlushed
