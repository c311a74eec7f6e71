SPECIFICATION MCSpec
CONSTANTS
    t1 = t1
    t2 = t2
    t3 = t3
    p1 = p1
    p2 = p2
    k1 = k1
    Threads = {t1, t2, t3}
    Processes = {p1, p2}
    ProcessOf <- MCProcessOf
    Keys = {k1, k2}
    NumFiles = 2
    MaxEntries = 1
    Unreadable = FALSE
    None = None
    MaxEdits = 2
    MaxCalls = 2
INVARIANTS
    SnapshotsAreCoherent
PROPERTIES
    IndexIsCurrent
    MemoryAdvances
SYMMETRY Symmetry
CHECK_DEADLOCK FALSE
