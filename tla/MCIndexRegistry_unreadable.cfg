SPECIFICATION Spec
CONSTANTS
    t1 = t1
    t2 = t2
    t3 = t3
    p1 = p1
    p2 = p2
    k1 = k1
    Threads = {t1}
    Processes = {p1, p2}
    ProcessOf <- MCProcessOf
    Keys = {k1}
    NumFiles = 2
    MaxEntries = 1
    Unreadable = TRUE
    None = None
    MaxEdits = 1
    MaxCalls = 2
PROPERTIES
    HitsAreCurrent
SYMMETRY Symmetry
CHECK_DEADLOCK FALSE
