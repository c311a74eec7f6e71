SPECIFICATION MCSpec
CONSTANTS
    f1 = f1
    f2 = f2
    w1 = w1
    w2 = w2
    w3 = w3
    Files = {f1, f2}
    Writes = {w1, w2, w3}
    Patches = {w1, w3}
    Declared <- MCDeclared
INVARIANTS
    ChangesAreRecoverable
    RestoredLeavesNoTrace
    AppliedStaysApplied
CHECK_DEADLOCK FALSE
