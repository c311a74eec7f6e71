SPECIFICATION FairSpec
CONSTANTS
    MaxSteps = 3
    None = None
INVARIANTS
    BudgetsSuffice
    CallsAreAnswered
    RefusalsAreExplained
    StatusIsHonest
PROPERTY
    RunEnds
CHECK_DEADLOCK FALSE
