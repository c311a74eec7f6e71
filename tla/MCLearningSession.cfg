SPECIFICATION Spec
CONSTANTS
    Plans <- MCPlans
    ReviewSize = 2
    GapSize = 1
    EventSize = 1
    Answers = {1, 3}
    MaxSigned = 32
    MaxKeys = 2
    None = None
INVARIANTS
    NeverStuck
PROPERTIES
    ErrorsAreAboutLength
    ProgressIsKept
