SPECIFICATION FairSpec
CONSTANTS
    read = read
    patch = patch
    command = command
    None = None
    Answer = Answer
    ReadCalls <- MCReadCalls
    WriteCalls <- MCWriteCalls
    MaxSteps = 3
INVARIANTS
    WriteAtToolIsCovered
    RecursionBudget
    LlmCallBudget
    TerminalStatusIsHonest
    AppliedIsRecorded
    PendingApprovalIsExact
PROPERTIES
    BudgetsSurviveApproval
    EveryInvokeEnds
CHECK_DEADLOCK FALSE
