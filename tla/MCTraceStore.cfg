SPECIFICATION Spec
CONSTANTS
    decide = decide
    tool = tool
    answer = answer
    Runs = {r1, r2}
    CallEvents = {decide}
    OtherEvents = {tool, answer}
    Invocations <- MCInvocations
    MaxCalls = 2
    MaxRevision = 3
INVARIANTS
    TablesAgree
    AnswersAreKept
    SnapshotsAgree
PROPERTY
    PromisedHistory
SYMMETRY Symmetry
CHECK_DEADLOCK FALSE
