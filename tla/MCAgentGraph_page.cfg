SPECIFICATION Spec
CONSTANTS
    read = read
    patch = patch
    command = command
    None = None
    Answer = Answer
    ReadCalls <- MCReadCalls
    WriteCalls <- MCWriteCalls
    MaxSteps = 1
INVARIANT PageClaimIsTrue
CHECK_DEADLOCK FALSE
