SPECIFICATION MCSpec
CONSTANTS
    q1 = q1
    q2 = q2
    q3 = q3
    s1 = s1
    Requests = {q1, q2, q3}
    Sessions = {s1, s2}
    Slots = {l1}
    LockOf <- MCLockOf
    Elsewhere = Elsewhere
    None = None
    MaxTurns = 1
    MaxRestarts = 1
INVARIANTS
    TurnsFollowTheirHistory
    SessionsAreSerial
PROPERTIES
    WritesKnowTheChat
    OneShot
    EveryRequestEnds
CHECK_DEADLOCK FALSE
