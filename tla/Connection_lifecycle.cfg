SPECIFICATION FairSpec
CONSTANTS
    Callers = {c1, c2}
    Challenges = {d1}
    Datagrams <- Mixed
    MaxDatagrams = 2
    MaxPending = 1
    SendFails = TRUE
INVARIANTS
    TypeOK
    ReleasedOnce
    AbortSettlesCalls
    LoopEndsOnlyClosed
    ReleasedIsUnused
PROPERTIES
    LoopStops
    CloseSettles
CHECK_DEADLOCK FALSE
