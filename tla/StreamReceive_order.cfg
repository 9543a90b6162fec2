SPECIFICATION FairSpec
CONSTANTS
    Frames <- Resegmented
    FinalSize = 4
    MaxCopies = 2
    OverlapBuffered = FALSE
    MaxReaders = 2
    GivenWindow = 2
    StreamWindow = 4
    ConnWindow = 2
    Aborts = TRUE
INVARIANTS
    TypeOK
    InOrderDelivery
    NoLostWakeup
    EofIsComplete
    StateTracksFins
    CreditOutstanding
PROPERTIES
    KeepsPromise
    ReaderReachesEnd
CHECK_DEADLOCK FALSE
