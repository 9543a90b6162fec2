SPECIFICATION Spec
CONSTANTS
    Frames <- BareFin
    FinalSize = 2
    MaxCopies = 1
    OverlapBuffered = FALSE
    MaxReaders = 2
    GivenWindow = 4
    StreamWindow = 4
    ConnWindow = 4
    Aborts = FALSE
INVARIANTS
    ReadsSettle
CHECK_DEADLOCK FALSE
