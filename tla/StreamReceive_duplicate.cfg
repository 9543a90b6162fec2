SPECIFICATION Spec
CONSTANTS
    Frames <- Segments
    FinalSize = 4
    MaxCopies = 2
    OverlapBuffered = TRUE
    MaxReaders = 1
    GivenWindow = 4
    StreamWindow = 4
    ConnWindow = 4
    Aborts = FALSE
INVARIANTS
    InOrderDelivery
CHECK_DEADLOCK FALSE
