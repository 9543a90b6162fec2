SPECIFICATION Spec
CONSTANTS
    StreamIds = {0, 1}
    StreamWindows = {1, 3}
    ConnWindows = {3}
    DefaultMaxData = 2
    MaxPayload = 2
    MaxBytes = 2
    MaxAccepts = 0
    MaxResets = 2
    StopSending = TRUE
INVARIANTS
    TypeOK
    WithinWindows
PROPERTIES
    KeepsPromise
    FlushDrains
CHECK_DEADLOCK FALSE
