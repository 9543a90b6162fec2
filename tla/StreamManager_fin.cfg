SPECIFICATION FairSpec
CONSTANTS
    StreamIds = {0, 4}
    StreamWindows = {0, 2}
    ConnWindows = {3}
    DefaultMaxData = 0
    MaxPayload = 1
    MaxBytes = 1
    MaxAccepts = 0
    MaxResets = 1
    StopSending = FALSE
PROPERTIES
    FinIsSent
CHECK_DEADLOCK FALSE
