SPECIFICATION Spec
CONSTANTS
    StreamIds = {1, 3, 5}
    StreamWindows = {0}
    ConnWindows = {}
    DefaultMaxData = 1
    MaxPayload = 1
    MaxBytes = 0
    MaxAccepts = 1
    MaxResets = 2
    StopSending = FALSE
INVARIANTS
    NoLostAccept
    AcceptedOnce
CHECK_DEADLOCK FALSE
