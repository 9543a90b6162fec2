SPECIFICATION Spec
CONSTANTS
    Quarter = 32
    Packets <- EachThenAnother
    MaxChunk = 2
    TokenLength = 3
    PathDataLength = 2
    Options <- SomeOptions
    Unknown <- SomeUnknown
    MaxCalls = 2
INVARIANTS
    TypeOK
    FramesAreThoseWritten
    CutIsNoticed
    ParametersAreThoseSent
    CutIsRefused
PROPERTIES
    ReaderSettles
CHECK_DEADLOCK FALSE
