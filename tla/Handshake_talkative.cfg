SPECIFICATION TalkativeSpec
CONSTANTS
    AppCalls = {h1, h2}
    Flight = 3
INVARIANTS
    TypeOK
    ChunksAccounted
PROPERTIES
    HandshakeSettles
    FinishedLeaves
CHECK_DEADLOCK FALSE
