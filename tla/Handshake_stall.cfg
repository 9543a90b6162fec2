SPECIFICATION FairSpec
CONSTANTS
    AppCalls = {h1}
    Flight = 2
PROPERTIES
    HandshakeSettles
CHECK_DEADLOCK FALSE
