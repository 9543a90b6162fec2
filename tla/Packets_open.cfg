SPECIFICATION Spec
CONSTANTS
    tiny = tiny
    small = small
    large = large
    Frames <- ThreeFrames
    FrameLength <- ThreeLengths
    MaxPayload = 4
    MinPayload = 2
    ours = ours
    theirs = theirs
    Secrets <- TwoSecrets
    PnBits = 1
    IV <- StaticIVs
    Masks <- ThreeMasks
    Setups <- FourSetups
    MaxPackets = 3
    MaxDeliveries = 2
INVARIANTS
    SealedPacketsOpen
CHECK_DEADLOCK FALSE
