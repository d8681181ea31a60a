SPECIFICATION FairSpec
CONSTANTS
    Cap = 3
    SockCap = 1
    Timeout = 1
    MaxReqs = 1
    MaxFrames = 2
INVARIANTS TypeOK DeviceSeesWholeFrames ReaderInStep
PROPERTIES PongGoesOut DeathIsNoticed
CHECK_DEADLOCK FALSE
