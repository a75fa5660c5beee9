CONSTANTS
    NoFrame = NoFrame
    Frames <- TwoFrames
    Channels <- MCChannels
    SupportedChannels <- MCChannels
    TrxRequests <- None
    MaxStale = 0
    IsSlotted = FALSE
    BatteryLife = FALSE
    DefaultMinBE = 3
    DefaultMaxBE = 5
    MaxCSMABackoffs = 1
    BEValues <- None
    MaxFrameRetries = 1
    IdleModes <- None
    MaxRequests = 2
    MaxIncoming = 2
SPECIFICATION NodeFairSpec
PROPERTY IdleMacServesQueue
CHECK_DEADLOCK FALSE
