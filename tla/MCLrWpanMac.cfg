CONSTANTS
    NoFrame = NoFrame
    Frames <- MCFrames
    Channels <- MCChannels
    SupportedChannels <- MCChannels
    TrxRequests <- None
    MaxStale = 0
    IsSlotted = FALSE
    BatteryLife = FALSE
    DefaultMinBE = 3
    DefaultMaxBE = 5
    MaxCSMABackoffs = 1
    BEValues <- None
    MaxFrameRetries = 1
    IdleModes = {TRUE, FALSE}
    MaxRequests = 2
    MaxIncoming = 2
SPECIFICATION NodeSpec
INVARIANTS MacTypeOK NoFault CallbacksReenterLast OnAirIsFront ConfirmedInOrder ConfirmTrue OwedAckIsSent AckTimerOwned
CHECK_DEADLOCK FALSE
