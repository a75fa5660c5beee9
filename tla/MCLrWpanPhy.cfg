CONSTANTS
    f1 = f1
    f2 = f2
    NoFrame = NoFrame
    Frames <- MCFrames
    Channels <- MCChannels
    SupportedChannels <- MCSupportedChannels
    TrxRequests <- AllTrxRequests
    MaxStale = 1
SPECIFICATION PhyFairSpec
INVARIANTS PhyTypeOK SwitchTargetKnown PendingIsOwned AbandonedFrameDiscarded AbortedIsNotOnAir
PROPERTY PendingResolved
CHECK_DEADLOCK FALSE
