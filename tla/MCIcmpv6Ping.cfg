CONSTANTS
    Counts = {1, 4}
    SeqModulus = 3
    IdModulus = 4
    QueueSize = 2
    MaxPings = 2
    MaxMessages = 1
SPECIFICATION FairSpec
INVARIANTS CountedIsOwn
PROPERTIES PingReturns
CHECK_DEADLOCK FALSE
