CONSTANTS
    Devices <- MCDevices
    Addresses <- MCAddresses
    Unset = 0
    BroadcastAddress = 65535
    Addr <- MCAddr
    NoDevice = 99
    Programs <- AllPrograms
SPECIFICATION NetSpec
INVARIANTS LastNeighbourIsParent FloodOnce LoopsConfined
PROPERTIES PingAnswered FloodReaches
CHECK_DEADLOCK FALSE
