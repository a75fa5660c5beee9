CONSTANTS
    Nodes = {n1, n2, n3}
    Everyone = Everyone
    MaxFrameRetries = 1
    DsnModulus = 2
    FirstDsn = {1}
    MaxRequests = 2
SPECIFICATION LinkFairSpec
INVARIANTS MacConsistent
PROPERTIES ServiceSpec RequestsConfirmed
CHECK_DEADLOCK FALSE
