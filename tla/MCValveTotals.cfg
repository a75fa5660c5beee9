CONSTANTS
    NumMachines = 1
    NumValves = 2
    Payloads = {1}
    Uploads = {a, b}
    LastBlock <- MCLastBlock
    MaxOpenings = 2
    MaxBoots = 1
    MaxPosts = 6
    MaxPolls = 3
SPECIFICATION Spec
CONSTRAINT OneAtATime
INVARIANTS NeverOvercounts DayNegativeAfterRestart DigestWhole
PROPERTIES Valve1TotalGrows
