CONSTANTS
    NumMachines = 2
    NumValves = 2
    Payloads = {}
    Uploads = {}
    LastBlock <- MCLastBlock
    MaxOpenings = 1
    MaxBoots = 1
    MaxPosts = 0
    MaxPolls = 2
SPECIFICATION Spec
CONSTRAINT OneAtATime
PROPERTIES EveryTotalGrows
CHECK_DEADLOCK FALSE
