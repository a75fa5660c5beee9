CONSTANTS
    IsSlotted = TRUE
    BatteryLife = FALSE
    DefaultMinBE = 3
    DefaultMaxBE = 5
    MaxCSMABackoffs = 4
    BEValues <- MCBEValues
SPECIFICATION ClosedFairSpec
INVARIANTS SystemTypeOK OneActivity
PROPERTIES ContractSpec ContractAnswered
