CONSTANTS
    Lines <- MCLines
    MaxLines = 3
    CountModulus = 6
SPECIFICATION FairSpec
INVARIANTS CliConsistent ResultsFollowLines FaultBeforeFirstLine ResolvingIsPending 
PROPERTIES TimersEnd
CHECK_DEADLOCK FALSE
