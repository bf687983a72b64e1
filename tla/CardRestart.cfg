SPECIFICATION FairSpec
CONSTANTS
    MaxCrashes = 2
    MaxUpdates = 2
    MaxTries = 2
INVARIANTS
    AnsweredIsDurable
PROPERTIES
    OnlyEarlyRefreshHidesEnd
    AnsweredIsShown
CHECK_DEADLOCK FALSE
