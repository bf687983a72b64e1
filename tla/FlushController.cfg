SPECIFICATION FlushFairSpec
CONSTANTS
    MaxScheduled = 4
PROPERTIES
    DisplaysLatest
    TerminalRendered
    LatestIsDisplayed
CHECK_DEADLOCK FALSE
