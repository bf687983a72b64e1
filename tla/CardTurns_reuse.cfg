SPECIFICATION FairSpec
CONSTANTS
    Turns = 2
    MaxCalls = 2
    Aliased = {}
    Others = {}
PROPERTIES
    AcceptedEndDisplayed
CHECK_DEADLOCK FALSE
