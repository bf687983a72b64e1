SPECIFICATION FairSpec
CONSTANTS
    Turns = 1
    MaxCalls = 1
    Aliased = {}
    Others = {o1}
PROPERTIES
    StaleCardEnds
CHECK_DEADLOCK FALSE
