SPECIFICATION Spec
CONSTANTS
    k1 = k1
    k2 = k2
    Keys <- MCKeys
    Turns <- Upgraded
    MaxRecords = 1
    TTL = 2
    MaxTime = 3
    MaxLost = 1
SYMMETRY Symmetry
INVARIANTS
    DescriptorRemembered
    AckedMeansDelivered
PROPERTIES
    EventsAdvance
    UncertainIsFinal
CHECK_DEADLOCK FALSE
