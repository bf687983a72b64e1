SPECIFICATION Spec
CONSTANTS
    N = 3
    Missing <- MCMissing
    MaxForeign = 3
INVARIANTS AllOrNothing EvidenceKept
PROPERTIES OnlyRacedIsLost
CHECK_DEADLOCK FALSE
