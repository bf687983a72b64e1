SPECIFICATION FairSpec
CONSTANTS
    Turns = 2
    MaxCalls = 2
    Aliased = {i1}
    Others = {o1}
INVARIANTS
    OneFinisher
    ReporterSurvives
    NoEndLeftBehind
PROPERTIES
    EndsOnce
    EndDisplayed
    UncancelledEndDisplayed
CHECK_DEADLOCK FALSE
