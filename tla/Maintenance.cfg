SPECIFICATION Spec
CONSTANTS
    Crashes = 1
    HandStarts = 1
INVARIANTS TypeOK JournalFirst RestoredIsTrue FencesLifted
PROPERTIES StopsIdle
