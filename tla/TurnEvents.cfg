SPECIFICATION FairSpec
CONSTANTS
    Tools = {t1}
    Askers = {a1}
    Enders = {e1, e2}
    MaxPending = 2
    MaxEvents = 3
INVARIANTS TerminalIsLast OnlyAskOvertakes QuietAfterCleanup
PROPERTY WorkerReclaimed
CHECK_DEADLOCK FALSE
