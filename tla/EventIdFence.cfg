SPECIFICATION FairSpec
CONSTANTS
    r1 = r1  r2 = r2  r3 = r3  r4 = r4
    a = a  b = b
    p = p  q = q
    EventIds = {a, b}
    Prints = {p, q}
    Exact = "delivered"
    NoOne = NoOne
    Requests <- MCRequests
    EventOf <- MCEventOf
    PrintOf <- MCPrintOf
    Admissions = {a}
    Outcomes = {"delivered", "rejected"}
    MaxEntries = 1
    Ttl = 1
    MaxTime = 2
INVARIANTS
    SingleOwner
    WaiterHasWaker
    ReplayIsCanonical
    ReplayedAdmissionIsExact
PROPERTIES
    ForgetsOnlySettled
    EveryClaimSettles
CHECK_DEADLOCK FALSE
