SPECIFICATION Spec
CONSTANTS
    Questions = {q1, q2}
    Choices = {yes, no}
    Clicks = {k1, k2}
    Ends = {e1, e2}
    Resets = {r1}
    Deadlines = {"descriptor", "entry", "card"}
    Allowance <- OneOrTwo
SYMMETRY Symmetric
INVARIANTS ChosenIsAnswered OwnedIsDelivered PutOffHasKeeper
PROPERTIES AnsweredOnce AcceptedIsResolved
CHECK_DEADLOCK FALSE
