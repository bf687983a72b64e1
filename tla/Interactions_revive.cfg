SPECIFICATION Spec
CONSTANTS
    Questions = {q1, q2}
    Choices = {yes}
    Clicks = {k1}
    Ends = {e1}
    Resets = {}
    Deadlines = {}
    Allowance <- OneOrTwo
PROPERTIES AbandonedStaysEnded
CHECK_DEADLOCK FALSE
