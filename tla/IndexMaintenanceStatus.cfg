\* The status surface during a failed repair.
SPECIFICATION Spec
CONSTANTS
    p1 = p1
    p2 = p2
    Pages <- MCPages
    Events <- MCOneEvent
    Modes = {TRUE}
    QueueDepth = 1
    MaxEvents = 3
    MaxFaults = 1
    MaxOpens = 1
INVARIANTS
    StatusNeverReadsCaughtUpBehind
CHECK_DEADLOCK FALSE
