SPECIFICATION Spec
CONSTANTS
    r1 = r1
    r2 = r2
    Requests <- MCRequests
    Start = Start
    Ws = Ws
    Proactive = Proactive
    NoTask = NoTask
    MaxToken = 3
    MaxLost = 1
SYMMETRY MCSymmetry
CHECK_DEADLOCK FALSE
INVARIANT
    LoopReconnects
