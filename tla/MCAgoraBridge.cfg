SPECIFICATION FairSpec
CONSTANTS
    m1 = m1
    m2 = m2
    m3 = m3
    Messages <- MCMessages
    MaxConcurrent = 1
    MaxQueued = 2
    MaxAgain = 1
CHECK_DEADLOCK FALSE
INVARIANT
    TypeOK
PROPERTY
    ImplementsReplies
    Settled
    StopEnds
