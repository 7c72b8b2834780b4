SPECIFICATION FairSpec
CONSTANTS
    m1 = m1
    m2 = m2
    p = p
    q = q
    s = s
    t = t
    Messages <- MCMessages
    Peers <- MCPeers
    Speaker <- MCSpeaker
    Signatures <- MCSignatures
    HistorySize = 2
    MaxIterations = 4
    IdenticalLimit = 3
CHECK_DEADLOCK FALSE
INVARIANT
    TypeOK
    OwnContext
    LoopBounded
PROPERTY
    RepliesEnd
