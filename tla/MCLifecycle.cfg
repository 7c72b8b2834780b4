SPECIFICATION FairSpec
CONSTANTS
    Replies = {r1, r2}
    MaxBeats = 2
    MaxBackoff = 3
    MaxLate = 1
    MaxMoods = 2
CHECK_DEADLOCK FALSE
INVARIANTS
    TypeOK
    TornDownInOrder
PROPERTIES
    ShutdownEnds
    RegistryRecovers
