SPECIFICATION Spec
CONSTANTS
    c1 = c1
    c2 = c2
    Components <- MCComponents
    Period = 2
    RollingKeep = 2
    DailyKeep = 1
    StartBeat = 8
    MaxTicks = 3
    MaxPause = 1
    MaxDemand = 1
    MaxCrash = 1
    MaxFail = 1
    MaxPerSecond = 2
SYMMETRY Symmetry
CHECK_DEADLOCK FALSE
INVARIANTS
    TypeOK
    CurrentComplete
PROPERTIES
    PruneSpares
    ImplementsArchive
