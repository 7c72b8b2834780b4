SPECIFICATION FairSpec
CONSTANTS
    Duration = 2
    RestoreBeats = 1
    MinStage = 2
    Watchdog = 5
    RejectThreshold = 2
    WarnCooldown = 3
    HistoryCap = 2
    MonitorPeriod = 2
    Warmup = 1
    TestMode = FALSE
    MaxBeat = 9
    MaxOperator = 2
    MaxPause = 1
CHECK_DEADLOCK FALSE
INVARIANTS
    TypeOK
    ParamsAccounted
    RunsFullCourse
    HistorySettled
PROPERTIES
    OnlyForceInterrupts
    RecoveryExits
