SPECIFICATION Spec
CONSTANTS
    Duration = 2
    RestoreBeats = 2
    MinStage = 2
    Watchdog = 4
    RejectThreshold = 2
    WarnCooldown = 3
    HistoryCap = 2
    MonitorPeriod = 2
    Warmup = 1
    TestMode = FALSE
    MaxBeat = 10
    MaxOperator = 2
    MaxPause = 2
CHECK_DEADLOCK FALSE
INVARIANT
    PristineAtBaseline
