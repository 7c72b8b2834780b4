SPECIFICATION Spec
CONSTANTS
    Kind <- MCKind
    Duration <- MCDuration
    Battery <- MCBattery
    Period = 6
    Window = 5
    DeltaPeriod = 3
    Warm = 2
    BaselinePeriod = 4
    PerturbPeriod = 2
    RecoveryPeriod = 8
    CadenceWindow = 5
    MaxBeat = 14
    MaxAdmin = 1
    MaxPause = 1
    MaxStress = 2
    MaxRecovery = 2
    MaxFail = 1
CHECK_DEADLOCK FALSE
INVARIANTS
    TypeOK
    AppliedAsDeclared
    OneReading
    DelayedNotLost
    FreshSamples
    CadenceKept
