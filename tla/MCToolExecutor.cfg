SPECIFICATION Spec
CONSTANTS
    f1 = f1
    f2 = f2
    a = a
    b = b
    Tools <- MCTools
    Files <- MCFiles
    BuiltIn <- MCBuiltIn
    Provides <- MCProvides
    MaxLoads = 3
    MaxEdits = 4
    MaxCommands = 2
    MaxFail = 1
    MaxCrash = 1
CHECK_DEADLOCK FALSE
INVARIANT
    TypeOK
    RouteConsistent
    RegistryFollows
    OnRecordOnce
    SurvivesCrash
