SPECIFICATION OversightSpec
CONSTANTS
    Engines <- MCEngines
    Period <- MCPeriod
    Threshold <- MCThreshold
    Multiplier <- MCMultiplier
    Budgets <- MCBudgets
    Window = 3
    LeastLoad = 25
    LeastEffect = 10
    Escalate = 3
    Whole = 6
    Recent = 3
    Agreement = 70
    Ignorable = 2
    MaxBeat = 13
    MaxPause = 1
    MaxMoves = 2
CHECK_DEADLOCK FALSE
INVARIANTS
    OversightTypeOK
    WarningsEarned
PROPERTIES
    EscalationEarned
