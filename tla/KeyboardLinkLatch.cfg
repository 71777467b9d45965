SPECIFICATION FairSpec
CONSTANTS
    None = None
    Serial = 8
    ArmTimeout = 2
    SendPeriod = 1
    DisarmBurst = 1
    SpeedCap = 1
    InputTimeout = 1
    LatchTimeout = 2
    Reorders = TRUE
    Duplicates = TRUE
    Losses = TRUE
    Capacity = 2
    FirstNumber = 1
    MaxSent = 2
    MaxPresses = 1
    MaxRoutes = 0
    MaxSessions = 2
    MaxTakeovers = 1
    Tokens = {"backtick","space"}
INVARIANT EscapeHolds
PROPERTIES OneArmPerPress LatchEnds
CHECK_DEADLOCK FALSE
