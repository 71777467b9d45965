SPECIFICATION Spec
CONSTANTS
    None = None
    Serial = 8
    ArmTimeout = 2
    SendPeriod = 1
    DisarmBurst = 1
    SpeedCap = 1
    InputTimeout = 1
    LatchTimeout = 2
    Reorders = TRUE
    Duplicates = TRUE
    Losses = TRUE
    Capacity = 2
    FirstNumber = 6
    MaxSent = 9
    MaxPresses = 0
    MaxRoutes = 2
    MaxSessions = 1
    MaxTakeovers = 0
    Tokens = {"space", "forward", "route"}
INVARIANT Inv
PROPERTY RouteInOrder
CHECK_DEADLOCK FALSE
