SPECIFICATION Spec
CONSTANTS
    p1 = p1
    p2 = p2
    NoPose = NoPose
    Poses <- TwoPoses
    MaxWaypointQueue = 2
    MaxRoute = 0
    MaxCancelAttempts = 2
    Commands <- WaypointCommands
    Failures = {"ready", "send", "result", "cancel", "file"}
    MaxRestarts = 0
SYMMETRY Symmetry
INVARIANT NothingIsAwaitedInVain
PROPERTIES
    ConsumedOnlyOnSuccess
    OneSlot
