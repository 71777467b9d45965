SPECIFICATION FairSpec
CONSTANTS
    p1 = p1
    p2 = p2
    NoPose = NoPose
    Poses <- OnePose
    MaxWaypointQueue = 1
    MaxRoute = 1
    MaxCancelAttempts = 1
    Commands <- RouteCommands
    Failures = {"ready", "send", "result", "cancel", "file"}
    MaxRestarts = 1
INVARIANTS
    RouteHaltHolds
PROPERTIES
    NoGoalAfterShutdown
    PendingIsServed
