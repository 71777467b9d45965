SPECIFICATION Spec
CONSTANTS
    p1 = p1
    p2 = p2
    NoPose = NoPose
    Poses <- OnePose
    MaxWaypointQueue = 1
    MaxRoute = 0
    MaxCancelAttempts = 1
    Commands = {"waypoint", "stop"}
    Failures = {}
    MaxRestarts = 0
INVARIANTS
    StopHolds
