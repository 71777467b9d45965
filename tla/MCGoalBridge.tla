---------------------------- MODULE MCGoalBridge ----------------------------
(* A small instance of GoalBridge for TLC. *)
EXTENDS GoalBridge, TLC

CONSTANTS p1, p2

OnePose == {p1}
TwoPoses == {p1, p2}

\* Poses are told apart by identity only.
Symmetry == Permutations(Poses)

\* What an operator can ask of the consumable queue, and of the route.
WaypointCommands == {"goal", "waypoint", "start", "stop", "clear"}
RouteCommands == {"waypoint", "mode", "start", "stop", "clear", "loop", "remove_last"}
=============================================================================
