----------------------------- MODULE GoalBridge -----------------------------
(***************************************************************************)
(* The goal bridge (runner_bringup/foxglove_goal_bridge.py): the only      *)
(* owner of Nav2 actions.  It turns single goals, a consumable waypoint    *)
(* queue and a persistent route into one action goal at a time.            *)
(*                                                                         *)
(* The bridge is a record b, and every method of the class is an operator  *)
(* from records to records, so that a handler is the composition of the    *)
(* methods it calls.  The handlers run on a single-threaded executor; what *)
(* interleaves with them is the action server and the answers' arrival.    *)
(*                                                                         *)
(* A future is the state of its answer: "none" (no such future), "asked"   *)
(* (no answer yet), or the answer, which waits for its done callback.  A   *)
(* callback is registered for a generation and ignores an answer that      *)
(* comes for another one: b.bound holds what is registered for the current *)
(* generation.                                                             *)
(***************************************************************************)
EXTENDS Integers, Sequences

CONSTANTS
    Poses,              \* waypoint poses, told apart by identity
    NoPose,             \* the pose of a request that is not the queue's
    MaxWaypointQueue,   \* MAX_WAYPOINT_QUEUE
    MaxRoute,           \* bound: waypoints in the route
    MaxCancelAttempts,  \* MAX_CANCEL_ATTEMPTS
    Commands,           \* bound: the operator's commands enumerated
    Failures,           \* bound: what may go wrong inside a handler
    MaxRestarts         \* bound: restarts of the process

ASSUME GoalBridgeAssumption ==
    /\ NoPose \notin Poses
    /\ MaxWaypointQueue \in Nat \ {0}
    /\ MaxRoute \in Nat
    /\ MaxCancelAttempts \in Nat \ {0}
    /\ MaxRestarts \in Nat
    /\ Failures \subseteq {"ready", "send", "result", "cancel", "file"}

VARIABLES
    b,         \* the bridge
    disk,      \* the persisted route
    goal,      \* the server's state of the last goal it accepted
    live,      \* number of this process's goals that have not ended at the server
    intent,    \* what the operator last asked for (observation only)
    restarts   \* restarts so far (bound)

vars == <<b, disk, goal, live, intent, restarts>>

-----------------------------------------------------------------------------
(* Data *)

Modes == {"WAYPOINT", "ROUTE"}
QueueStates == {"IDLE", "RUNNING", "PAUSED"}

Request(purpose, pose) == [purpose |-> purpose, pose |-> pose]
None == Request("none", NoPose)
Single == Request("single", NoPose)
Route == Request("route", NoPose)
Requests == {Single, Route} \cup {Request("queue", p) : p \in Poses}

Terminal == {"succeeded", "aborted", "canceled"}
SendAnswers == {"accepted", "rejected", "failed"}
ResultAnswers == Terminal \cup {"failed"}
CancelAnswers == {"accepted", "refused", "failed"}
Registrations == {"pending", "send", "result", "cancel", "feedback"}
ServerStates == {"none", "executing", "canceling"} \cup Terminal
GoalStates == {"none", "accepted", "executing"} \cup Terminal

\* What can go wrong inside a handler: the server is not ready, or a request
\* or the route file raises.  At most one of them in one handler.
AllWell == [ready |-> TRUE, send |-> TRUE, result |-> TRUE, cancel |-> TRUE, file |-> TRUE]
Outcomes == {AllWell} \cup {[AllWell EXCEPT ![f] = FALSE] : f \in Failures}

\* The attributes of the node (__init__)
Bridge ==
    [mode : Modes, queue : {q \in Seq(Poses) : Len(q) <= MaxWaypointQueue},
     qstate : QueueStates, retry : 0..1,
     route : 0..MaxRoute, loop : BOOLEAN, run : BOOLEAN,
     pending : Requests \cup {None},
     send : Requests \cup {None}, sendFuture : {"none", "asked"} \cup SendAnswers,
     active : Requests \cup {None},
     resultFuture : {"none", "asked"} \cup ResultAnswers, resultWait : BOOLEAN,
     cancelFuture : {"none", "asked"} \cup CancelAnswers,
     attempts : 0..(MaxCancelAttempts + 1), cancelAccepted : BOOLEAN,
     cancelRequested : BOOLEAN, cancelWait : BOOLEAN,
     bound : SUBSET Registrations, goalState : GoalStates, shutting : BOOLEAN]

\* What the route file says
Files == [route : 0..MaxRoute, loop : BOOLEAN]

\* A new process: the route and the loop preference come from the file.
Boot(file) ==
    [mode |-> "WAYPOINT", queue |-> <<>>, qstate |-> "IDLE", retry |-> 0,
     route |-> file.route, loop |-> file.loop, run |-> FALSE,
     pending |-> None, send |-> None, sendFuture |-> "none",
     active |-> None, resultFuture |-> "none", resultWait |-> FALSE,
     cancelFuture |-> "none", attempts |-> 0, cancelAccepted |-> FALSE,
     cancelRequested |-> FALSE, cancelWait |-> FALSE,
     bound |-> {}, goalState |-> "none", shutting |-> FALSE]

HasInflight(s) == s.send # None \/ s.active # None

-----------------------------------------------------------------------------
(* _advance_generation: everything that exists is registered again for the  *)
(* new generation, except the feedback callback.                            *)

\* Mutant: the cancel answer stays registered for the old generation.
AdvanceDropsCancel(s) ==
    [s EXCEPT !.bound = {x \in {"pending", "send", "result"} :
        \/ x = "pending" /\ s.pending # None
        \/ x = "send"    /\ s.send # None
        \/ x = "result"  /\ s.active # None /\ s.resultFuture # "none"}]

\* Mutant: the result stays registered for the old generation.
AdvanceDropsResult(s) ==
    [s EXCEPT !.bound = {x \in {"pending", "send", "cancel"} :
        \/ x = "pending" /\ s.pending # None
        \/ x = "send"    /\ s.send # None
        \/ x = "cancel"  /\ s.active # None /\ s.cancelFuture # "none"}]

Advance(s) ==
    [s EXCEPT !.bound = {x \in Registrations :
        \/ x = "pending" /\ s.pending # None
        \/ x = "send"    /\ s.send # None
        \/ x = "result"  /\ s.active # None /\ s.resultFuture # "none"
        \/ x = "cancel"  /\ s.active # None /\ s.cancelFuture # "none"}]

-----------------------------------------------------------------------------
(* Requests to the action server *)

\* Attempts beyond the maximum are not told apart.
OneMore(n) == IF n <= MaxCancelAttempts THEN n + 1 ELSE n

\* Mutant: a retry does not look at the number of attempts.
RequestCancelUnbounded(s, force, o) ==
    IF \/ s.active = None \/ s.cancelFuture # "none" \/ s.cancelAccepted
       \/ ~force /\ s.cancelWait
    THEN s
    ELSE IF o.cancel
    THEN [s EXCEPT !.attempts = OneMore(@), !.cancelFuture = "asked",
                   !.bound = @ \cup {"cancel"}]
    ELSE [s EXCEPT !.attempts = OneMore(@), !.cancelWait = TRUE]

\* _request_cancel; a request that raises schedules the retry.
RequestCancel(s, force, o) ==
    IF \/ s.active = None \/ s.cancelFuture # "none" \/ s.cancelAccepted
       \/ ~force /\ (s.attempts >= MaxCancelAttempts \/ s.cancelWait)
    THEN s
    ELSE IF o.cancel
    THEN [s EXCEPT !.attempts = OneMore(@), !.cancelFuture = "asked",
                   !.bound = @ \cup {"cancel"}]
    ELSE [s EXCEPT !.attempts = OneMore(@), !.cancelWait = TRUE]

\* _ensure_result_request
EnsureResult(s, o) ==
    IF s.active = None \/ s.resultFuture # "none" \/ s.resultWait
    THEN s
    ELSE IF o.result
    THEN [s EXCEPT !.resultFuture = "asked", !.bound = @ \cup {"result"}]
    ELSE [s EXCEPT !.resultWait = TRUE]

\* The end of _pump: the pending request goes to the server.  A request that
\* raises is restored, if no cancellation is wanted.
SendPending(s, o) ==
    IF ~o.send
    THEN IF s.cancelRequested
         THEN [s EXCEPT !.pending = None, !.bound = @ \ {"pending"}]
         ELSE s
    ELSE [s EXCEPT !.pending = None, !.send = s.pending, !.sendFuture = "asked",
                   !.bound = (@ \ {"pending"}) \cup {"send", "feedback"}]

\* Mutant: a replacement is sent while the previous send is unanswered.
PumpOverSend(s, o) ==
    IF s.active # None
    THEN LET t == EnsureResult(s, o)
         IN  IF s.shutting \/ s.pending # None \/ s.cancelRequested
             THEN RequestCancel(t, s.shutting, o) ELSE t
    ELSE IF s.shutting \/ s.pending = None THEN s
    ELSE IF "pending" \notin s.bound THEN [s EXCEPT !.pending = None]
    ELSE IF o.ready THEN SendPending(s, o) ELSE s

\* Mutant: shutdown does not keep the pump from sending.
PumpInShutdown(s, o) ==
    IF s.active # None
    THEN LET t == EnsureResult(s, o)
         IN  IF s.shutting \/ s.pending # None \/ s.cancelRequested
             THEN RequestCancel(t, s.shutting, o) ELSE t
    ELSE IF s.pending = None \/ s.send # None THEN s
    ELSE IF "pending" \notin s.bound THEN [s EXCEPT !.pending = None]
    ELSE IF o.ready THEN SendPending(s, o) ELSE s

\* _pump
Pump(s, o) ==
    IF s.active # None
    THEN LET t == EnsureResult(s, o)
         IN  IF s.shutting \/ s.pending # None \/ s.cancelRequested
             THEN RequestCancel(t, s.shutting, o) ELSE t
    ELSE IF s.shutting \/ s.pending = None \/ s.send # None THEN s
    ELSE IF "pending" \notin s.bound THEN [s EXCEPT !.pending = None]
    ELSE IF o.ready THEN SendPending(s, o) ELSE s

\* _replace_request
ReplaceRequest(s, request, o) ==
    LET t == [Advance(s) EXCEPT !.pending = request,
                                !.bound = @ \cup {"pending"},
                                !.cancelRequested = HasInflight(s)]
    IN  Pump(IF HasInflight(s) THEN RequestCancel(t, FALSE, o) ELSE t, o)

\* _restore_request_if_latest
Restore(s, request) ==
    IF ~s.shutting /\ s.pending = None /\ ~s.cancelRequested
    THEN [s EXCEPT !.pending = request, !.bound = @ \cup {"pending"}]
    ELSE s

\* _clear_active_state; a late answer of a cleared goal's cancellation is
\* ignored, its future is forgotten here.
ClearActive(s) ==
    [s EXCEPT !.active = None, !.resultFuture = "none", !.resultWait = FALSE,
              !.cancelFuture = "none", !.attempts = 0, !.cancelAccepted = FALSE,
              !.cancelRequested = FALSE, !.cancelWait = FALSE,
              !.bound = @ \ {"result", "cancel"}]

-----------------------------------------------------------------------------
(* The waypoint queue *)

\* _dispatch_queue_front
DispatchFront(s, o) ==
    IF \/ s.mode # "WAYPOINT" \/ s.queue = <<>> \/ s.qstate = "PAUSED"
       \/ HasInflight(s) \/ s.pending # None
    THEN s
    ELSE Pump([Advance(s) EXCEPT !.qstate = "RUNNING",
                                 !.cancelRequested = FALSE,
                                 !.pending = Request("queue", Head(s.queue)),
                                 !.bound = @ \cup {"pending"}], o)

IsFront(s, request) == s.queue # <<>> /\ Head(s.queue) = request.pose

\* _handle_queue_success
QueueSuccess(s, request, o) ==
    IF ~IsFront(s, request)
    THEN Pump(ClearActive(s), o)
    ELSE DispatchFront([Advance(ClearActive(s)) EXCEPT
                            !.queue = Tail(@), !.retry = 0, !.qstate = "IDLE"], o)

\* Mutant: the second failure drops the front instead of keeping it.
QueueFailureDropsFront(s, request, o) ==
    LET t == IF s.active # None THEN ClearActive(s) ELSE s IN
    IF ~IsFront(s, request)
    THEN Pump(ClearActive(s), o)
    ELSE IF s.retry = 0
    THEN DispatchFront([t EXCEPT !.retry = 1, !.qstate = "IDLE"], o)
    ELSE [Advance(t) EXCEPT !.qstate = "PAUSED", !.queue = Tail(@)]

\* Mutant: a retry leaves the queue marked RUNNING although it may not be sent.
QueueFailureStaysRunning(s, request, o) ==
    LET t == IF s.active # None THEN ClearActive(s) ELSE s IN
    IF ~IsFront(s, request)
    THEN Pump(ClearActive(s), o)
    ELSE IF s.retry = 0
    THEN DispatchFront([t EXCEPT !.retry = 1, !.qstate = "RUNNING"], o)
    ELSE [Advance(t) EXCEPT !.qstate = "PAUSED"]

\* _handle_queue_failure
QueueFailure(s, request, o) ==
    LET t == IF s.active # None THEN ClearActive(s) ELSE s IN
    IF ~IsFront(s, request)
    THEN Pump(ClearActive(s), o)
    ELSE IF s.retry = 0
    THEN DispatchFront([t EXCEPT !.retry = 1, !.qstate = "IDLE"], o)
    ELSE [Advance(t) EXCEPT !.qstate = "PAUSED"]

-----------------------------------------------------------------------------
(* Commands.  Each handler returns at once during shutdown. *)

Saved(s, o) == IF o.file THEN [route |-> s.route, loop |-> s.loop] ELSE disk

\* Drop what is pending and cancel what is in flight: the tail of every stop,
\* clear and mode change.
Halt(s, o) ==
    RequestCancel([Advance(s) EXCEPT !.pending = None, !.bound = @ \ {"pending"},
                                     !.cancelRequested = HasInflight(s)],
                  FALSE, o)

Idle(s) == ~HasInflight(s) /\ s.pending = None

\* _goal_callback with a valid pose; a malformed one changes nothing.
GoalCallback(o) ==
    /\ ~b.shutting
    /\ b' = ReplaceRequest(
                [b EXCEPT !.qstate = IF @ = "RUNNING" THEN "PAUSED" ELSE @,
                          !.run = FALSE], Single, o)
    /\ intent' = "drive"
    /\ UNCHANGED <<disk, goal, live, restarts>>

\* A pose that no queue entry and no request of the queue has.
Fresh(p) ==
    /\ \A i \in DOMAIN b.queue : b.queue[i] # p
    /\ Request("queue", p) \notin {b.pending, b.send, b.active}

\* _waypoint_callback in WAYPOINT mode
WaypointToQueue(p, o) ==
    /\ ~b.shutting /\ b.mode = "WAYPOINT"
    /\ Len(b.queue) < MaxWaypointQueue
    /\ Fresh(p)
    /\ LET s == [Advance(b) EXCEPT !.queue = Append(@, p)]
       IN  b' = IF b.qstate = "IDLE" THEN DispatchFront(s, o) ELSE s
    /\ intent' = IF b.qstate = "IDLE" THEN "drive" ELSE intent
    /\ UNCHANGED <<disk, goal, live, restarts>>

\* _waypoint_callback in ROUTE mode
WaypointToRoute(o) ==
    /\ ~b.shutting /\ b.mode = "ROUTE"
    /\ b.route < MaxRoute
    /\ b' = [Advance(b) EXCEPT !.route = @ + 1]
    /\ disk' = Saved(b', o)
    /\ UNCHANGED <<goal, live, intent, restarts>>

\* _set_navigation_mode: both transitions clear both collections.
SetNavigationMode(requested, o) ==
    /\ ~b.shutting /\ b.mode # requested
    /\ b' = Halt([b EXCEPT !.run = FALSE, !.route = 0, !.queue = <<>>, !.retry = 0,
                           !.qstate = "IDLE", !.mode = requested], o)
    /\ disk' = Saved(b', o)
    /\ intent' = "halt"
    /\ UNCHANGED <<goal, live, restarts>>

\* _waypoint_control
WaypointStart(o) ==
    /\ ~b.shutting /\ b.mode = "WAYPOINT"
    /\ b.queue # <<>> /\ b.qstate # "RUNNING"
    /\ b' = DispatchFront([Advance(b) EXCEPT !.retry = 0, !.qstate = "IDLE",
                                             !.cancelRequested = FALSE], o)
    /\ intent' = "drive"
    /\ UNCHANGED <<disk, goal, live, restarts>>

WaypointStop(o) ==
    /\ ~b.shutting /\ b.mode = "WAYPOINT"
    /\ ~(b.qstate = "PAUSED" /\ Idle(b))
    /\ b' = Halt([b EXCEPT !.qstate = IF b.queue = <<>> THEN "IDLE" ELSE "PAUSED"], o)
    /\ intent' = "halt"
    /\ UNCHANGED <<disk, goal, live, restarts>>

WaypointClear(o) ==
    /\ ~b.shutting /\ b.mode = "WAYPOINT"
    /\ ~(b.queue = <<>> /\ b.qstate = "IDLE" /\ ~HasInflight(b))
    /\ b' = Halt([b EXCEPT !.queue = <<>>, !.retry = 0, !.qstate = "IDLE"], o)
    /\ intent' = "halt"
    /\ UNCHANGED <<disk, goal, live, restarts>>

\* _route_control
RouteStart(o) ==
    /\ ~b.shutting /\ b.mode = "ROUTE"
    /\ b.route > 0
    /\ ~(b.run /\ (b.active = Route \/ b.pending = Route))
    /\ b' = ReplaceRequest([b EXCEPT !.run = TRUE], Route, o)
    /\ intent' = "drive"
    /\ UNCHANGED <<disk, goal, live, restarts>>

RouteStop(o) ==
    /\ ~b.shutting /\ b.mode = "ROUTE"
    /\ b.run \/ ~Idle(b)
    /\ b' = Halt([b EXCEPT !.run = FALSE], o)
    /\ intent' = "halt"
    /\ UNCHANGED <<disk, goal, live, restarts>>

RouteClear(o) ==
    /\ ~b.shutting /\ b.mode = "ROUTE"
    /\ b.route > 0 \/ b.run \/ ~Idle(b)
    /\ b' = Halt([b EXCEPT !.run = FALSE, !.route = 0], o)
    /\ disk' = Saved(b', o)
    /\ intent' = "halt"
    /\ UNCHANGED <<goal, live, restarts>>

\* loop_on, loop_off and loop_toggle, when they change the preference.
RouteLoop(loop, o) ==
    /\ ~b.shutting /\ b.mode = "ROUTE"
    /\ b.loop # loop
    /\ b' = [Advance(b) EXCEPT !.loop = loop]
    /\ disk' = Saved(b', o)
    /\ UNCHANGED <<goal, live, intent, restarts>>

RouteRemoveLast(o) ==
    /\ ~b.shutting /\ b.mode = "ROUTE"
    /\ b.route > 0
    /\ b' = [Advance(b) EXCEPT !.route = @ - 1]
    /\ disk' = Saved(b', o)
    /\ UNCHANGED <<goal, live, intent, restarts>>

Command(o) ==
    \/ "goal" \in Commands /\ GoalCallback(o)
    \/ "waypoint" \in Commands /\ ((\E p \in Poses : WaypointToQueue(p, o)) \/ WaypointToRoute(o))
    \/ "mode" \in Commands /\ \E m \in Modes : SetNavigationMode(m, o)
    \/ "start" \in Commands /\ (WaypointStart(o) \/ RouteStart(o))
    \/ "stop" \in Commands /\ (WaypointStop(o) \/ RouteStop(o))
    \/ "clear" \in Commands /\ (WaypointClear(o) \/ RouteClear(o))
    \/ "loop" \in Commands /\ \E l \in BOOLEAN : RouteLoop(l, o)
    \/ "remove_last" \in Commands /\ RouteRemoveLast(o)

-----------------------------------------------------------------------------
(* Done callbacks *)

\* _goal_response_callback
Accepted(s, request, o) ==
    LET t == EnsureResult([s EXCEPT !.active = request, !.goalState = "accepted",
                                    !.cancelFuture = "none", !.attempts = 0,
                                    !.cancelAccepted = FALSE, !.cancelWait = FALSE], o)
    IN  IF s.shutting \/ s.pending # None \/ s.cancelRequested
        THEN RequestCancel(t, s.shutting, o) ELSE t

Rejected(s, request, o) ==
    LET t == [s EXCEPT !.goalState = "aborted"]
    IN  Pump(IF request.purpose = "queue" THEN QueueFailure(t, request, o)
             ELSE Restore(t, request), o)

GoalResponseCallback(o) ==
    /\ b.sendFuture \in SendAnswers /\ "send" \in b.bound
    /\ LET s == [b EXCEPT !.send = None, !.sendFuture = "none", !.bound = @ \ {"send"}]
       IN  b' = CASE b.sendFuture = "accepted" -> Accepted(s, b.send, o)
                  [] b.sendFuture = "rejected" -> Rejected(s, b.send, o)
                  [] b.sendFuture = "failed"   -> Pump(Restore(s, b.send), o)
    /\ UNCHANGED <<disk, goal, live, intent, restarts>>

\* _feedback_callback: registered for the generation of the send, it is heard
\* only if no generation has begun since.
FeedbackCallback ==
    /\ b.active # None /\ goal # "none"
    /\ b' = IF "feedback" \in b.bound THEN [b EXCEPT !.goalState = "executing"] ELSE b
    /\ UNCHANGED <<disk, goal, live, intent, restarts>>

\* A queue goal's end
QueueResult(s, request, status, o) ==
    IF status = "canceled" /\ s.cancelRequested THEN Pump(ClearActive(s), o)
    ELSE IF status = "succeeded" THEN QueueSuccess(s, request, o)
    ELSE QueueFailure(s, request, o)

\* Mutant: a finished route is replayed without looking at the run flag.
OtherResultReplays(s, request, status, o) ==
    LET loops == /\ request = Route /\ status = "succeeded"
                 /\ s.loop /\ s.route > 0 /\ s.pending = None
        t == ClearActive([s EXCEPT !.run = @ /\ (request = Route => loops)])
    IN  Pump(IF loops
             THEN [Advance(t) EXCEPT !.pending = Route, !.bound = @ \cup {"pending"}]
             ELSE t, o)

\* The end of a single goal or a route, which may be replayed
OtherResult(s, request, status, o) ==
    LET loops == /\ request = Route /\ status = "succeeded"
                 /\ s.run /\ s.loop /\ s.route > 0 /\ s.pending = None
        t == ClearActive([s EXCEPT !.run = @ /\ (request = Route => loops)])
    IN  Pump(IF loops
             THEN [Advance(t) EXCEPT !.pending = Route, !.bound = @ \cup {"pending"}]
             ELSE t, o)

\* _result_callback
ResultCallback(o) ==
    /\ b.active # None /\ b.resultFuture \in ResultAnswers /\ "result" \in b.bound
    /\ LET status == b.resultFuture
           s == [b EXCEPT !.goalState = status]
       IN  b' = IF status = "failed"
                THEN Pump([b EXCEPT !.resultFuture = "none", !.resultWait = TRUE,
                                    !.bound = @ \ {"result"}], o)
                ELSE IF b.active.purpose = "queue"
                THEN QueueResult(s, b.active, status, o)
                ELSE OtherResult(s, b.active, status, o)
    /\ UNCHANGED <<disk, goal, live, intent, restarts>>

\* Mutant: an accepted cancellation is taken for the goal's end.
CancelCallbackEnds ==
    /\ b.active # None /\ b.cancelFuture \in CancelAnswers /\ "cancel" \in b.bound
    /\ b' = IF b.cancelFuture = "accepted" THEN ClearActive(b)
            ELSE [b EXCEPT !.cancelFuture = "none", !.bound = @ \ {"cancel"},
                           !.cancelAccepted = FALSE, !.cancelWait = TRUE]
    /\ UNCHANGED <<disk, goal, live, intent, restarts>>

\* _cancel_callback
CancelCallback ==
    /\ b.active # None /\ b.cancelFuture \in CancelAnswers /\ "cancel" \in b.bound
    /\ b' = [b EXCEPT !.cancelFuture = "none", !.bound = @ \ {"cancel"},
                      !.cancelAccepted = (b.cancelFuture = "accepted"),
                      !.cancelWait = (b.cancelFuture # "accepted")]
    /\ UNCHANGED <<disk, goal, live, intent, restarts>>

Callback == FeedbackCallback \/ CancelCallback
            \/ \E o \in Outcomes : GoalResponseCallback(o) \/ ResultCallback(o)

-----------------------------------------------------------------------------
(* Timer, time, shutdown *)

TimerCallback(o) ==
    /\ b' = Pump(b, o)
    /\ UNCHANGED <<disk, goal, live, intent, restarts>>

\* A retry interval ends.
RetryIntervalOver ==
    /\ \/ b.cancelWait /\ b' = [b EXCEPT !.cancelWait = FALSE]
       \/ b.resultWait /\ b' = [b EXCEPT !.resultWait = FALSE]
    /\ UNCHANGED <<disk, goal, live, intent, restarts>>

\* shutdown, which then pumps for as long as it may.
Shutdown(o) ==
    /\ ~b.shutting
    /\ b' = RequestCancel([Advance(b) EXCEPT !.shutting = TRUE, !.run = FALSE,
                  !.pending = None, !.bound = @ \ {"pending"},
                  !.cancelRequested = TRUE], TRUE, o)
    /\ intent' = "halt"
    /\ UNCHANGED <<disk, goal, live, restarts>>

\* The process ends, by shutdown or by a crash, and a new one starts.  A goal
\* that is left at the server has no owner any more and is not followed.
Restart ==
    /\ restarts < MaxRestarts
    /\ restarts' = restarts + 1
    /\ b' = Boot(disk)
    /\ goal' = "none"
    /\ live' = 0
    /\ intent' = "none"
    /\ UNCHANGED disk

-----------------------------------------------------------------------------
(* The action server (Nav2) and the transport, external.  A send that fails *)
(* has not reached the server; a cancellation that fails may have.          *)

Answer(future, answer) == b' = [b EXCEPT ![future] = answer]

ServerAccepts ==
    /\ b.sendFuture = "asked"
    /\ Answer("sendFuture", "accepted")
    /\ goal' = "executing"
    /\ live' = live + 1
    /\ UNCHANGED <<disk, intent, restarts>>

ServerRefuses ==
    /\ b.sendFuture = "asked"
    /\ \E a \in {"rejected", "failed"} : Answer("sendFuture", a)
    /\ UNCHANGED <<disk, goal, live, intent, restarts>>

GoalEnds ==
    /\ goal \in {"executing", "canceling"}
    /\ \E status \in Terminal :
          /\ status = "canceled" => goal = "canceling"
          /\ goal' = status
    /\ live' = live - 1
    /\ UNCHANGED <<b, disk, intent, restarts>>

ServerResult ==
    /\ b.resultFuture = "asked" /\ goal \in Terminal
    /\ Answer("resultFuture", goal)
    /\ UNCHANGED <<disk, goal, live, intent, restarts>>

ResultFails ==
    /\ b.resultFuture = "asked"
    /\ Answer("resultFuture", "failed")
    /\ UNCHANGED <<disk, goal, live, intent, restarts>>

ServerCancel ==
    /\ b.cancelFuture = "asked"
    /\ \/ /\ goal \in {"executing", "canceling"}
          /\ goal' = "canceling"
          /\ Answer("cancelFuture", "accepted") \/ Answer("cancelFuture", "failed")
       \/ /\ goal' = goal
          /\ Answer("cancelFuture", "refused") \/ Answer("cancelFuture", "failed")
    /\ UNCHANGED <<disk, live, intent, restarts>>

Server == ServerAccepts \/ ServerRefuses \/ GoalEnds \/ ServerResult
          \/ ResultFails \/ ServerCancel

-----------------------------------------------------------------------------
Init ==
    /\ disk \in Files
    /\ b = Boot(disk)
    /\ goal = "none"
    /\ live = 0
    /\ intent = "none"
    /\ restarts = 0

Next ==
    \/ \E o \in Outcomes : Command(o) \/ TimerCallback(o) \/ Shutdown(o)
    \/ Callback
    \/ RetryIntervalOver
    \/ Restart
    \/ Server

Spec == Init /\ [][Next]_vars

\* The executor runs the callbacks of answers and the timer; the server is
\* ready again and again, answers, and ends its goals; requests that are
\* repeated do not fail for ever.
Fairness ==
    /\ WF_vars(\E o \in Outcomes : GoalResponseCallback(o))
    /\ WF_vars(\E o \in Outcomes : ResultCallback(o))
    /\ WF_vars(CancelCallback)
    /\ SF_vars(TimerCallback(AllWell))
    /\ WF_vars(RetryIntervalOver)
    /\ WF_vars(ServerAccepts \/ ServerRefuses)
    /\ WF_vars(GoalEnds)
    /\ SF_vars(ServerResult)

FairSpec == Spec /\ Fairness

-----------------------------------------------------------------------------
(* Properties *)

\* Every variable keeps its type (all state of __init__).
TypeOK ==
    /\ b \in Bridge
    /\ disk \in Files
    /\ goal \in ServerStates
    /\ live \in Nat
    /\ intent \in {"none", "drive", "halt"}
    /\ restarts \in 0..MaxRestarts

\* The bridge never has two goals at the server, and it never forgets one that
\* has not ended: it is the active goal, or its acceptance is on the way
\* (_pump sends only when nothing is in flight; a result clears the handle).
AtMostOneGoal ==
    /\ live \in 0..1
    /\ live = 1 => b.active # None \/ b.sendFuture = "accepted"

\* The bridge implements the one-slot specification: it sends a goal only into
\* a free slot and frees the slot only after the goal's end.
SlotOf(s) ==
    IF s.active # None THEN "owned"
    ELSE IF s.send = None THEN "free"
    ELSE IF s.sendFuture = "asked" THEN "asked"
    ELSE IF s.sendFuture = "accepted" THEN "begun"
    ELSE "refused"

Slot == INSTANCE GoalSlot WITH slot <- SlotOf(b), live <- live

OneSlot == Slot!Spec

\* The inductive invariant behind both (its induction is in
\* GoalBridge_proofs): what is in flight, what the server runs and which answers
\* are on the way agree.
Consistent(s, g, n) ==
    /\ (s.send = None) <=> (s.sendFuture = "none")
    /\ s.send # None => s.active = None
    /\ s.resultFuture # "none" => s.active # None
    /\ n \in 0..1
    /\ (n = 1) <=> g \in {"executing", "canceling"}
    /\ n = 1 => s.active # None \/ s.sendFuture = "accepted"
    /\ s.resultFuture \in Terminal => n = 0

SlotInv == Consistent(b, goal, live)

\* A generation that begins while answers are awaited rebinds every one of
\* them: no answer to a request that is still owned will be dropped as stale
\* (_advance_generation).
EveryAnswerHeard ==
    /\ b.pending # None => "pending" \in b.bound
    /\ b.send # None => "send" \in b.bound /\ b.sendFuture # "none"
    /\ b.resultFuture # "none" => "result" \in b.bound
    /\ b.cancelFuture # "none" => "cancel" \in b.bound

\* The published queue state RUNNING means that the front is being driven to:
\* there is a front and its request is pending, sent or active.
RunningIsExecuting ==
    b.qstate = "RUNNING" /\ ~b.shutting =>
        /\ b.queue # <<>>
        /\ Request("queue", Head(b.queue)) \in {b.pending, b.send, b.active}

\* Outside shutdown a goal is asked to cancel at most MAX_CANCEL_ATTEMPTS
\* times (_request_cancel, _schedule_cancel_retry).
CancelAttemptsBounded == b.shutting \/ b.attempts <= MaxCancelAttempts

\* What the bridge waits for comes, what it says it does is being done, and it
\* does not ask for ever, whichever command or answer came in between.
NothingIsAwaitedInVain ==
    EveryAnswerHeard /\ RunningIsExecuting /\ CancelAttemptsBounded

\* The end of a goal consumes a waypoint only if it is the front and its goal
\* succeeded: no failure, rejection or cancellation loses a waypoint
\* (_handle_queue_success, _handle_queue_failure).
ConsumedOnlyOnSuccess ==
    [][Callback /\ b'.queue # b.queue =>
          /\ b.resultFuture = "succeeded"
          /\ b.active = Request("queue", Head(b.queue))
          /\ b'.queue = Tail(b.queue)]_vars

\* In ROUTE mode a stop holds, whatever answer was on the way when it came:
\* nothing is dispatched and what is in flight is to be cancelled
\* (_route_control, _clear_route, _set_navigation_mode).
RouteHaltHolds ==
    b.mode = "ROUTE" /\ intent = "halt" =>
        /\ b.pending = None
        /\ HasInflight(b) => b.cancelRequested

\* After shutdown began no goal is sent, and a goal that is accepted late is
\* asked to cancel (shutdown, _pump, _goal_response_callback).
NoGoalAfterShutdown ==
    [][b.shutting /\ b'.shutting =>
          /\ b'.send = None \/ b'.send = b.send
          /\ b.active = None /\ b'.active # None => b'.attempts > 0]_vars

\* A request that waits is sent, replaced by a newer one or withdrawn by a
\* command or by shutdown: lost cancellations, failed requests and rejections
\* never block it for ever (_pump on the timer, the retries).
PendingIsServed == b.pending # None ~> b.pending = None \/ b.shutting

-----------------------------------------------------------------------------
(* What the documents and comments of the repository say.  The code does    *)
(* something else.                                                          *)

\* "`stop` cancels and pauses without consuming": after a stop the waypoint
\* queue stays stopped, nothing is sent until the operator says so.
StopHolds ==
    intent = "halt" => b.pending = None /\ (HasInflight(b) => b.cancelRequested)
=============================================================================
