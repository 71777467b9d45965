----------------------------- MODULE CostmapControl -----------------------------
(***************************************************************************)
(* The costmap requests of the keyboard bridge                             *)
(* (runner_teleop/keyboard_bridge.py): the operator clears the obstacles   *)
(* of the global costmap or toggles its obstacle layer, the bridge reads   *)
(* the layer from time to time and publishes what it last confirmed.       *)
(*                                                                         *)
(* The bridge is a record c, its methods are operators from records to     *)
(* records.  One action runs, one may wait.  A call whose deadline passes  *)
(* is forgotten by the bridge but not by the server: it may still set the  *)
(* layer, and so may other clients.                                        *)
(***************************************************************************)
EXTENDS Naturals

CONSTANTS
    ServiceTimeout,   \* COSTMAP_SERVICE_TIMEOUT
    RefreshInterval,  \* COSTMAP_REFRESH_INTERVAL
    RetryInterval,    \* COSTMAP_REFRESH_RETRY_INTERVAL
    MaxCommands,      \* bound: commands of the operator
    MaxFaults,        \* bound: failed or late calls of a service that is up
    MaxOthers         \* bound: changes by other clients, and outages

ASSUME CostmapAssumption ==
    /\ {ServiceTimeout, RefreshInterval, RetryInterval} \subseteq Nat \ {0}
    /\ {MaxCommands, MaxFaults, MaxOthers} \subseteq Nat

VARIABLES
    c,         \* the bridge's _costmap_* attributes
    layer,     \* obstacle_layer.enabled at the server
    up,        \* the services are there
    late,      \* set calls the bridge has forgotten and the server has not done
    seen,      \* the values of the layer since the action began (history)
    commands, faults, others  \* how much of the bounds is used

costmapVars == <<c, layer, up, late, seen, commands, faults, others>>

Actions == {"clear", "toggle"}
Calls   == {"clear", "get", "set"}
Answers == {"cleared", "on", "off", "set", "error"}

Shown(enabled) == IF enabled THEN "on" ELSE "off"

-------------------------------------------------------------------------------
(* _request_costmap_action, _begin_costmap_action, _finish_costmap_action *)

\* Mutant: a toggle trusts the state that is shown.
BeginFromShown(s, action) ==
    LET known == action = "toggle" /\ s.state # "unknown"
    IN  [s EXCEPT !.action = action, !.future = "none", !.left = ServiceTimeout,
                  !.phase = IF known THEN "waiting_set" ELSE "waiting",
                  !.requested = IF known THEN s.state = "off" ELSE @]

Begin(s, action) ==
    [s EXCEPT !.action = action, !.phase = "waiting", !.future = "none",
              !.left = ServiceTimeout]

RequestAction(s, action) ==
    IF s.action = "none" THEN Begin(s, action)
    ELSE IF s.pending = "none" THEN [s EXCEPT !.pending = action]
    ELSE s

NextRefresh(s, success) ==
    IF s.action = "refresh" THEN IF success THEN RefreshInterval ELSE RetryInterval
    ELSE IF s.state = "unknown" THEN RetryInterval ELSE RefreshInterval

\* Mutant: the call of the finished action is not forgotten.
FinishKeepsCall(s, success) ==
    LET idle == [s EXCEPT !.action = "none", !.phase = "none",
                          !.left = 0, !.refresh = NextRefresh(s, success)]
    IN  IF s.pending = "none" THEN idle
        ELSE Begin([idle EXCEPT !.pending = "none"], s.pending)

Finish(s, success) ==
    LET idle == [s EXCEPT !.action = "none", !.phase = "none", !.future = "none",
                          !.left = 0, !.refresh = NextRefresh(s, success)]
    IN  IF s.pending = "none" THEN idle
        ELSE Begin([idle EXCEPT !.pending = "none"], s.pending)

-------------------------------------------------------------------------------
(* _pump_costmap_controls: the timer.  o says whether the service is ready  *)
(* and the call can be made.                                                *)

Call(s, call, o) ==
    CASE o = "ready"   -> [s EXCEPT !.phase = call, !.future = "asked"]
      [] o = "unready" -> s
      [] o = "raises"  -> Finish(s, FALSE)

\* Mutant: the layer is shown as requested, whatever the answer.
TakeOptimistic(s) ==
    CASE s.phase = "clear" -> Finish(s, s.future # "error")
      [] s.phase = "get"   ->
           IF s.future = "error" THEN Finish(s, FALSE)
           ELSE IF s.action = "refresh" THEN Finish([s EXCEPT !.state = s.future], TRUE)
           ELSE [s EXCEPT !.state = s.future, !.requested = (s.future = "off"),
                          !.phase = "waiting_set", !.future = "none"]
      [] s.phase = "set"   -> Finish([s EXCEPT !.state = Shown(s.requested)], s.future = "set")

\* The answer of the call.  A reading is shown; a toggle then asks for its
\* inverse, which is shown once it is confirmed.
Take(s) ==
    CASE s.phase = "clear" -> Finish(s, s.future # "error")
      [] s.phase = "get"   ->
           IF s.future = "error" THEN Finish(s, FALSE)
           ELSE IF s.action = "refresh" THEN Finish([s EXCEPT !.state = s.future], TRUE)
           ELSE [s EXCEPT !.state = s.future, !.requested = (s.future = "off"),
                          !.phase = "waiting_set", !.future = "none"]
      [] s.phase = "set"   ->
           IF s.future = "error" THEN Finish(s, FALSE)
           ELSE Finish([s EXCEPT !.state = Shown(s.requested)], TRUE)

\* Mutant: the deadline counts for calls only, not for a service to wait for.
AdvanceUnbounded(s, o) ==
    CASE s.phase = "waiting"     -> Call(s, IF s.action = "clear" THEN "clear" ELSE "get", o)
      [] s.phase = "waiting_set" -> Call(s, "set", o)
      [] s.phase \in Calls       -> IF s.left = 0 THEN Finish(s, FALSE)
                                    ELSE IF s.future = "asked" THEN s ELSE Take(s)

Advance(s, o) ==
    IF s.left = 0 THEN Finish(s, FALSE)
    ELSE CASE s.phase = "waiting"     -> Call(s, IF s.action = "clear" THEN "clear" ELSE "get", o)
           [] s.phase = "waiting_set" -> Call(s, "set", o)
           [] s.phase \in Calls       -> IF s.future = "asked" THEN s ELSE Take(s)

\* Mutant: a state that is known is not read again.
PumpWhileUnknown(s, o) ==
    IF s.action # "none" THEN Advance(s, o)
    ELSE IF s.refresh > 0 \/ s.state # "unknown" THEN s
    ELSE Advance(Begin(s, "refresh"), o)

PumpCostmapControls(s, o) ==
    IF s.action # "none" THEN Advance(s, o)
    ELSE IF s.refresh > 0 THEN s
    ELSE Advance(Begin(s, "refresh"), o)

-------------------------------------------------------------------------------

\* A call whose deadline passes is left to the server.
Forgets == c.phase = "set" /\ c.future = "asked" /\ c.left = 0

\* History: a new action begins in this step.
Begins == c.action # c'.action \/ (c.pending # "none" /\ c'.pending = "none")

Operator(action) ==
    /\ commands < MaxCommands
    /\ commands' = commands + 1
    /\ c' = RequestAction(c, action)
    /\ seen' = IF Begins THEN {layer} ELSE seen
    /\ UNCHANGED <<layer, up, late, faults, others>>

Pump(o) ==
    /\ (o = "unready") = ~up
    /\ o = "raises" => faults < MaxFaults
    /\ faults' = IF o = "raises" THEN faults + 1 ELSE faults
    /\ c' = PumpCostmapControls(c, o)
    /\ late' = IF Forgets THEN [late EXCEPT ![c.requested] = @ + 1] ELSE late
    /\ seen' = IF Begins THEN {layer} ELSE seen
    /\ UNCHANGED <<layer, up, commands, others>>

\* The deadline is far away: while the services are up, time that passes for a
\* running action is a fault.
CostmapTime ==
    LET slow == up /\ c.action # "none" IN
    /\ slow => faults < MaxFaults
    /\ faults' = IF slow THEN faults + 1 ELSE faults
    /\ c' = [c EXCEPT !.left    = IF @ > 0 THEN @ - 1 ELSE 0,
                      !.refresh = IF @ > 0 THEN @ - 1 ELSE 0]
    /\ UNCHANGED <<layer, up, late, seen, commands, others>>

-------------------------------------------------------------------------------
(* The costmap node and its other clients, external. *)

Layer(value) == layer' = value /\ seen' = seen \union {value}

ServerAnswers ==
    /\ c.future = "asked" /\ up
    /\ CASE c.phase = "clear" -> c' = [c EXCEPT !.future = "cleared"] /\ UNCHANGED <<layer, seen>>
         [] c.phase = "get"   -> c' = [c EXCEPT !.future = Shown(layer)] /\ UNCHANGED <<layer, seen>>
         [] c.phase = "set"   -> c' = [c EXCEPT !.future = "set"] /\ Layer(c.requested)
    /\ UNCHANGED <<up, late, commands, faults, others>>

\* A call fails or is refused; a failed set may have been done.
ServerFails ==
    /\ c.future = "asked" /\ faults < MaxFaults
    /\ faults' = faults + 1
    /\ c' = [c EXCEPT !.future = "error"]
    /\ \/ UNCHANGED <<layer, seen>>
       \/ c.phase = "set" /\ Layer(c.requested)
    /\ UNCHANGED <<up, late, commands, others>>

LateSet(value) ==
    /\ late[value] > 0
    /\ late' = [late EXCEPT ![value] = @ - 1]
    /\ Layer(value)
    /\ UNCHANGED <<c, up, commands, faults, others>>

OtherClient ==
    /\ others < MaxOthers
    /\ others' = others + 1
    /\ Layer(~layer)
    /\ UNCHANGED <<c, up, late, commands, faults>>

\* Nav2 goes down or comes up.
Outage ==
    /\ others < MaxOthers
    /\ others' = others + 1
    /\ up' = ~up
    /\ UNCHANGED <<c, layer, late, seen, commands, faults>>

-------------------------------------------------------------------------------

\* _next_obstacle_refresh is the start of the process: a refresh is due.
CostmapInit ==
    /\ c = [ action |-> "none", phase |-> "none", future |-> "none", left |-> 0,
             requested |-> FALSE, pending |-> "none", state |-> "unknown", refresh |-> 0 ]
    /\ layer \in BOOLEAN /\ up \in BOOLEAN
    /\ late = [value \in BOOLEAN |-> 0]
    /\ seen = {layer}
    /\ commands = 0 /\ faults = 0 /\ others = 0

CostmapNext ==
    \/ \E action \in Actions : Operator(action)
    \/ \E o \in {"ready", "unready", "raises"} : Pump(o)
    \/ CostmapTime
    \/ ServerAnswers \/ ServerFails
    \/ \E value \in BOOLEAN : LateSet(value)
    \/ OtherClient \/ Outage

CostmapSpec == CostmapInit /\ [][CostmapNext]_costmapVars

\* The timer runs, time passes, and a server that is up answers in the end.
FairCostmapSpec ==
    /\ CostmapSpec
    /\ WF_costmapVars(Pump("ready") \/ Pump("unready"))
    /\ WF_costmapVars(CostmapTime) /\ WF_costmapVars(ServerAnswers)
    /\ \A value \in BOOLEAN : WF_costmapVars(LateSet(value))

-------------------------------------------------------------------------------
(* The properties. *)

\* The action, its phase and its answer have their values, and fit together.
CostmapTypeOK ==
    /\ c \in [ action : {"none", "refresh"} \union Actions,
               phase : {"none", "waiting", "waiting_set"} \union Calls,
               future : {"none", "asked"} \union Answers, left : 0..ServiceTimeout,
               requested : BOOLEAN, pending : {"none"} \union Actions,
               state : {"unknown", "on", "off"}, refresh : Nat ]
    /\ layer \in BOOLEAN /\ up \in BOOLEAN /\ seen \subseteq BOOLEAN
    /\ late \in [BOOLEAN -> 0..(MaxFaults + MaxOthers)]
    /\ commands \in 0..MaxCommands /\ faults \in 0..MaxFaults /\ others \in 0..MaxOthers
    /\ (c.action = "none") = (c.phase = "none")
    /\ (c.future = "none") = (c.phase \notin Calls)
    /\ c.action = "none" => c.pending = "none"

\* Only what the running action has read or set counts: a value is shown only if
\* the layer had it while the action ran, and F11 asks for the inverse of such a
\* value, never of an earlier reading; no answer of a forgotten call and no request
\* that was not confirmed does either (_set_global_obstacles_state,
\* _costmap_requested).
OnlyThisActionCounts ==
    [][/\ c'.state # c.state => \E value \in seen : c'.state = Shown(value)
       /\ c'.phase = "set" /\ c.phase # "set" =>
             \E value \in seen : c'.requested = ~value]_costmapVars

\* The command that waits is served, also when the services never come up or the
\* call that runs is never answered (_costmap_deadline).
PendingStarts == c.pending # "none" ~> c.pending = "none"

\* Once nobody changes the layer and the services stay up, the published state
\* agrees with the layer for good: what a late or failed set has left is found
\* by the next refresh (_next_obstacle_refresh).
StateConverges == <>[]up => <>[](c.state = Shown(layer))
===============================================================================
