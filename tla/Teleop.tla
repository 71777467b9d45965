-------------------------------- MODULE Teleop --------------------------------
(***************************************************************************)
(* The teleop node (runner_teleop/teleop_node.py): the controller's joy    *)
(* messages and the bridge's keyboard states, the age of each, and the     *)
(* command published for the one that has priority, 20 times a second and  *)
(* at once when the keyboard brakes.                                       *)
(*                                                                         *)
(* A trigger is pressed or not, a manual command is its sign, a setpoint a *)
(* number of steps; steering follows the throttle and is left out.  The    *)
(* previous motion is always the requested one and is not kept twice.      *)
(***************************************************************************)
EXTENDS Integers, Sequences

CONSTANTS
    ControllerTimeout,  \* controller_timeout
    KeyboardTimeout,    \* keyboard_state_timeout
    MinSetpoint, MaxSetpoint, InitialSetpoint  \* fixed_throttle_*_setpoint

\* What the node starts with; the step of the setpoint is one.
ValidTimeouts == {ControllerTimeout, KeyboardTimeout} \subseteq Nat \ {0}

ValidFixedThrottle(initial, minimum, maximum) ==
    {initial, minimum, maximum} \subseteq Nat /\ initial \in minimum..maximum

ASSUME TeleopAssumption ==
    ValidTimeouts /\ ValidFixedThrottle(InitialSetpoint, MinSetpoint, MaxSetpoint)

VARIABLES
    controller,  \* buttons, triggers, age and liveness of the controller
    setpoint,    \* _fixed_throttle_setpoint
    keyboard,    \* the last keyboard state, its age and its two latches
    output,      \* what this step published, or nothing
    \* history, read by properties only
    spent,       \* motion was taken from the keyboard and the key not released since
    released,    \* a keyboard state without autonomy since a button was last held
    overlapped,  \* X was held with R1, and no message since was without R1
    quiet        \* and since then a controller message was older than the timeout

history == <<spent, released, overlapped, quiet>>

teleopVars == <<controller, setpoint, keyboard, output, history>>

Buttons == {"X", "R1", "L1"}

\* An axes array too short for the triggers, or what the triggers say.
Axes == {"short", "none", "throttle", "reverse", "both"}

Modes == {{}, {"brake"}, {"suppress"}}

\* What the bridge publishes: motion only in a live drive state.
KeyboardStates ==
    { m \in [valid : BOOLEAN, mode : Modes, throttle : -1..1] :
        /\ m.throttle # 0 => m.valid /\ m.mode = {}
        /\ m.mode = {} => m.valid }

Brakes(m)     == "brake" \in m.mode
Suppresses(m) == "suppress" \in m.mode
Moves(m)      == m.throttle # 0 /\ ~Brakes(m)

Held(c, button) == button \in c.buttons

-------------------------------------------------------------------------------
(* Losing an input. *)

\* Mutant: a motion key keeps its authority.
DisarmNothing(k) == k

DisarmHeldMotion(k) ==
    IF k.requested THEN [k EXCEPT !.armed = FALSE, !.ready = FALSE] ELSE k

Invalidate(k) ==
    [k EXCEPT !.valid = FALSE, !.armed = FALSE, !.ready = FALSE, !.suppressArmed = FALSE]

ControllerLost(c) == c.live /\ c.age > ControllerTimeout

\* Mutant: a lost controller is noted but its buttons stay.
ExpiredLiveness(c) == IF ControllerLost(c) THEN [c EXCEPT !.live = FALSE] ELSE c

ExpiredController(c) ==
    IF ControllerLost(c)
      THEN [c EXCEPT !.live = FALSE, !.buttons = {}, !.inhibited = FALSE,
                     !.manual = 0, !.throttle = FALSE, !.reverse = FALSE]
      ELSE c

KeyboardLost(k) == k.valid /\ k.age > KeyboardTimeout

ExpiredKeyboard(c, k) ==
    LET held == IF ControllerLost(c) THEN DisarmHeldMotion(k) ELSE k
    IN IF KeyboardLost(held) THEN Invalidate(held) ELSE held

-------------------------------------------------------------------------------
(* publish_cmd *)

\* The command of fixed throttle: the reverse trigger wins.
FixedCommand(c) ==
    CASE c.reverse                -> -setpoint
      [] ~c.reverse /\ c.throttle -> setpoint
      [] OTHER                    -> 0

Says(mode, command) == [mode |-> mode, silent |-> FALSE, command |-> command]
Silence             == [mode |-> "teleop_suppress", silent |-> TRUE, command |-> 0]

FromKeyboard(k, idle) ==
    CASE k.valid /\ Brakes(k)             -> Says("keyboard_brake", 0)
      [] ~(k.valid /\ Brakes(k)) /\ k.suppress /\ k.suppressArmed -> Silence
      [] OTHER ->
           IF ~k.valid THEN Says(idle, 0)
           ELSE IF k.requested /\ k.armed THEN Says("keyboard_motion", k.throttle)
           ELSE Says(IF k.requested \/ k.suppress THEN "keyboard_disarmed" ELSE "brake", 0)

\* The keyboard has its turn when no button is held, and under an inhibited R1.
Output(c, k) ==
    IF Held(c, "X") THEN Says("manual", c.manual)
    ELSE IF Held(c, "R1") /\ ~c.inhibited THEN Says("fixed_throttle", FixedCommand(c))
    ELSE IF Held(c, "L1") /\ ~Held(c, "R1") THEN Silence
    ELSE FromKeyboard(k, IF Held(c, "R1") THEN "fixed_throttle_inhibited" ELSE "brake")

\* publish_cmd, called with the inputs as this step has left them.
PublishCmd(c, k) ==
    /\ controller' = ExpiredController(c)
    /\ keyboard' = ExpiredKeyboard(c, k)
    /\ output' = <<Output(ExpiredController(c), ExpiredKeyboard(c, k))>>
    /\ UNCHANGED <<overlapped, quiet>>

-------------------------------------------------------------------------------
(* The callbacks. *)

\* Mutant: the setpoint has no maximum.
ClampedBelow(value) == IF value < MinSetpoint THEN MinSetpoint ELSE value

Clamped(value) ==
    CASE value < MinSetpoint -> MinSetpoint
      [] value > MaxSetpoint -> MaxSetpoint
      [] OTHER               -> value

\* _update_dpad: one step for each press of the pad.
Dpad(direction) ==
    /\ setpoint' = IF controller.dpad THEN setpoint ELSE Clamped(setpoint + direction)

\* Mutant: the inhibition ends with X.
InhibitedByX(c, buttons) == {"R1", "X"} \subseteq buttons

\* fixed_throttle_inhibited_until_r1_release
Inhibited(c, buttons) == "R1" \in buttons /\ (c.inhibited \/ "X" \in buttons)

\* A joy message.  A held button disarms the keyboard before anything else; an
\* axes array that is too short stops manual motion and reverse.
OnJoy(buttons, axes, direction) ==
    LET seen == [controller EXCEPT
                   !.buttons = buttons, !.live = TRUE, !.age = 0, !.dpad = direction # 0,
                   !.inhibited = Inhibited(controller, buttons),
                   !.throttle = IF axes = "short" THEN @ ELSE axes \in {"throttle", "both"},
                   !.reverse = axes \in {"reverse", "both"},
                   !.manual = CASE axes \in {"reverse", "both"} -> -1
                                [] axes = "throttle"            -> 1
                                [] OTHER                        -> 0]
    IN /\ controller' = seen
       /\ Dpad(direction)
       /\ keyboard' = IF buttons = {} THEN keyboard
                      ELSE [DisarmHeldMotion(keyboard) EXCEPT
                              !.suppressArmed = FALSE, !.rearmReady = FALSE]
       /\ output' = <<>>
       /\ spent' = (spent \/ (buttons # {} /\ keyboard.requested))
       /\ released' = (released /\ buttons = {})
       /\ overlapped' = ("R1" \in buttons /\ (overlapped \/ "X" \in buttons))
       /\ quiet' = (overlapped' /\ quiet /\ "X" \notin buttons)

\* Mutant: every autonomy state arms.
SuppressedAlways(k, m) ==
    [k EXCEPT !.suppressArmed = Suppresses(m) /\ ~Brakes(m), !.rearmReady = ~Suppresses(m)]

\* The autonomy latch: armed once for each time the request was released.
Suppressed(k, m) ==
    CASE Brakes(m)          -> [k EXCEPT !.suppressArmed = FALSE, !.rearmReady = TRUE]
      [] ~Brakes(m) /\ ~Suppresses(m) -> [k EXCEPT !.rearmReady = TRUE]
      [] OTHER              -> [k EXCEPT !.suppressArmed = @ \/ k.rearmReady, !.rearmReady = FALSE]

\* The motion latch: armed by motion that follows a neutral state.
Moved(k, m) ==
    [k EXCEPT !.ready = ~Moves(m) \/ (@ /\ k.requested),
              !.armed = Moves(m) /\ (@ \/ (~k.requested /\ k.ready)),
              !.valid = TRUE, !.mode = m.mode, !.throttle = m.throttle,
              !.requested = Moves(m), !.suppress = Suppresses(m)]

OnKeyboard(m) ==
    LET heard == Suppressed([keyboard EXCEPT !.age = 0], m)
    IN /\ CASE ~m.valid /\ ~Suppresses(m) -> PublishCmd(controller, Invalidate(heard))
            [] ~m.valid /\ Suppresses(m)  ->
                 /\ keyboard' = [heard EXCEPT !.valid = FALSE, !.suppress = TRUE]
                 /\ output' = <<>> /\ UNCHANGED <<controller, overlapped, quiet>>
            [] m.valid /\ Brakes(m)       -> PublishCmd(controller, Moved(heard, m))
            [] OTHER                      ->
                 /\ keyboard' = Moved(heard, m)
                 /\ output' = <<>> /\ UNCHANGED <<controller, overlapped, quiet>>
       /\ spent' = IF m.valid THEN spent /\ Moves(m)
                               ELSE spent \/ (keyboard.requested /\ ~Suppresses(m))
       /\ released' = (released \/ ~Suppresses(m))
       /\ UNCHANGED setpoint

\* A keyboard state whose fields are out of range.
OnBadKeyboard ==
    /\ keyboard' = Invalidate([keyboard EXCEPT !.age = 0])
    /\ output' = <<>>
    /\ spent' = (spent \/ keyboard.requested)
    /\ UNCHANGED <<controller, setpoint, released, overlapped, quiet>>

\* The publication timer.
Timer ==
    /\ PublishCmd(controller, keyboard)
    /\ spent' = (spent \/ (keyboard.requested /\ (ControllerLost(controller) \/ KeyboardLost(keyboard))))
    /\ UNCHANGED <<setpoint, released>>

TeleopTick ==
    /\ controller' = [controller EXCEPT !.age = IF @ <= ControllerTimeout THEN @ + 1 ELSE @]
    /\ keyboard' = [keyboard EXCEPT !.age = IF @ <= KeyboardTimeout THEN @ + 1 ELSE @]
    /\ output' = <<>>
    /\ quiet' = (quiet \/ (overlapped /\ controller'.age > ControllerTimeout))
    /\ UNCHANGED <<setpoint, spent, released, overlapped>>

TeleopInit ==
    /\ controller = [ buttons |-> {}, inhibited |-> FALSE, throttle |-> FALSE,
                      reverse |-> FALSE, manual |-> 0, dpad |-> FALSE, live |-> FALSE,
                      age |-> 0 ]
    /\ setpoint = InitialSetpoint
    /\ keyboard = [ valid |-> FALSE, mode |-> {}, throttle |-> 0, requested |-> FALSE,
                    ready |-> FALSE, armed |-> FALSE, suppress |-> FALSE,
                    suppressArmed |-> FALSE, rearmReady |-> TRUE, age |-> 0 ]
    /\ output = <<>>
    /\ spent = FALSE /\ released = TRUE /\ overlapped = FALSE /\ quiet = FALSE

TeleopNext ==
    \/ \E buttons \in SUBSET Buttons, axes \in Axes, direction \in -1..1 :
          OnJoy(buttons, axes, direction)
    \/ \E m \in KeyboardStates : OnKeyboard(m)
    \/ OnBadKeyboard
    \/ Timer
    \/ TeleopTick

TeleopSpec == TeleopInit /\ [][TeleopNext]_teleopVars

-------------------------------------------------------------------------------
(* The properties. *)

\* The inputs, the latches and the output have their shape.
TeleopTypeOK ==
    /\ controller \in [ buttons : SUBSET Buttons, inhibited : BOOLEAN, throttle : BOOLEAN,
                         reverse : BOOLEAN, manual : -1..1, dpad : BOOLEAN,
                         live : BOOLEAN, age : 0..(ControllerTimeout + 1) ]
    /\ setpoint \in MinSetpoint..MaxSetpoint
    /\ keyboard \in [ valid : BOOLEAN, mode : Modes, throttle : -1..1, requested : BOOLEAN,
                       ready : BOOLEAN, armed : BOOLEAN, suppress : BOOLEAN,
                       suppressArmed : BOOLEAN, rearmReady : BOOLEAN,
                       age : 0..(KeyboardTimeout + 1) ]
    /\ history \in BOOLEAN \X BOOLEAN \X BOOLEAN \X BOOLEAN

\* What this step published satisfies P.
Published(P(_)) == \A i \in DOMAIN output : P(output[i])

\* A motion key that lost its authority to a button, a lost controller, a late
\* or an invalid keyboard state does not move the car until it is released
\* (_keyboard_motion_ready).
NoResumeWithoutRelease ==
    Published(LAMBDA o : o.mode = "keyboard_motion" => ~spent)

\* After a button was held the keyboard does not let autonomy through before it
\* withdrew its request (_keyboard_suppress_rearm_ready).
NoSilenceWithoutRelease ==
    Published(LAMBDA o : o.silent /\ ~Held(controller, "L1") => released)

\* The input behind a command that moves the car is no older than its timeout
\* (_expire_inputs before every publication).
CommandIsFresh ==
    Published(LAMBDA o : o.command # 0 =>
        IF o.mode = "keyboard_motion" THEN keyboard.age <= KeyboardTimeout
                                      ELSE controller.age <= ControllerTimeout)

\* The invariant of the node: its shape, and no motion on an old input.
Inv == TeleopTypeOK /\ CommandIsFresh

\* Neither motion nor silence outlives the act that asked for it.
NothingWithoutRelease == NoResumeWithoutRelease /\ NoSilenceWithoutRelease

\* X held with R1 ends fixed throttle until R1 is released, whatever the keyboard,
\* the timer and the other buttons do meanwhile.  Without a release it comes back
\* only behind a silence longer than the timeout, for the timeout forgets the
\* inhibition with the buttons and the next message brings back R1 alone
\* (fixed_throttle_inhibited_until_r1_release, _expire_inputs).
InhibitedUntilRelease ==
    Published(LAMBDA o : o.mode = "fixed_throttle" => ~overlapped \/ quiet)
===============================================================================
