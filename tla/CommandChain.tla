----------------------------- MODULE CommandChain -----------------------------
(***************************************************************************)
(* From Nav2 and the operator to the motor: the drive adapter, twist_mux,  *)
(* and what the motor driver keeps of /cmd_vel.                            *)
(*                                                                         *)
(* twist_mux forwards a message at once unless an input of higher priority *)
(* was heard within its timeout.  The adapter hears the forwarded messages *)
(* over its own subscription, in order but later.  A tick is a publication *)
(* period: the adapter's step and the motor's watchdog run once in each.   *)
(***************************************************************************)
EXTENDS DriveAdapter, Sequences

CONSTANTS
    TeleopTimeout,   \* the mux's timeout of /cmd_vel_teleop
    MotorTimeout,    \* CMD_TIMEOUT_S
    NavSpeeds, WheelSpeeds, GroundSpeeds,  \* what the inputs say
    OperatorEffort,  \* what the operator commands while he does
    Directions       \* pending directions, 0 for none yet

ASSUME ChainAssumption ==
    /\ {TeleopTimeout, MotorTimeout} \subseteq Nat
    /\ NavSpeeds \cup WheelSpeeds \cup GroundSpeeds \subseteq Int \cup {NotFinite}
    /\ OperatorEffort \in Int /\ Directions \subseteq -1..1

VARIABLES
    alive,        \* the adapter process runs
    teleopAge,    \* the mux: age of the operator's last message
    echo,         \* forwarded messages the adapter has not heard
    effort, effortAge,  \* the motor: command and its age
    stepped,      \* the adapter's timer has fired in this period
    \* history, read by properties only
    origin,       \* who commanded the effort, the direction and the age of the
                  \* command behind it
    ownAge,       \* how long ago the mux forwarded a message of the adapter
    slipFor,      \* how long every step has driven on a spinning wheel
    stepsOnKi     \* driving steps since Ki was written, at most 2

muxVars   == <<teleopAge, echo, effort, effortAge>>
history   == <<origin, ownAge, slipFor, stepsOnKi>>
vars      == <<adapterVars, alive, muxVars, stepped, history>>

OriginCap == NavTimeout + MotorTimeout + 1

-------------------------------------------------------------------------------
(* twist_mux and the motor driver. *)

NoOrigin == [who |-> "none", sign |-> 1, age |-> 0]

\* on_cmd
Forward(value, who, sign, age) ==
    /\ effort' = value /\ effortAge' = 0
    /\ origin' = IF value = 0 THEN NoOrigin ELSE [who |-> who, sign |-> sign, age |-> age]
    /\ echo' = Append(echo, value)

\* The mux drops what the adapter says while the operator's last message counts.
Mux(value) ==
    IF teleopAge <= TeleopTimeout
      THEN UNCHANGED <<effort, effortAge, origin, echo, ownAge>>
      ELSE Forward(value, "nav", CommandSign, command.age) /\ ownAge' = 0

Operator ==
    /\ teleopAge # 0
    /\ teleopAge' = 0
    /\ Forward(OperatorEffort, "operator", 1, 0)
    /\ UNCHANGED <<adapterVars, alive, stepped, ownAge, slipFor, stepsOnKi>>

\* _watchdog
Starving == effort # 0 /\ effortAge > MotorTimeout

Watchdog ==
    /\ Starving
    /\ effort' = 0
    /\ origin' = NoOrigin
    /\ UNCHANGED <<adapterVars, alive, teleopAge, echo, effortAge, stepped,
                   ownAge, slipFor, stepsOnKi>>

-------------------------------------------------------------------------------
(* The adapter in the chain. *)

\* What arrives after the step waits for the next, as if it came a little later.
Hears(input) ==
    /\ alive /\ ~stepped
    /\ input
    /\ UNCHANGED <<alive, muxVars, stepped, history>>

Echo ==
    /\ echo # <<>>
    /\ echo' = Tail(echo)
    /\ IF alive THEN OnMuxOutput(Head(echo)) ELSE UNCHANGED adapterVars
    /\ UNCHANGED <<alive, teleopAge, effort, effortAge, stepped, history>>

\* A change of Ki at run time, a change of Kp.
WriteGain ==
    /\ alive
    /\ \/ /\ \E value \in 0..MaxGain : SetIntegralGain(value)
          /\ stepsOnKi' = 0 /\ UNCHANGED <<origin, ownAge, slipFor>>
       \/ (\E value \in 1..MaxGain : SetProportionalGain(value)) /\ UNCHANGED history
    /\ UNCHANGED <<alive, muxVars, stepped>>

StepIsDue == alive /\ ~stepped /\ stepped' = TRUE

SilentStep ==
    /\ StepIsDue /\ StepSilent
    /\ slipFor' = 0
    /\ UNCHANGED <<alive, muxVars, origin, ownAge, stepsOnKi>>

BrakeStep ==
    /\ StepIsDue /\ StepBrake
    /\ Mux(0)
    /\ slipFor' = 0
    /\ UNCHANGED <<alive, teleopAge, stepsOnKi>>

DriveStep ==
    /\ StepIsDue /\ StepDrive
    /\ Mux(Effort)
    /\ slipFor' = IF ~SlipSeen THEN 0 ELSE Smaller(slipFor + 1, SlipQualification + 1)
    /\ stepsOnKi' = Smaller(stepsOnKi + 1, 2)
    /\ UNCHANGED <<alive, teleopAge>>

Nothing ==
    /\ command' = None
    /\ encoder' = None /\ sampled' = None /\ previous' = None
    /\ motion' = None /\ slipAge' = None
    /\ offered' = None /\ selected' = None
    /\ integrator' = 0 /\ kp' = 1 /\ ki' = MaxGain

\* The process ends, by record_shutdown or a crash, with all it knew; a new one
\* may be launched at any time.
AdapterEnds ==
    /\ alive /\ alive' = FALSE
    /\ Nothing
    /\ slipFor' = 0 /\ stepsOnKi' = 0
    /\ UNCHANGED <<muxVars, stepped, origin, ownAge>>

AdapterStarts ==
    /\ ~alive /\ alive' = TRUE
    /\ UNCHANGED <<adapterVars, muxVars, stepped, history>>

\* A period ends: timers run in time, forwarded messages take less than one.
Tick ==
    /\ echo = <<>> /\ ~Starving /\ (alive => stepped)
    /\ stepped' = FALSE
    /\ AdapterTick
    /\ teleopAge' = Older(teleopAge, TeleopTimeout) /\ effortAge' = Older(effortAge, MotorTimeout)
    /\ origin' = [origin EXCEPT !.age = IF effort = 0 THEN 0 ELSE Older(@, OriginCap)]
    /\ ownAge' = Older(ownAge, Recent + 1)
    /\ UNCHANGED <<alive, echo, effort, slipFor, stepsOnKi>>

Init ==
    /\ AdapterInit
    /\ alive = TRUE
    /\ teleopAge = Stale(TeleopTimeout) /\ echo = <<>>
    /\ effort = 0 /\ effortAge = 0
    /\ stepped = FALSE
    /\ origin = NoOrigin /\ ownAge = Stale(Recent + 1)
    /\ slipFor = 0 /\ stepsOnKi = 0

Next ==
    \/ \E speed \in NavSpeeds : Hears(OnCommand(speed))
    \/ \E speed \in GroundSpeeds : Hears(OnMotion(speed))
    \/ \E speed \in WheelSpeeds, direction \in Directions : Hears(OnEncoder(speed, direction))
    \/ Echo
    \/ Operator \/ Watchdog
    \/ WriteGain
    \/ SilentStep \/ BrakeStep \/ DriveStep
    \/ AdapterEnds \/ AdapterStarts
    \/ Tick

Spec == Init /\ [][Next]_vars

-------------------------------------------------------------------------------
(* The properties. *)

Age(timeout) == 0..Stale(timeout)

\* Every variable has its shape; the integrator never leaves its bound.
TypeOK ==
    /\ command \in [speed : NavSpeeds, age : Age(NavTimeout)] \cup {None}
    /\ encoder \in [speed : WheelSpeeds, direction : Directions, age : Age(Larger(EncoderTimeout, Recent))] \cup {None}
    /\ motion \in [speed : GroundSpeeds, age : Age(MotionTimeout)] \cup {None}
    /\ {sampled, previous} \subseteq Age(StampCap) \cup {None}
    /\ slipAge \in 0..SlipQualification \cup {None}
    /\ integrator \in -IntegratorBound..IntegratorBound
    /\ kp \in 1..MaxGain /\ ki \in 0..MaxGain
    /\ teleopAge \in Age(TeleopTimeout) /\ effortAge \in Age(MotorTimeout)
    /\ effort \in (-OutputMax..OutputMax) \cup {OperatorEffort}

\* The motor drives on nothing older than the timeouts on the way allow: what
\* Nav2 said is repeated until cmd_vel_nav_timeout, the last repetition holds
\* until the watchdog of the motor (step, _watchdog).
EffortIsRecent ==
    effort # 0 => origin.age <= MotorTimeout + 1 + (IF origin.who = "nav" THEN NavTimeout ELSE 0)

\* What autonomy drives the motor on has the direction of the command it comes
\* from, whatever the feedback and the integrator said to the step (step).
EffortKeepsSign ==
    effort # 0 /\ origin.who = "nav" => effort * origin.sign > 0

\* After a write of Ki two samples must have been used before anything is
\* integrated again (set_controller_gains).
KiStartsOver == stepsOnKi < 2 => integrator = 0

\* The invariant of the chain: its shape, no effort on an old command or against
\* it, nothing kept of an integrator whose gain was written.
Inv == TypeOK /\ EffortIsRecent /\ EffortKeepsSign /\ KiStartsOver

\* The adapter learns only from its own driving: the integrator moves only if the
\* mux has forwarded the adapter a moment ago, or the operator says the very same,
\* and not once the wheel has spun for the qualification time at every step
\* (_adapter_output_is_selected, _wheelspin_guard).
LearnsOnlyItsOwn ==
    [][DriveStep /\ integrator' # integrator =>
          /\ ownAge <= Recent + 1 \/ offered.effort = OperatorEffort
          /\ ~(slipFor > SlipQualification /\ SlipSeen)]_vars
===============================================================================
