----------------------------- MODULE DriveAdapter -----------------------------
(***************************************************************************)
(* The drive adapter (runner_drive_adapter): the speed command of Nav2     *)
(* turned into motor effort by feedforward, a proportional and a bounded   *)
(* integral term, 20 times a second.                                       *)
(*                                                                         *)
(* Times are kept as ages in publication periods.  Speeds, gains and       *)
(* efforts are integers; a value that is not finite is NotFinite.          *)
(* Steering follows the command without state and is left out, and so are  *)
(* the reports.                                                            *)
(***************************************************************************)
EXTENDS Integers

CONSTANTS
    NotFinite,           \* a NaN or an infinity in a message
    None,                \* not received yet
    MinSpeed, MaxSpeed,  \* minimum_moving_speed, maximum_commanded_speed
    EffortPerSpeed, EffortIntercept,
    OutputMax,           \* output_max
    IntegratorBound,     \* integrator_bound
    NavTimeout,          \* cmd_vel_nav_timeout
    EncoderTimeout,      \* encoder_state_timeout_sec
    MotionTimeout,       \* motion_signal_timeout_sec
    Recent,              \* three periods: what integration takes for current
    MaxDt,               \* MAX_INTEGRATION_DT_SEC
    SlipRatio, SlipExcess, SlipQualification,  \* wheelspin_*
    MaxGain              \* bound: the gains written

\* AdapterConfig.__post_init__ rejects everything else.
ValidConfig ==
    /\ {MinSpeed, MaxSpeed, EffortPerSpeed, IntegratorBound, OutputMax} \subseteq Nat \ {0}
    /\ {NavTimeout, EncoderTimeout, MotionTimeout, MaxDt, SlipQualification, MaxGain} \subseteq Nat \ {0}
    /\ {SlipExcess, Recent} \subseteq Nat /\ SlipRatio \in Nat \ {0, 1}
    /\ EffortIntercept \in Int
    /\ MinSpeed <= MaxSpeed
    /\ EffortPerSpeed * MinSpeed + EffortIntercept >= 0
    /\ EffortPerSpeed * MaxSpeed + EffortIntercept <= OutputMax

ASSUME AdapterAssumption ==
    ValidConfig /\ {NotFinite, None} \cap Int = {} /\ NotFinite # None

VARIABLES
    command,                \* /cmd_vel_nav: speed and age
    encoder,                \* the last sample: edge rate as a speed, direction, age
    sampled, previous,      \* age of its stamp, of the stamp used last
    motion,                 \* EKF speed and age
    slipAge,                \* how long the wheel has been spinning, or None
    offered, selected,      \* own output and the mux's, with their ages
    integrator,
    kp, ki                  \* the gains that may be set live

inputs      == <<command, encoder, sampled, motion, selected>>
control     == <<slipAge, previous, integrator>>
adapterVars == <<inputs, control, offered, kp, ki>>

Smaller(x, y)  == IF x < y THEN x ELSE y
Larger(x, y)   == IF x > y THEN x ELSE y
Magnitude(x)   == IF x < 0 THEN -x ELSE x
Within(x, low, high) == Larger(low, Smaller(high, x))

\* A stamp this old is too old for any step that hears its sample.
StampCap == 2 + Recent + MaxDt

\* Bound: an age grows no further than one past the timeout it is compared with.
Older(age, timeout) == IF age <= timeout THEN age + 1 ELSE age

Stale(timeout) == timeout + 1

-------------------------------------------------------------------------------
(* The inputs. *)

\* update_command, update_motion, update_encoder, update_mux_output
OnCommand(speed) ==
    /\ command' = [speed |-> speed, age |-> 0]
    /\ UNCHANGED <<encoder, sampled, motion, selected, control, offered, kp, ki>>

OnMotion(speed) ==
    /\ motion' = [speed |-> speed, age |-> 0]
    /\ UNCHANGED <<command, encoder, sampled, selected, control, offered, kp, ki>>

\* A sample is heard in the period it is stamped in.
OnEncoder(speed, direction) ==
    /\ encoder' = [speed |-> speed, direction |-> direction, age |-> 0]
    /\ sampled' = 0
    /\ UNCHANGED <<command, motion, selected, control, offered, kp, ki>>

OnMuxOutput(effort) ==
    /\ selected' = [effort |-> effort, age |-> 0]
    /\ UNCHANGED <<command, encoder, sampled, motion, control, offered, kp, ki>>

\* Mutant: a new Ki keeps the stamp of the last sample.
SetIntegralGainMidway(value) ==
    /\ ki' = value /\ integrator' = 0
    /\ UNCHANGED <<inputs, slipAge, previous, offered, kp>>

\* set_controller_gains: Ki starts the integrator over, Kp does not; an update
\* that AdapterConfig rejects (Kp zero, Ki negative) changes neither.
SetIntegralGain(value) ==
    /\ value >= 0
    /\ ki' = value /\ integrator' = 0 /\ previous' = None
    /\ UNCHANGED <<inputs, slipAge, offered, kp>>

SetProportionalGain(value) ==
    /\ value > 0
    /\ kp' = value
    /\ UNCHANGED <<inputs, control, offered, ki>>

\* A period passes.  A message too old for every reader is as good as none, and
\* is forgotten to keep the state small.
AdapterTick ==
    LET aged(m, timeout) ==
          IF m = None \/ m.age > timeout THEN None ELSE [m EXCEPT !.age = @ + 1]
        later(age) == IF age = None THEN None ELSE Older(age, StampCap)
    IN  /\ command' = aged(command, NavTimeout)
        /\ encoder' = aged(encoder, Larger(EncoderTimeout, Recent))
        /\ motion' = aged(motion, MotionTimeout)
        /\ offered' = aged(offered, Recent) /\ selected' = aged(selected, Recent)
        /\ sampled' = later(sampled) /\ previous' = later(previous)
        /\ slipAge' = IF slipAge = None THEN None ELSE Smaller(slipAge + 1, SlipQualification)
        /\ UNCHANGED <<integrator, kp, ki>>

-------------------------------------------------------------------------------
(* The step. *)

\* Mutant: the last command counts for as long as it is kept.
HeardEver == command # None

Commanded == command # None /\ command.age <= NavTimeout

Silent == ~Commanded
Brakes == Commanded /\ command.speed \in {NotFinite, 0}
Drives == Commanded /\ command.speed \notin {NotFinite, 0}

CommandSign == IF command.speed > 0 THEN 1 ELSE -1

\* Slower commands are promoted, faster ones clamped; the sign stays.
EffectiveSpeed == Within(Magnitude(command.speed), MinSpeed, MaxSpeed)

Feedforward == EffortPerSpeed * EffectiveSpeed + EffortIntercept

EncoderHeard(timeout) ==
    encoder # None /\ encoder.speed # NotFinite /\ encoder.age <= timeout

MotionHeard == motion # None /\ motion.speed # NotFinite /\ motion.age <= MotionTimeout

Measured   == IF encoder = None \/ encoder.speed = NotFinite THEN 0 ELSE Magnitude(encoder.speed)
SpeedError == EffectiveSpeed - Measured

Proportional == IF EncoderHeard(EncoderTimeout) THEN kp * SpeedError ELSE 0

\* _wheelspin_guard
SlipSeen ==
    /\ EncoderHeard(EncoderTimeout) /\ MotionHeard
    /\ Measured > SlipRatio * Magnitude(motion.speed)
    /\ Measured - Magnitude(motion.speed) > SlipExcess

SlipAge == IF ~SlipSeen THEN None ELSE IF slipAge = None THEN 0 ELSE slipAge

\* Mutant: the evidence must last longer than it is measured.
SpinsLater == SlipSeen /\ slipAge # None /\ slipAge > SlipQualification

Spins == SlipSeen /\ slipAge # None /\ slipAge >= SlipQualification

\* _integration_dt: the time between the samples of this step and the last one
\* that drove, if it is positive and not too long.
Dt == IF sampled = None \/ previous = None THEN 0 ELSE previous - sampled
DtValid == Dt \in 1..MaxDt

\* _arbitration_is_available, _adapter_output_is_selected
ArbitrationKnown ==
    /\ offered # None /\ selected # None
    /\ offered.age <= Recent /\ selected.age <= Recent

\* Mutant: that the mux has spoken is enough.
AnySelected == selected.age <= Recent

OutputSelected == offered.effort = selected.effort

Saturation(output) ==
    CASE output > OutputMax -> 1 [] output < 0 -> -1 [] OTHER -> 0

Candidate == Within(integrator + ki * SpeedError * Dt, -IntegratorBound, IntegratorBound)

\* The candidate would push a saturated output farther.
WindsUp ==
    LET saturation == Saturation(Feedforward + Proportional + Candidate)
    IN  saturation * SpeedError > 0

\* _integrator_freeze_reason and the two reasons step adds.
FreezeReason ==
    IF ~EncoderHeard(Recent)                 THEN "feedback_stale"
    ELSE IF Spins                            THEN "wheelspin"
    ELSE IF encoder.direction = 0            THEN "direction_unavailable"
    ELSE IF encoder.direction # CommandSign  THEN "direction_mismatch"
    ELSE IF ~ArbitrationKnown                THEN "arbitration_unavailable"
    ELSE IF ~OutputSelected                  THEN "output_not_selected"
    ELSE IF ~DtValid                         THEN "invalid_dt"
    ELSE IF WindsUp                          THEN "anti_windup"
    ELSE "none"

Integrated == IF FreezeReason = "none" THEN Candidate ELSE integrator

\* Mutant: the effort may turn against the command.
UnclampedEffort == CommandSign * Smaller(Feedforward + Proportional + Integrated, OutputMax)

\* Mutant: only the lower end is clamped.
UnlimitedEffort == CommandSign * Larger(Feedforward + Proportional + Integrated, 0)

\* The magnitude is clamped, then takes the sign of the command.
Effort == CommandSign * Within(Feedforward + Proportional + Integrated, 0, OutputMax)

\* What _publish hands to the mux and remembers.
Offer(effort) == offered' = [effort |-> effort, age |-> 0]

StepSilent ==
    /\ Silent
    /\ slipAge' = None
    /\ UNCHANGED <<inputs, previous, integrator, offered, kp, ki>>

StepBrake ==
    /\ Brakes
    /\ slipAge' = None
    /\ Offer(0)
    /\ UNCHANGED <<inputs, previous, integrator, kp, ki>>

StepDrive ==
    /\ Drives
    /\ slipAge' = SlipAge
    /\ previous' = sampled
    /\ integrator' = Integrated
    /\ Offer(Effort)
    /\ UNCHANGED <<inputs, kp, ki>>

AdapterInit ==
    /\ command = None
    /\ encoder = None /\ sampled = None /\ previous = None
    /\ motion = None /\ slipAge = None
    /\ offered = None /\ selected = None
    /\ integrator = 0
    /\ kp = 1 /\ ki = MaxGain
===============================================================================
