------------------------------ MODULE MotorNode ------------------------------
(***************************************************************************)
(* The motor hardware owner (runner_motor/motor_node.py): one process, one *)
(* single-threaded executor, that owns a kernel PWM channel (duty) and a   *)
(* GPIO line (DIR).  The kernel objects outlive the process: a crash       *)
(* leaves the PWM running, a restart finds it as it was left.              *)
(*                                                                         *)
(* A handler is a run of labels pc, one label per hardware access, because *)
(* a crash, an exception or a retry can fall between two of them.  No      *)
(* other handler runs in between: the executor is single threaded.         *)
(*                                                                         *)
(* Time is counted in ticks of 50 ms: the watchdog period and the sleep of *)
(* one I/O retry.                                                          *)
(***************************************************************************)
EXTENDS Integers, Sequences

CONSTANTS
    Period,        \* MOTOR_PERIOD_NS, in units of duty
    CmdUnit,       \* the integer that stands for linear.x = 1.0
    LinearX,       \* the finite values of linear.x that commands carry
    NonFinite,     \* stands for NaN and the infinities
    CmdTimeout,    \* CMD_TIMEOUT_S, in ticks
    IoAttempts,    \* PWM_IO_ATTEMPTS
    BootChannels,  \* states the PWM channel can be in at power on
    NoReversal,    \* _pending_reversal is None
    MaxInFlight,   \* bound: encoder samples in flight
    MaxFaults,     \* bound: exceptions and crashes in one behaviour
    AgeCap         \* bound: ticks after which ages are not told apart

DIR_FORWARD == 0
DIR_REVERSE == 1
Lines == {DIR_FORWARD, DIR_REVERSE}

Channels == [period : Nat, duty : Nat, enabled : BOOLEAN, normal : BOOLEAN]
Reversals == [dir : Lines, duty : Nat]

\* What the kernel keeps true of a PWM channel: no duty beyond the period, and
\* nothing enabled without a period.
ChannelOK(c) == c.duty <= c.period /\ (c.enabled => c.period > 0)

ASSUME MotorAssumption ==
    /\ Period \in Nat \ {0}
    /\ CmdUnit \in Nat \ {0}
    /\ LinearX \subseteq Int
    /\ NonFinite \notin LinearX
    /\ CmdTimeout \in Nat
    /\ IoAttempts \in Nat \ {0}
    /\ BootChannels \subseteq {c \in Channels : ChannelOK(c)}
    /\ NoReversal \notin Reversals
    /\ MaxInFlight \in Nat
    /\ MaxFaults \in Nat
    /\ AgeCap \in Nat

VARIABLES
    pc,         \* what the process is doing; "spin" when no handler runs
    arg,        \* the running handler's local integer (a duty, a period)
    pwm,        \* the kernel's PWM channel
    dirLine,    \* the level of the DIR line
    hwDir,      \* _hardware_direction
    latch,      \* _direction_latch
    pending,    \* _pending_reversal
    age,        \* ticks since _last_cmd
    timedOut,   \* _cmd_timed_out
    wdDue,      \* the watchdog timer has expired and has not been served
    tries,      \* failed attempts of the current I/O operation
    published,  \* the last /motor/direction message
    lastDir,    \* sign of the last command received (observation only)
    samples,    \* /wheel/encoder_state messages in flight
    faults      \* exceptions and crashes so far (bound)

hardware == <<pwm, dirLine>>
control == <<hwDir, latch, pending>>
clocks == <<age, timedOut, wdDue>>
vars == <<pc, arg, hardware, control, clocks, tries, published, lastDir,
          samples, faults>>

-----------------------------------------------------------------------------
(* Labels, by the handler they belong to. *)

InitLabels == {"i_read", "i_hot_zero", "i_hot_polarity", "i_first_period",
               "i_polarity", "i_shrink", "i_period", "i_duty", "i_servo",
               "i_dir", "i_enable", "i_verify"}
HandlerLabels == {"c_duty", "c_servo", "e_zero", "e_dir", "e_duty", "w_zero"}
StopLabels == {"s_duty", "s_servo"}
Labels == InitLabels \cup HandlerLabels \cup StopLabels \cup {"down", "spin"}

\* The accesses that go through SysfsPWM._retry_io; the GPIO calls do not.
PwmLabels == (InitLabels \cup HandlerLabels \cup StopLabels) \ {"i_dir", "e_dir"}

-----------------------------------------------------------------------------
(* map_motor_command *)

Magnitude(x) ==
    LET m == IF x < 0 THEN -x ELSE x IN IF m > CmdUnit THEN CmdUnit ELSE m

\* Direction and duty of a command.  The duty is truncated, so a small command
\* has a direction and a zero duty.
MapMotorCommand(x) ==
    IF x = NonFinite THEN [direction |-> 0, duty |-> 0]
    ELSE [direction |-> IF x > 0 THEN 1 ELSE IF x < 0 THEN -1 ELSE 0,
          duty |-> (Magnitude(x) * Period) \div CmdUnit]

LineOf(direction) == IF direction > 0 THEN DIR_FORWARD ELSE DIR_REVERSE
SignOf(line) == IF line = DIR_FORWARD THEN 1 ELSE -1

-----------------------------------------------------------------------------
(* The kernel's rules for sysfs writes (they show in the tests' FakePWM): a *)
(* write against them fails with EINVAL.                                   *)

AcceptsDuty(v) == pwm.period # 0 /\ v <= pwm.period
AcceptsPeriod(v) == v > 0 /\ pwm.duty <= v
AcceptsPolarity == pwm.period # 0 /\ ~pwm.enabled
AcceptsEnable == pwm.period # 0

Goto(label) == pc' = label /\ tries' = 0

WriteDuty(v, next) ==
    /\ AcceptsDuty(v)
    /\ pwm' = [pwm EXCEPT !.duty = v]
    /\ Goto(next)

WritePeriod(v, next) ==
    /\ AcceptsPeriod(v)
    /\ pwm' = [pwm EXCEPT !.period = v]
    /\ Goto(next)

-----------------------------------------------------------------------------
(* initialize_pwm and MotorNode.__init__ *)

Launch ==
    /\ pc = "down"
    /\ Goto("i_read")
    /\ arg' = 0
    /\ UNCHANGED <<hardware, control, clocks, published, lastDir, samples, faults>>

\* Mutant: hot recovery leaves a running channel as it is.
InitReadTrustsRunning ==
    /\ pc = "i_read"
    /\ Goto(IF pwm.enabled THEN "i_servo"
            ELSE IF pwm.period = 0 THEN "i_first_period" ELSE "i_polarity")
    /\ arg' = pwm.period
    /\ UNCHANGED <<hardware, control, clocks, published, lastDir, samples, faults>>

\* is_enabled, then the first access of the branch it selects; a disabled
\* channel's period is read and kept.
InitRead ==
    /\ pc = "i_read"
    /\ Goto(IF pwm.enabled THEN "i_hot_zero"
            ELSE IF pwm.period = 0 THEN "i_first_period" ELSE "i_polarity")
    /\ arg' = pwm.period
    /\ UNCHANGED <<hardware, control, clocks, published, lastDir, samples, faults>>

\* Mutant: hot recovery writes the period before it has zeroed the duty.
InitHotZeroSkipped ==
    /\ pc = "i_hot_zero"
    /\ Goto("i_hot_polarity")
    /\ UNCHANGED <<arg, hardware, control, clocks, published, lastDir, samples, faults>>

InitHotZero ==
    /\ pc = "i_hot_zero"
    /\ WriteDuty(0, "i_hot_polarity")
    /\ UNCHANGED <<arg, dirLine, control, clocks, published, lastDir, samples, faults>>

\* An enabled channel with inverted polarity is refused: the constructor
\* raises, and main has no node to stop.
InitHotPolarity ==
    /\ pc = "i_hot_polarity"
    /\ Goto(IF pwm.normal THEN "i_period" ELSE "down")
    /\ UNCHANGED <<arg, hardware, control, clocks, published, lastDir, samples, faults>>

InitFirstPeriod ==
    /\ pc = "i_first_period"
    /\ WritePeriod(Period, "i_polarity")
    /\ UNCHANGED <<arg, dirLine, control, clocks, published, lastDir, samples, faults>>

InitPolarity ==
    /\ pc = "i_polarity"
    /\ \/ pwm.normal /\ pwm' = pwm
       \/ ~pwm.normal /\ AcceptsPolarity /\ pwm' = [pwm EXCEPT !.normal = TRUE]
    /\ Goto(IF arg = 0 THEN "i_duty" ELSE "i_shrink")
    /\ UNCHANGED <<arg, dirLine, control, clocks, published, lastDir, samples, faults>>

InitShrink ==
    /\ pc = "i_shrink"
    /\ IF pwm.duty > Period
       THEN WriteDuty(0, "i_period")
       ELSE Goto("i_period") /\ pwm' = pwm
    /\ UNCHANGED <<arg, dirLine, control, clocks, published, lastDir, samples, faults>>

InitPeriod ==
    /\ pc = "i_period"
    /\ WritePeriod(Period, "i_duty")
    /\ UNCHANGED <<arg, dirLine, control, clocks, published, lastDir, samples, faults>>

InitDuty ==
    /\ pc = "i_duty"
    /\ WriteDuty(0, "i_servo")
    /\ UNCHANGED <<arg, dirLine, control, clocks, published, lastDir, samples, faults>>

\* initialize_pwm of the steering channel; its state is not modelled.
InitServo ==
    /\ pc = "i_servo"
    /\ Goto("i_dir")
    /\ UNCHANGED <<arg, hardware, control, clocks, published, lastDir, samples, faults>>

\* request_direction_output drives the line to its default, DIR_FORWARD.
InitDir ==
    /\ pc = "i_dir"
    /\ dirLine' = DIR_FORWARD
    /\ hwDir' = DIR_FORWARD
    /\ latch' = 1
    /\ pending' = NoReversal
    /\ Goto("i_enable")
    /\ UNCHANGED <<arg, pwm, clocks, published, lastDir, samples, faults>>

InitEnable ==
    /\ pc = "i_enable"
    /\ pwm.enabled \/ AcceptsEnable
    /\ pwm' = [pwm EXCEPT !.enabled = TRUE]
    /\ Goto("i_verify")
    /\ UNCHANGED <<arg, dirLine, control, clocks, published, lastDir, samples, faults>>

\* Period read-back, then publisher, timer and subscriptions; messages sent
\* before the subscription are never received.
InitVerify ==
    /\ pc = "i_verify"
    /\ pwm.period = Period
    /\ Goto("spin")
    /\ age' = 0 /\ timedOut' = FALSE /\ wdDue' = FALSE
    /\ published' = latch
    /\ lastDir' = 0
    /\ samples' = <<>>
    /\ UNCHANGED <<arg, hardware, control, faults>>

-----------------------------------------------------------------------------
(* on_cmd with _set_motor.  The new pending reversal is recorded with the   *)
(* command rather than after the duty write that follows: if the write      *)
(* raises, stop() clears it, and nothing else looks at it in between.       *)

\* Mutant: a zero command brakes but leaves the pending reversal in place.
SetMotorKeepsPending(direction, duty) ==
    IF direction # 0 /\ LineOf(direction) # hwDir
    THEN /\ arg' = 0
         /\ pending' = [dir |-> LineOf(direction), duty |-> duty]
    ELSE /\ arg' = IF direction = 0 THEN 0 ELSE duty
         /\ pending' = IF direction = 0 THEN pending ELSE NoReversal

SetMotor(direction, duty) ==
    IF direction # 0 /\ LineOf(direction) # hwDir
    THEN /\ arg' = 0
         /\ pending' = [dir |-> LineOf(direction), duty |-> duty]
    ELSE /\ arg' = IF direction = 0 THEN 0 ELSE duty
         /\ pending' = NoReversal

OnCmd(x) ==
    LET cmd == MapMotorCommand(x) IN
    /\ pc = "spin"
    /\ age' = 0
    /\ timedOut' = FALSE
    /\ SetMotor(cmd.direction, cmd.duty)
    /\ lastDir' = cmd.direction
    /\ Goto("c_duty")
    /\ UNCHANGED <<hardware, hwDir, latch, wdDue, published, samples, faults>>

CmdDuty ==
    /\ pc = "c_duty"
    /\ WriteDuty(arg, "c_servo")
    /\ published' = latch
    /\ UNCHANGED <<arg, dirLine, control, clocks, lastDir, samples, faults>>

CmdServo ==
    /\ pc = "c_servo"
    /\ Goto("spin")
    /\ UNCHANGED <<arg, hardware, control, clocks, published, lastDir, samples, faults>>

-----------------------------------------------------------------------------
(* _on_encoder_state *)

OnEncoderState ==
    /\ pc = "spin"
    /\ samples # <<>>
    /\ samples' = Tail(samples)
    /\ IF Head(samples) /\ pending # NoReversal
       THEN Goto("e_zero") /\ arg' = pending.duty
       ELSE UNCHANGED <<pc, tries, arg>>
    /\ UNCHANGED <<hardware, control, clocks, published, lastDir, faults>>

EncoderZero ==
    /\ pc = "e_zero"
    /\ WriteDuty(0, "e_dir")
    /\ UNCHANGED <<arg, dirLine, control, clocks, published, lastDir, samples, faults>>

\* Mutant: the level changes but the latch keeps the old direction.
EncoderDirStaleLatch ==
    /\ pc = "e_dir"
    /\ dirLine' = pending.dir
    /\ hwDir' = pending.dir
    /\ pending' = NoReversal
    /\ Goto("e_duty")
    /\ UNCHANGED <<arg, pwm, latch, clocks, published, lastDir, samples, faults>>

EncoderDir ==
    /\ pc = "e_dir"
    /\ dirLine' = pending.dir
    /\ hwDir' = pending.dir
    /\ latch' = SignOf(pending.dir)
    /\ pending' = NoReversal
    /\ Goto("e_duty")
    /\ UNCHANGED <<arg, pwm, clocks, published, lastDir, samples, faults>>

EncoderDuty ==
    /\ pc = "e_duty"
    /\ WriteDuty(arg, "spin")
    /\ published' = latch
    /\ UNCHANGED <<arg, dirLine, control, clocks, lastDir, samples, faults>>

-----------------------------------------------------------------------------
(* _watchdog *)

\* Mutant: a timed out watchdog leaves the pending reversal in place.
WatchdogKeepsPending ==
    /\ pc = "spin"
    /\ wdDue
    /\ wdDue' = FALSE
    /\ IF age > CmdTimeout THEN Goto("w_zero") ELSE UNCHANGED <<pc, tries>>
    /\ UNCHANGED <<arg, hardware, control, age, timedOut, published, lastDir,
                   samples, faults>>

Watchdog ==
    /\ pc = "spin"
    /\ wdDue
    /\ wdDue' = FALSE
    /\ IF age > CmdTimeout
       THEN Goto("w_zero") /\ pending' = NoReversal
       ELSE UNCHANGED <<pc, tries, pending>>
    /\ UNCHANGED <<arg, hardware, hwDir, latch, age, timedOut, published,
                   lastDir, samples, faults>>

\* Mutant: the watchdog reports the timeout and leaves the duty.
WatchdogReportsOnly ==
    /\ pc = "w_zero"
    /\ Goto("spin")
    /\ timedOut' = TRUE
    /\ published' = IF timedOut THEN published ELSE latch
    /\ UNCHANGED <<arg, hardware, control, age, wdDue, lastDir, samples, faults>>

WatchdogZero ==
    /\ pc = "w_zero"
    /\ WriteDuty(0, "spin")
    /\ timedOut' = TRUE
    /\ published' = IF timedOut THEN published ELSE latch
    /\ UNCHANGED <<arg, dirLine, control, age, wdDue, lastDir, samples, faults>>

-----------------------------------------------------------------------------
(* Leaving: exceptions, signals, stop, crashes *)

\* An I/O error that escapes a callback, or a signal: main's finally runs
\* stop() if the constructor had returned, and an exception inside the
\* constructor or inside stop() ends the process.
Raise ==
    /\ pc # "down"
    /\ faults < MaxFaults
    /\ faults' = faults + 1
    /\ IF pc \in HandlerLabels \cup {"spin"}
       THEN Goto("s_duty") /\ pending' = NoReversal
       ELSE Goto("down") /\ UNCHANGED pending
    /\ UNCHANGED <<arg, hardware, hwDir, latch, clocks, published, lastDir, samples>>

\* Mutant: stop publishes the direction and leaves the duty.
StopPublishesOnly ==
    /\ pc = "s_duty"
    /\ Goto("s_servo")
    /\ published' = latch
    /\ UNCHANGED <<arg, hardware, control, clocks, lastDir, samples, faults>>

StopDuty ==
    /\ pc = "s_duty"
    /\ WriteDuty(0, "s_servo")
    /\ published' = latch
    /\ UNCHANGED <<arg, dirLine, control, clocks, lastDir, samples, faults>>

\* The steering is centred and disabled, the line released.
StopServo ==
    /\ pc = "s_servo"
    /\ Goto("down")
    /\ UNCHANGED <<arg, hardware, control, clocks, published, lastDir, samples, faults>>

\* SIGKILL, power to the process: nothing is written, the kernel's PWM and
\* the line keep their state.
Crash ==
    /\ pc # "down"
    /\ faults < MaxFaults
    /\ faults' = faults + 1
    /\ Goto("down")
    /\ UNCHANGED <<arg, hardware, control, clocks, published, lastDir, samples>>

-----------------------------------------------------------------------------
(* Time and the encoder *)

Older == IF age < AgeCap THEN age + 1 ELSE age

\* A tick of an idle executor.  The executor serves a due timer before the
\* next tick; commands and samples may still be served first.
Tick ==
    /\ pc = "down" \/ (pc = "spin" /\ ~wdDue)
    /\ age' = Older
    /\ wdDue' = (pc = "spin")
    /\ UNCHANGED <<pc, arg, hardware, control, timedOut, tries, published,
                   lastDir, samples, faults>>

\* _retry_io: a transient error, a sleep of one tick, another attempt.  The
\* sleep is inside the callback, so the watchdog waits.
IoRetry ==
    /\ pc \in PwmLabels
    /\ tries < IoAttempts - 1
    /\ tries' = tries + 1
    /\ age' = Older
    /\ wdDue' = TRUE
    /\ UNCHANGED <<pc, arg, hardware, control, timedOut, published, lastDir,
                   samples, faults>>

\* The encoder node publishes a sample: is the wheel stationary?
EncoderPublish(stationary) ==
    /\ pc # "down"
    /\ Len(samples) < MaxInFlight
    /\ samples' = Append(samples, stationary)
    /\ UNCHANGED <<pc, arg, hardware, control, clocks, tries, published,
                   lastDir, faults>>

-----------------------------------------------------------------------------
Init ==
    /\ pc = "down"
    /\ arg = 0
    /\ pwm \in BootChannels
    /\ dirLine \in Lines
    /\ hwDir = DIR_FORWARD
    /\ latch = 1
    /\ pending = NoReversal
    /\ age = 0
    /\ timedOut = FALSE
    /\ wdDue = FALSE
    /\ tries = 0
    /\ published = 0
    /\ lastDir = 0
    /\ samples = <<>>
    /\ faults = 0

InitStep ==
    \/ InitRead \/ InitHotZero \/ InitHotPolarity \/ InitFirstPeriod
    \/ InitPolarity \/ InitShrink \/ InitPeriod \/ InitDuty \/ InitServo
    \/ InitDir \/ InitEnable \/ InitVerify

HandlerStep ==
    CmdDuty \/ CmdServo \/ EncoderZero \/ EncoderDir \/ EncoderDuty \/ WatchdogZero

StopStep == StopDuty \/ StopServo

Environment ==
    \/ \E x \in LinearX \cup {NonFinite} : OnCmd(x)
    \/ \E s \in BOOLEAN : EncoderPublish(s)

Next ==
    \/ Launch \/ InitStep
    \/ Environment
    \/ OnEncoderState \/ Watchdog
    \/ HandlerStep \/ StopStep
    \/ Raise \/ Crash
    \/ Tick \/ IoRetry

Spec == Init /\ [][Next]_vars

\* The executor goes on with a handler it has begun and serves a due timer;
\* systemd restarts the unit (Restart=always); time passes.
Fairness ==
    /\ WF_vars(Launch)
    /\ WF_vars(InitStep \/ HandlerStep \/ StopStep)
    /\ WF_vars(Watchdog)
    /\ WF_vars(Tick)

FairSpec == Spec /\ Fairness

-----------------------------------------------------------------------------
(* Properties *)

\* Every variable keeps its type.
TypeOK ==
    /\ pc \in Labels
    /\ arg \in Nat
    /\ pwm \in Channels
    /\ dirLine \in Lines
    /\ hwDir \in Lines
    /\ latch \in {-1, 1}
    /\ pending \in Reversals \cup {NoReversal}
    /\ age \in Nat
    /\ timedOut \in BOOLEAN
    /\ wdDue \in BOOLEAN
    /\ tries \in Nat
    /\ published \in {-1, 0, 1}
    /\ lastDir \in {-1, 0, 1}
    /\ samples \in Seq(BOOLEAN)
    /\ faults \in Nat

\* The bridge is driving: with inverted polarity a zero duty is full drive.
Driven == pwm.enabled /\ IF pwm.normal THEN pwm.duty > 0 ELSE pwm.duty < pwm.period

\* The DIR line never changes while the bridge is driven, whatever the crash,
\* the channel left behind by it, or the failed write: initialize_pwm zeroes
\* the duty before request_direction_output, _on_encoder_state before set_value.
DirChangesOnlyUndriven == [][dirLine' # dirLine => ~Driven /\ ~Driven']_vars

\* While the node waits for work the motor drives only in the direction of the
\* last command received: no reversal that was cancelled by a zero command, a
\* same-direction command or the watchdog is ever applied.
DriveMatchesLastCommand ==
    pc = "spin" /\ Driven => lastDir = SignOf(dirLine)

\* A pending reversal holds the brake, is opposed to the line as it is, and is
\* the last command's: _set_motor and the stationary gate agree.
PendingHoldsBrake ==
    pc = "spin" /\ pending # NoReversal =>
        /\ ~Driven
        /\ pending.dir # dirLine
        /\ lastDir = SignOf(pending.dir)

\* Between handlers /motor/direction, the latch and the mirrored direction all
\* tell the level of the line: the encoder signs odometry with that topic.
ReportedDirectionIsHardware ==
    pc = "spin" => /\ published = SignOf(dirLine)
                   /\ latch = SignOf(dirLine)
                   /\ hwDir = dirLine

\* No write of start-up, recovery, a handler or stop is one that the kernel
\* rejects, from any channel state another owner or a crash has left.
KernelAcceptsEveryWrite ==
    /\ pc \in {"i_hot_zero", "i_duty", "e_zero", "w_zero", "s_duty"} => AcceptsDuty(0)
    /\ pc = "i_shrink" /\ pwm.duty > Period => AcceptsDuty(0)
    /\ pc \in {"c_duty", "e_duty"} => AcceptsDuty(arg)
    /\ pc \in {"i_first_period", "i_period"} => AcceptsPeriod(Period)
    /\ pc = "i_polarity" /\ ~pwm.normal => AcceptsPolarity
    /\ pc = "i_enable" => AcceptsEnable

\* A running node never drives on a command that is older than this.  Without
\* I/O trouble it is the timeout and one watchdog period.  A retry sleeps inside
\* its handler: a command can leave on_cmd (two accesses), be authorised before
\* the late watchdog (two more) and be driven until the zero write of the
\* watchdog or, when that raises, of stop() (two more) goes through.
RetryTicks == IoAttempts - 1
DriveAgeBound ==
    4 * RetryTicks + (IF CmdTimeout + 1 > 2 * RetryTicks
                      THEN CmdTimeout + 1 ELSE 2 * RetryTicks)
StaleDriveBounded ==
    pc \in HandlerLabels \cup StopLabels \cup {"spin"} /\ Driven => age <= DriveAgeBound

\* A process that leaves through stop() leaves the brake on and has told the
\* level of the line, whichever access of whichever handler raised: between the
\* DIR write and the duty write of the stationary gate the line is already the
\* new one and the topic still tells the old one.
StopLeavesBrake ==
    pc = "s_servo" => /\ ~Driven
                      /\ published = SignOf(dirLine)
                      /\ latch = SignOf(dirLine)

\* When commands stop, so does the motor, through crashes, failed writes,
\* restarts and every boot state: a bridge that is driven is followed by a new
\* command or by an undriven bridge.  The one exception is the channel that
\* initialize_pwm refuses: it is enabled and inverted, its duty is zeroed before
\* its polarity is read, and no process leaves it before the polarity is changed
\* by another owner.
SilenceStopsMotor ==
    Driven /\ pwm.normal ~> (age = 0 \/ ~Driven)
=============================================================================
