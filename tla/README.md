# Verification of the runner_ws robot

TLA+ models, TLC runs and TLAPS proofs about the programs of this repository: a
ROS 2 robot car that drives by keyboard, by gamepad or under Nav2. Paths below
are relative to the repository.

## 1. The system

```
laptop               Pi
keyboard_sender -UDP-> keyboard_bridge -/teleop/keyboard_state-> teleop_node
                         ^ /joy    |                                ^ /joy   |
                                   | /runner/route_control          /cmd_vel_teleop
                                   v                                         v
Foxglove -goal, points, mode-> foxglove_goal_bridge                      twist_mux
                                   | action goals                        ^       |
                                   v                             /cmd_vel_auto   | /cmd_vel
                                 Nav2 -/cmd_vel_nav-> drive_adapter -----+       v
                                                          ^                 motor_node
                                       /wheel/encoder_state                  ^   |
                                                          |                  |   |
                              edges -> encoder_node ------+------------------+   |
                                           ^----------- /motor/direction --------+
```

### Components, their state and their operations

| component | state | operations | what is hard | what makes it correct |
|---|---|---|---|---|
| motor driver `src/runner_motor` | pending reversal, hardware direction and its latch, command age; the kernel's PWM and DIR outlive the process | command, encoder sample, watchdog, start-up and recovery, stop | crash and restart with a running PWM, order of hardware writes, failed and retried writes, queued samples | DIR changes only undriven; drive follows the last command; bounded age of the command driven on; reports tell the hardware |
| wheel encoder `src/runner_encoder` | edge history, epoch direction | edge (GPIO thread), direction message, measurement | thread and executor share the state; order of direction and edges | stationary means no edge for the timeout; direction fixed within an epoch |
| keyboard sender `tools/keyboard_sender.py` | pressed keys, latch request, route queue | key press, release, send loop | key events against the 20 Hz loop, Escape burst | one route command per packet, Escape disarms |
| keyboard bridge `src/runner_teleop/keyboard_bridge.py` | session, sequence, liveness; suppress latch; costmap request slots | UDP packet, joystick, timers, parameter service futures | lost, duplicated, reordered packets, session change, timeouts, late service answers | no motion from an old or duplicated packet; the latch ends at Escape, controller use and expiry |
| teleop `src/runner_teleop/teleop_node.py` | keyboard and controller inputs, their ages, release latches | joystick, keyboard state, 20 Hz publication | two sources and two subscribers of one topic in any order | nobody resumes motion without a fresh press; controller wins |
| twist_mux (external), `config/twist_mux.yaml` | last message of each input | input, timeout | priority against silence | teleop preempts autonomy |
| drive adapter `src/runner_drive_adapter` | last command, encoder sample, EKF speed, own output and the mux's, each with its time; integrator, wheelspin evidence, live gains | four inputs, gain write, 20 Hz step, shutdown | staleness of every input, what the mux selected is heard late, a gain write between two steps | no effort against the command or on an old one; the integrator learns from its own driving only |
| goal bridge `src/runner_bringup/foxglove_goal_bridge.py` | mode, queue, route, generation, send, active goal, result and cancel handshakes | six subscriptions, a timer, five kinds of future callbacks, persistence | every action answer races every command; cancel against success; retries | one goal at a time; no waypoint lost or consumed without success; the run state is what the operator asked |
| speed envelope observer `src/runner_bringup/speed_envelope_observer.py` | outstanding parameter requests, last answers, rotation | tick, answer, expiry | late answers, lost ones, a node that ends | what is shown was true; every key is asked again; nothing stays on display of a dead node |
| scan rebinner, scan canonicalizer | none | one scan in, one out | rounding to bins and offsets, the seam of the circle | no reading lost, bearings kept |
| analysis tools `tools/analyze_*.py`, `bag_analyzer.py` | files of a recording | load, recover, segment, attribute, integrate, pair | a recording cut off or damaged; gaps, repeated times, window ends, the seam of the circle | they find all there is and nothing else |
| battery, IMU, telemetry nodes | last samples | timers | little: periodic I/O | - |
| scripts (`save_map.sh`, `runner_up.sh`) | files | - | sequential | - |
| ldlidar driver, RPP controller, rf2o (C++) | - | - | vendored or forked upstream packages | - |

They interact by ROS topics (a subscription's messages are delivered in order,
those of two subscriptions in any order), by ROS actions and services whose
answers arrive as callbacks, by UDP between laptop and Pi, and by the kernel's
PWM and GPIO between motor driver and encoder.

## 2. The modules

| module | models | proofs |
|---|---|---|
| `MotorNode` (`MCMotorNode`) | `motor_node.py`: the process, its PWM channel and its DIR line | `MotorNode_proofs` |
| `GoalBridge` (`MCGoalBridge`) | `foxglove_goal_bridge.py` with the action server around it | `GoalBridge_proofs` |
| `GoalSlot` | the abstract promise of `GoalBridge`: one goal at a time | used by `GoalBridge_proofs` |
| `KeyboardProtocol` | `keyboard_protocol.py`: modes and the order of sequence numbers | in `KeyboardLink_proofs` |
| `KeyboardSender` | `keyboard_sender.py`: keys, requests, the send loop | in `KeyboardLink_proofs` |
| `KeyboardBridge` | `keyboard_bridge.py`: receiver, latch, publication | in `KeyboardLink_proofs` |
| `KeyboardLink` | sender, UDP path and bridge composed | `KeyboardLink_proofs` |
| `CostmapControl` | the costmap requests of `keyboard_bridge.py` | in `KeyboardLink_proofs` |
| `Teleop` | `teleop_node.py` | in `MotorNode_proofs` |
| `GpioReader` | the chip, line and thread of `GpioEventReader` in `encoder_node.py` | in `WheelEncoder_proofs` |
| `WheelEncoder` | extends it with `encoder_state.py`, the timer and the subscription of `encoder_node.py` | `WheelEncoder_proofs` |
| `DriveAdapter` | `drive_adapter.py` and its node: inputs, step, gains | in `CommandChain_proofs` |
| `CommandChain` (`MCCommandChain`) | extends it with twist_mux, the operator and the motor's watchdog | `CommandChain_proofs` |
| `SpeedEnvelope` (`MCSpeedEnvelope`) | `speed_envelope_observer.py` and a node it asks | `SpeedEnvelope_proofs` |
| `Recording` | a recorder, its files, and the loader of `analyze_localization_bag.py` | in `Analysis_proofs` |
| `ThrottleResponse` | segments, groups and target of `analyze_throttle_response.py` | `ThrottleResponse_proofs`: the segments |
| `MeasuredRuns` | extends it with the runs that count, their figures, points, dead band and droop | in `ThrottleResponse_proofs`: the runs that count |
| `PidRun` | gain timeline, plateaus, steps and the response to them of `analyze_pid_run.py` | in `Analysis_proofs` |
| `Series` | interpolation, integrals, windows, pairing and alignment of three tools | - |
| `ScanBins` | `scan_rebinner.py`, `rf2o_scan_canonicalizer.py` | in `Analysis_proofs` |
| `Arrangement` | a finite set in an order, by rank; the chosen places of a sequence | in `Analysis_proofs` |
| `Analysis` (`MCAnalysis`) | `Recording` and every input of the five tool modules | `Analysis_proofs`, `ThrottleResponse_proofs` |

A ROS callback is one action: rclpy's single-threaded executor runs callbacks one
at a time. Two places are finer. In the motor driver each register access is a
step, because an access can be retried, raise, or be the last thing the process
does. In the encoder the GPIO thread runs beside the executor, so a step is what
happens under the lock, and the reading of the clock before it.

### MotorNode

`pwm` is the kernel's channel (period, duty, enabled, polarity) and `dirLine` the
DIR output: both survive the process. `hwDir`, `latch`, `pending` are
`_hardware_direction`, `_current_direction`, `_pending_reversal`; `age`,
`timedOut`, `wdDue` the age of the last command, `_timed_out` and the watchdog
timer. `pc` names the next register access, from `i_read` (start-up, the
branches of `initialize_pwm`) through `c_`, `e_`, `w_` (command, encoder sample,
watchdog) to `s_` (`stop`). `Raise` takes a failing access to `stop()`, `Crash`
leaves the channel as it is, `Launch` is systemd's restart. `Driven` is what the
motor sees: with inverted polarity a zero duty is full drive, so no property counts
the duty alone. `StopLeavesBrake` speaks of the end of `stop()`, before the restart's
own first write could hide what it left. The kernel's rules
for the sysfs files (what it rejects) are external operators `Accepts...`.
`IoRetry` is the sleep inside `_retry_io`: time passes and no timer runs. The
steering PWM appears as an access that may fail; its value is not kept. The
command enters as an integer in units of 1/`CmdUnit`; non-finite is one value.

### GoalBridge and GoalSlot

`b` is the node's attributes as a record and the handlers are operators from
record to record, composed as the code composes them (`WaypointStop` calls
`Advance`, `RequestCancel`, `Halt`...). `bound` holds the futures registered for
the current generation: a callback of another generation returns early in the
code, and `EveryAnswerHeard` shows that none is left behind. A failure point
(server not ready, a send, a result or cancel request that raises, a file that
cannot be written) is an outcome record passed to the handler; a handler meets
at most one failure. `goal` and `live` belong to the external action server,
`disk` is the route file, `intent` only observes what the operator last asked.
The pose of a waypoint is a model value. A route goal is a single request: its
points are counted (`MaxRoute`), not followed, since the bridge sends the list
as one goal. Entering ROUTE mode clears the route that was loaded at start.

`GoalSlot` has two variables: what the bridge knows of its goal, and how many of
its goals live at the server. `OneSlot` is `GoalSlot`'s specification under the
mapping `SlotOf`.

### KeyboardLink

`KeyboardSender` and `KeyboardBridge` hold the state and the operators of the two
programs, `KeyboardLink` the path between them and the specification. The
sequence number is taken modulo `Serial`, which stands for 2^32; `FirstNumber`
places the run before the wrap. A datagram stays in `net` while it may still
arrive, and may come in any order; `InWindow` keeps delays below half the sequence space,
beyond which the comparison has no meaning for any implementation. A tick is one send period. The
ghost fields `press`, `owner` and `number` of a datagram tell the properties which
request and process it comes from; the bridge does not read them. `foremost` and
`overtaken` are history: the datagram sent last of those that arrived, and whether the
one that armed the latch, or one without a request that came since, was behind it. Left out:
setpoint and steering keys (data), and F12, which queues three absolute commands.

### CostmapControl

`c` is the bridge's `_costmap_*` attributes, deadlines as time left. The server's
`layer` can be changed by the bridge's calls, by calls the bridge has given up
(`late`), and by other clients. `seen` is history: the values of the layer since
the action began. It shares no state with the rest of the bridge, and the timers
are separate, so it is a module of its own.

### Teleop

`controller` and `keyboard` are what `on_joy` and `on_keyboard` keep, with the ages
of the inputs; `output` is what the step published, empty for the silence that
lets autonomy through the mux. A command is a sign or a setpoint, steering follows
the same decision and is left out. The keyboard states fed in are those that the
bridge's `_publish` can produce, and malformed ones. `spent`, `released`, `overlapped` and
`quiet` are history: `overlapped` is X held with R1 and ends only when a message
without R1 comes, not where the code forgets its inhibition; `quiet` that the
controller was silent for longer than its timeout since.

### GpioReader and WheelEncoder

`phase` is where `open_gpio_chip_by_label`, `__init__` and `close()` are; every
call on the way may raise. `state` is `EncoderState`, `queue` the edges the kernel
has stamped and the thread not read, `clock` the time `_publish_window` read and
not yet used. A rate is kept as the fraction intervals / span, so nothing is
rounded. The clock runs only while the reader does: nothing depends on time before.
`accepted` and `overtaken` are history: the edges recorded, whatever the code has
forgotten of them, and whether one came between the clock and the lock of a
measurement with none after it.

### DriveAdapter and CommandChain

Every input is kept with its age in publication periods, and the stamp of an encoder
sample with its own age. A message too old for every one of its readers is
forgotten; the code keeps it and never uses it. `FreezeReason` is the order of
tests of `_integrator_freeze_reason` and of `step`. The three steps are the three
kinds of decision: silence, brake, drive. Steering, `active_mode` (reported
only), reports and warnings are left out.

`CommandChain` runs the step once a period. The inputs of a period arrive before
the step, since what comes later waits for the next; a sample is heard in the
period of its stamp. The mux hands on at once; the motor keeps the last command and
its watchdog; what the mux handed on reaches the adapter within the period, before
or after its step (`echo`). The operator sends one nonzero effort, which one of the
adapter's own may equal. The adapter may end and start at any time. `origin`,
`ownAge`, `slipFor` and `stepsOnKi` are history.

### SpeedEnvelope

One node, since nodes are asked independently. `request` is the call of the
current token; of the calls that have lost their token one at a time is followed
(`superseded`), any one. Requests are lost only when the node ends. Values,
types included, are model values; `Drifting` are the keys somebody changes.
`had` and `waited` are history.

### Recording, the tools and Analysis

A recording is a sequence of files, a file a sequence of chunks with their entries.
The recorder may end at any moment, with a file cut at any of the places that
differ for the loader; then one record may be damaged. A message is its topic, time
and number. The reader library, whether and where it fails, is external.

`ThrottleResponse`, `MeasuredRuns`, `PidRun`, `Series` and `ScanBins` are pure: operators on
sequences of samples, and their properties for any input. Values stand for their
meaning: speeds of `PidRun` are equal within `PLATEAU_TOLERANCE`, one gain stands
for three, positions lie on one axis, rates are multiples of what every interval
divides, an estimate is a fraction, a throttle is in half units of a command, angles
are fractions of the circle. The speeds of a run are the encoder's; of those of the
EKF the number counts, since too few reject a run, and that they are compared with the
encoder's for a warning is left out. The targets of a step have either sign; a state
before the first sample of the encoder has no speed, and a step that needs it has no
response (`Raises`). RF2O takes the bearings of a scan to be `-fov/2 + k fov/(count - 1)`,
which is what `BearingsHold` measures against. Of the
yaw comparison the grid, the gaps, the wraps and the accounting of time are kept;
its bins and the second and third source repeat them. Where the code sorts, `Arrangement` says the
result by rank: the k-th is the one with k - 1 before it. `Analysis` reads the input
of one of these programs item by item, so that TLC visits every input up to a
bound.

## 3. The runs

Twelve runs; eleven show that properties hold, one shows a disagreement. The
mutated definitions, marked "Mutant" beside the originals, show that every
property, and most named parts of one that has several, can be broken by a plausible
change of the code.

| run | question | bounds and why they are enough |
|---|---|---|
| `motor_safety` | What does the motor do from every boot state of the channel, through retries, exceptions, crashes and restarts? When may DIR change? What does it report, and what does `stop()` leave? Does silence stop it? | period 2 (zero, half, full duty), five commands (both signs, zero, clipped, below one step), five boot channels, one for each branch of `initialize_pwm`, 3 attempts of an access, 2 faults (one during the recovery from another), 2 samples in flight; ages capped above the largest bound compared |
| `goal_waypoints` | Single goals and the consumable queue under goal, waypoint, start, stop, clear, with every answer late, lost or refused: one goal at a time, no answer missed, no waypoint lost? | 2 poses (symmetric), queue of 2, 2 cancel attempts, every failure kind |
| `goal_route` | Routes, mode change, the file, shutdown and restart: does a stop hold, does shutdown send nothing, is a waiting request served? | 1 pose, 1 route point, 1 cancel attempt, 1 restart: a predecessor and a successor of every kind |
| `goal_stop` | *violated*: does a stopped waypoint queue stay stopped? | smallest instance |
| `link_order` | Datagrams lost, doubled, late and out of order across the wrap: does the newest rule, does each route command act once? | 9 datagrams over a space of 8, 2 under way |
| `link_latch` | Does one press arm once, through losses, repeats, datagrams overtaken, expiry, takeover, Escape and a sender restart, but for what an overtaken one does? Does an Escape that is heard end it? Does an armed latch end in any case? | 1 press, Space held or not, 2 sessions with three datagrams between them, each lost, repeated or overtaken at will, 1 takeover: the request with one datagram, its end with the other, and a process after that; the two safety properties are proved for all bounds |
| `costmap` | Commands, refreshes, deadlines, failed and late calls, other clients: is only what was confirmed shown, does a waiting command start, does the shown state become true? | 3 commands (one runs, one waits, one is dropped), 2 faults, 2 outages or foreign changes |
| `teleop_safety` | Two inputs in any order, each going silent at any time: does anything resume or fall silent without a fresh act, is an inhibition lifted without a release, but behind a silence? | unbounded; timeouts of one period (in time, late), setpoints 1..2 |
| `encoder` | Edges, measurements, directions in any order: no rate across a stop, stationary exactly when it is or an edge overtook the clock, one direction in an epoch? Is the GPIO line given back whatever raises? | 6 ticks with a timeout of 3: a stop and an epoch on either side; depth 2 and lookback 4, each of which prunes first in some behaviour; 2 chips: none, one or both match |
| `command_chain` | Nav2, operator, adapter, mux and motor, each late or silent, the adapter ending and starting: how old is the command behind an effort, what does the integrator learn? | timeouts of one or two periods, so each can be met and missed; four command speeds (stop, below the minimum, above the maximum, backward), a wheel at rest and one too fast; integrator bound 1, gains 0 and 1 |
| `envelope` | Answers late, out of order or never, a late timer, node and observer launched anew: is what is shown true, is every key asked, does anything linger? | 3 keys, 2 asked per tick: the rotation wraps inside a tick; period 2, timeout 1; unbounded otherwise |
| `analysis` | A recording cut off or damaged, and every input of the tools and scan nodes: do they find all there is and nothing else? | 3 messages in 2 files, of two topics and two times; 5 samples, 4 points, 5 repeated segments, 3 driven runs of both directions (a pair and what may disqualify it), 5 moments before a run with the EKF silent at its end or not, 7 events, 3 samples of a step up, down or into reverse, the encoder heard late or not, 3 samples of a series with gaps and repeated times, scans of up to 8 readings |

The link and analysis runs bound what is sent or read, so their behaviours end
(`CHECK_DEADLOCK FALSE`); all other runs check deadlock.

Several properties are conjunctions of named parts, each stated where it is defined:
`NothingIsAwaitedInVain` of the goal bridge (`EveryAnswerHeard`, `RunningIsExecuting`,
`CancelAttemptsBounded`); `Inv` of the link (`NewestWins`), of teleop
(`CommandIsFresh`), of the encoder (`ThreadOwnsLine`, `NothingIsKept`), of the chain
(`EffortIsRecent`, `EffortKeepsSign`, `KiStartsOver`) and of the observer (`ReportIsTrue`,
`SummaryIsTrue`), each with its type invariant; `NothingWithoutRelease` of teleop
(`NoResumeWithoutRelease`, `NoSilenceWithoutRelease`); `MeasurementIsTrue` of the
encoder (with `RateDecays`); `NothingLingers` of the observer (`NoCallHangs`,
`SilenceIsShown`); the six of
`Analysis` (`SegmentsAreTrue` with `RunsStartAtRest`, `PointsAreTrue` with
`PointsSpeakForRuns`, `DeadbandIsWitnessed` and `PairsSpanTheSession`, `TuningIsTrue`
with `ResponseIsOrdered`). `TypeOK` and `PendingHoldsBrake` of the motor and
`TypeOK`, `AtMostOneGoal` and `SlotInv` of the goal bridge are proved and not
run: `DriveMatchesLastCommand` and `OneSlot` are what they are for.

### Fairness

- Motor: the executor finishes a handler it began and serves a due timer;
  systemd restarts the unit (`Restart=always`); time passes. Nothing is assumed
  of commands, samples or failures; failures are bounded by `MaxFaults`.
- Goal bridge: the executor delivers answers that arrived and runs the timer, and
  the server answers requests and ends goals (Nav2's own timeouts). Strong
  fairness for a timer tick on which nothing fails and for a result request:
  failures may recur but not on every attempt.
- Link: time passes and the bridge's timers run; nothing is assumed of the
  sender or the path.
- Costmap: the timer runs, time passes, a server that is up answers, an abandoned
  call is done in the end. `StateConverges` also assumes that the services stay up
  from some time on (`<>[]up`). While they are up, time that passes during an
  action is a fault and bounded: an action of a few round trips against a deadline of
  seconds.
- Envelope: time passes and the executor gets to the timer. The observer may be
  launched anew for ever, so only what a step does to the clock and the timer is fair
  (`WF_clock(Advances)`, `WF_due(Fires)`). Nothing is assumed of the node or of
  the answers.

The remaining runs check safety and assume no fairness.

### What the violated run shows

`goal_stop`: `_handle_queue_failure` and `_handle_queue_success` reset the queue
state and dispatch without looking at PAUSED; a waypoint queue that was
stopped starts again when the goal being cancelled is rejected, aborts or succeeds.

### Other disagreements met while modelling

They follow from the models but have no run of their own.

- Motor: of a channel that was left enabled and inverted, `initialize_pwm` zeroes the
  duty before it reads the polarity (`motor_node.py:117`: "This must be the first write
  during hot recovery"), which drives the motor fully, then refuses the channel and
  leaves it so, at every restart. The refusal is deliberate (`test_motor_node.py:357`)
  and nothing in this repository leaves a channel inverted
  (docs/runner_spec_v1.0.md:342: "normal-polarity"); it is the one exception in
  `SilenceStopsMotor`. A stationary sample published before the reversal was requested, and
  still queued, authorises it (`motor_node.py:249`; the specification asks for
  post-request evidence). While a reversal is pending, `/motor/direction`
  goes on reporting the hardware direction (`:271`).
- Goal bridge: a waypoint appended while another goal is in flight starts only
  with the next command (`:340`); a looping route restarted over its predecessor
  does not repeat (`:1054`); feedback is dropped after any later command (`:824`);
  a start during a cancellation uses up the retry (`:380`); the cancellation flag
  outlives a predecessor that was rejected and cancels the newest goal (`:818`).
- Keyboard: `process_mode` runs before the sequence check (`keyboard_bridge.py:417`),
  for every valid datagram and not only for the brake of which
  docs/keyboard_teleop.md:92 says so ("Other duplicate or old packets remain
  rejected"). A request overtaken by the Escape behind it arms the latch after all; one
  without a request that is overtaken makes the latch ready, and the repeats of a
  request ended by a takeover arm it again. `OneArmPerPress` and `EscapeHolds` name
  exactly these two cases (`overtaken`) and exclude every other. A
  datagram of an ended session is accepted again once the session has
  changed back (`:216`); a backtick within the Escape burst erases
  the rest of it (`keyboard_sender.py:156`), and if all of a burst is lost, or no turn
  of the loop falls into it, holding Space keeps the latch (`:220`), which is why
  `EscapeHolds` waits for a datagram with a flag; for a
  brake datagram the bridge first publishes the motion accepted before it
  (`keyboard_bridge.py:421`).
- Teleop: a controller dropout clears the inhibition of fixed throttle
  (`teleop_node.py:452`) that docs/throttle_characterization_protocol.md:56 keeps until
  R1 is released: the next message with R1 alone, never released, drives again.
  `InhibitedUntilRelease` has this as its one exception: `quiet`, a silence longer than
  the timeout since X was held. Silence never expires when the bridge dies
  after its sender (`:458`); one gap in the keyboard states ends an armed
  suppression (`:380`); a negative keyboard throttle passes (`:506`).
- Encoder: an edge recorded between `time.monotonic_ns()` and the lock
  (`encoder_node.py:319`) is later than the measurement; the branch for a broken
  clock drops the epoch (`encoder_state.py:129`) and reports a turning wheel as
  stationary until its next edge, which EncoderState.msg:7 excludes ("True after the
  configured interval has elapsed with no physical edge") and the motor driver takes
  for leave to change direction. `MeasurementIsTrue` counts every edge recorded,
  forgotten or not, and names this case (`overtaken`) as the only other one in which a
  measurement says stationary.
  A label that cannot be read leaves its chip open (`:82`). A reader that ends on
  an error leaves a node that goes on saying stationary (`:180`).
- Drive adapter: a negative speed produces reverse, where docs/runner_spec_v1.0.md:271
  calls the adapter "forward-only: explicit stop and rejected inputs publish zero", as do
  docs/drive_adapter_stage1.md:18 ("reverse remains rejected to zero") and
  docs/twist_mux_stage2.md:20 ("normalized forward-only command"); the same specification reports a reverse acceptance run a few
  lines before (:262). `EffortKeepsSign` says what the code keeps: an effort of autonomy
  on its way through the mux has the sign of the command it comes from. A brake does not consume the stamp of the sample
  (`drive_adapter.py:581`; docs/runner_spec_v1.0.md:285), so that the first step after
  it integrates over the brake, up to `MAX_INTEGRATION_DT_SEC` (ten periods), also if
  the operator drove meanwhile. `LearnsOnlyItsOwn` speaks of the moment of the step,
  not of the interval integrated, and the run has a limit of two periods.
- Scans: the node says it rotates a scan "so array index zero corresponds to minus pi"
  (`rf2o_scan_canonicalizer.py:12`); what RF2O takes, and the node computes (`:74`), is
  -fov/2. Where there are as many readings as the circle has the two differ by half a
  step. It turns every bearing alike, and `BearingsHold` bounds it.
- Tools: a step off a plateau that ended before the first sample of the encoder ends
  `analyze_pid_run.py` with a TypeError (`:514`), which `main` does not catch (`:1108`).
  One file that is empty refuses the whole bag
  (`analyze_localization_bag.py:525`), and so does a bag of one instant;
  `non_monotonic_unbracketed` cannot occur (`TargetIsFound`); a speed may settle before
  it has reached nine tenths of a step that is less than a fifth of its target (the
  condition in `ResponseIsOrdered`); a group of segments
  moves with its median and may reach farther than the tolerance; the first status is
  read whether it says the gains are available or not (`analyze_pid_run.py:202`).
- IMU: the count of errors in a row is not reset when the sensor is opened anew
  (`bno085_node.py:68`).

## 4. The proofs

TLAPS proves the theorems below for every value of the constants that the modules'
assumptions allow. The assumptions are named in the module that declares the
constants and say what the code checks at start (`ValidConfig`,
`ValidConfiguration`, `validate_history_depth`...) or what the bounds of the model
are; TLC evaluates them in every run. Each proof has the same plan: an inductive
invariant `IInv`, checked first by TLC with the bounds of the run, one lemma per
operator of the code, one per action, and the property from `IInv`. Proof
attempts changed the models where they were wrong; those places are named.

**MotorNode_proofs.** `TypeCorrect`; `DirectionSafety` (DIR changes only while the
bridge is not driven), `DriveFollowsCommand`, `PendingReversalBrakes`,
`DirectionReportIsHardware`, `StopIsSafe`, `WritesAccepted`, `StaleDriveIsBounded`. None of these
invariants is inductive: what a step may do depends on where in a handler the
process is. `ControlInv` says, for each label `pc`, what the handler has
established so far: during start-up which of period, polarity and enable already
have their values, between `e_zero` and `e_dir` that the duty is zero and a
reversal is pending, and that `latch`, `hwDir` and the line agree wherever the
process can be interrupted. It is preserved by each action (one step each), and
each property follows from it. `TimeInv` does the same for the age of the command:
the node waits with a live command no older than the timeout unless the watchdog
is due, and each label adds the retries already made. The bound is
`max(CmdTimeout + 1, 2R) + 4R` with `R = IoAttempts - 1`: a timeout detected one
tick late, or two handlers' worth of retries before the watchdog runs, and up to
four more accesses before the zero duty is written.

The same module holds the proofs of `Teleop`: `FreshAndTyped`, `NoResumption` and
`InhibitionLasts`. None of the properties is inductive: `Latches` says what each
history variable means for the attributes (motion that lost its authority is
requested and not armed; autonomy is let through only after a state without it; a
button is held only by a live controller, and an overlap that no silence followed is
an inhibition).

**GoalBridge_proofs.** `TypeCorrect`, `InFlightAgrees`, `GoalsAreExclusive`,
`ImplementsOneSlot`, `AnswersAreHeard`, `RouteStopHolds`, `FrontIsConsumed` and
`ShutdownSendsNothing`. For the first four the inductive invariant is type correctness with
`Consistent`. The handlers are compositions of some twenty operators, so the
proof goes by relation: `Asks(s, t)` says that `t` differs from `s` as at most one
new goal request allows, is transitive (`AsksTransitive`), and every operator
that does not free the slot satisfies it, one lemma each. `ClearActive` is the
only operator that frees the slot (`ClearActiveFrees`), and the callbacks that
reach it need a result that ended the goal. Each action then preserves the invariant and
is a step of `GoalSlot` or a stutter.
The other four are about the waypoints and the operator's word, and none of their
properties is inductive: `Steered` adds that a cancel or result request has an active
goal, that a RUNNING queue has nothing but its front's request on the way and nobody
wants that cancelled, that ROUTE mode has no queue for a late answer to go on with,
and that a stopped route does not replay (`run`). The operators are gone through once
more with a second relation: `Passes(s, t)` says that the pending request waits on, is
sent into the free slot, or is dropped because a cancellation is wanted, and nothing
during shutdown. Handlers that end a request go from `Ends`, which a refused send
and a result share, to `EndsWell`.

**KeyboardLink_proofs.** `NewestAccepted`, `RoutesOnce`, `RequestArmsOnce` and
`EscapeEnds`, about sender, path and bridge together. `SerialOrder` is the lemma
behind the first two: numbers less than half of the sequence space apart are told
apart by their remainders, for every even size of the space, though it wraps
between them. `Near` says that all numbers in play are that close (from
`InWindow`), and that the accepted datagram is the newest that arrived;
`RoutesOrdered` orders the commands through queue, path and bridge;
`PressesOrdered` orders the requests and says what a latch that is ready has seen;
`EscapeOrdered` says what the datagrams after Escape ask for. The theorems about the
latch hold on every path, whether it reorders or not: the orders are those of the datagrams
not `Behind` the foremost that arrived, and an overtaken one is what the properties
name. Routes and `NewestWins` speak of one sender (`session = 1`), because an ended
session may be accepted again. The attempt at `EscapeEnds` showed that
the property was false with Space among the keys, which the run had left
out: a burst that is lost wholly ends nothing. `escape.heard` says when it does.

The same module holds the proofs of `CostmapControl`: `TypeCorrect` and
`ActionsStandAlone`. An answer belongs to the running call and says what the layer
was while it ran (`AnswerFits`, `LayerIsSeen`). That calls given up are bounded by what
made them late (`LateIsPaid`) is needed for the type alone; the proof corrected the
bound from the faults to the faults and outages.

**WheelEncoder_proofs.** `LineAndHistorySafe`, `RateSpansNoStop`, `EpochsSeparate` and
`MeasurementsAreTrue`. The reader's part (`Acquired`) lists what each phase has
acquired. The state's part orders time through the edges recorded, queued
and the clock (`InOrder`), ties the last edge and the history to the edges recorded
(`LastIsLast`), and says that an epoch can begin only at rest (`RestIsSaid`). Pruning
is a cut by number of edges, so that one lemma covers it.

**CommandChain_proofs.** `NoOldEffort` and `LearnsFromItself`. The
histories are tied to the adapter's attributes: the age of the command behind an
effort to the age of the effort (`EffortAges`), the echo of the mux to what the adapter
last sent (`EchoIsOwn`, `SelectedIsOwn`), the wheel's spinning to the time
measured for it (`SlipIsTimed`), the gain to the samples used since
(`KiCountsSamples`). The bounds on the numbers of a step are lemmas. The type needs
a largest gain of one at least, which the model now assumes: the proportional gain is
positive and starts at one.

**SpeedEnvelope_proofs.** `StatusIsTrue` and `RotationReachesAll`. `HadIt` says that the
parameter, an answer under way and a value shown are the node's since the question.
`Advancing` is the rotation's measure: the ticks a key has waited, times the keys
asked per tick, plus its place in the rotation never exceed the number of keys. It
holds because the keys asked are those with fewer than `PerTick` idle ones before
them, which is how `Selected` says it.

**Analysis_proofs.** `BagsAreWhatIsLeft`, `ScansKeepTheirReadings` and
`TuningRunsAreTrue`; the module starts with lemmas about quotients, minima,
sequences of sequences and sets arranged by rank. `BagIsWhatIsLeft` is about a recorder
that may end anywhere, so its invariant `BagInv` says of every file, chunk and index
what they hold of the messages written so far, and that nothing is missing from
them all; what the loader makes of the files is a chain of lemmas from one record
up to the sorted result. The other two say something of every input, so their invariants
say what inputs there are (`ScanInput`, `TuningInput`: first statuses, times
one apart, a gain that changes only by a change) and the work is in the lemmas about
the algorithms: `NearestIsKept` and `BearingsHold` from the least multiples around a
bearing, the timeline and the steps from the last change before a state.

**ThrottleResponse_proofs.** `SegmentsOfCommandsAreTrue`, for all commands and all
moments before a run (`SegmentsInput`). `IsPass` is the invariant of the one pass of
`segment_commands`, by induction over the samples read: the pass is at a run that began
where it says, or in a neutral stretch without a gap, and what it has found
are segments; `PassesKeep` says that nothing found is lost, from which follows that
nothing is overlooked. It needs that a gap is no longer than the least neutral stretch
(`GapLimit <= MinNeutral`), as with the constants of the program (0.5 s and 2 s):
with a longer one a state heard within a gap before the run may be older than the
neutral stretch, and is not looked at.

Only model-checked: `SilenceStopsMotor`, `PendingIsServed`, `LatchEnds`,
`PendingStarts`, `StateConverges` and `NothingLingers` (liveness is out of the prover's
reach), and of the safety invariants `PointsAreTrue` and `SeriesAreTrue`: they are about
sums over folds, whose operators the prover cannot take as parameters, and about sorting
and filtering by comparisons, of which its library says nothing.

## 5. Not modelled

- Nav2 and twist_mux: binary packages; their part is external in the models that
  need it.
- Telemetry, battery: periodic reads that are printed or published; no state
  that steps could confuse. IMU: the same, with one counter.
- C++ packages (lidar driver, laser odometry, pure pursuit): vendored or forked
  numerical code.
- Launch files, shell scripts: configuration and batch programs.
- Of the tools: statistics, decoding of messages, reports and command lines.
- Of the goal bridge: markers, progress texts, the echo of the keyboard state.
- In the modelled parts: steering, logging, floating point values beyond what a
  property tells apart, and the parsing of malformed datagrams (they count as lost).

## 6. Plan

The first plan is built: the adapter and its chain, the observer, the GPIO reader,
the recording and the tools have joined the core. In order of weight remain:

1. Proofs: `PointsAreTrue` and `SeriesAreTrue` of the tools.
2. `MotorEncoder`: motor driver and encoder over the two topics between them,
   with DIR changes against the wheel's real motion; it decides whether a queued
   or a false stationary sample can turn DIR under a turning wheel.
3. The F12 preset of the keyboard sender, three commands queued at once.
