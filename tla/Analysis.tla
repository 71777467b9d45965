------------------------------- MODULE Analysis -------------------------------
(***************************************************************************)
(* What is made of recorded data.  A program is chosen and given an input, *)
(* one item at a time, so that every input up to a bound is a state: the   *)
(* recording and its loader, three of the tools, the two scan nodes.       *)
(*                                                                         *)
(* The programs do not influence one another: each is checked from the     *)
(* same beginning.                                                         *)
(***************************************************************************)
EXTENDS Recording

CONSTANTS
    Commands, CommandSteps, MaxCommands,  \* values, distances in time, bound
    Throttles, Speeds,                    \* measured points
    PlateauSpeeds, Gains, MaxEvents,
    Measurements, StepsTaken, MaxSamples, \* speeds measured on a step
    MaxRuns,                              \* repeated throttles
    Drives, Rolls, Spans, MaxDrives,      \* commands, speeds and times of runs
    MaxMoments,                           \* before a run
    Rates, RateSteps, MaxRates, GridSteps,
    MaxReadings                           \* of a scan

CONSTANTS
    ZeroTolerance, Spread, GapLimit, MinNeutral, MinDuration, Settling,
    PlateauGap, MinPlateau, MaxTransition, MinStep, Exclusion, MaxGap, Circle, Tolerance,
    MotionThreshold, MinSamples

Throttle == INSTANCE MeasuredRuns
Pid      == INSTANCE PidRun
Sampled  == INSTANCE Series
Scans    == INSTANCE ScanBins

ASSUME AnalysisAssumption ==
    /\ Throttle!ValidMeasures /\ Pid!ValidLimits /\ Sampled!ValidLimits
    /\ {MaxCommands, MaxEvents, MaxRuns, MaxRates, MaxReadings} \subseteq Nat
    /\ {MaxSamples, MaxDrives, MaxMoments} \subseteq Nat
    /\ Measurements \subseteq Int /\ StepsTaken \subseteq Int \X Int
    /\ Commands \subseteq Int /\ Commands # {} /\ IsFiniteSet(Commands) /\ CommandSteps \subseteq Nat
    /\ None \notin Nat /\ None \notin [from : Nat, to : Nat]
    /\ None \notin {"segments", "target", "groups", "drives", "rest", "response", "pid", "series", "scan"}

VARIABLES program, input

vars == <<recordingVars, program, input>>

Idle == program = None /\ files = <<NewFile>> /\ chunk = <<>> /\ recording

Runs(name) == Idle \/ program = name

\* The next item of one program's input.
Reads(name, item) ==
    /\ program' = name
    /\ input' = Append(input, item)
    /\ UNCHANGED recordingVars

LastTime == IF input = <<>> THEN 0 ELSE Last(input).time

ReadCommand ==
    /\ Runs("segments") /\ Len(input) < MaxCommands
    /\ \E step \in CommandSteps, value \in Commands :
          Reads("segments", [time |-> LastTime + step, value |-> value])

\* Aggregation leaves one point for a throttle.
ReadPoint ==
    /\ Runs("target")
    /\ \E throttle \in Throttles \ {input[i].throttle : i \in DOMAIN input}, speed \in Speeds :
          Reads("target", [throttle |-> throttle, speed |-> speed])

ReadRun ==
    /\ Runs("groups") /\ Len(input) < MaxRuns
    /\ \E throttle \in Throttles : Reads("groups", [throttle |-> throttle])

\* A run that was driven, and what the encoder said of it.
ReadDrive ==
    /\ Runs("drives") /\ Len(input) < MaxDrives
    /\ \E commands \in Drives, roll \in Rolls, span \in Spans :
          LET start == span[1] + IF input = <<>> THEN 0 ELSE Last(input).end
          IN  Reads("drives", [commands |-> commands, speeds |-> roll.speeds, stills |-> roll.stills,
                               start |-> start, analyzed |-> start, end |-> start + span[2]])

\* What is recorded at a moment before a run: a command, the wheel, or both.
ReadMoment ==
    /\ Runs("rest") /\ Len(input) < MaxMoments
    /\ \E command \in {0, Max(Commands), None}, still \in {TRUE, FALSE, None} :
          /\ command # None \/ still # None
          /\ Reads("rest", [time |-> LastTime + 1, value |-> command, still |-> still])

\* The encoder may be heard later than the adapter.
Unmeasured == IF \A i \in DOMAIN input : input[i].measured = None THEN {None} ELSE {}

ReadSample ==
    /\ Runs("response") /\ Len(input) < MaxSamples
    /\ \E measured \in Measurements \cup Unmeasured, free \in BOOLEAN :
          Reads("response", [time |-> LastTime + 1, measured |-> measured, free |-> free])

GainNow == IF input = <<>> THEN Gains ELSE {Last(input).gain}

Event(kind, gain, speed) ==
    /\ Len(input) < MaxEvents
    /\ Reads("pid", [kind |-> kind, gain |-> gain, speed |-> speed, time |-> LastTime + 1])

ReadState ==
    Runs("pid") /\ \E gain \in GainNow, speed \in PlateauSpeeds : Event("state", gain, speed)

\* Only the first status is used.
ReadStatus ==
    /\ Runs("pid") /\ \A i \in DOMAIN input : input[i].kind # "status"
    /\ \E gain \in GainNow : Event("status", gain, None)

ReadChange ==
    Runs("pid") /\ \E gain \in Gains : (input # <<>> => gain \notin GainNow) /\ Event("change", gain, None)

ReadRate ==
    /\ Runs("series") /\ Len(input) < MaxRates
    /\ \E step \in RateSteps, value \in Rates :
          Reads("series", [time |-> LastTime + step, value |-> value])

\* The scan nodes take one scan at a time.
ReadScan ==
    /\ Idle
    /\ \E count, bins \in 2..MaxReadings, first \in 0..2 * MaxReadings :
          first < 2 * bins /\ Reads("scan", [count |-> count, bins |-> bins, first |-> first])

Init == RecordingInit /\ program = None /\ input = <<>>

Next ==
    \/ program = None /\ RecordingNext /\ UNCHANGED <<program, input>>
    \/ ReadCommand \/ ReadPoint \/ ReadRun \/ ReadDrive \/ ReadMoment
    \/ ReadState \/ ReadStatus \/ ReadChange \/ ReadSample
    \/ ReadRate \/ ReadScan

Spec == Init /\ [][Next]_vars

-------------------------------------------------------------------------------
(* The properties, of the input of their program. *)

\* The moments recorded, and a run some time after them: the commands and the wheel.
Followed(pause) ==
    input \o [k \in 1..MinDuration + 1 |->
                [time |-> LastTime + pause + k - 1, value |-> Max(Commands), still |-> FALSE]]

Commanded(moments) == Chosen(moments, {i \in DOMAIN moments : moments[i].value # None})

Heard(moments) == Chosen(moments, {i \in DOMAIN moments : moments[i].still # None})

Wheel(moments) ==
    LET heard == Heard(moments)
    IN  [i \in DOMAIN heard |-> [time |-> heard[i].time, value |-> IF heard[i].still THEN 0 ELSE 2]]

\* The speeds the EKF made of it, up to some time before the end.
Estimated(moments, missing) == SubSeq(Wheel(moments), 1, Len(Wheel(moments)) - missing)

\* The constant commands of every sequence of samples are steady, whole, and know
\* what came before them; and they count if the car was at rest (segment_commands,
\* analyze_samples).
SegmentsAreTrue ==
    /\ program = "segments" =>
          /\ Throttle!SegmentsAreSteady(input)
          /\ Throttle!NothingOverlooked(input)
          /\ Throttle!NeutralIsTrue(input)
    /\ program = "rest" =>
          \A moments \in {Followed(pause) : pause \in 1..GapLimit + 1}, missing \in 0..MinDuration :
             Throttle!RunsStartAtRest(Commanded(moments), Wheel(moments), Heard(moments),
                                      Estimated(moments, missing))

\* The runs that were driven, each with its figures, in either direction or all.
Segments == [k \in DOMAIN input |-> Throttle!Metrics(input[k], input[k].speeds, input[k].stills)]

Directed(runs, forward) ==
    LET order == SelectSeq([k \in DOMAIN runs |-> k], LAMBDA k : Segments[k].forward = forward)
    IN  [k \in DOMAIN order |-> runs[order[k]]]

\* Segments make one point for a throttle, which speaks for those that moved; the
\* dead band and the droop have witnesses; and of measured points every target
\* between their speeds is found (group_segments, aggregate_segments,
\* deadband_summary, pack_droop_pairs, fit_and_target).
PointsAreTrue ==
    /\ program = "groups" => Throttle!GroupsAreApart(input)
    /\ program = "drives" =>
          /\ Throttle!PairsSpanTheSession(Segments)
          /\ \A forward \in BOOLEAN :
                /\ Throttle!PointsSpeakForRuns(Directed(Segments, forward))
                /\ Throttle!DeadbandIsWitnessed(Directed(input, forward), Directed(Segments, forward))
    /\ program = "target" =>
          \A target \in Min(Speeds)..Max(Speeds) : Throttle!TargetIsFound(input, target)

\* Every state of a tuning run counts for the gain that was in force, wherever the
\* gains changed, and the times of a step follow one another (recover_timeline,
\* step_metrics, in_exclusion).  A step may begin off the plateau it leaves.
TuningIsTrue ==
    /\ program = "pid" =>
          /\ Pid!TimelineIsTrue(input)
          /\ Pid!StepsHaveOneGain(input)
          /\ Pid!SteadyIsSettled(input)
    /\ program = "response" => \A step \in StepsTaken :
          \A initial \in {step[1], step[1] + 1, step[1] + 6, None} :
             Pid!ResponseIsOrdered(input, initial, step[1], step[2])

\* Of any series, in every window: integral and path are the sums of their parts,
\* pairs are the nearest there are, and the turning of a yaw the rates add up to,
\* of which the first sample is missing, is what the grid says (integrate_series,
\* positions_in_window, _nearest_index, aligned_bins).
SeriesAreTrue ==
    program = "series" =>
        LET rates == Sampled!Ordered(input)
            windows == 0..LastTime + 1
            yaws == [i \in DOMAIN rates |->
                       [time |-> rates[i].time,
                        value |-> MapThenSumSet(LAMBDA j : rates[j].value, 1..i)]]
        IN  /\ Sampled!IntegralIsAdditive(input, windows)
            /\ Sampled!PathIsAdditive(rates, windows)
            /\ Sampled!PairsAreNearest(rates, [t \in 1..LastTime + 2 |-> [time |-> t]], 1)
            /\ Sampled!TurnIsTrue(rates, Tail(yaws), windows, GridSteps)

\* Every scan keeps its readings and their bearings, rebinned and rotated
\* (rebin_scan, scan_callback).
ScansAreTrue ==
    program = "scan" => \A i \in DOMAIN input :
        /\ Scans!NearestIsKept(input[i].count, input[i].bins)
        /\ Scans!NoReadingLost(input[i].count, input[i].bins)
        /\ Scans!BearingsHold(input[i].count, input[i].bins, input[i].first)
================================================================================
