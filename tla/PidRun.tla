-------------------------------- MODULE PidRun --------------------------------
(***************************************************************************)
(* tools/analyze_pid_run.py: which gains were in force at every moment of  *)
(* a tuning run, and which speed steps can be attributed to one setting.   *)
(*                                                                         *)
(* One gain stands for the three.  A recording is a sequence of events: a  *)
(* status that shows the gain, a change of it, a state of the adapter.     *)
(* Speeds within PLATEAU_TOLERANCE of one another count as the same value. *)
(***************************************************************************)
EXTENDS Integers, SequencesExt, Arrangement

CONSTANTS
    None,
    PlateauGap,     \* between the states of a plateau
    MinPlateau, MaxTransition, MinStep,
    Exclusion       \* STEADY_EXCLUSION_S

ValidLimits == {PlateauGap, MinPlateau, MaxTransition, MinStep, Exclusion} \subseteq Nat

Kind(events, kind) == Chosen(events, {i \in DOMAIN events : events[i].kind = kind})

-------------------------------------------------------------------------------
(* recover_timeline *)

Start(events) == Head(events).time

\* Mutant: the first change counts as the setting the run began with.
FirstChange(events) == Head(Kind(events, "change") \o Kind(events, "status")).gain

\* What the first status shows.
Initial(events) == Head(Kind(events, "status")).gain

Changes(events) == ToSet(Kind(events, "change"))

\* The segments start with the recording and at every change after; a segment is
\* named by its start.
Starts(events) == {Start(events)} \cup {c.time : c \in Changes(events)}

GainFrom(events, start) ==
    IF start = Start(events) THEN Initial(events)
    ELSE (CHOOSE c \in Changes(events) : c.time = start).gain

\* segment_for: the last that starts at the time or before.
SegmentFor(events, time) == Max({s \in Starts(events) : s <= time} \cup {Start(events)})

\* Mutant: the exclusion is one too short.
InExclusionShort(events, time) ==
    \E c \in Changes(events) : c.time <= time /\ time + 1 < c.time + Exclusion

\* in_exclusion
InExclusion(events, time) ==
    \E c \in Changes(events) : c.time <= time /\ time < c.time + Exclusion

-------------------------------------------------------------------------------
(* plateau_runs *)

\* The first state of the run that state i belongs to.
RunOf(states) ==
    LET run[i \in DOMAIN states] ==
          IF i = 1 THEN 1
          ELSE IF \/ states[i].speed # states[run[i - 1]].speed
                  \/ states[i].time - states[i - 1].time > PlateauGap
               THEN i ELSE run[i - 1]
    IN  run

Plateaus(states) ==
    LET run == RunOf(states)
        last(start) == Max({i \in DOMAIN states : run[i] = start})
        long == {start \in ToSet(run) :
                   states[last(start)].time - states[start].time >= MinPlateau}
        order == Arranged(long, <)
    IN  [k \in DOMAIN order |-> [first |-> order[k], last |-> last(order[k])]]

-------------------------------------------------------------------------------
(* step_metrics *)

\* Mutant: only the plateau reached must be of one setting.
WindowOfPlateau(previous, next) == next.first..next.last

\* What is analysed of a step begins behind the plateau it leaves.
Window(previous, next) == previous.last + 1..next.last

Height(states, previous, next) == states[next.first].speed - states[previous.first].speed

IsStep(states, previous, next) ==
    /\ Height(states, previous, next) \notin -MinStep + 1..MinStep - 1
    /\ states[next.first].time - states[previous.last].time <= MaxTransition

Attributable(events, states, previous, next) ==
    Cardinality({SegmentFor(events, states[i].time) : i \in Window(previous, next)}) = 1

\* The later half of the plateau, but for what follows a change too closely.
Steady(events, states, plateau) ==
    LET length == plateau.last - plateau.first + 1
    IN  {i \in plateau.first + length \div 2..plateau.last : ~InExclusion(events, states[i].time)}

Steps(events) ==
    LET states == Kind(events, "state")
        plateaus == Plateaus(states)
    IN  {[left |-> plateaus[k].last, reached |-> plateaus[k + 1].last,
          gain |-> GainFrom(events, SegmentFor(events, states[plateaus[k + 1].last].time)),
          steady |-> Steady(events, states, plateaus[k + 1])] :
            k \in {j \in 1..Len(plateaus) - 1 :
                     /\ IsStep(states, plateaus[j], plateaus[j + 1])
                     /\ Attributable(events, states, plateaus[j], plateaus[j + 1])}}

-------------------------------------------------------------------------------
(* The response to a step: the speed measured on leaving the old plateau, the  *)
(* speed commanded by the new one, and the samples of the window.  Nothing is  *)
(* measured at a state before the first sample of the encoder.                 *)

Distance(a, b) == IF a < b THEN b - a ELSE a - b

\* Mutant: the threshold is crossed upwards.
CrossingUpwards(window, initial, target, percent) ==
    LET crossed == {i \in DOMAIN window :
                      100 * (window[i].measured - initial) >= percent * (target - initial)}
    IN  IF crossed = {} THEN None ELSE window[Min(crossed)].time - Head(window).time

\* first_crossing
FirstCrossing(window, initial, target, percent) ==
    LET direction == IF target >= initial THEN 1 ELSE -1
        crossed == {i \in DOMAIN window :
                      direction * (100 * (window[i].measured - initial)
                                     - percent * (target - initial)) >= 0}
    IN  IF crossed = {} THEN None ELSE window[Min(crossed)].time - Head(window).time

\* Two percent of the target, or of the step down to zero.
Close(sample, target, height) ==
    100 * Distance(sample.measured, target) <= 2 * (IF target # 0 THEN Distance(target, 0) ELSE height)

\* Mutant: the first sample close to the target has settled.
SettlesOnce(window, target, height) ==
    LET close == {i \in DOMAIN window : Close(window[i], target, height)}
    IN  IF close = {} THEN None ELSE window[Min(close)].time - Head(window).time

\* settling_time: every sample from then on is close.
SettlingTime(window, target, height) ==
    LET settled == {i \in DOMAIN window : \A j \in i..Len(window) : Close(window[j], target, height)}
    IN  IF settled = {} THEN None ELSE window[Min(settled)].time - Head(window).time

\* How far the speed went past the target.
Overshoot(window, old, target) ==
    LET extreme == IF target > old THEN Max({s.measured : s \in ToSet(window)})
                                   ELSE Min({s.measured : s \in ToSet(window)})
    IN  Max({0, (IF target > old THEN 1 ELSE -1) * (extreme - target)})

\* The speed was off the old plateau by more than INITIAL_CONDITION_STEP_FRACTION.
PoorInitial(initial, old, target) == 10 * Distance(initial, old) > Distance(target, old)

\* Nothing was measured when the old plateau ended, or at a sample: the comparison
\* with the missing speed raises, and the analysis ends.
Raises(window, initial) == None \in {initial} \cup {s.measured : s \in ToSet(window)}

\* A step is timed only if the adapter was in charge and not at its limit.
Response(window, initial, old, target) ==
  IF Raises(window, initial) THEN None ELSE
    LET timed == /\ ~PoorInitial(initial, old, target)
                 /\ \A s \in ToSet(window) : s.free
        height == Distance(target, old)
    IN  [t63 |-> IF timed THEN FirstCrossing(window, initial, target, 63) ELSE None,
         t90 |-> IF timed THEN FirstCrossing(window, initial, target, 90) ELSE None,
         settling |-> IF timed THEN SettlingTime(window, target, height) ELSE None,
         overshoot |-> Overshoot(window, old, target)]

-------------------------------------------------------------------------------
(* The properties, of any events; a state carries the gain that was in force. *)

\* Once a status has been seen the timeline tells the gain in force at every
\* state, though the changes before the status are applied to a start that knew
\* them already (recover_timeline).
TimelineIsTrue(events) ==
    Kind(events, "status") # <<>> =>
        \A state \in ToSet(Kind(events, "state")) :
            state.time >= Head(Kind(events, "status")).time =>
                GainFrom(events, SegmentFor(events, state.time)) = state.gain

\* A step is attributed to one gain only if every state of it, from the first
\* after the old plateau on, was under that gain (step_metrics).
StepsHaveOneGain(events) ==
    LET states == Kind(events, "state")
    IN  Kind(events, "status") # <<>> => \A step \in Steps(events) :
           \A i \in step.left + 1..step.reached : states[i].time >= Head(Kind(events, "status")).time => states[i].gain = step.gain

\* What counts as steady is of the settled part of one plateau, and no change came
\* shortly before (in_exclusion).
SteadyIsSettled(events) ==
    LET states == Kind(events, "state")
    IN  Kind(events, "status") # <<>> => \A step \in Steps(events) : \A i \in step.steady :
           /\ i \in step.left + 1..step.reached
           /\ \A j \in DOMAIN states : j \in i..Max(step.steady) => states[j].speed = states[i].speed
           /\ \A change \in Changes(events) : change.time \notin states[i].time - Exclusion + 1..states[i].time

\* A speed that reaches nine tenths of the step has reached 63 percent no later,
\* and if the tolerance is no more than a tenth of the step it settles no sooner;
\* and no speed past the target by more than the tolerance is met after it has
\* settled: up or down, to any target of either sign, from wherever the step began.
\* There is no response unless the speed was measured throughout (first_crossing,
\* settling_time, step_metrics, attach_encoder_measurements).
ResponseIsOrdered(window, initial, old, target) ==
    LET response == Response(window, initial, old, target)
        scale == IF target # 0 THEN Distance(target, 0) ELSE Distance(target, old)
        past(sample) == 100 * (IF target > old THEN sample.measured - target
                                               ELSE target - sample.measured) > 2 * scale
    IN  response # None =>
        /\ initial # None /\ \A i \in DOMAIN window : window[i].measured # None
        /\ response.t90 # None => response.t63 # None /\ response.t63 <= response.t90
        /\ response.settling # None /\ scale <= 5 * Distance(target, initial)
              => response.t90 # None /\ response.t90 <= response.settling
        /\ response.settling # None =>
              \A i \in DOMAIN window :
                 past(window[i]) => window[i].time - Head(window).time < response.settling
        /\ (\E i \in DOMAIN window : past(window[i])) => 100 * response.overshoot > 2 * scale
================================================================================
