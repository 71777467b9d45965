---------------------------- MODULE MeasuredRuns ----------------------------
(***************************************************************************)
(* tools/analyze_throttle_response.py: from the segments to the figures    *)
(* reported of them.  Which segments count, whether the car moved in them, *)
(* and what is concluded about the dead band, the points of a direction    *)
(* and the droop of the battery.                                           *)
(*                                                                         *)
(* The speeds are the encoder's.  Of the EKF's, the estimates, only the    *)
(* number counts: too few reject a segment; that they are compared with    *)
(* the encoder's for a warning is left out.  A speed is a multiple of a    *)
(* unit that the number of samples divides, so that a mean is exact.  A    *)
(* throttle is in half units of a command.                                 *)
(***************************************************************************)
EXTENDS ThrottleResponse

CONSTANTS MotionThreshold, MinSamples

ValidMeasures == ValidLimits /\ {MotionThreshold, MinSamples} \subseteq Nat \ {0}

SamplesBetween(samples, start, end) ==
    Chosen(samples, {i \in DOMAIN samples : start <= samples[i].time /\ samples[i].time <= end})

Total(values) == MapThenSumSet(LAMBDA i : values[i], DOMAIN values)

Magnitude(value) == IF value < 0 THEN -value ELSE value

-------------------------------------------------------------------------------
(* segment_metrics: of a run, with the speeds and states of its analysed part  *)

Median(run) == TwiceMedian(SortSeq(run.commands, <))

\* The sum of the speeds in the direction of the command.
Toward(run, speeds) == (IF Median(run) > 0 THEN 1 ELSE -1) * Total(speeds)

Rolled(speeds) == Total([i \in DOMAIN speeds |-> Magnitude(speeds[i])])

\* It rolled, to and fro.
Ambiguous(run, speeds) ==
    /\ Rolled(speeds) >= MotionThreshold * Len(speeds)
    /\ Magnitude(Toward(run, speeds)) < MotionThreshold * Len(speeds)

\* Mutant: the direction is not looked at.
SustainedEitherWay(run, speeds, stills) ==
    /\ Rolled(speeds) >= MotionThreshold * Len(speeds)
    /\ 5 * Cardinality({i \in DOMAIN stills : stills[i]}) <= Len(stills)

Sustained(run, speeds, stills) ==
    /\ 5 * Cardinality({i \in DOMAIN stills : stills[i]}) <= Len(stills)
    /\ ~Ambiguous(run, speeds)
    /\ Toward(run, speeds) >= MotionThreshold * Len(speeds)

Metrics(run, speeds, stills) ==
    LET sustained == Sustained(run, speeds, stills)
    IN  [throttle  |-> Magnitude(Median(run)),
         forward   |-> Median(run) > 0,
         start     |-> run.start,
         end       |-> run.end,
         duration  |-> run.end - run.analyzed,
         speed     |-> Rolled(speeds) \div Len(speeds),
         sustained |-> sustained,
         deadband  |-> ~sustained /\ Toward(run, speeds) >= 0 /\ ~Ambiguous(run, speeds)]

-------------------------------------------------------------------------------
(* analyze_samples *)

\* The first of the latest samples.
Latest(samples) ==
    samples[Min({i \in DOMAIN samples : \A j \in DOMAIN samples : samples[j].time <= samples[i].time})]

\* Mutant: a state of any age tells that the car stood.
AtRestOnce(segment, states) ==
    LET heard == SamplesBetween(states, segment.before.from, segment.before.to)
    IN  heard # <<>> /\ Latest(heard).still

\* The last state heard while the command was neutral tells that the car stood.
AtRest(segment, states) ==
    LET heard == SamplesBetween(states, segment.before.from, segment.before.to)
    IN  /\ heard # <<>> /\ Latest(heard).still
        /\ segment.start - Latest(heard).time <= GapLimit

Analyzed(samples, segment) == SamplesBetween(samples, segment.analyzed, segment.end)

Enough(samples, segment) == Len(Analyzed(samples, segment)) >= MinSamples

\* Mutant: a run the EKF fell silent in counts.
RecordedByWheel(speeds, states, estimates, segment) ==
    Enough(speeds, segment) /\ Enough(states, segment)

\* Enough of the encoder's speeds, of its states, and of the EKF's estimates.
Recorded(speeds, states, estimates, segment) ==
    Enough(speeds, segment) /\ Enough(states, segment) /\ Enough(estimates, segment)

AnalyzeSamples(commands, speeds, states, estimates) ==
    LET counts(segment) == /\ segment.preceded /\ AtRest(segment, states)
                           /\ Recorded(speeds, states, estimates, segment)
        segments == SegmentCommands(commands)
        counted == Chosen(segments, {k \in DOMAIN segments : counts(segments[k])})
        values(segment) == [i \in DOMAIN Analyzed(speeds, segment) |-> Analyzed(speeds, segment)[i].value]
        stills(segment) == [i \in DOMAIN Analyzed(states, segment) |-> Analyzed(states, segment)[i].still]
    IN  [k \in DOMAIN counted |-> Metrics(counted[k], values(counted[k]), stills(counted[k]))]

-------------------------------------------------------------------------------
(* aggregate_segments, minimum_sustainable_speed, deadband_summary, of one     *)
(* direction                                                                   *)

Moved(segments) == SelectSeq(segments, LAMBDA s : s.sustained)

\* Mutant: the runs that stood dilute the point.
WholeGroup(group) == group

\* Runs of sustained motion speak for a group, if there are any.
Cohort(group) == IF Moved(group) # <<>> THEN Moved(group) ELSE group

\* The speed, weighted by duration, is kept as a fraction.
Aggregated(group) ==
    LET cohort == Cohort(group)
    IN  [twiceThrottle |-> TwiceThrottle(group),
         distance  |-> Total([i \in DOMAIN cohort |-> cohort[i].speed * cohort[i].duration]),
         duration  |-> Total([i \in DOMAIN cohort |-> cohort[i].duration]),
         sustained |-> Moved(group) # <<>>]

AggregateSegments(segments) ==
    LET groups == GroupSegments(segments) IN [g \in DOMAIN groups |-> Aggregated(groups[g])]

\* Not a number if nothing moved.
MinimumSustainable(segments) ==
    IF Moved(segments) = <<>> THEN None ELSE Min({s.speed : s \in ToSet(Moved(segments))})

\* Mutant: whatever did not move counts as standing.
CountedAll(segments) == ToSet(segments)

\* raw_deadband_points
Counted(segments) == {s \in ToSet(segments) : s.deadband \/ s.sustained}

Deadband(segments) ==
    LET standing == {s.throttle : s \in {t \in Counted(segments) : ~t.sustained}}
        moving == {s.throttle : s \in {t \in Counted(segments) : t.sustained}}
    IN  [standing |-> IF standing = {} THEN None ELSE Max(standing),
         moving   |-> IF moving = {} THEN None ELSE Min(moving)]

-------------------------------------------------------------------------------
(* pack_droop_pairs: the first and the last run at one of the three lowest     *)
(* throttles repeated in a direction, early and late in the session.           *)

\* Mutant: the runs stay in the order of their throttles.
InOrderOfThrottle(group) == group

InOrderOfTime(group) == SortSeq(group, LAMBDA s, t : s.start < t.start)

Lowest(groups) == SubSeq(groups, 1, Min({3, Len(groups)}))

Repeated(segments, forward) ==
    SelectSeq(GroupSegments(SelectSeq(Moved(segments), LAMBDA s : s.forward = forward)),
              LAMBDA group : Len(group) >= 2)

PackDroopPairs(segments) ==
    LET from == Min({s.start : s \in ToSet(segments)})
        span == Max({s.end : s \in ToSet(segments)}) - from
        pair(group) == [first |-> Head(InOrderOfTime(group)), last |-> Last(InOrderOfTime(group))]
        groups == UNION {ToSet(Lowest(Repeated(segments, forward))) : forward \in BOOLEAN}
    IN  {p \in {pair(group) : group \in groups} :
            span > 0 => /\ 10 * (p.first.start - from) <= 4 * span
                        /\ 10 * (p.last.start - from) >= 6 * span}

-------------------------------------------------------------------------------
(* The properties, of any samples and runs. *)

Suffice(samples, segment) ==
    Cardinality({i \in DOMAIN samples : /\ segment.analyzed <= samples[i].time
                                        /\ samples[i].time <= segment.end}) >= MinSamples

\* A segment counts exactly if the car was at rest before it: the command was
\* neutral for long enough and right up to its start, with no gap, the state heard
\* last while it was neutral says the car stood, and that is no gap ago either; and
\* wheel and EKF were both recorded often enough after settling (analyze_samples,
\* segment_metrics).
RunsStartAtRest(commands, speeds, states, estimates) ==
    LET all == Deduplicated(commands)
        segments == ToSet(SegmentCommands(commands))
        starts == {run.start : run \in ToSet(AnalyzeSamples(commands, speeds, states, estimates))}
        enough(segment) == \A samples \in {speeds, states, estimates} : Suffice(samples, segment)
    IN  /\ \A time \in starts : \E segment \in segments : segment.start = time /\ enough(segment)
        /\ \A segment \in segments :
             LET n == CHOOSE i \in DOMAIN all : all[i].time = segment.start
                 recent == {s \in ToSet(states) : n > 1 /\ s.time <= all[n - 1].time
                                                   /\ segment.start - s.time <= GapLimit}
             IN  /\ segment.start \in starts =>
                       /\ n > 1 /\ Neutral(all[n - 1]) /\ segment.start - all[n - 1].time <= GapLimit
                       /\ \E s \in recent : s.still /\ \A t \in recent : t.time > s.time => t.still
                 /\ segment.preceded /\ recent # {} /\ (\A s \in recent : s.still) /\ enough(segment)
                       => segment.start \in starts

\* The point that stands for repeated runs has moved if one of them has, it is no
\* slower than the minimum sustainable speed, which is itself enough to be called
\* motion, and no faster than the fastest of them (aggregate_segments,
\* minimum_sustainable_speed).
PointsSpeakForRuns(segments) ==
    LET groups == GroupSegments(segments)
        points == AggregateSegments(segments)
    IN  \A g \in DOMAIN points :
          /\ points[g].sustained <=> \E s \in ToSet(groups[g]) : s.sustained
          /\ points[g].sustained =>
                /\ MinimumSustainable(segments) >= MotionThreshold
                /\ points[g].distance >= MinimumSustainable(segments) * points[g].duration
                /\ \E s \in ToSet(groups[g]) :
                      s.sustained /\ points[g].distance <= s.speed * points[g].duration

\* A run in which the car rolled back, or to and fro, bounds no dead band: the
\* throttle below was seen to leave it standing or twitching, the one above to
\* drive it the way commanded (segment_metrics, direction_summary).
DeadbandIsWitnessed(runs, segments) ==
    LET deadband == Deadband(segments)
        driven(k) == Toward(runs[k], runs[k].speeds) >= MotionThreshold * Len(runs[k].speeds)
        back(k) == Toward(runs[k], runs[k].speeds) < 0
        twitched(k) == Ambiguous(runs[k], runs[k].speeds)
        at(throttle) == {k \in DOMAIN runs : segments[k].throttle = throttle}
    IN  /\ deadband.moving # None => \E k \in at(deadband.moving) : driven(k)
        /\ deadband.standing # None =>
              \E k \in at(deadband.standing) : ~back(k) /\ ~twitched(k) /\ ~segments[k].sustained
        /\ \A k \in DOMAIN runs :
              driven(k) /\ TRUE \notin ToSet(runs[k].stills)
                  => deadband.moving # None /\ deadband.moving <= segments[k].throttle

\* The two runs of a droop pair were driven the same way, a fifth of the session
\* or more lies between them, and no run at their throttle was earlier or later
\* (pack_droop_pairs).
PairsSpanTheSession(segments) ==
    segments # <<>> =>
      \A pair \in PackDroopPairs(segments) :
        LET span == Max({s.end : s \in ToSet(segments)}) - Min({s.start : s \in ToSet(segments)})
        IN  /\ pair.first.forward = pair.last.forward
            /\ 5 * (pair.last.start - pair.first.start) >= span
            /\ \A s \in ToSet(segments) :
                  s.sustained /\ s.forward = pair.first.forward
                    /\ s.throttle \in {pair.first.throttle, pair.last.throttle}
                  => s.start \in pair.first.start..pair.last.start
===============================================================================
