--------------------------- MODULE ThrottleResponse ---------------------------
(***************************************************************************)
(* tools/analyze_throttle_response.py: the constant commands of a          *)
(* recording, and the throttle read off the measured points for a target   *)
(* speed.                                                                  *)
(*                                                                         *)
(* A sample is a time and a value, in the order received.                  *)
(***************************************************************************)
EXTENDS Integers, SequencesExt, Arrangement

CONSTANTS
    None,
    ZeroTolerance, Spread,  \* zero_tolerance, twice command_tolerance
    GapLimit, MinNeutral, MinDuration, Settling,
    Tolerance               \* of segments repeated at one throttle

ValidLimits ==
    /\ {ZeroTolerance, Spread, GapLimit, MinNeutral, MinDuration, Settling, Tolerance} \subseteq Nat
    /\ GapLimit <= MinNeutral

\* In the order of time; of two samples of one time the later received counts.
Deduplicated(samples) ==
    LET lastOfItsTime(i) == \A j \in i + 1..Len(samples) : samples[j].time # samples[i].time
        earlier(i, j) == samples[i].time < samples[j].time
        order == Arranged({i \in DOMAIN samples : lastOfItsTime(i)}, earlier)
    IN  [k \in DOMAIN order |-> samples[order[k]]]

Sign(value) == IF value > ZeroTolerance THEN 1 ELSE IF value < -ZeroTolerance THEN -1 ELSE 0

Neutral(sample) == Sign(sample.value) = 0

-------------------------------------------------------------------------------
(* segment_commands: one pass over the samples.  A pass holds the run being    *)
(* read, the neutral stretch before it and whether that was long enough, the   *)
(* neutral stretch being read, and the segments found.                         *)

FirstPass == [run |-> <<>>, before |-> None, preceded |-> FALSE, neutral |-> None, found |-> <<>>]

\* Mutant: a run of just the minimum duration is dropped.
ClosedIfLonger(pass) ==
    LET start == Head(pass.run).time
        end == Last(pass.run).time
    IN  IF pass.run # <<>> /\ end - start > MinDuration /\ start + Settling < end
        THEN Append(pass.found, [start |-> start, end |-> end, analyzed |-> start + Settling,
                                 commands |-> [i \in DOMAIN pass.run |-> pass.run[i].value],
                                 before |-> pass.before, preceded |-> pass.preceded])
        ELSE pass.found

\* close()
Closed(pass) ==
    LET start == Head(pass.run).time
        end == Last(pass.run).time
    IN  IF pass.run # <<>> /\ end - start >= MinDuration /\ start + Settling < end
        THEN Append(pass.found, [start |-> start, end |-> end, analyzed |-> start + Settling,
                                 commands |-> [i \in DOMAIN pass.run |-> pass.run[i].value],
                                 before |-> pass.before, preceded |-> pass.preceded])
        ELSE pass.found

\* Mutant: a sample is compared with the one before it only.
BreaksFromLast(run, sample) ==
    \/ sample.time - Last(run).time > GapLimit
    \/ Sign(sample.value) # Sign(Head(run).value)
    \/ sample.value - Last(run).value \notin -Spread..Spread

\* The samples of a run are of one sign, that of their median.
Breaks(run, sample) ==
    \/ sample.time - Last(run).time > GapLimit
    \/ Sign(sample.value) # Sign(Head(run).value)
    \/ \E i \in DOMAIN run : sample.value - run[i].value \notin -Spread..Spread

\* Mutant: a gap does not interrupt the neutral stretch.
StretchesOver(neutral, sample) ==
    [from |-> IF neutral = None THEN sample.time ELSE neutral.from, to |-> sample.time]

Stretched(neutral, sample) ==
    [from |-> IF neutral = None \/ sample.time - neutral.to > GapLimit THEN sample.time ELSE neutral.from,
     to |-> sample.time]

OnNeutral(pass, sample) ==
    [pass EXCEPT !.found = Closed(pass), !.run = <<>>, !.neutral = Stretched(@, sample)]

OnFirst(pass, sample) ==
    [pass EXCEPT !.run = <<sample>>, !.neutral = None, !.before = pass.neutral,
                 !.preceded = pass.neutral # None /\ pass.neutral.to - pass.neutral.from >= MinNeutral]

OnBreak(pass, sample) ==
    [pass EXCEPT !.found = Closed(pass), !.run = <<sample>>, !.before = None, !.preceded = FALSE]

OnSample(pass, sample) ==
    IF Neutral(sample) THEN OnNeutral(pass, sample)
    ELSE IF pass.run = <<>> THEN OnFirst(pass, sample)
    ELSE IF Breaks(pass.run, sample) THEN OnBreak(pass, sample)
    ELSE [pass EXCEPT !.run = Append(@, sample)]

\* The pass after each number of samples.
Passes(all) ==
    LET pass[n \in 0..Len(all)] == IF n = 0 THEN FirstPass ELSE OnSample(pass[n - 1], all[n])
    IN  pass

SegmentCommands(samples) ==
    LET all == Deduplicated(samples) IN Closed(Passes(all)[Len(all)])

-------------------------------------------------------------------------------
(* group_segments: repeated segments become one point.  A group is its         *)
(* segments, in the order of their throttles, which are magnitudes.            *)

\* statistics.median of sorted values, doubled to stay whole.
TwiceMedian(values) == values[(Len(values) + 1) \div 2] + values[Len(values) \div 2 + 1]

\* representative_throttle, doubled
TwiceThrottle(group) == TwiceMedian([i \in DOMAIN group |-> group[i].throttle])

\* Mutant: a group stays where its first segment was, and takes in nothing as far
\* away as the tolerance.
NearFirst(group, segment) ==
    2 * segment.throttle - 2 * Head(group).throttle \in -2 * Tolerance + 1..2 * Tolerance - 1

Near(group, segment) ==
    2 * segment.throttle - TwiceThrottle(group) \in -2 * Tolerance..2 * Tolerance

OnSegment(groups, segment) ==
    LET near == {g \in DOMAIN groups : Near(groups[g], segment)}
    IN  IF near = {} THEN Append(groups, <<segment>>)
        ELSE [groups EXCEPT ![Min(near)] = Append(@, segment)]

ByThrottle(segments) == SortSeq(segments, LAMBDA s, t : s.throttle < t.throttle)

GroupSegments(segments) == FoldLeft(OnSegment, <<>>, ByThrottle(segments))

-------------------------------------------------------------------------------
(* fit_and_target.  A point is a throttle and the speed measured at it; only   *)
(* points of sustained motion are given.                                       *)

Moving(points) == SetToSortSeq(ToSet(points), LAMBDA p, q : p.throttle < q.throttle)

Exact(points, target) == {p \in ToSet(points) : p.speed = target}

\* Mutant: the speed is taken to rise with the throttle.
StraddlesRising(lower, upper, target) == lower.speed < target /\ target < upper.speed

Straddles(lower, upper, target) ==
    Min({lower.speed, upper.speed}) < target /\ target < Max({lower.speed, upper.speed})

Brackets(moving, target) ==
    {i \in 1..Len(moving) - 1 : Straddles(moving[i], moving[i + 1], target)}

\* An estimate is kept as a fraction: no value of it is rounded.
InterpolateInverse(lower, upper, target) ==
    [numerator   |-> lower.throttle * (upper.speed - lower.speed)
                       + (target - lower.speed) * (upper.throttle - lower.throttle),
     denominator |-> upper.speed - lower.speed,
     bracket     |-> {lower.throttle, upper.throttle}]

\* statistics.median
Middle(points) ==
    LET throttles == SetToSortSeq({p.throttle : p \in points}, <)
        n == Len(throttles)
    IN  [numerator |-> throttles[(n + 1) \div 2] + throttles[n \div 2 + 1], denominator |-> 2,
         bracket |-> {Head(throttles), Last(throttles)}]

Target(points, target) ==
    LET moving == Moving(points)
        speeds == {p.speed : p \in ToSet(points)}
        brackets == Brackets(moving, target)
    IN  IF points = <<>> THEN [status |-> "unavailable"]
        ELSE IF target < Min(speeds) \/ target > Max(speeds)
          THEN [status |-> "outside_measured_moving_range"]
        ELSE IF Exact(points, target) # {}
          THEN [status |-> "interpolated", estimate |-> Middle(Exact(points, target))]
        ELSE IF brackets = {} THEN [status |-> "non_monotonic_unbracketed"]
        ELSE LET i == Min(brackets)
             IN  [status |-> "interpolated",
                  estimate |-> InterpolateInverse(moving[i], moving[i + 1], target)]

-------------------------------------------------------------------------------
(* The properties, of any samples and points. *)

\* A segment is steady from its first to its last sample: no neutral sample, no
\* gap, no two values farther apart than the tolerance, and something is left
\* when it has settled (segment_commands).
SegmentsAreSteady(samples) ==
    LET all == Deduplicated(samples)
    IN  \A segment \in ToSet(SegmentCommands(samples)) :
          LET inside == {i \in DOMAIN all : segment.start <= all[i].time /\ all[i].time <= segment.end}
          IN  /\ segment.end - segment.start >= MinDuration
              /\ segment.start < segment.analyzed + 1 /\ segment.analyzed < segment.end
              /\ \A i, j \in inside :
                    /\ ~Neutral(all[i])
                    /\ all[i].value - all[j].value \in -Spread..Spread
                    /\ j = i + 1 => all[j].time - all[i].time <= GapLimit

\* A steady run with neutral samples, or nothing, on either side is found whole
\* (segment_commands).
NothingOverlooked(samples) ==
    LET all == Deduplicated(samples)
        ends == DOMAIN all \cup {0, Len(all) + 1}
    IN  \A before, after \in ends :
          (/\ before + 1 < after
           /\ \A i \in {before, after} \cap DOMAIN all : Neutral(all[i])
           /\ \A i, j \in before + 1..after - 1 :
                 /\ ~Neutral(all[i]) /\ Sign(all[i].value) = Sign(all[j].value)
                 /\ all[i].value - all[j].value \in -Spread..Spread
                 /\ j = i + 1 => all[j].time - all[i].time <= GapLimit
           /\ all[after - 1].time - all[before + 1].time >= Max({MinDuration, Settling + 1}))
          => \E segment \in ToSet(SegmentCommands(samples)) :
                segment.start = all[before + 1].time /\ segment.end = all[after - 1].time

\* A segment is called preceded by zero exactly if neutral samples without a gap
\* span the minimum right before its first sample (current_preceded_by_zero).
NeutralIsTrue(samples) ==
    LET all == Deduplicated(samples)
    IN  \A segment \in ToSet(SegmentCommands(samples)) :
          segment.preceded <=>
             \E first, last \in DOMAIN all :
                /\ last + 1 \in DOMAIN all /\ all[last + 1].time = segment.start
                /\ first <= last /\ all[last].time - all[first].time >= MinNeutral
                /\ \A i \in first..last : Neutral(all[i])
                /\ \A i \in first..last - 1 : all[i + 1].time - all[i].time <= GapLimit

\* Every segment belongs to one point, and two points are farther apart than the
\* tolerance, though a group moves with every segment it takes in and may reach
\* farther than it (group_segments).
GroupsAreApart(segments) ==
    LET groups == GroupSegments(segments)
    IN  /\ ByThrottle(segments) = FlattenSeq(groups)
        /\ \A g, h \in DOMAIN groups :
              g < h => TwiceThrottle(groups[h]) - TwiceThrottle(groups[g]) > 2 * Tolerance

\* A target between two measured speeds is always found, whether the speed rises
\* or falls with the throttle, and the estimate lies inside its bracket: there is
\* nothing the status non_monotonic_unbracketed could be about (fit_and_target).
TargetIsFound(points, target) ==
    LET result == Target(points, target)
        speeds == {p.speed : p \in ToSet(points)}
    IN  (speeds # {} /\ Min(speeds) <= target /\ target <= Max(speeds)) =>
          /\ result.status = "interpolated"
          /\ LET e == result.estimate
                 sign == IF e.denominator < 0 THEN -1 ELSE 1
             IN  /\ Min(e.bracket) * e.denominator * sign <= e.numerator * sign
                 /\ e.numerator * sign <= Max(e.bracket) * e.denominator * sign
================================================================================
