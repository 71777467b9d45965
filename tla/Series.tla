-------------------------------- MODULE Series --------------------------------
(***************************************************************************)
(* Time series of a recording: the turning rates compared by               *)
(* tools/analyze_yaw_cross_validation.py, the positions measured by        *)
(* tools/analyze_localization_bag.py, the speeds paired by bag_analyzer.   *)
(*                                                                         *)
(* A sample is a time and a value, in the order received; a position is    *)
(* taken along one axis.  Values are multiples of a unit that every        *)
(* interval divides, so that interpolation is exact.                       *)
(***************************************************************************)
EXTENDS Integers, SequencesExt

CONSTANTS
    None,
    MaxGap,  \* max_gap_ns
    Circle   \* a full turn, in the unit of the values

ValidLimits == MaxGap \in Nat \ {0} /\ Circle \in Nat \ {0} /\ Circle % 2 = 0

\* deduplicate_samples: by time, the last received of each.
Ordered(samples) ==
    LET lastOfItsTime(i) == \A j \in i + 1..Len(samples) : samples[j].time # samples[i].time
        order == SortSeq(SelectSeq([i \in DOMAIN samples |-> i], lastOfItsTime),
                         LAMBDA i, j : samples[i].time < samples[j].time)
    IN  [k \in DOMAIN order |-> samples[order[k]]]

\* The value at a time between two neighbouring samples.
Between(previous, current, time) ==
    previous.value + ((time - previous.time) * (current.value - previous.value))
                        \div (current.time - previous.time)

\* interpolate_sample, interpolate_position: exact on a sample, nothing outside
\* the series or over a gap, if one is given.
Interpolated(series, time, gap) ==
    LET next == {i \in DOMAIN series : series[i].time >= time}
        i == Min(next)
    IN  IF next = {} THEN None
        ELSE IF series[i].time = time THEN series[i].value
        ELSE IF i = 1 THEN None
        ELSE IF gap # None /\ series[i].time - series[i - 1].time > gap THEN None
        ELSE Between(series[i - 1], series[i], time)

-------------------------------------------------------------------------------
(* integrate_series *)

\* The interval from sample i to the next, clipped to the window, and its area.
Left(series, i, start) == Max({start, series[i].time})
Right(series, i, end)  == Min({end, series[i + 1].time})

\* Mutant: a clipped interval is integrated as if it were whole.
AreaUnclipped(series, left, right) ==
    LET i == Max({j \in DOMAIN series : series[j].time <= left})
    IN  ((series[i].value + series[i + 1].value) * (right - left)) \div 2

Area(series, left, right) ==
    ((Interpolated(series, left, MaxGap) + Interpolated(series, right, MaxGap)) * (right - left)) \div 2

Clipped(series, start, end) ==
    {i \in 1..Len(series) - 1 : Left(series, i, start) < Right(series, i, end)}

Gap(series, i) == series[i + 1].time - series[i].time > MaxGap

Integrated(samples, start, end) ==
    LET series == Ordered(samples)
        valid == {i \in Clipped(series, start, end) : ~Gap(series, i)}
    IN  [total |-> MapThenSumSet(LAMBDA i :
                     Area(series, Left(series, i, start), Right(series, i, end)), valid),
         valid |-> MapThenSumSet(LAMBDA i :
                     Right(series, i, end) - Left(series, i, start), valid),
         gaps  |-> Cardinality({i \in Clipped(series, start, end) : Gap(series, i)})]

-------------------------------------------------------------------------------
(* aligned_bins: the turning of the map against the turning rates, on a grid.  *)
(* One rate stands for the three; the bins, which split the sums by the rate,  *)
(* are left out.                                                               *)

Wrapped(angle) == ((angle + Circle \div 2) % Circle) - Circle \div 2

\* Mutant: the angles stay as they are.
StillWrapped(angles) == angles

\* unwrap_angles
Unwrapped(angles) ==
    LET unwrapped[i \in DOMAIN angles] ==
          IF i = 1 THEN angles[1] ELSE unwrapped[i - 1] + Wrapped(angles[i] - unwrapped[i - 1])
    IN  unwrapped

\* prepare_transform_samples
Prepared(samples) ==
    LET series == Ordered(samples)
        angles == Unwrapped([i \in DOMAIN series |-> series[i].value])
    IN  [i \in DOMAIN series |-> [series[i] EXCEPT !.value = angles[i]]]

\* build_grid: the last interval may be shorter.
Grid(start, end, step) ==
    [k \in 1..(end - start + step - 1) \div step + 1 |-> Min({start + (k - 1) * step, end})]

\* What became of the intervals of the grid: without a rate, excluded, or complete.
\* Yaw is unwrapped once more, from one known time to the next.
AlignedBins(rates, yaws, start, end, step) ==
    LET grid == Grid(start, end, step)
        known(series, i) == Interpolated(series, grid[i], MaxGap) # None
        rated == {i \in 1..Len(grid) - 1 : known(rates, i) /\ known(rates, i + 1)}
        complete == {i \in rated : known(yaws, i) /\ known(yaws, i + 1)}
        length(i) == grid[i + 1] - grid[i]
        turn(i) == Wrapped(Interpolated(yaws, grid[i + 1], MaxGap) - Interpolated(yaws, grid[i], MaxGap))
    IN  [complete  |-> {grid[i] : i \in complete},
         effective |-> MapThenSumSet(length, complete),
         excluded  |-> MapThenSumSet(length, rated \ complete),
         turn      |-> MapThenSumSet(turn, complete)]

-------------------------------------------------------------------------------
(* positions_in_window, path_length *)

\* Mutant: the window has no points of its own at its ends.
InsideOnly(positions, start, end) ==
    SelectSeq(positions, LAMBDA p : start <= p.time /\ p.time <= end)

\* The positions inside, and one at either end where it can be interpolated.
PositionsInWindow(positions, start, end) ==
    LET inside == SelectSeq(positions, LAMBDA p : start <= p.time /\ p.time <= end)
        edge(time) ==
            LET value == Interpolated(positions, time, None)
            IN  IF value = None \/ \E i \in DOMAIN inside : inside[i].time = time
                THEN <<>> ELSE <<[time |-> time, value |-> value]>>
    IN  edge(start) \o inside \o IF end = start THEN <<>> ELSE edge(end)

PathLength(positions) ==
    MapThenSumSet(LAMBDA i : LET step == positions[i + 1].value - positions[i].value
                             IN  IF step < 0 THEN -step ELSE step,
                  1..Len(positions) - 1)

-------------------------------------------------------------------------------
(* _nearest_index, _aligned_wheel_samples *)

Apart(p, q) == IF p.time < q.time THEN q.time - p.time ELSE p.time - q.time

\* Mutant: the sample at or after the time is taken.
NextIndex(series, sample) ==
    LET later == {i \in DOMAIN series : series[i].time >= sample.time}
    IN  IF later = {} THEN Len(series) ELSE Min(later)

\* Of the samples around the time the nearer, the earlier of two equally near.
NearestIndex(series, sample) ==
    LET earlier == {i \in DOMAIN series : series[i].time < sample.time}
        index == Cardinality(earlier) + 1
        candidates == {index - 1, index} \cap DOMAIN series
        apart == Min({Apart(series[i], sample) : i \in candidates})
    IN  Min({i \in candidates : Apart(series[i], sample) = apart})

Aligned(series, samples, tolerance) ==
    {<<i, NearestIndex(series, samples[i])>> :
        i \in {j \in DOMAIN samples :
                 Apart(series[NearestIndex(series, samples[j])], samples[j]) <= tolerance}}

-------------------------------------------------------------------------------
(* The properties, of any samples. *)

\* The integral is the area under the interpolated samples: over one unit of time
\* it is the mean of the ends, and over two adjoining windows it is the sum of
\* theirs, wherever they meet: inside an interval, on a sample or in a gap.  So is
\* the time accounted for (integrate_series).
IntegralIsAdditive(samples, times) ==
    \A start, middle, end \in times :
        start <= middle /\ middle <= end =>
            LET whole == Integrated(samples, start, end)
                first == Integrated(samples, start, middle)
                second == Integrated(samples, middle, end)
                value(t) == Interpolated(Ordered(samples), t, MaxGap)
            IN  /\ whole.total = first.total + second.total
                /\ end = start + 1 /\ whole.valid = 1 => 2 * whole.total = value(start) + value(end)
                /\ whole.valid = first.valid + second.valid
                /\ whole.valid <= end - start
                /\ whole.gaps = 0 /\ None \notin {value(start), value(end)}
                   => whole.valid = end - start

\* The turn summed up is the true one over the intervals that count, however often
\* the recorded angle wrapped, as long as the map turns less than half a circle
\* from one sample and from one moment of the grid to the next; and every interval
\* with a rate is either effective or excluded (unwrap_angles, aligned_bins).
TurnIsTrue(rates, true, times, steps) ==
    LET recorded == [i \in DOMAIN true |-> [true[i] EXCEPT !.value = Wrapped(@)]]
        yaw(t) == Interpolated(true, t, MaxGap)
    IN  \A start, end \in times, step \in steps : start < end =>
          LET sums == AlignedBins(rates, Prepared(recorded), start, end, step)
              next(t) == Min({t + step, end})
          IN  /\ sums.turn = MapThenSumSet(LAMBDA t : yaw(next(t)) - yaw(t), sums.complete)
              /\ sums.effective + sums.excluded =
                    Cardinality({t \in start..end - 1 :
                        LET from == t - ((t - start) % step)
                        IN  None \notin {Interpolated(rates, from, MaxGap),
                                         Interpolated(rates, next(from), MaxGap)}})

\* The path inside two adjoining windows has the length of the path inside both
\* together (positions_in_window, path_length).
PathIsAdditive(positions, times) ==
    \A start, middle, end \in times :
        start <= middle /\ middle <= end =>
            PathLength(PositionsInWindow(positions, start, end)) =
                PathLength(PositionsInWindow(positions, start, middle))
                    + PathLength(PositionsInWindow(positions, middle, end))

\* A sample is paired with one no other is nearer to, and is left out only if all
\* are too far (_nearest_index looks at two neighbours only).
PairsAreNearest(series, samples, tolerance) ==
    series # <<>> =>
        /\ \A pair \in Aligned(series, samples, tolerance) : \A i \in DOMAIN series :
              Apart(series[pair[2]], samples[pair[1]]) <= Apart(series[i], samples[pair[1]])
        /\ \A i \in DOMAIN samples :
              (\E j \in DOMAIN series : Apart(series[j], samples[i]) <= tolerance)
                 => \E pair \in Aligned(series, samples, tolerance) : pair[1] = i
================================================================================
