------------------------------- MODULE ScanBins -------------------------------
(***************************************************************************)
(* The two nodes of runner_bringup that rearrange a laser scan: into a     *)
(* fixed number of bins for SLAM, and to another first angle for RF2O.     *)
(*                                                                         *)
(* Angles are exact: a scan of n readings from 0 to a full circle, both    *)
(* included, has reading i at i/(n-1) of the circle.  Bins and readings    *)
(* count from 0.  The value of a reading is its index; None is infinity.   *)
(***************************************************************************)
EXTENDS Integers, FiniteSetsExt

CONSTANT None

Distance(count, bins, i, j) ==
    LET d == i * (bins - 1) - j * (count - 1) IN IF d < 0 THEN -d ELSE d

\* Mutant: the bin is rounded down.
TruncatedBin(count, bins, i) == (i * (bins - 1)) \div (count - 1)

\* Mutant: the last bin is taken for the first, a full circle on.
WrappedBin(count, bins, i) == ((2 * i * (bins - 1) + count - 1) \div (2 * (count - 1))) % (bins - 1)

\* The bin a reading goes to: _nearest_integer rounds halves up.
TargetBin(count, bins, i) == (2 * i * (bins - 1) + count - 1) \div (2 * (count - 1))

\* rebin_scan: of the readings of one bin the nearest is kept, the first of two
\* equally near.  A scan of the right size is copied.
Rebinned(count, bins) ==
    [j \in 0..bins - 1 |->
        LET sources == {i \in 0..count - 1 : TargetBin(count, bins, i) = j}
            nearest == Min({Distance(count, bins, i, j) : i \in sources})
        IN  IF count = bins THEN j
            ELSE IF sources = {} THEN None
            ELSE Min({i \in sources : Distance(count, bins, i, j) = nearest})]

-------------------------------------------------------------------------------
(* rf2o_scan_canonicalizer: angles are counted in steps, `circle` steps to a   *)
(* full circle, from a first angle of `first` half steps.                      *)

\* round() halves to even.
Rounded(twice) ==
    LET down == twice \div 2
    IN  IF twice % 2 = 0 \/ down % 2 = 0 THEN down ELSE down + 1

Magnitude(x) == IF x < 0 THEN -x ELSE x

\* The field of view is a full circle, give or take a step and a half.
FullCircle(count, circle) == Magnitude(2 * (count - 1 - circle)) <= 3

\* Mutant: the scan is turned the other way.
OffsetBackward(count, circle, first) == Rounded(first - circle) % count

\* The reading that comes first, at minus pi.
Offset(count, circle, first) == Rounded(circle - first) % count

Rotated(count, circle, first) ==
    [k \in 0..count - 1 |-> (k + Offset(count, circle, first)) % count]

-------------------------------------------------------------------------------
(* The properties, of any scan. *)

\* A bin holds the nearest of all readings if one lies within half a bin of it,
\* and otherwise nothing (rebin_scan, _nearest_integer).
NearestIsKept(count, bins) ==
    \A j \in 0..bins - 1 :
        LET nearest == Min({Distance(count, bins, i, j) : i \in 0..count - 1})
            kept == Rebinned(count, bins)[j]
        IN  IF kept = None THEN 2 * nearest >= count - 1
            ELSE Distance(count, bins, kept, j) = nearest

\* With at least as many bins as readings none is lost (rebin_scan).
NoReadingLost(count, bins) ==
    count <= bins => \A i \in 0..count - 1 : \E j \in 0..bins - 1 : Rebinned(count, bins)[j] = i

\* RF2O takes reading k for the one at -fov/2 + k fov/(count - 1), the field of view
\* being count - 1 steps.  That is the reading's angle but for half a step of
\* rounding and the half step by which the field of view may miss the circle; across
\* the seam, where the last reading and the first of the scan now stand side by side,
\* also for the readings the scan has beyond a circle: none, one step if it has its
\* last angle twice, as the LD19's, two at most (scan_callback; its warning about the
\* seam; rf2o_bearings).
BearingsHold(count, circle, first) ==
    FullCircle(count, circle) =>
        \A k \in 0..count - 1 :
            LET reading == Rotated(count, circle, first)[k]
                bearing == first + 2 * reading
                assumed == 2 * k - (count - 1)
                across == (reading >= Offset(count, circle, first)) # (Rounded(circle - first) >= 0)
                seam == IF across THEN 2 * (count - circle) ELSE 0
            IN  \E turns \in -2..2 :
                   Magnitude(bearing - assumed + 2 * circle * turns)
                      <= 1 + Magnitude(count - 1 - circle) + seam
================================================================================
