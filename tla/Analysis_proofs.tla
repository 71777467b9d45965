---------------------------- MODULE Analysis_proofs ----------------------------
(***************************************************************************)
(* Proofs about Analysis, for every value of its constants.                *)
(***************************************************************************)
EXTENDS Analysis, FiniteSetTheorems, SequenceTheorems, WellFoundedInduction, TLAPS

\* Of any natural numbers one is the least.
LEMMA LeastOf ==
    ASSUME NEW S \in SUBSET Nat, S # {}
    PROVE  /\ Min(S) \in S
           /\ \A x \in S : Min(S) <= x
<1>1. PICK x \in S : \A y \in S : ~(<<y, x>> \in OpToRel(<, Nat))
  BY WFMin, NatLessThanWellFounded
<1>2. \A y \in S : ~(y < x)
  BY <1>1 DEF OpToRel
<1>3. \E z \in S : \A y \in S : z =< y
  BY <1>2
<1> QED
  BY <1>3 DEF Min

\* A quotient is known by the multiples around it.
LEMMA Quotient ==
    ASSUME NEW a \in Int, NEW m \in Nat \ {0}, NEW q \in Int
    PROVE  a \div m = q <=> m * q <= a /\ a < m * q + m
<1> DEFINE d == a \div m
           r == a % m
<1>1. d \in Int /\ r \in 0..m - 1 /\ a = m * d + r
  OBVIOUS
<1> HIDE DEF d, r
<1>2. m * q \in Int /\ m * d \in Int
  BY <1>1
<1>3. ASSUME m * q <= a, a < m * q + m PROVE d = q
  <2>1. CASE d >= q + 1
    <3>1. m * d >= m * (q + 1) /\ m * (q + 1) = m * q + m
      BY <1>1, <2>1
    <3> QED
      BY <1>1, <1>2, <1>3, <3>1
  <2>2. CASE q >= d + 1
    <3>1. m * q >= m * (d + 1) /\ m * (d + 1) = m * d + m
      BY <1>1, <2>2
    <3> QED
      BY <1>1, <1>2, <1>3, <3>1
  <2> QED
    BY <1>1, <2>1, <2>2
<1>4. d = q => m * q <= a /\ a < m * q + m
  BY <1>1, <1>2
<1> QED
  BY <1>3, <1>4 DEF d

-----------------------------------------------------------------------------
(* The scans: readings i and bins j of scans of N + 1 and B + 1.           *)

LEMMA ScansLeastOf ==
    ASSUME NEW S \in SUBSET Nat, S # {}
    PROVE  /\ Scans!Min(S) \in S
           /\ \A x \in S : Scans!Min(S) <= x
<1>1. Scans!Min(S) = Min(S)
  BY DEF Scans!Min, Min
<1> QED
  BY <1>1, LeastOf

\* How far a reading is past a bin: x of N are half a bin and more.
Past(count, bins, i, j) == i * (bins - 1) - j * (count - 1)

LEMMA PastFacts ==
    ASSUME NEW count \in Nat, NEW bins \in Nat, count >= 2, bins >= 2,
           NEW i \in 0..count - 1, NEW j \in 0..bins - 1
    PROVE  /\ Past(count, bins, i, j) \in Int
           /\ Scans!Distance(count, bins, i, j) \in Nat
           /\ Scans!Distance(count, bins, i, j) = Past(count, bins, i, j)
              \/ Scans!Distance(count, bins, i, j) = -Past(count, bins, i, j)
<1>1. i * (bins - 1) \in Int /\ j * (count - 1) \in Int
  OBVIOUS
<1> QED
  BY <1>1 DEF Past, Scans!Distance

\* A reading goes to a bin exactly if it is half a bin away at most.
LEMMA BinOf ==
    ASSUME NEW count \in Nat, NEW bins \in Nat, count >= 2, bins >= 2,
           NEW i \in 0..count - 1, NEW j \in 0..bins - 1
    PROVE  Scans!TargetBin(count, bins, i) = j <=>
             /\ -(count - 1) <= 2 * Past(count, bins, i, j)
             /\ 2 * Past(count, bins, i, j) < count - 1
<1> DEFINE N == count - 1
           u == i * (bins - 1)
           v == j * N
<1>1. N \in Nat \ {0} /\ u \in Int /\ v \in Int
  OBVIOUS
<1>2. 2 * i * (bins - 1) = 2 * u /\ (2 * N) * j = 2 * v
  <2>1. (2 * i) * (bins - 1) = 2 * (i * (bins - 1))
    OBVIOUS
  <2>2. (2 * N) * j = 2 * (j * N)
    OBVIOUS
  <2> QED
    BY <2>1, <2>2
<1>3. Past(count, bins, i, j) = u - v
  BY DEF Past
<1>4. Scans!TargetBin(count, bins, i) = (2 * u + N) \div (2 * N)
  BY <1>1, <1>2 DEF Scans!TargetBin
<1> HIDE DEF N, u, v
<1>5. (2 * u + N) \div (2 * N) = j <=>
        (2 * N) * j <= 2 * u + N /\ 2 * u + N < (2 * N) * j + 2 * N
  BY <1>1, Quotient
<1>6. (2 * u + N) \div (2 * N) = j <=> -N <= 2 * (u - v) /\ 2 * (u - v) < N
  BY <1>1, <1>2, <1>5
<1> QED
  BY <1>3, <1>4, <1>6 DEF N

LEMMA BinInRange ==
    ASSUME NEW count \in Nat, NEW bins \in Nat, count >= 2, bins >= 2,
           NEW i \in 0..count - 1
    PROVE  Scans!TargetBin(count, bins, i) \in 0..bins - 1
<1> DEFINE N == count - 1
           B == bins - 1
           u == i * B
           t == (2 * u + N) \div (2 * N)
<1>1. N \in Nat \ {0} /\ B \in Nat \ {0} /\ i \in 0..N
  OBVIOUS
<1>2. Scans!TargetBin(count, bins, i) = t
  <2>1. (2 * i) * B = 2 * (i * B)
    OBVIOUS
  <2> QED
    BY <2>1 DEF Scans!TargetBin
<1> HIDE DEF N, B
<1>3. u \in Int /\ 0 <= u /\ u <= N * B
  <2>1. i * B <= N * B
    BY <1>1
  <2> QED
    BY <1>1, <2>1
<1> HIDE DEF u
<1>4. t \in Int
  BY <1>1, <1>3
<1> HIDE DEF t
<1>5. (2 * N) * t <= 2 * u + N /\ 2 * u + N < (2 * N) * t + 2 * N
  <2>1. 2 * u + N \in Int /\ 2 * N \in Nat \ {0}
    BY <1>1, <1>3
  <2>2. t = (2 * u + N) \div (2 * N)
    BY DEF t
  <2> QED
    BY <1>4, <2>1, <2>2, Quotient
<1>6. N * B \in Int /\ N * t \in Int /\ (2 * N) * t = 2 * (N * t)
  BY <1>1, <1>4
<1>7. ASSUME t <= -1 PROVE FALSE
  <2>1. N * t <= N * (-1) /\ N * (-1) = -N
    BY <1>1, <1>4, <1>7
  <2> QED
    BY <1>1, <1>3, <1>5, <1>6, <2>1
<1>8. ASSUME t >= B + 1 PROVE FALSE
  <2>1. N * t >= N * (B + 1) /\ N * (B + 1) = N * B + N
    BY <1>1, <1>4, <1>8
  <2> QED
    BY <1>1, <1>3, <1>5, <1>6, <2>1
<1> QED
  BY <1>1, <1>2, <1>4, <1>7, <1>8 DEF B

\* What rebin_scan keeps: of the readings of a bin one of the nearest.
LEMMA KeptFacts ==
    ASSUME NEW count \in Nat, NEW bins \in Nat, count >= 2, bins >= 2, count # bins,
           NEW j \in 0..bins - 1
    PROVE  LET sources == {i \in 0..count - 1 : Scans!TargetBin(count, bins, i) = j}
               kept == Scans!Rebinned(count, bins)[j]
           IN  /\ sources = {} => kept = None
               /\ sources # {} =>
                    /\ kept \in sources
                    /\ \A i \in sources : Scans!Distance(count, bins, kept, j)
                                            <= Scans!Distance(count, bins, i, j)
<1> DEFINE sources == {i \in 0..count - 1 : Scans!TargetBin(count, bins, i) = j}
           D(i) == Scans!Distance(count, bins, i, j)
           far == {D(i) : i \in sources}
           best == {i \in sources : D(i) = Scans!Min(far)}
           kept == Scans!Rebinned(count, bins)[j]
<1>1. kept = IF sources = {} THEN None ELSE Scans!Min(best)
  BY Zenon DEF Scans!Rebinned
<1>2. sources \subseteq Nat /\ \A i \in sources : D(i) \in Nat
  BY PastFacts
<1>3. ASSUME sources # {}
      PROVE  kept \in sources /\ \A i \in sources : D(kept) <= D(i)
  <2>1. far \subseteq Nat /\ far # {}
    BY <1>2, <1>3
  <2> HIDE DEF far
  <2>2. Scans!Min(far) \in far /\ \A x \in far : Scans!Min(far) <= x
    BY <2>1, ScansLeastOf
  <2>3. best # {} /\ best \subseteq Nat
    BY <1>2, <2>2 DEF far
  <2> HIDE DEF best
  <2>4. Scans!Min(best) \in best
    BY <2>3, ScansLeastOf
  <2>5. kept \in sources /\ D(kept) = Scans!Min(far)
    BY <1>1, <1>3, <2>4 DEF best
  <2>6. \A i \in sources : D(i) \in far
    BY DEF far
  <2> QED
    BY <2>2, <2>5, <2>6
<1> QED
  BY <1>1, <1>3

\* Every bin holds the nearest reading there is, or has none near.
LEMMA BinsHoldTheNearest ==
    ASSUME NEW count \in Nat, NEW bins \in Nat, count >= 2, bins >= 2, None \notin Nat
    PROVE  Scans!NearestIsKept(count, bins)
<1> SUFFICES ASSUME NEW j \in 0..bins - 1
             PROVE  LET nearest == Scans!Min({Scans!Distance(count, bins, i, j) : i \in 0..count - 1})
                        kept == Scans!Rebinned(count, bins)[j]
                    IN  IF kept = None THEN 2 * nearest >= count - 1
                        ELSE Scans!Distance(count, bins, kept, j) = nearest
  BY Zenon DEF Scans!NearestIsKept
<1> DEFINE D(i) == Scans!Distance(count, bins, i, j)
           all == {D(i) : i \in 0..count - 1}
           kept == Scans!Rebinned(count, bins)[j]
           sources == {i \in 0..count - 1 : Scans!TargetBin(count, bins, i) = j}
<1>1. \A i \in 0..count - 1 : D(i) \in Nat
  BY PastFacts
<1>2. all \subseteq Nat /\ all # {}
  <2>1. 0 \in 0..count - 1
    OBVIOUS
  <2> QED
    BY <1>1, <2>1
<1>3. Scans!Min(all) \in all /\ \A x \in all : Scans!Min(all) <= x
  <2> HIDE DEF all
  <2> QED
    BY <1>2, ScansLeastOf
<1>4. \A i \in 0..count - 1 :
        IF i \in sources THEN 2 * D(i) <= count - 1 ELSE 2 * D(i) >= count - 1
  <2> TAKE i \in 0..count - 1
  <2> DEFINE x == Past(count, bins, i, j)
  <2>1. x \in Int /\ D(i) \in Nat /\ (D(i) = x \/ D(i) = -x)
    BY PastFacts
  <2>2. i \in sources <=> -(count - 1) <= 2 * x /\ 2 * x < count - 1
    BY BinOf
  <2> HIDE DEF x, D, sources
  <2> QED
    BY <2>1, <2>2
<1>6. CASE count = bins
  <2>1. kept = j /\ j \in 0..count - 1
    BY <1>6 DEF Scans!Rebinned
  <2>2. D(j) = 0
    BY <1>6 DEF Scans!Distance
  <2>3. 0 \in all
    BY <2>1, <2>2
  <2>4. Scans!Min(all) = 0
    <3>1. Scans!Min(all) <= 0 /\ Scans!Min(all) \in Nat
      BY <1>2, <1>3, <2>3
    <3> QED
      BY <3>1
  <2> QED
    BY <2>1, <2>2, <2>4
<1>7. CASE count # bins /\ sources = {}
  <2>1. kept = None
    BY <1>7, KeptFacts
  <2>2. PICK i \in 0..count - 1 : Scans!Min(all) = D(i)
    BY <1>3
  <2>3. 2 * D(i) >= count - 1
    BY <1>4, <1>7
  <2> QED
    BY <2>1, <2>2, <2>3
<1>8. CASE count # bins /\ sources # {}
  <2>1. kept \in sources /\ \A i \in sources : D(kept) <= D(i)
    BY <1>8, KeptFacts
  <2>2. kept \in 0..count - 1 /\ kept # None
    BY <2>1
  <2> HIDE DEF kept
  <2>3. \A i \in 0..count - 1 : D(kept) <= D(i)
    <3> TAKE i \in 0..count - 1
    <3>1. CASE i \in sources
      BY <2>1, <3>1
    <3>2. CASE i \notin sources
      <4>1. 2 * D(kept) <= count - 1 /\ 2 * D(i) >= count - 1
        BY <1>4, <2>1, <2>2, <3>2
      <4> HIDE DEF D
      <4> QED
        BY <1>1, <2>2, <4>1
    <3> QED
      BY <3>1, <3>2
  <2>4. D(kept) \in all
    BY <2>2
  <2>5. D(kept) = Scans!Min(all)
    <3>1. Scans!Min(all) <= D(kept)
      BY <1>3, <2>4
    <3>2. D(kept) <= Scans!Min(all)
      BY <1>3, <2>3
    <3>3. Scans!Min(all) \in Nat /\ D(kept) \in Nat
      BY <1>1, <1>2, <1>3, <2>2
    <3> HIDE DEF all, D
    <3> QED
      BY <3>1, <3>2, <3>3
  <2> QED
    BY <2>2, <2>5 DEF kept
<1> QED
  BY <1>6, <1>7, <1>8

\* With as many bins as readings two readings never share one.
LEMMA NoneIsLost ==
    ASSUME NEW count \in Nat, NEW bins \in Nat, count >= 2, bins >= 2
    PROVE  Scans!NoReadingLost(count, bins)
<1> SUFFICES ASSUME count <= bins, NEW i \in 0..count - 1
             PROVE  \E j \in 0..bins - 1 : Scans!Rebinned(count, bins)[j] = i
  BY DEF Scans!NoReadingLost
<1>1. CASE count = bins
  <2>1. Scans!Rebinned(count, bins)[i] = i
    BY <1>1 DEF Scans!Rebinned
  <2> QED
    BY <1>1, <2>1
<1>2. CASE count # bins
  <2> DEFINE j == Scans!TargetBin(count, bins, i)
             N == count - 1
             B == bins - 1
             sources == {k \in 0..count - 1 : Scans!TargetBin(count, bins, k) = j}
  <2>1. j \in 0..bins - 1
    BY BinInRange
  <2>2. i \in sources
    OBVIOUS
  <2> HIDE DEF j
  <2>3. ASSUME NEW k \in sources PROVE k = i
    <3> DEFINE x == Past(count, bins, i, j)
               y == Past(count, bins, k, j)
    <3>1. -N <= 2 * x /\ 2 * x < N /\ -N <= 2 * y /\ 2 * y < N
      BY <2>1, <2>2, <2>3, BinOf
    <3>2. x - y = (i - k) * B
      <4>1. i * B \in Int /\ k * B \in Int /\ j * N \in Int /\ (i - k) * B = i * B - k * B
        BY <2>1
      <4>2. x = i * B - j * N /\ y = k * B - j * N
        BY DEF Past
      <4> HIDE DEF x, y
      <4> QED
        BY <4>1, <4>2
    <3>3. x \in Int /\ y \in Int
      BY <2>1, PastFacts
    <3> HIDE DEF x, y
    <3>4. N < B /\ N \in Nat /\ B \in Nat
      BY <1>2
    <3>5. ASSUME i >= k + 1 PROVE FALSE
      <4>1. (i - k) * B >= 1 * B
        BY <3>5
      <4> HIDE DEF N, B
      <4> QED
        BY <3>1, <3>2, <3>3, <3>4, <4>1
    <3>6. ASSUME k >= i + 1 PROVE FALSE
      <4>1. (i - k) * B <= (-1) * B
        BY <3>6
      <4> HIDE DEF N, B
      <4> QED
        BY <3>1, <3>2, <3>3, <3>4, <4>1
    <3> QED
      BY <3>5, <3>6
  <2>4. Scans!Rebinned(count, bins)[j] \in sources
    BY <1>2, <2>1, <2>2, KeptFacts
  <2> HIDE DEF sources
  <2> QED
    BY <2>1, <2>3, <2>4
<1> QED
  BY <1>1, <1>2

\* A remainder is known by any multiple that brings it into range.
LEMMA RemainderOf ==
    ASSUME NEW n \in Nat \ {0}, NEW a \in Int, a >= -n, a < 2 * n
    PROVE  a % n = IF a < 0 THEN a + n ELSE IF a < n THEN a ELSE a - n
<1> DEFINE d == a \div n
           r == a % n
<1>1. d \in Int /\ r \in 0..n - 1 /\ a = n * d + r
  OBVIOUS
<1> HIDE DEF d, r
<1>2. n * d \in Int
  BY <1>1
<1>3. ASSUME d <= -2 PROVE FALSE
  <2>1. n * d <= n * (-2) /\ n * (-2) = -2 * n
    BY <1>1, <1>3
  <2> QED
    BY <1>1, <1>2, <2>1
<1>4. ASSUME d >= 2 PROVE FALSE
  <2>1. n * d >= n * 2
    BY <1>1, <1>4
  <2> QED
    BY <1>1, <1>2, <2>1
<1>5. d = -1 \/ d = 0 \/ d = 1
  BY <1>1, <1>3, <1>4
<1>6. n * (-1) = -n /\ n * 0 = 0 /\ n * 1 = n
  OBVIOUS
<1>7. a = r - n \/ a = r \/ a = r + n
  BY <1>1, <1>5, <1>6
<1> QED
  BY <1>1, <1>7 DEF r

\* round() is off by half a step at most, and not at all from a whole one.
LEMMA RoundedFacts ==
    ASSUME NEW twice \in Int
    PROVE  /\ Scans!Rounded(twice) \in Int
           /\ twice - 1 <= 2 * Scans!Rounded(twice) /\ 2 * Scans!Rounded(twice) <= twice + 1
<1>1. /\ twice \div 2 \in Int /\ twice % 2 \in 0..1
      /\ twice = 2 * (twice \div 2) + (twice % 2)
  OBVIOUS
<1> QED
  BY <1>1 DEF Scans!Rounded

\* Every reading of a turned scan is where RF2O takes it to be, but for the steps
\* that `BearingsHold` allows.
LEMMA BearingsAreKept ==
    ASSUME NEW count \in Nat, NEW circle \in Nat, count >= 2, circle >= 2,
           NEW first \in 0..2 * circle - 1
    PROVE  Scans!BearingsHold(count, circle, first)
<1> DEFINE off == Scans!Magnitude(2 * (count - 1 - circle))
           spare == count - circle
           short == Scans!Magnitude(count - 1 - circle)
           rounded == Scans!Rounded(circle - first)
           offset == Scans!Offset(count, circle, first)
           reading(k) == Scans!Rotated(count, circle, first)[k]
           across(k) == (reading(k) >= offset) # (rounded >= 0)
           seam(k) == IF across(k) THEN 2 * spare ELSE 0
           error(k) == (first + 2 * reading(k)) - (2 * k - (count - 1))
<1> SUFFICES ASSUME off <= 3, NEW k \in 0..count - 1
             PROVE  \E turns \in -2..2 :
                       Scans!Magnitude(error(k) + 2 * circle * turns) <= 1 + short + seam(k)
  <2> HIDE DEF off, seam, short, error
  <2>1. Scans!BearingsHold(count, circle, first) <=>
          (off <= 3 => \A j \in 0..count - 1 : \E turns \in -2..2 :
                          Scans!Magnitude(error(j) + 2 * circle * turns) <= 1 + short + seam(j))
    BY DEF Scans!BearingsHold, Scans!FullCircle, off, seam, short, error
  <2> QED
    BY <2>1
<1>1. spare \in 0..2 /\ count = circle + spare /\ short = Scans!Magnitude(spare - 1)
  BY DEF Scans!Magnitude
<1>2. /\ rounded \in Int
      /\ circle - first - 1 <= 2 * rounded /\ 2 * rounded <= circle - first + 1
  <2>1. circle - first \in Int
    OBVIOUS
  <2> QED
    BY <2>1, RoundedFacts
<1> HIDE DEF rounded
<1>3. rounded < count /\ rounded >= -count
  BY <1>1, <1>2
<1>4. offset = IF rounded < 0 THEN rounded + count ELSE rounded
  BY <1>2, <1>3, RemainderOf DEF Scans!Offset, rounded
<1> HIDE DEF offset
<1>5. offset \in 0..count - 1
  BY <1>2, <1>3, <1>4
<1> HIDE DEF reading
<1>6. reading(k) = IF k + offset < count THEN k + offset ELSE (k + offset) - count
  <2>1. reading(k) = (k + offset) % count
    BY DEF Scans!Rotated, offset, reading
  <2>2. /\ k + offset \in Int /\ k + offset >= 0 /\ k + offset >= -count
        /\ k + offset < 2 * count /\ count \in Nat \ {0}
    BY <1>5
  <2> HIDE DEF error, seam, spare, off
  <2>3. (k + offset) % count = IF k + offset < 0 THEN (k + offset) + count
                               ELSE IF k + offset < count THEN k + offset
                               ELSE (k + offset) - count
    BY <2>2, RemainderOf
  <2> QED
    BY <2>1, <2>2, <2>3
\* How many circles the reading is away from where RF2O takes it to be: one, if the
\* seam lies between.
<1>7. PICK q \in {-1, 0, 1} : reading(k) - k = rounded - q * count /\ (~across(k) => q = 0)
  <2>1. \/ reading(k) - k = rounded + count
        \/ reading(k) - k = rounded
        \/ reading(k) - k = rounded - count
    BY <1>2, <1>4, <1>5, <1>6
  <2>2. ~across(k) => reading(k) - k = rounded
    BY <1>2, <1>4, <1>5, <1>6
  <2>3. (-1) * count = -count /\ 0 * count = 0 /\ 1 * count = count
    OBVIOUS
  <2> QED
    BY <1>2, <2>1, <2>2, <2>3
<1>8. q * count = q * circle + q * spare /\ q * circle \in Int /\ q * spare \in Int
  BY <1>1
<1>9. reading(k) \in Int
  BY <1>5, <1>6
<1>10. /\ error(k) - 2 * circle + 2 * (q * circle) + 2 * (q * spare) >= spare - 2
       /\ error(k) - 2 * circle + 2 * (q * circle) + 2 * (q * spare) <= spare
  BY <1>1, <1>2, <1>7, <1>8, <1>9
<1>11. seam(k) \in Nat /\ -seam(k) <= 2 * (q * spare) /\ 2 * (q * spare) <= seam(k)
  <2>1. (-1) * spare = -spare /\ 0 * spare = 0 /\ 1 * spare = spare
    BY <1>1
  <2> QED
    BY <1>1, <1>7, <2>1
<1>12. q - 1 \in -2..2 /\ 2 * circle * (q - 1) = 2 * (q * circle) - 2 * circle
  BY <1>7
<1>13. error(k) \in Int
  BY <1>9
<1> HIDE DEF error, seam, spare, short
<1>14. Scans!Magnitude(error(k) + 2 * circle * (q - 1)) <= 1 + short + seam(k)
  BY <1>1, <1>8, <1>10, <1>11, <1>12, <1>13 DEF Scans!Magnitude
<1> QED
  BY <1>12, <1>14

-----------------------------------------------------------------------------
(* Every scan that is read.                                                *)

\* A scan has two readings at least, two bins at least, and a first angle within a
\* circle of them; and nothing is read before its program is chosen.
ScanInput ==
    /\ program = None => input = <<>>
    /\ program = "scan" =>
         \A i \in DOMAIN input :
            /\ input[i].count \in Nat /\ input[i].count >= 2
            /\ input[i].bins \in Nat /\ input[i].bins >= 2
            /\ input[i].first \in 0..2 * input[i].bins - 1

\* Nothing but the scans is read by the program of the scans.
LEMMA ReadsElsewhere ==
    ASSUME ScanInput, NEW name, NEW item, name # None, name # "scan", Reads(name, item)
    PROVE  ScanInput'
BY DEF ScanInput, Reads

LEMMA ScanInputStep == ScanInput /\ [Next]_vars => ScanInput'
<1> SUFFICES ASSUME ScanInput, [Next]_vars PROVE ScanInput'
  OBVIOUS
<1> DEFINE names == {"segments", "target", "groups", "drives", "rest", "response", "pid", "series"}
<1>1. \A name \in names : name # None /\ name # "scan"
  BY AnalysisAssumption
<1>2. CASE UNCHANGED vars
  BY <1>2 DEF vars, ScanInput
<1>3. CASE RecordingNext /\ UNCHANGED <<program, input>>
  BY <1>3 DEF ScanInput
<1>4. CASE ReadScan
  <2>1. PICK count \in 2..MaxReadings, bins \in 2..MaxReadings, first \in 0..2 * MaxReadings :
          first < 2 * bins /\ Reads("scan", [count |-> count, bins |-> bins, first |-> first])
    BY <1>4 DEF ReadScan
  <2>2. MaxReadings \in Nat
    BY AnalysisAssumption
  <2>3. input = <<>> /\ program = None
    BY <1>4 DEF ReadScan, Idle, ScanInput
  <2> DEFINE item == [count |-> count, bins |-> bins, first |-> first]
  <2>4. input' = <<item>> /\ program' = "scan"
    BY <2>1, <2>3 DEF Reads
  <2>5. item.count \in Nat /\ item.count >= 2 /\ item.bins \in Nat /\ item.bins >= 2
        /\ item.first \in 0..2 * item.bins - 1
    BY <2>1, <2>2
  <2>6. "scan" # None
    BY AnalysisAssumption
  <2> HIDE DEF item
  <2> QED
    BY <2>4, <2>5, <2>6 DEF ScanInput
<1>5. CASE \E name \in names : \E item : Reads(name, item)
  BY <1>1, <1>5, ReadsElsewhere
<1>6. ASSUME \/ ReadCommand \/ ReadPoint \/ ReadRun \/ ReadDrive \/ ReadMoment
             \/ ReadState \/ ReadStatus \/ ReadChange \/ ReadSample \/ ReadRate
      PROVE  \E name \in names : \E item : Reads(name, item)
  BY <1>6 DEF ReadCommand, ReadPoint, ReadRun, ReadDrive, ReadMoment, ReadState,
              ReadStatus, ReadChange, ReadSample, ReadRate, Event
<1> QED
  BY <1>2, <1>3, <1>4, <1>5, <1>6 DEF Next

\* However the readings and the bins of a scan fall, a bin holds the nearest reading
\* or is empty because none is near, no reading is lost where there are as many bins,
\* and in the turned scan every reading is where RF2O takes it to be but for half a
\* step of rounding, the half step by which the field of view may miss the circle, and
\* the readings beyond a circle across the seam (rebin_scan, scan_callback).
THEOREM ScansKeepTheirReadings == Spec => []ScansAreTrue
<1>1. Init => ScanInput
  BY AnalysisAssumption DEF Init, ScanInput
<1>2. ScanInput /\ [Next]_vars => ScanInput'
  BY ScanInputStep
<1>3. ScanInput => ScansAreTrue
  BY AnalysisAssumption, BinsHoldTheNearest, NoneIsLost, BearingsAreKept DEF ScanInput, ScansAreTrue
<1> QED
  BY <1>1, <1>2, <1>3, PTL DEF Spec

-----------------------------------------------------------------------------
(* Sequences of sequences, and sequences in order.                         *)

\* What holds of 0, and of n + 1 with n, holds of every number.
LEMMA Inductive ==
    ASSUME NEW S \in SUBSET Nat, 0 \in S, \A n \in S : n + 1 \in S
    PROVE  S = Nat
<1> SUFFICES ASSUME Nat \ S # {} PROVE FALSE
  OBVIOUS
<1> DEFINE m == Min(Nat \ S)
<1>1. m \in Nat \ S /\ \A x \in Nat \ S : m <= x
  BY LeastOf
<1> HIDE DEF m
<1>2. m - 1 \in Nat /\ m - 1 \in S
  BY <1>1
<1> QED
  BY <1>1, <1>2

\* FlattenSeq concatenates from the left.
LEMMA Flattening ==
    ASSUME NEW S, NEW seqs \in Seq(Seq(S)), seqs # <<>>
    PROVE  \E f \in [1..Len(seqs) -> Seq(S)] :
             /\ f[1] = seqs[1]
             /\ \A i \in 1..Len(seqs) - 1 : f[i + 1] = f[i] \o seqs[i + 1]
             /\ FlattenSeq(seqs) = f[Len(seqs)]
<1> DEFINE Rec(f, n) == [i \in 1..n |-> IF i = 1 THEN seqs[i] ELSE f[i - 1] \o seqs[i]]
           A == {n \in Nat : \E f : f = Rec(f, n)}
<1>1. 0 \in A
  <2> DEFINE f == [i \in 1..0 |-> 0]
  <2>1. f = Rec(f, 0)
    OBVIOUS
  <2> QED
    BY <2>1
<1>2. ASSUME NEW n \in A PROVE n + 1 \in A
  <2>1. PICK f : f = Rec(f, n)
    OBVIOUS
  <2>2. n \in Nat
    OBVIOUS
  <2> HIDE DEF A
  <2> DEFINE g == Rec(f, n + 1)
  <2>3. ASSUME NEW i \in 1..n PROVE g[i] = f[i]
    <3>1. f[i] = Rec(f, n)[i]
      BY <2>1
    <3> QED
      BY <2>2, <3>1
  <2>4. ASSUME NEW i \in 1..n + 1
        PROVE  g[i] = IF i = 1 THEN seqs[i] ELSE g[i - 1] \o seqs[i]
    <3>1. i = 1 \/ i - 1 \in 1..n
      BY <2>2
    <3>2. g[i] = IF i = 1 THEN seqs[i] ELSE f[i - 1] \o seqs[i]
      OBVIOUS
    <3> QED
      BY <2>3, <3>1, <3>2
  <2>5. g = [i \in 1..n + 1 |-> g[i]]
    OBVIOUS
  <2> HIDE DEF g
  <2>6. g = Rec(g, n + 1)
    BY <2>4, <2>5
  <2>7. \E h : h = Rec(h, n + 1)
    BY <2>6
  <2>8. n + 1 \in Nat
    BY <2>2
  <2> QED
    BY <2>7, <2>8, Zenon DEF A
<1>3. Len(seqs) \in A
  <2>1. \A n \in A : n + 1 \in A
    BY <1>2
  <2> HIDE DEF A
  <2>2. A \subseteq Nat
    BY DEF A
  <2>3. A = Nat
    BY ONLY <1>1, <2>1, <2>2, Inductive
  <2>4. Len(seqs) \in Nat
    OBVIOUS
  <2> QED
    BY ONLY <2>3, <2>4
<1> DEFINE f == CHOOSE f : f = Rec(f, Len(seqs))
<1>4. f = Rec(f, Len(seqs))
  <2>1. \E h : h = Rec(h, Len(seqs))
    BY <1>3
  <2> QED
    BY <2>1
<1>5. FlattenSeq(seqs) = f[Len(seqs)]
  BY DEF FlattenSeq
<1> HIDE DEF f
<1>6. /\ f[1] = seqs[1]
      /\ \A i \in 1..Len(seqs) - 1 : f[i + 1] = f[i] \o seqs[i + 1]
  <2>1. ASSUME NEW i \in 1..Len(seqs)
        PROVE  f[i] = IF i = 1 THEN seqs[i] ELSE f[i - 1] \o seqs[i]
    <3>1. f[i] = Rec(f, Len(seqs))[i]
      BY <1>4
    <3> QED
      BY <3>1
  <2>2. Len(seqs) \in Nat \ {0}
    OBVIOUS
  <2>3. f[1] = seqs[1]
    BY <2>1, <2>2
  <2>4. ASSUME NEW i \in 1..Len(seqs) - 1 PROVE f[i + 1] = f[i] \o seqs[i + 1]
    <3>1. i + 1 \in 1..Len(seqs) /\ i + 1 # 1 /\ (i + 1) - 1 = i
      BY <2>2
    <3> QED
      BY <2>1, <3>1
  <2> QED
    BY <2>3, <2>4
<1>7. \A i \in 1..Len(seqs) : f[i] \in Seq(S)
  <2> DEFINE B == {n \in Nat : n + 1 \in 1..Len(seqs) => f[n + 1] \in Seq(S)}
  <2>1. 0 \in B
    BY <1>6
  <2>2. ASSUME NEW n \in B PROVE n + 1 \in B
    <3> SUFFICES ASSUME n + 2 \in 1..Len(seqs) PROVE f[n + 2] \in Seq(S)
      OBVIOUS
    <3>1. f[n + 1] \in Seq(S) /\ seqs[n + 2] \in Seq(S)
      OBVIOUS
    <3>2. f[n + 2] = f[n + 1] \o seqs[n + 2]
      <4>1. n + 1 \in 1..Len(seqs) - 1 /\ (n + 1) + 1 = n + 2
        OBVIOUS
      <4> QED
        BY <1>6, <4>1
    <3> QED
      BY <3>1, <3>2
  <2>3. B = Nat
    BY <2>1, <2>2, Inductive
  <2> HIDE DEF B
  <2>4. ASSUME NEW i \in 1..Len(seqs) PROVE f[i] \in Seq(S)
    <3>1. i - 1 \in B
      BY <2>3
    <3> QED
      BY <3>1 DEF B
  <2> QED
    BY <2>4
<1>8. f = [i \in 1..Len(seqs) |-> f[i]]
  BY <1>4
<1> QED
  BY <1>5, <1>6, <1>7, <1>8

\* Where the elements of the first n sequences are when they are put together.
Placed(seqs, n, flat, row, col) ==
    /\ \A p \in DOMAIN flat :
          row[p] \in 1..n /\ col[p] \in DOMAIN seqs[row[p]] /\ flat[p] = seqs[row[p]][col[p]]
    /\ \A i \in 1..n : \A k \in DOMAIN seqs[i] : \E p \in DOMAIN flat : row[p] = i /\ col[p] = k
    /\ \A p, q \in DOMAIN flat :
          p < q => row[p] < row[q] \/ (row[p] = row[q] /\ col[p] < col[q])

\* One more sequence is put behind the others.
LEMMA PlacedStep ==
    ASSUME NEW S, NEW seqs \in Seq(Seq(S)), NEW n \in 0..Len(seqs) - 1, NEW flat \in Seq(S),
           NEW row \in [DOMAIN flat -> Nat], NEW col \in [DOMAIN flat -> Nat],
           Placed(seqs, n, flat, row, col)
    PROVE  \E r, c \in [DOMAIN (flat \o seqs[n + 1]) -> Nat] :
              Placed(seqs, n + 1, flat \o seqs[n + 1], r, c)
<1> DEFINE next == seqs[n + 1]
           all == flat \o next
           r == [p \in DOMAIN all |-> IF p <= Len(flat) THEN row[p] ELSE n + 1]
           c == [p \in DOMAIN all |-> IF p <= Len(flat) THEN col[p] ELSE p - Len(flat)]
<1>1. next \in Seq(S)
  OBVIOUS
<1> HIDE DEF next
<1>2. /\ DOMAIN all = 1..Len(flat) + Len(next)
      /\ \A p \in 1..Len(flat) : all[p] = flat[p]
      /\ \A p \in Len(flat) + 1..Len(flat) + Len(next) : all[p] = next[p - Len(flat)]
  BY <1>1
<1>3. DOMAIN flat = 1..Len(flat) /\ DOMAIN next = 1..Len(next) /\ Len(flat) \in Nat /\ Len(next) \in Nat
  BY <1>1
<1> HIDE DEF all
<1>4. r \in [DOMAIN all -> Nat] /\ c \in [DOMAIN all -> Nat]
  BY <1>2, <1>3
<1>5. ASSUME NEW p \in DOMAIN all
      PROVE  r[p] \in 1..n + 1 /\ c[p] \in DOMAIN seqs[r[p]] /\ all[p] = seqs[r[p]][c[p]]
  <2>1. CASE p <= Len(flat)
    <3>1. p \in DOMAIN flat /\ r[p] = row[p] /\ c[p] = col[p] /\ all[p] = flat[p]
      BY <1>2, <1>3, <2>1
    <3> QED
      BY <3>1 DEF Placed
  <2>2. CASE p > Len(flat)
    <3>1. r[p] = n + 1 /\ c[p] = p - Len(flat) /\ p \in Len(flat) + 1..Len(flat) + Len(next)
      BY <1>2, <1>3, <2>2
    <3>2. c[p] \in DOMAIN next /\ all[p] = next[c[p]]
      BY <1>2, <1>3, <3>1
    <3> QED
      BY <3>1, <3>2 DEF next
  <2> QED
    BY <1>2, <1>3, <2>1, <2>2
<1>6. ASSUME NEW i \in 1..n + 1, NEW k \in DOMAIN seqs[i]
      PROVE  \E p \in DOMAIN all : r[p] = i /\ c[p] = k
  <2>1. CASE i = n + 1
    <3>1. k \in 1..Len(next)
      BY <1>3, <2>1 DEF next
    <3>2. k + Len(flat) \in DOMAIN all
      BY <1>2, <1>3, <3>1
    <3>3. r[k + Len(flat)] = i /\ c[k + Len(flat)] = k
      BY <1>3, <2>1, <3>1, <3>2
    <3> QED
      BY <3>2, <3>3
  <2>2. CASE i \in 1..n
    <3>1. PICK p \in DOMAIN flat : row[p] = i /\ col[p] = k
      BY <2>2 DEF Placed
    <3>2. p \in DOMAIN all /\ p <= Len(flat)
      BY <1>2, <1>3
    <3> QED
      BY <3>1, <3>2
  <2> QED
    BY <2>1, <2>2
<1>7. ASSUME NEW p \in DOMAIN all, NEW q \in DOMAIN all, p < q
      PROVE  r[p] < r[q] \/ (r[p] = r[q] /\ c[p] < c[q])
  <2>1. CASE q <= Len(flat)
    <3>1. p \in DOMAIN flat /\ q \in DOMAIN flat
      BY <1>2, <1>3, <1>7, <2>1
    <3>2. r[p] = row[p] /\ r[q] = row[q] /\ c[p] = col[p] /\ c[q] = col[q]
      BY <1>3, <3>1
    <3> QED
      BY <1>7, <3>1, <3>2 DEF Placed
  <2>2. CASE p <= Len(flat) /\ q > Len(flat)
    <3>1. p \in DOMAIN flat
      BY <1>2, <1>3, <2>2
    <3>2. row[p] \in 1..n
      BY <3>1 DEF Placed
    <3>3. r[p] = row[p] /\ r[q] = n + 1
      BY <1>2, <1>3, <2>2
    <3> QED
      BY <3>2, <3>3
  <2>3. CASE p > Len(flat)
    BY <1>2, <1>3, <1>7, <2>3
  <2> QED
    BY <1>2, <1>3, <2>1, <2>2, <2>3
<1> HIDE DEF r, c
<1>8. Placed(seqs, n + 1, all, r, c)
  BY <1>5, <1>6, <1>7 DEF Placed
<1> QED
  BY <1>4, <1>8 DEF all, next

\* Put together, the sequences keep their elements and their order.
LEMMA FlattenPlaces ==
    ASSUME NEW S, NEW seqs \in Seq(Seq(S))
    PROVE  /\ FlattenSeq(seqs) \in Seq(S)
           /\ \E row, col \in [DOMAIN FlattenSeq(seqs) -> Nat] :
                 Placed(seqs, Len(seqs), FlattenSeq(seqs), row, col)
<1>0. \E row, col \in [DOMAIN <<>> -> Nat] : Placed(seqs, 0, <<>>, row, col)
  <2> DEFINE none == [p \in DOMAIN <<>> |-> 0]
  <2>1. none \in [DOMAIN <<>> -> Nat] /\ Placed(seqs, 0, <<>>, none, none)
    BY DEF Placed
  <2> QED
    BY <2>1
<1>1. CASE seqs = <<>>
  <2>1. FlattenSeq(seqs) = <<>> /\ Len(seqs) = 0 /\ <<>> \in Seq(S)
    BY <1>1 DEF FlattenSeq
  <2>2. \E row, col \in [DOMAIN <<>> -> Nat] : Placed(seqs, Len(seqs), <<>>, row, col)
    BY <1>0, <2>1
  <2> QED
    BY <2>1, <2>2
<1>2. CASE seqs # <<>>
  <2>1. PICK f \in [1..Len(seqs) -> Seq(S)] :
           /\ f[1] = seqs[1]
           /\ \A i \in 1..Len(seqs) - 1 : f[i + 1] = f[i] \o seqs[i + 1]
           /\ FlattenSeq(seqs) = f[Len(seqs)]
    BY <1>2, Flattening
  <2> DEFINE Done(n) == \E row, col \in [DOMAIN f[n] -> Nat] : Placed(seqs, n, f[n], row, col)
             A == {n \in Nat : n + 1 \in 1..Len(seqs) => Done(n + 1)}
  <2>2. Len(seqs) \in Nat \ {0}
    BY <1>2
  <2>3. Done(1)
    <3>1. PICK row \in [DOMAIN <<>> -> Nat], col \in [DOMAIN <<>> -> Nat] : Placed(seqs, 0, <<>>, row, col)
      BY <1>0
    <3>2. \E r, c \in [DOMAIN (<<>> \o seqs[0 + 1]) -> Nat] : Placed(seqs, 0 + 1, <<>> \o seqs[0 + 1], r, c)
      <4>1. 0 \in 0..Len(seqs) - 1 /\ <<>> \in Seq(S)
        BY <2>2
      <4> QED
        BY <3>1, <4>1, PlacedStep
    <3>3. <<>> \o seqs[0 + 1] = f[1] /\ 0 + 1 = 1
      <4>1. seqs[1] \in Seq(S)
        BY <2>2
      <4> QED
        BY <2>1, <4>1
    <3> QED
      BY <3>2, <3>3
  <2>4. ASSUME NEW n \in 1..Len(seqs) - 1, Done(n) PROVE Done(n + 1)
    <3>1. PICK row \in [DOMAIN f[n] -> Nat], col \in [DOMAIN f[n] -> Nat] : Placed(seqs, n, f[n], row, col)
      BY <2>4
    <3>2. f[n] \in Seq(S) /\ n \in 0..Len(seqs) - 1
      <4>1. n \in 1..Len(seqs) /\ n \in 0..Len(seqs) - 1
        BY <2>2
      <4>2. f[n] \in Seq(S)
        BY <2>1, <4>1
      <4> QED
        BY <4>1, <4>2
    <3>3. \E r, c \in [DOMAIN (f[n] \o seqs[n + 1]) -> Nat] : Placed(seqs, n + 1, f[n] \o seqs[n + 1], r, c)
      BY <3>1, <3>2, PlacedStep
    <3>4. f[n + 1] = f[n] \o seqs[n + 1]
      BY <2>1, <2>4
    <3> QED
      BY <3>3, <3>4
  <2> HIDE DEF Done
  <2>5. 0 \in A
    BY <2>3
  <2>6. \A n \in A : n + 1 \in A
    BY <2>4
  <2>7. A = Nat
    BY <2>5, <2>6, Inductive
  <2>8. Len(seqs) - 1 \in Nat /\ Len(seqs) - 1 \in A
    <3>1. Len(seqs) - 1 \in Nat
      BY <2>2
    <3> HIDE DEF A
    <3> QED
      BY <2>7, <3>1
  <2>9. Done(Len(seqs))
    <3>1. (Len(seqs) - 1) + 1 = Len(seqs) /\ Len(seqs) \in 1..Len(seqs)
      BY <2>2
    <3> QED
      BY <2>8, <3>1
  <2>10. \E row, col \in [DOMAIN f[Len(seqs)] -> Nat] : Placed(seqs, Len(seqs), f[Len(seqs)], row, col)
    BY <2>9 DEF Done
  <2>11. f[Len(seqs)] \in Seq(S)
    <3>1. Len(seqs) \in 1..Len(seqs)
      BY <2>2
    <3> QED
      BY <2>1, <3>1
  <2> QED
    BY <2>1, <2>10, <2>11
<1> QED
  BY <1>1, <1>2

\* A relation that puts the elements of a set in an order.
Orders(R, S) ==
    /\ \A x, y \in S : x # y => <<x, y>> \in R \/ <<y, x>> \in R
    /\ \A x, y \in S : <<x, y>> \in R => <<y, x>> \notin R
    /\ \A x, y, z \in S : <<x, y>> \in R /\ <<y, z>> \in R => <<x, z>> \in R

\* Of the elements of a finite set in an order one is the last.
LEMMA GreatestExists ==
    ASSUME NEW S, IsFiniteSet(S), NEW R, Orders(R, S), NEW T \in SUBSET S, T # {}
    PROVE  \E m \in T : \A x \in T \ {m} : <<x, m>> \in R
<1> DEFINE Has(U) == \E m \in U : \A x \in U \ {m} : <<x, m>> \in R
           A == {n \in Nat : \A U \in SUBSET S : Cardinality(U) = n + 1 => Has(U)}
<1>1. 0 \in A
  <2> SUFFICES ASSUME NEW U \in SUBSET S, Cardinality(U) = 1 PROVE Has(U)
    OBVIOUS
  <2>1. IsFiniteSet(U)
    BY FS_Subset
  <2>2. PICK x : U = {x}
    BY <2>1, FS_Singleton
  <2> QED
    BY <2>2
<1>2. ASSUME NEW n \in A PROVE n + 1 \in A
  <2>1. n \in Nat
    OBVIOUS
  <2> SUFFICES ASSUME NEW U \in SUBSET S, Cardinality(U) = n + 2 PROVE Has(U)
    BY <2>1
  <2>2. IsFiniteSet(U)
    BY FS_Subset
  <2>3. PICK y \in U : TRUE
    BY <2>1, <2>2, FS_EmptySet
  <2>4. Cardinality(U \ {y}) = n + 1
    <3>1. Cardinality(U \ {y}) = Cardinality(U) - 1
      BY <2>2, FS_RemoveElement
    <3> QED
      BY <2>1, <3>1
  <2>5. PICK m \in U \ {y} : \A x \in (U \ {y}) \ {m} : <<x, m>> \in R
    <3>1. U \ {y} \in SUBSET S
      OBVIOUS
    <3>2. Has(U \ {y})
      BY <2>4, <3>1
    <3> QED
      BY <3>2
  <2>6. CASE <<y, m>> \in R
    BY <2>5, <2>6
  <2>7. CASE <<m, y>> \in R
    <3>1. ASSUME NEW x \in U \ {y} PROVE <<x, y>> \in R
      BY <2>5, <2>7 DEF Orders
    <3> QED
      BY <3>1
  <2> QED
    BY <2>5, <2>6, <2>7 DEF Orders
<1> HIDE DEF Has
<1>3. A = Nat
  BY <1>1, <1>2, Inductive
<1>4. IsFiniteSet(T)
  BY FS_Subset
<1>5. Cardinality(T) \in Nat /\ Cardinality(T) # 0
  BY <1>4, FS_CardinalityType, FS_EmptySet
<1>6. Cardinality(T) - 1 \in A
  BY <1>3, <1>5
<1>7. Has(T)
  BY <1>5, <1>6
<1> QED
  BY <1>7 DEF Has

\* A finite set in an order can be gone through in that order.
LEMMA ArrangementExists ==
    ASSUME NEW S, IsFiniteSet(S), NEW R, Orders(R, S)
    PROVE  \E f \in Bijection(1..Cardinality(S), S) :
              \A k \in DOMAIN f : \A l \in 1..k - 1 : <<f[l], f[k]>> \in R
<1> DEFINE Arranges(f, U) ==
             /\ f \in Bijection(1..Cardinality(U), U)
             /\ \A k \in 1..Cardinality(U) : \A l \in 1..k - 1 : <<f[l], f[k]>> \in R
           Has(U) == \E f : Arranges(f, U)
           A == {n \in Nat : \A U \in SUBSET S : Cardinality(U) = n => Has(U)}
<1>1. 0 \in A
  <2> SUFFICES ASSUME NEW U \in SUBSET S, Cardinality(U) = 0 PROVE Has(U)
    OBVIOUS
  <2>1. U = {}
    BY FS_Subset, FS_EmptySet
  <2> DEFINE f == [k \in 1..0 |-> k]
  <2>2. Arranges(f, U)
    BY <2>1 DEF Bijection, Injection, Surjection, IsInjective
  <2> QED
    BY <2>2
<1>2. ASSUME NEW n \in A PROVE n + 1 \in A
  <2>1. n \in Nat
    OBVIOUS
  <2> SUFFICES ASSUME NEW U \in SUBSET S, Cardinality(U) = n + 1 PROVE Has(U)
    BY <2>1
  <2>2. IsFiniteSet(U) /\ U # {}
    BY <2>1, FS_Subset, FS_EmptySet
  <2>3. PICK m \in U : \A x \in U \ {m} : <<x, m>> \in R
    BY <2>2, GreatestExists
  <2>4. Cardinality(U \ {m}) = n
    <3>1. Cardinality(U \ {m}) = Cardinality(U) - 1
      BY <2>2, FS_RemoveElement
    <3> QED
      BY <2>1, <3>1
  <2>5. PICK f : Arranges(f, U \ {m})
    BY <2>4
  <2> DEFINE g == [k \in 1..n + 1 |-> IF k = n + 1 THEN m ELSE f[k]]
  <2>6. /\ f \in [1..n -> U \ {m}]
        /\ \A k, l \in 1..n : f[k] = f[l] => k = l
        /\ \A x \in U \ {m} : \E k \in 1..n : f[k] = x
    BY <2>4, <2>5 DEF Bijection, Injection, Surjection, IsInjective
  <2>7. g \in [1..n + 1 -> U]
    BY <2>1, <2>6
  <2>8. ASSUME NEW k \in 1..n + 1, NEW l \in 1..n + 1, g[k] = g[l] PROVE k = l
    BY <2>1, <2>6, <2>8
  <2>9. ASSUME NEW x \in U PROVE \E k \in 1..n + 1 : g[k] = x
    <3>1. CASE x = m
      <4>1. n + 1 \in 1..n + 1 /\ g[n + 1] = m
        BY <2>1
      <4> QED
        BY <3>1, <4>1
    <3>2. CASE x # m
      <4>1. PICK k \in 1..n : f[k] = x
        BY <2>6, <3>2
      <4>2. k \in 1..n + 1 /\ g[k] = x
        BY <2>1, <4>1
      <4> QED
        BY <4>2
    <3> QED
      BY <3>1, <3>2
  <2>10. ASSUME NEW k \in 1..n + 1, NEW l \in 1..k - 1 PROVE <<g[l], g[k]>> \in R
    <3>1. l \in 1..n /\ g[l] = f[l] /\ f[l] \in U \ {m}
      BY <2>1, <2>6
    <3>2. CASE k = n + 1
      BY <2>3, <3>1, <3>2
    <3>3. CASE k # n + 1
      <4>1. k \in 1..n /\ g[k] = f[k]
        BY <2>1, <3>3
      <4> QED
        BY <2>4, <2>5, <3>1, <4>1
    <3> QED
      BY <3>2, <3>3
  <2> HIDE DEF g
  <2>11. g \in Bijection(1..n + 1, U)
    BY <2>7, <2>8, <2>9 DEF Bijection, Injection, Surjection, IsInjective
  <2>12. Arranges(g, U)
    BY <2>10, <2>11
  <2> QED
    BY <2>12
<1> HIDE DEF Has
<1>3. A = Nat
  BY <1>1, <1>2, Inductive
<1>4. Cardinality(S) \in A
  BY <1>3, FS_CardinalityType
<1>5. Has(S)
  BY <1>4
<1>6. PICK f : Arranges(f, S)
  BY <1>5 DEF Has
<1>7. DOMAIN f = 1..Cardinality(S)
  BY <1>6 DEF Bijection, Injection
<1> QED
  BY <1>6, <1>7

\* The elements of a set, each at the place that as many as come before it leave it.
Ranked(R, S) ==
    [k \in 1..Cardinality(S) |-> CHOOSE x \in S : Cardinality({y \in S : <<y, x>> \in R}) = k - 1]

\* That is the order.
LEMMA RankedFacts ==
    ASSUME NEW S, IsFiniteSet(S), NEW R, Orders(R, S)
    PROVE  /\ Ranked(R, S) \in Bijection(1..Cardinality(S), S)
           /\ \A k \in 1..Cardinality(S) : \A l \in 1..k - 1 :
                 <<Ranked(R, S)[l], Ranked(R, S)[k]>> \in R
<1> DEFINE n == Cardinality(S)
           before(x) == {y \in S : <<y, x>> \in R}
<1>1. n \in Nat
  BY FS_CardinalityType
<1>2. PICK f \in Bijection(1..n, S) : \A k \in DOMAIN f : \A l \in 1..k - 1 : <<f[l], f[k]>> \in R
  BY ArrangementExists
<1> HIDE DEF n
<1>3. /\ f \in [1..n -> S] /\ DOMAIN f = 1..n
      /\ \A k, l \in 1..n : f[k] = f[l] => k = l
      /\ \A x \in S : \E k \in 1..n : f[k] = x
  BY <1>2 DEF Bijection, Injection, Surjection, IsInjective
<1>4. ASSUME NEW k \in 1..n PROVE Cardinality(before(f[k])) = k - 1
  <2> DEFINE g == [l \in 1..k - 1 |-> f[l]]
  <2>1. \A l \in 1..k - 1 : l \in 1..n
    BY <1>1
  <2>2. \A l \in 1..k - 1 : f[l] \in before(f[k])
    BY <1>2, <1>3, <2>1
  <2>3. ASSUME NEW y \in before(f[k]) PROVE \E l \in 1..k - 1 : f[l] = y
    <3>1. PICK l \in 1..n : f[l] = y
      BY <1>3
    <3>2. l # k
      BY <1>3, <3>1 DEF Orders
    <3>3. ~(k \in 1..l - 1)
      <4> SUFFICES ASSUME k \in 1..l - 1 PROVE FALSE
        OBVIOUS
      <4>1. <<f[k], f[l]>> \in R
        BY <1>2, <1>3
      <4> QED
        BY <1>3, <3>1, <4>1 DEF Orders
    <3>4. l \in 1..k - 1
      BY <1>1, <3>2, <3>3
    <3> QED
      BY <3>1, <3>4
  <2> HIDE DEF before
  <2>4. g \in Bijection(1..k - 1, before(f[k]))
    BY <1>3, <2>1, <2>2, <2>3 DEF Bijection, Injection, Surjection, IsInjective
  <2>5. ExistsBijection(1..k - 1, before(f[k]))
    BY <2>4 DEF ExistsBijection
  <2>6. IsFiniteSet(before(f[k]))
    <3>1. before(f[k]) \in SUBSET S
      BY DEF before
    <3> QED
      BY <3>1, FS_Subset
  <2> QED
    BY <1>1, <2>5, <2>6, FS_CountingElements
<1>5. ASSUME NEW k \in 1..n
      PROVE  (CHOOSE x \in S : Cardinality(before(x)) = k - 1) = f[k]
  <2> DEFINE m == CHOOSE x \in S : Cardinality(before(x)) = k - 1
  <2>1. f[k] \in S /\ Cardinality(before(f[k])) = k - 1
    BY <1>3, <1>4
  <2> HIDE DEF before
  <2>2. m \in S /\ Cardinality(before(m)) = k - 1
    BY <2>1
  <2> HIDE DEF m
  <2>3. PICK j \in 1..n : f[j] = m
    BY <1>3, <2>2
  <2>4. j - 1 = k - 1
    BY <1>4, <2>2, <2>3
  <2>5. j = k
    BY <1>1, <2>4
  <2> QED
    BY <2>3, <2>5 DEF m
<1>6. Ranked(R, S) = [k \in 1..n |-> CHOOSE x \in S : Cardinality(before(x)) = k - 1]
  BY DEF Ranked, n
<1> HIDE DEF before
<1>7. Ranked(R, S) = [k \in 1..n |-> f[k]]
  BY <1>5, <1>6
<1>8. Ranked(R, S) = f
  BY <1>3, <1>7
<1> QED
  BY <1>2, <1>3, <1>8 DEF n

\* It is a sequence.
LEMMA RankedIsWhole ==
    ASSUME NEW S, IsFiniteSet(S), NEW R, Orders(R, S)
    PROVE  SubSeq(Ranked(R, S), 1, Cardinality(S)) = Ranked(R, S)
<1> DEFINE n == Cardinality(S)
           f == Ranked(R, S)
<1>1. n \in Nat
  BY FS_CardinalityType
<1>2. f \in [1..n -> S]
  BY RankedFacts DEF Bijection, Injection
<1> HIDE DEF n, f
<1>3. SubSeq(f, 1, n) = f
  <2>1. f \in Seq(S) /\ Len(f) = n
    BY <1>1, <1>2
  <2> QED
    BY <2>1
<1> QED
  BY <1>3 DEF n, f

\* In the order of numbers.
LEMMA ArrangedUp ==
    ASSUME NEW S \in SUBSET Nat, IsFiniteSet(S)
    PROVE  /\ Arranged(S, <) \in Bijection(1..Cardinality(S), S)
           /\ \A k \in 1..Cardinality(S) : \A l \in 1..k - 1 : Arranged(S, <)[l] < Arranged(S, <)[k]
<1> DEFINE R == {p \in S \X S : p[1] < p[2]}
<1>1. Orders(R, S)
  BY DEF Orders
<1>2. Arranged(S, <) = Ranked(R, S)
  <2> DEFINE numbered(k) == CHOOSE x \in S : Cardinality({y \in S : y < x}) = k - 1
             related(k) == CHOOSE x \in S : Cardinality({y \in S : <<y, x>> \in R}) = k - 1
  <2>1. \A x \in S : {y \in S : <<y, x>> \in R} = {y \in S : y < x}
    OBVIOUS
  <2> HIDE DEF R
  <2>2. \A k : related(k) = numbered(k)
    BY <2>1
  <2>3. /\ Arranged(S, <) = SubSeq([k \in 1..Cardinality(S) |-> numbered(k)], 1, Cardinality(S))
        /\ Ranked(R, S) = [k \in 1..Cardinality(S) |-> related(k)]
    BY DEF Arranged, Ranked
  <2> HIDE DEF numbered, related
  <2>4. Arranged(S, <) = SubSeq(Ranked(R, S), 1, Cardinality(S))
    BY <2>2, <2>3
  <2> QED
    BY <1>1, <2>4, RankedIsWhole
<1>3. \A x, y : <<x, y>> \in R => x < y
  OBVIOUS
<1> HIDE DEF R
<1> QED
  BY <1>1, <1>2, <1>3, RankedFacts

\* What is chosen stays in its order.
LEMMA ChosenFacts ==
    ASSUME NEW S, NEW sequence \in Seq(S), NEW places \in SUBSET DOMAIN sequence
    PROVE  /\ IsFiniteSet(places) /\ Cardinality(places) \in Nat
           /\ Chosen(sequence, places) \in Seq(S)
           /\ DOMAIN Chosen(sequence, places) = 1..Cardinality(places)
           /\ \E order \in [1..Cardinality(places) -> places] :
                 /\ \A k \in 1..Cardinality(places) : Chosen(sequence, places)[k] = sequence[order[k]]
                 /\ \A k, l \in 1..Cardinality(places) : l < k => order[l] < order[k]
                 /\ \A p \in places : \E k \in 1..Cardinality(places) : order[k] = p
<1> DEFINE order == Arranged(places, <)
           n == Cardinality(places)
<1>1. DOMAIN sequence = 1..Len(sequence) /\ Len(sequence) \in Nat
  OBVIOUS
<1>2. IsFiniteSet(places) /\ places \in SUBSET Nat /\ n \in Nat
  <2>1. IsFiniteSet(1..Len(sequence))
    BY <1>1, FS_Interval
  <2>2. IsFiniteSet(places)
    BY <1>1, <2>1, FS_Subset
  <2>3. places \in SUBSET Nat
    BY <1>1
  <2> QED
    BY <2>2, <2>3, FS_CardinalityType
<1>3. /\ order \in Bijection(1..n, places)
      /\ \A k \in 1..n : \A l \in 1..k - 1 : order[l] < order[k]
  BY <1>2, ArrangedUp
<1>4. Chosen(sequence, places) = [k \in DOMAIN order |-> sequence[order[k]]]
  BY DEF Chosen
<1> HIDE DEF order, n
<1>5. /\ order \in [1..n -> places]
      /\ \A p \in places : \E k \in 1..n : order[k] = p
  BY <1>3 DEF Bijection, Injection, Surjection
<1>6. \A k, l \in 1..n : l < k => order[l] < order[k]
  <2>1. ASSUME NEW k \in 1..n, NEW l \in 1..n, l < k PROVE l \in 1..k - 1
    BY <1>2, <2>1
  <2> QED
    BY <1>3, <2>1
<1>7. Chosen(sequence, places) = [k \in 1..n |-> sequence[order[k]]]
  BY <1>4, <1>5
<1>8. \A k \in 1..n : sequence[order[k]] \in S
  BY <1>1, <1>5
<1>9. Chosen(sequence, places) \in Seq(S)
  BY <1>2, <1>7, <1>8
<1> QED
  BY <1>2, <1>5, <1>6, <1>7, <1>9 DEF n

-----------------------------------------------------------------------------
(* The bag: what a file holds, and what is read of it.                     *)

Messages == [topic : Topics, time : Times, number : Nat]
Parts    == [channel : Topics] \cup [message : Messages]
Records  == [content : Seq(Parts), intact : Nat]
Files    == [records : Seq(Records), ending : Endings]

IsMessage(part) == "message" \in DOMAIN part

\* A part of a chunk is a message or a channel.
LEMMA PartFacts ==
    ASSUME NEW part \in Parts
    PROVE  /\ IsMessage(part) => part \in [message : Messages] /\ part.message \in Messages
           /\ ~IsMessage(part) => part \in [channel : Topics]
BY DEF Parts, IsMessage

\* The numbers of the messages in a content, in the first of it, in a file, and in
\* what can be read of the file.
NumbersUpTo(content, end) == {content[k].message.number : k \in {n \in 1..end : IsMessage(content[n])}}

NumbersIn(content) == NumbersUpTo(content, Len(content))

FileNumbers(file) == UNION {NumbersIn(file.records[j].content) : j \in DOMAIN file.records}

Readable(file) == {n \in DOMAIN file.records : \A before \in 1..n - 1 : ~Damaged(file.records[before])}

FileSurvivors(file) ==
    UNION {NumbersUpTo(file.records[j].content, file.records[j].intact) : j \in Readable(file)}

\* The messages of a content are as they were recorded, in that order.
ContentIsTrue(content, log) ==
    \A k \in DOMAIN content : IsMessage(content[k]) =>
        /\ content[k].message.number \in DOMAIN log
        /\ log[content[k].message.number] = content[k].message
        /\ \A l \in 1..k - 1 : IsMessage(content[l]) =>
              content[l].message.number < content[k].message.number

\* A channel was declared before its first message.
DeclaredBefore(records, j, k, topic) ==
    \E i \in 1..j : \E l \in DOMAIN records[i].content :
        (i < j \/ l < k) /\ records[i].content[l] = [channel |-> topic]

FileIsTrue(file, log) ==
    /\ \A j \in DOMAIN file.records :
          /\ file.records[j].intact <= Len(file.records[j].content)
          /\ ContentIsTrue(file.records[j].content, log)
          /\ \A k \in DOMAIN file.records[j].content : IsMessage(file.records[j].content[k]) =>
                DeclaredBefore(file.records, j, k, file.records[j].content[k].message.topic)
    /\ \A i, j \in DOMAIN file.records : i < j =>
          \A a \in NumbersIn(file.records[i].content), b \in NumbersIn(file.records[j].content) : a < b

\* What is read is the beginning of the file.
LEMMA RecordsReadFacts ==
    ASSUME NEW file \in Files
    PROVE  /\ RecordsRead(file) \in Seq(Records)
           /\ DOMAIN RecordsRead(file) = Readable(file)
           /\ \A j \in Readable(file) : RecordsRead(file)[j] = file.records[j]
           /\ \A j \in Readable(file) : \A i \in 1..j - 1 :
                 i \in Readable(file) /\ ~Damaged(file.records[i])
<1> DEFINE records == file.records
           bad == {i \in DOMAIN records : Damaged(records[i])}
<1>1. records \in Seq(Records) /\ DOMAIN records = 1..Len(records) /\ Len(records) \in Nat
  BY DEF Files
<1>2. \A j \in Readable(file) : \A i \in 1..j - 1 : i \in Readable(file) /\ ~Damaged(file.records[i])
  BY <1>1 DEF Readable
<1>3. CASE bad = {}
  <2>1. RecordsRead(file) = records
    BY <1>3 DEF RecordsRead
  <2>2. Readable(file) = DOMAIN records
    BY <1>1, <1>3 DEF Readable
  <2> QED
    BY <1>1, <1>2, <2>1, <2>2
<1>4. CASE bad # {}
  <2> DEFINE m == Min(bad)
  <2>1. m \in bad /\ \A x \in bad : m <= x
    <3>1. bad \in SUBSET Nat
      BY <1>1
    <3> HIDE DEF bad
    <3> QED
      BY <1>4, <3>1, LeastOf
  <2>2. RecordsRead(file) = SubSeq(records, 1, m)
    BY <1>4 DEF RecordsRead
  <2> HIDE DEF m
  <2>3. Readable(file) = 1..m
    BY <1>1, <2>1 DEF Readable
  <2>4. /\ SubSeq(records, 1, m) \in Seq(Records)
        /\ DOMAIN SubSeq(records, 1, m) = 1..m
        /\ \A j \in 1..m : SubSeq(records, 1, m)[j] = records[j]
    BY <1>1, <2>1
  <2> QED
    BY <1>2, <2>2, <2>3, <2>4
<1> QED
  BY <1>3, <1>4

\* The entries read of a file, in the order they were written, each message after the
\* declaration of its channel.
LEMMA EntriesFacts ==
    ASSUME NEW file \in Files, NEW log, FileIsTrue(file, log)
    PROVE  /\ Entries(file) \in Seq(Parts)
           /\ ContentIsTrue(Entries(file), log)
           /\ NumbersIn(Entries(file)) = FileSurvivors(file)
           /\ Orphans(Entries(file)) = {}
<1> DEFINE records == file.records
           seqs == [i \in DOMAIN RecordsRead(file) |-> Nested(RecordsRead(file)[i])]
           entries == Entries(file)
<1>1. /\ records \in Seq(Records)
      /\ \A j \in DOMAIN records : /\ records[j].content \in Seq(Parts)
                                   /\ records[j].intact \in Nat
                                   /\ records[j].intact <= Len(records[j].content)
                                   /\ DOMAIN records[j].content = 1..Len(records[j].content)
                                   /\ Len(records[j].content) \in Nat
  <2>1. records \in Seq(Records)
    BY DEF Files
  <2>2. ASSUME NEW j \in DOMAIN records
        PROVE  records[j] \in Records /\ records[j].intact <= Len(records[j].content)
    BY <2>1 DEF FileIsTrue
  <2>3. ASSUME NEW j \in DOMAIN records
        PROVE  records[j].content \in Seq(Parts) /\ records[j].intact \in Nat
    BY <2>2 DEF Records
  <2> HIDE DEF records
  <2> QED
    BY <2>1, <2>2, <2>3
<1>2. /\ \A j \in Readable(file) : RecordsRead(file)[j] = records[j]
      /\ \A j \in Readable(file) : \A i \in 1..j - 1 :
            i \in Readable(file) /\ ~Damaged(records[i])
      /\ RecordsRead(file) \in Seq(Records)
      /\ DOMAIN RecordsRead(file) = Readable(file) /\ Readable(file) \subseteq DOMAIN records
  BY RecordsReadFacts DEF Readable
<1>3. ASSUME NEW j \in Readable(file)
      PROVE  /\ Nested(records[j]) \in Seq(Parts)
             /\ DOMAIN Nested(records[j]) = 1..records[j].intact
             /\ \A k \in 1..records[j].intact : /\ k \in DOMAIN records[j].content
                                                /\ Nested(records[j])[k] = records[j].content[k]
  <2> DEFINE content == records[j].content
             intact == records[j].intact
  <2>1. j \in DOMAIN records
    BY <1>2
  <2>2. /\ content \in Seq(Parts) /\ DOMAIN content = 1..Len(content) /\ Len(content) \in Nat
        /\ intact \in Nat /\ intact <= Len(content)
    BY <1>1, <2>1
  <2>3. Nested(records[j]) = SubSeq(content, 1, intact)
    BY DEF Nested
  <2> HIDE DEF content, intact
  <2>4. /\ SubSeq(content, 1, intact) \in Seq(Parts)
        /\ DOMAIN SubSeq(content, 1, intact) = 1..intact
        /\ \A k \in 1..intact : k \in DOMAIN content /\ SubSeq(content, 1, intact)[k] = content[k]
    BY <2>2
  <2>5. /\ Nested(records[j]) \in Seq(Parts)
        /\ DOMAIN Nested(records[j]) = 1..intact
        /\ \A k \in 1..intact : k \in DOMAIN content /\ Nested(records[j])[k] = content[k]
    BY <2>3, <2>4
  <2> QED
    BY <2>5 DEF content, intact
<1>4. /\ seqs \in Seq(Seq(Parts))
      /\ DOMAIN seqs = Readable(file) /\ 1..Len(seqs) = Readable(file)
      /\ \A j \in Readable(file) :
            /\ DOMAIN seqs[j] = 1..records[j].intact
            /\ \A k \in 1..records[j].intact : seqs[j][k] = records[j].content[k]
  <2>1. seqs = [i \in Readable(file) |-> Nested(records[i])]
    BY <1>2
  <2>2. Readable(file) = 1..Len(RecordsRead(file)) /\ Len(RecordsRead(file)) \in Nat
    BY <1>2
  <2> HIDE DEF seqs
  <2>3. seqs \in Seq(Seq(Parts))
    BY <1>3, <2>1, <2>2
  <2>4. DOMAIN seqs = Readable(file) /\ 1..Len(seqs) = Readable(file)
    BY <2>1, <2>3
  <2> QED
    BY <1>3, <2>1, <2>3, <2>4
<1>5. entries = FlattenSeq(seqs)
  BY DEF Entries
<1> HIDE DEF seqs, entries
<1>6. entries \in Seq(Parts)
  BY <1>4, <1>5, FlattenPlaces
<1>7. PICK row \in [DOMAIN entries -> Nat], col \in [DOMAIN entries -> Nat] :
         Placed(seqs, Len(seqs), entries, row, col)
  BY <1>4, <1>5, FlattenPlaces
<1>8. ASSUME NEW p \in DOMAIN entries
      PROVE  /\ row[p] \in Readable(file) /\ row[p] \in DOMAIN records
             /\ col[p] \in 1..records[row[p]].intact
             /\ col[p] \in DOMAIN records[row[p]].content
             /\ entries[p] = records[row[p]].content[col[p]]
  <2>1. row[p] \in 1..Len(seqs) /\ col[p] \in DOMAIN seqs[row[p]] /\ entries[p] = seqs[row[p]][col[p]]
    BY <1>7 DEF Placed
  <2>2. row[p] \in Readable(file) /\ row[p] \in DOMAIN records
    BY <1>2, <1>4, <2>1
  <2>3. col[p] \in 1..records[row[p]].intact /\ entries[p] = records[row[p]].content[col[p]]
    BY <1>4, <2>1, <2>2
  <2> QED
    BY <1>3, <2>2, <2>3
<1>9. ASSUME NEW j \in Readable(file), NEW k \in 1..records[j].intact
      PROVE  \E p \in DOMAIN entries : row[p] = j /\ col[p] = k
  <2>1. j \in 1..Len(seqs) /\ k \in DOMAIN seqs[j]
    BY <1>4
  <2> QED
    BY <1>7, <2>1 DEF Placed
<1>10. \A p, q \in DOMAIN entries :
          p < q => row[p] < row[q] \/ (row[p] = row[q] /\ col[p] < col[q])
  BY <1>7 DEF Placed
<1>11. DOMAIN entries = 1..Len(entries) /\ Len(entries) \in Nat
  BY <1>6
<1>12. ContentIsTrue(entries, log)
  <2> SUFFICES ASSUME NEW q \in DOMAIN entries, IsMessage(entries[q])
               PROVE  /\ entries[q].message.number \in DOMAIN log
                      /\ log[entries[q].message.number] = entries[q].message
                      /\ \A p \in 1..q - 1 : IsMessage(entries[p]) =>
                            entries[p].message.number < entries[q].message.number
    BY DEF ContentIsTrue
  <2>1. /\ entries[q].message.number \in DOMAIN log
        /\ log[entries[q].message.number] = entries[q].message
        /\ \A l \in 1..col[q] - 1 : IsMessage(records[row[q]].content[l]) =>
              records[row[q]].content[l].message.number < entries[q].message.number
    <3>1. ContentIsTrue(records[row[q]].content, log)
      BY <1>8 DEF FileIsTrue
    <3>2. col[q] \in DOMAIN records[row[q]].content /\ entries[q] = records[row[q]].content[col[q]]
      BY <1>8
    <3> HIDE DEF records
    <3> QED
      BY <3>1, <3>2 DEF ContentIsTrue
  <2>2. ASSUME NEW p \in 1..q - 1, IsMessage(entries[p])
        PROVE  entries[p].message.number < entries[q].message.number
    <3>1. p \in DOMAIN entries /\ p < q
      BY <1>11
    <3>2. row[p] < row[q] \/ (row[p] = row[q] /\ col[p] < col[q])
      BY <1>10, <3>1
    <3>3. CASE row[p] = row[q] /\ col[p] < col[q]
      <4>1. col[p] \in 1..col[q] - 1
        BY <1>8, <3>1, <3>3
      <4> QED
        BY <1>8, <2>1, <2>2, <3>1, <3>3, <4>1
    <3>4. CASE row[p] < row[q]
      <4>1. \A r \in DOMAIN entries : IsMessage(entries[r]) =>
               entries[r].message.number \in NumbersIn(records[row[r]].content)
        <5> HIDE DEF records
        <5> SUFFICES ASSUME NEW r \in DOMAIN entries, IsMessage(entries[r])
                     PROVE  entries[r].message.number \in NumbersIn(records[row[r]].content)
          OBVIOUS
        <5>1. /\ entries[r] = records[row[r]].content[col[r]]
              /\ col[r] \in 1..Len(records[row[r]].content)
          BY <1>1, <1>8
        <5> QED
          BY <5>1 DEF NumbersIn, NumbersUpTo
      <4> QED
        BY <1>8, <2>2, <3>1, <3>4, <4>1 DEF FileIsTrue
    <3> QED
      BY <3>2, <3>3, <3>4
  <2> QED
    BY <2>1, <2>2
<1>13. NumbersIn(entries) = FileSurvivors(file)
  <2>1. ASSUME NEW number \in NumbersIn(entries) PROVE number \in FileSurvivors(file)
    <3>1. PICK p \in DOMAIN entries : IsMessage(entries[p]) /\ number = entries[p].message.number
      BY <1>11 DEF NumbersIn, NumbersUpTo
    <3>2. number \in NumbersUpTo(records[row[p]].content, records[row[p]].intact)
      BY <1>8, <3>1 DEF NumbersUpTo
    <3> QED
      BY <1>8, <3>2 DEF FileSurvivors
  <2>2. ASSUME NEW number \in FileSurvivors(file) PROVE number \in NumbersIn(entries)
    <3>1. PICK j \in Readable(file) : number \in NumbersUpTo(records[j].content, records[j].intact)
      BY DEF FileSurvivors
    <3>2. PICK k \in 1..records[j].intact :
             IsMessage(records[j].content[k]) /\ number = records[j].content[k].message.number
      BY <3>1 DEF NumbersUpTo
    <3>3. PICK p \in DOMAIN entries : row[p] = j /\ col[p] = k
      BY <1>9
    <3>4. entries[p] = records[j].content[k]
      BY <1>8, <3>3
    <3> QED
      BY <1>11, <3>2, <3>4 DEF NumbersIn, NumbersUpTo
  <2> QED
    BY <2>1, <2>2
<1>14. Orphans(entries) = {}
  <2> SUFFICES ASSUME NEW q \in DOMAIN entries, IsMessage(entries[q])
               PROVE  Declares(SubSeq(entries, 1, q), entries[q].message.topic)
    BY DEF Orphans, IsMessage
  <2> DEFINE topic == entries[q].message.topic
  <2>1. DeclaredBefore(records, row[q], col[q], topic)
    BY <1>8 DEF FileIsTrue
  <2> DEFINE Declaration(i, l) ==
               /\ l \in DOMAIN records[i].content
               /\ (i < row[q] \/ l < col[q]) /\ records[i].content[l] = [channel |-> topic]
  <2>2. PICK i \in 1..row[q] : \E l : Declaration(i, l)
    BY <2>1 DEF DeclaredBefore
  <2>3. PICK l : Declaration(i, l)
    BY <2>2
  <2> HIDE DEF topic
  <2>4. i \in Readable(file) /\ l \in 1..records[i].intact
    <3>1. CASE i < row[q]
      <4>1. i \in Readable(file) /\ ~Damaged(records[i])
        BY <1>2, <1>8, <3>1
      <4>2. records[i] \in Records /\ records[i].intact = Len(records[i].content)
        BY <1>1, <1>2, <4>1 DEF Damaged
      <4>3. l \in 1..Len(records[i].content)
        BY <1>1, <1>2, <2>3, <4>1
      <4> QED
        BY <4>1, <4>2, <4>3
    <3>2. CASE ~(i < row[q])
      <4>1. i = row[q] /\ l < col[q]
        BY <1>8, <2>3, <3>2
      <4>2. l \in Nat \ {0}
        <5>1. l \in DOMAIN records[row[q]].content
          BY <2>3, <4>1
        <5> QED
          BY <1>1, <1>8, <5>1
      <4> QED
        BY <1>8, <1>1, <4>1, <4>2
    <3> QED
      BY <3>1, <3>2
  <2>5. PICK p \in DOMAIN entries : row[p] = i /\ col[p] = l
    BY <1>9, <2>4
  <2>6. entries[p] = [channel |-> topic]
    BY <1>8, <2>3, <2>5
  <2>7. p < q
    <3>1. i \in Nat /\ l \in Nat /\ row[q] \in Nat /\ col[q] \in Nat
      BY <1>8, <2>4, <2>5
    <3>2. CASE q < p
      <4>1. row[q] < i \/ (row[q] = i /\ col[q] < l)
        BY <1>10, <2>5, <3>2
      <4> QED
        BY <2>3, <3>1, <4>1
    <3>3. p # q
      BY <2>3, <2>5, <3>1
    <3> QED
      BY <1>11, <3>2, <3>3
  <2>8. p \in DOMAIN SubSeq(entries, 1, q) /\ SubSeq(entries, 1, q)[p] = [channel |-> topic]
    BY <1>6, <1>11, <2>6, <2>7
  <2> QED
    BY <2>8 DEF Declares, topic
<1> QED
  BY <1>6, <1>12, <1>13, <1>14 DEF entries

-----------------------------------------------------------------------------
(* The bag: what is made of the messages that were read.                   *)

\* Messages as they were recorded, in that order.
MessagesAreTrue(messages, log) ==
    \A k \in DOMAIN messages :
        /\ messages[k].number \in DOMAIN log
        /\ log[messages[k].number] = messages[k]
        /\ \A l \in 1..k - 1 : messages[l].number < messages[k].number

\* The messages of a file are what survived of it.
LEMMA MessagesOfFacts ==
    ASSUME NEW file \in Files, NEW log, FileIsTrue(file, log)
    PROVE  /\ MessagesOf(file) \in Seq(Messages)
           /\ MessagesAreTrue(MessagesOf(file), log)
           /\ Numbers(MessagesOf(file)) = FileSurvivors(file)
<1> DEFINE entries == Entries(file)
           places == {i \in DOMAIN entries : "message" \in DOMAIN entries[i]}
           chosen == Chosen(entries, places)
           n == Cardinality(places)
           messages == MessagesOf(file)
<1>1. /\ entries \in Seq(Parts) /\ ContentIsTrue(entries, log)
      /\ NumbersIn(entries) = FileSurvivors(file) /\ Parsed(entries) = entries
  BY EntriesFacts DEF Parsed
<1>2. messages = [i \in DOMAIN chosen |-> chosen[i].message]
  BY <1>1 DEF MessagesOf
<1> HIDE DEF messages, entries
<1>3. /\ n \in Nat /\ chosen \in Seq(Parts) /\ DOMAIN chosen = 1..n
      /\ \E order \in [1..n -> places] :
            /\ \A k \in 1..n : chosen[k] = entries[order[k]]
            /\ \A k, l \in 1..n : l < k => order[l] < order[k]
            /\ \A p \in places : \E k \in 1..n : order[k] = p
  <2>1. places \in SUBSET DOMAIN entries
    OBVIOUS
  <2> HIDE DEF places
  <2> QED
    BY <1>1, <2>1, ChosenFacts
<1>4. PICK order \in [1..n -> places] :
         /\ \A k \in 1..n : chosen[k] = entries[order[k]]
         /\ \A k, l \in 1..n : l < k => order[l] < order[k]
         /\ \A p \in places : \E k \in 1..n : order[k] = p
  BY <1>3
<1>5. \A p \in places : p \in DOMAIN entries /\ IsMessage(entries[p]) /\ p \in 1..Len(entries)
  BY <1>1 DEF IsMessage
<1> HIDE DEF chosen, n, places
<1>6. messages = [k \in 1..n |-> entries[order[k]].message]
  BY <1>2, <1>3, <1>4
<1>7. \A k \in 1..n : order[k] \in places /\ entries[order[k]].message \in Messages
  <2>1. ASSUME NEW k \in 1..n PROVE order[k] \in places /\ entries[order[k]].message \in Messages
    <3>1. order[k] \in places /\ order[k] \in DOMAIN entries /\ IsMessage(entries[order[k]])
      BY <1>4, <1>5
    <3>2. entries[order[k]] \in Parts
      BY <1>1, <3>1
    <3> QED
      BY <3>1, <3>2, PartFacts
  <2> QED
    BY <2>1
<1>8. messages \in Seq(Messages)
  BY <1>3, <1>6, <1>7
<1>9. DOMAIN messages = 1..n
  BY <1>6
<1>10. MessagesAreTrue(messages, log)
  <2> SUFFICES ASSUME NEW k \in 1..n
               PROVE  /\ messages[k].number \in DOMAIN log
                      /\ log[messages[k].number] = messages[k]
                      /\ \A l \in 1..k - 1 : messages[l].number < messages[k].number
    BY <1>9 DEF MessagesAreTrue
  <2>1. /\ messages[k] = entries[order[k]].message
        /\ order[k] \in DOMAIN entries /\ IsMessage(entries[order[k]])
    BY <1>5, <1>6, <1>7
  <2>2. ASSUME NEW l \in 1..k - 1 PROVE messages[l].number < messages[k].number
    <3>1. l \in 1..n /\ l < k
      BY <1>3
    <3>2. /\ messages[l] = entries[order[l]].message
          /\ IsMessage(entries[order[l]]) /\ order[l] \in 1..Len(entries) /\ order[k] \in 1..Len(entries)
      BY <1>5, <1>6, <1>7, <3>1
    <3>3. order[l] \in 1..order[k] - 1
      BY <1>1, <1>4, <3>1, <3>2
    <3> QED
      BY <1>1, <2>1, <3>2, <3>3 DEF ContentIsTrue
  <2> QED
    BY <1>1, <2>1, <2>2 DEF ContentIsTrue
<1>11. Numbers(messages) = NumbersIn(entries)
  <2>1. ASSUME NEW number \in Numbers(messages) PROVE number \in NumbersIn(entries)
    <3>1. PICK k \in 1..n : number = messages[k].number
      BY <1>9 DEF Numbers
    <3>2. order[k] \in 1..Len(entries) /\ IsMessage(entries[order[k]])
          /\ number = entries[order[k]].message.number
      BY <1>5, <1>6, <1>7, <3>1
    <3> QED
      BY <3>2 DEF NumbersIn, NumbersUpTo
  <2>2. ASSUME NEW number \in NumbersIn(entries) PROVE number \in Numbers(messages)
    <3>1. PICK p \in 1..Len(entries) : IsMessage(entries[p]) /\ number = entries[p].message.number
      BY DEF NumbersIn, NumbersUpTo
    <3>2. p \in places
      BY <1>1, <3>1 DEF places, IsMessage
    <3>3. PICK k \in 1..n : order[k] = p
      BY <1>4, <3>2
    <3>4. number = messages[k].number
      BY <1>6, <3>1, <3>3
    <3> QED
      BY <1>9, <3>4 DEF Numbers
  <2> QED
    BY <2>1, <2>2
<1> QED
  BY <1>1, <1>8, <1>10, <1>11 DEF messages

\* The files follow one another.
FilesAreTrue(all, log) ==
    /\ \A i \in DOMAIN all : FileIsTrue(all[i], log)
    /\ \A i, j \in DOMAIN all : i < j =>
          \A a \in FileNumbers(all[i]), b \in FileNumbers(all[j]) : a < b

\* What survived of a file was in it.
LEMMA SurvivorsInFile ==
    ASSUME NEW file \in Files, NEW log, FileIsTrue(file, log)
    PROVE  FileSurvivors(file) \subseteq FileNumbers(file)
<1> SUFFICES ASSUME NEW number \in FileSurvivors(file) PROVE number \in FileNumbers(file)
  OBVIOUS
<1>1. PICK j \in Readable(file) : number \in NumbersUpTo(file.records[j].content, file.records[j].intact)
  BY DEF FileSurvivors
<1> DEFINE record == file.records[j]
<1>2. j \in DOMAIN file.records /\ record.intact <= Len(record.content)
  BY DEF Readable, FileIsTrue
<1>3. record \in Records
  <2>1. file.records \in Seq(Records)
    BY DEF Files
  <2> QED
    BY <1>2, <2>1
<1> HIDE DEF record
<1>4. record.intact \in Nat /\ Len(record.content) \in Nat
  BY <1>3 DEF Records
<1>5. 1..record.intact \subseteq 1..Len(record.content)
  BY <1>2, <1>4
<1>6. number \in NumbersIn(record.content)
  BY <1>1, <1>5 DEF NumbersIn, NumbersUpTo, record
<1> QED
  BY <1>2, <1>6 DEF FileNumbers, record

\* What survived is what survived of the files.
LEMMA SurvivorsOfFiles ==
    Survivors = UNION {FileSurvivors(files[i]) : i \in DOMAIN files}
<1>1. ASSUME NEW number \in Survivors
      PROVE  number \in UNION {FileSurvivors(files[i]) : i \in DOMAIN files}
  <2>1. PICK i \in DOMAIN files : \E j \in Readable(files[i]) :
           number \in {files[i].records[j].content[k].message.number :
                         k \in {n \in 1..files[i].records[j].intact :
                                  "message" \in DOMAIN files[i].records[j].content[n]}}
    BY DEF Survivors, Readable
  <2>2. number \in FileSurvivors(files[i])
    BY <2>1 DEF FileSurvivors, NumbersUpTo, IsMessage
  <2> QED
    BY <2>2
<1>2. ASSUME NEW i \in DOMAIN files, NEW number \in FileSurvivors(files[i])
      PROVE  number \in Survivors
  BY <1>2 DEF Survivors, FileSurvivors, NumbersUpTo, IsMessage, Readable
<1> QED
  BY <1>1, <1>2

\* All messages of a bag: every survivor once, in the order recorded.
LEMMA AllMessagesFacts ==
    ASSUME NEW log, files \in Seq(Files), FilesAreTrue(files, log)
    PROVE  /\ AllMessages \in Seq(Messages)
           /\ MessagesAreTrue(AllMessages, log)
           /\ Numbers(AllMessages) = Survivors
<1> DEFINE seqs == [i \in DOMAIN files |-> MessagesOf(files[i])]
           all == AllMessages
<1>1. \A i \in DOMAIN files : files[i] \in Files /\ FileIsTrue(files[i], log)
  BY DEF FilesAreTrue
<1>2. \A i \in DOMAIN files : /\ MessagesOf(files[i]) \in Seq(Messages)
                              /\ MessagesAreTrue(MessagesOf(files[i]), log)
                              /\ Numbers(MessagesOf(files[i])) = FileSurvivors(files[i])
                              /\ FileSurvivors(files[i]) \subseteq FileNumbers(files[i])
  BY <1>1, MessagesOfFacts, SurvivorsInFile
<1>3. DOMAIN files = 1..Len(files) /\ Len(files) \in Nat
  OBVIOUS
<1>4. seqs \in Seq(Seq(Messages)) /\ 1..Len(seqs) = DOMAIN files
      /\ \A i \in DOMAIN files : seqs[i] = MessagesOf(files[i])
  BY <1>2, <1>3
<1>5. all = FlattenSeq(seqs)
  BY DEF AllMessages
<1> HIDE DEF seqs, all
<1>6. all \in Seq(Messages)
  BY <1>4, <1>5, FlattenPlaces
<1>7. PICK row \in [DOMAIN all -> Nat], col \in [DOMAIN all -> Nat] :
         Placed(seqs, Len(seqs), all, row, col)
  BY <1>4, <1>5, FlattenPlaces
<1>8. DOMAIN all = 1..Len(all) /\ Len(all) \in Nat
  BY <1>6
<1>9. ASSUME NEW p \in DOMAIN all
      PROVE  /\ row[p] \in DOMAIN files /\ col[p] \in DOMAIN seqs[row[p]]
             /\ all[p] = seqs[row[p]][col[p]]
             /\ all[p].number \in FileSurvivors(files[row[p]])
  <2>1. /\ row[p] \in DOMAIN files /\ col[p] \in DOMAIN seqs[row[p]]
        /\ all[p] = seqs[row[p]][col[p]]
    BY <1>4, <1>7 DEF Placed
  <2>2. all[p].number \in Numbers(seqs[row[p]])
    BY <2>1 DEF Numbers
  <2> QED
    BY <1>2, <1>4, <2>1, <2>2
<1>10. MessagesAreTrue(all, log)
  <2> SUFFICES ASSUME NEW q \in DOMAIN all
               PROVE  /\ all[q].number \in DOMAIN log
                      /\ log[all[q].number] = all[q]
                      /\ \A p \in 1..q - 1 : all[p].number < all[q].number
    BY DEF MessagesAreTrue
  <2>1. MessagesAreTrue(seqs[row[q]], log)
    BY <1>2, <1>4, <1>9
  <2>2. all[q].number \in DOMAIN log /\ log[all[q].number] = all[q]
    BY <1>9, <2>1 DEF MessagesAreTrue
  <2>3. ASSUME NEW p \in 1..q - 1 PROVE all[p].number < all[q].number
    <3>1. p \in DOMAIN all /\ p < q
      BY <1>8
    <3>2. row[p] < row[q] \/ (row[p] = row[q] /\ col[p] < col[q])
      BY <1>7, <3>1 DEF Placed
    <3>3. CASE row[p] = row[q] /\ col[p] < col[q]
      <4>1. seqs[row[q]] \in Seq(Messages)
        BY <1>2, <1>4, <1>9
      <4>2. col[p] \in 1..col[q] - 1
        BY <1>9, <3>1, <3>3, <4>1
      <4> QED
        BY <1>9, <2>1, <3>1, <3>3, <4>2 DEF MessagesAreTrue
    <3>4. CASE row[p] < row[q]
      <4>1. /\ all[p].number \in FileNumbers(files[row[p]])
            /\ all[q].number \in FileNumbers(files[row[q]])
        BY <1>2, <1>9, <3>1
      <4> QED
        BY <1>9, <3>1, <3>4, <4>1 DEF FilesAreTrue
    <3> QED
      BY <3>2, <3>3, <3>4
  <2> QED
    BY <2>2, <2>3
<1>11. Numbers(all) = UNION {FileSurvivors(files[i]) : i \in DOMAIN files}
  <2>1. ASSUME NEW number \in Numbers(all)
        PROVE  number \in UNION {FileSurvivors(files[i]) : i \in DOMAIN files}
    <3>1. PICK p \in DOMAIN all : number = all[p].number
      BY DEF Numbers
    <3> QED
      BY <1>9, <3>1
  <2>2. ASSUME NEW i \in DOMAIN files, NEW number \in FileSurvivors(files[i])
        PROVE  number \in Numbers(all)
    <3>1. PICK k \in DOMAIN seqs[i] : number = seqs[i][k].number
      BY <1>2, <1>4, <2>2 DEF Numbers
    <3>2. PICK p \in DOMAIN all : row[p] = i /\ col[p] = k
      <4>1. i \in 1..Len(seqs)
        BY <1>4
      <4> QED
        BY <1>7, <4>1 DEF Placed
    <3>3. number = all[p].number
      BY <1>9, <3>1, <3>2
    <3> QED
      BY <3>3 DEF Numbers
  <2> QED
    BY <2>1, <2>2
<1> QED
  BY <1>6, <1>10, <1>11, SurvivorsOfFiles DEF all

\* Of finitely many natural numbers one is the greatest.
LEMMA GreatestOf ==
    ASSUME NEW S \in SUBSET Nat, S # {}, IsFiniteSet(S)
    PROVE  /\ Max(S) \in S
           /\ \A x \in S : x <= Max(S)
<1> DEFINE R == {p \in S \X S : p[1] < p[2]}
<1>1. Orders(R, S)
  BY DEF Orders
<1>2. \E m \in S : \A x \in S \ {m} : <<x, m>> \in R
  <2> HIDE DEF R
  <2>1. \A T \in SUBSET S : T # {} => \E m \in T : \A x \in T \ {m} : <<x, m>> \in R
    BY <1>1, GreatestExists
  <2>2. S \in SUBSET S
    OBVIOUS
  <2> QED
    BY <2>1, <2>2
<1>3. PICK m \in S : \A x \in S \ {m} : x < m
  BY <1>2
<1>4. \A x \in S : m >= x
  BY <1>3
<1> QED
  BY <1>4 DEF Max

\* A message has a time and a number.
LEMMA MessageFacts ==
    ASSUME NEW message \in Messages
    PROVE  message.time \in Nat /\ message.number \in Nat
BY RecordingAssumption DEF Messages

\* Sorting loses nothing and keeps the order of what has the same time.
LEMMA SortedFacts ==
    ASSUME NEW messages \in Seq(Messages)
    PROVE  /\ Sorted(messages) \in Seq(Messages)
           /\ Len(Sorted(messages)) = Len(messages)
           /\ DOMAIN Sorted(messages) = DOMAIN messages
           /\ \E order \in [DOMAIN messages -> DOMAIN messages] :
                 /\ \A k \in DOMAIN messages : Sorted(messages)[k] = messages[order[k]]
                 /\ \A i \in DOMAIN messages : \E k \in DOMAIN messages : order[k] = i
                 /\ \A k, l \in DOMAIN messages : k < l =>
                       \/ messages[order[k]].time < messages[order[l]].time
                       \/ /\ messages[order[k]].time = messages[order[l]].time
                          /\ order[k] < order[l]
<1> DEFINE D == DOMAIN messages
           n == Len(messages)
           before(i, j) == \/ messages[i].time < messages[j].time
                           \/ messages[i].time = messages[j].time /\ i < j
           R == {p \in D \X D : before(p[1], p[2])}
           order == Arranged(D, before)
<1>1. D = 1..n /\ n \in Nat /\ IsFiniteSet(D) /\ Cardinality(D) = n
  <2>1. D = 1..n /\ n \in Nat
    OBVIOUS
  <2> QED
    BY <2>1, FS_Interval
<1>2. \A i \in D : messages[i] \in Messages /\ messages[i].time \in Nat
  <2>1. \A i \in D : messages[i] \in Messages
    OBVIOUS
  <2> QED
    BY <2>1, MessageFacts
<1>3. \A i, j \in D : <<i, j>> \in R <=> before(i, j)
  OBVIOUS
<1>4. Orders(R, D)
  <2> HIDE DEF R, D
  <2>1. \A x, y \in D : x # y => before(x, y) \/ before(y, x)
    BY <1>1, <1>2
  <2>2. \A x, y, z \in D : before(x, y) /\ before(y, z) => before(x, z)
    BY <1>1, <1>2
  <2>3. \A x, y \in D : before(x, y) => ~before(y, x)
    BY <1>1, <1>2
  <2> HIDE DEF before
  <2> QED
    BY <1>3, <2>1, <2>2, <2>3 DEF Orders
<1> HIDE DEF R
<1>5. /\ Ranked(R, D) \in Bijection(1..n, D)
      /\ \A k \in 1..n : \A l \in 1..k - 1 : <<Ranked(R, D)[l], Ranked(R, D)[k]>> \in R
  <2> HIDE DEF D, n
  <2> QED
    BY <1>1, <1>4, RankedFacts
<1>6. order = Ranked(R, D)
  <2> DEFINE numbered(k) == CHOOSE x \in D : Cardinality({y \in D : before(y, x)}) = k - 1
             related(k) == CHOOSE x \in D : Cardinality({y \in D : <<y, x>> \in R}) = k - 1
  <2> HIDE DEF D
  <2>1. /\ order = SubSeq([k \in 1..Cardinality(D) |-> numbered(k)], 1, Cardinality(D))
        /\ Ranked(R, D) = [k \in 1..Cardinality(D) |-> related(k)]
    BY DEF Arranged, Ranked
  <2> HIDE DEF before
  <2>2. \A x \in D : {y \in D : <<y, x>> \in R} = {y \in D : before(y, x)}
    BY <1>3
  <2>3. \A k : related(k) = numbered(k)
    BY <2>2
  <2> HIDE DEF numbered, related, order
  <2>4. order = SubSeq(Ranked(R, D), 1, Cardinality(D))
    BY <2>1, <2>3
  <2> QED
    BY <1>1, <1>4, <2>4, RankedIsWhole
<1>7. order \in [1..n -> D]
  BY <1>5, <1>6 DEF Bijection, Injection
<1>8. /\ order \in Bijection(1..n, D)
      /\ \A k \in DOMAIN order : \A l \in 1..k - 1 : before(order[l], order[k])
  <2> HIDE DEF D, n, order
  <2>1. ASSUME NEW k \in 1..n, NEW l \in 1..k - 1 PROVE before(order[l], order[k])
    <3>1. l \in 1..n
      BY <1>1
    <3>2. order[k] \in D /\ order[l] \in D /\ <<order[l], order[k]>> \in R
      BY <1>5, <1>6, <1>7, <3>1
    <3> HIDE DEF before
    <3> QED
      BY <1>3, <3>2
  <2> QED
    BY <1>5, <1>6, <1>7, <2>1
<1>9. Sorted(messages) = [k \in DOMAIN order |-> messages[order[k]]]
  BY DEF Sorted
<1> HIDE DEF order, D, n
<1>10. /\ order \in [1..n -> D] /\ \A i \in D : \E k \in 1..n : order[k] = i
  BY <1>8 DEF Bijection, Injection, Surjection
<1>11. Sorted(messages) = [k \in 1..n |-> messages[order[k]]]
  BY <1>9, <1>10
<1>12. \A k \in 1..n : messages[order[k]] \in Messages
  BY <1>2, <1>10
<1>13. Sorted(messages) \in Seq(Messages) /\ Len(Sorted(messages)) = n /\ DOMAIN Sorted(messages) = D
  BY <1>1, <1>11, <1>12
<1>14. \A k, l \in D : k < l => before(order[k], order[l])
  <2>1. ASSUME NEW k \in D, NEW l \in D, k < l PROVE k \in 1..l - 1 /\ l \in DOMAIN order
    BY <1>1, <1>10, <2>1
  <2> HIDE DEF before
  <2> QED
    BY <1>8, <2>1
<1>15. \A k, l \in D : k < l =>
          \/ messages[order[k]].time < messages[order[l]].time
          \/ /\ messages[order[k]].time = messages[order[l]].time
             /\ order[k] < order[l]
  BY <1>14
<1> HIDE DEF before
<1>16. order \in [D -> D] /\ (\A k \in D : Sorted(messages)[k] = messages[order[k]])
       /\ \A i \in D : \E k \in D : order[k] = i
  BY <1>1, <1>10, <1>11
<1> QED
  BY <1>13, <1>15, <1>16 DEF D, n

\* No two messages of one number: there are as many as numbers.
LEMMA CountedByNumber ==
    ASSUME NEW messages \in Seq(Messages),
           \A k, l \in DOMAIN messages : messages[k].number = messages[l].number => k = l
    PROVE  Len(messages) = Cardinality(Numbers(messages))
<1> DEFINE f == [k \in 1..Len(messages) |-> messages[k].number]
<1>1. DOMAIN messages = 1..Len(messages) /\ Len(messages) \in Nat
  OBVIOUS
<1>2. f \in Bijection(1..Len(messages), Numbers(messages))
  BY <1>1 DEF Bijection, Injection, Surjection, IsInjective, Numbers
<1>3. ExistsBijection(1..Len(messages), Numbers(messages))
  BY <1>2 DEF ExistsBijection
<1> QED
  BY <1>1, <1>3, FS_CountingElements

\* What is returned of the messages that were read.
LEMMA ResultFacts ==
    ASSUME NEW messages \in Seq(Messages), NEW log, NEW truncated, DOMAIN log \subseteq Nat,
           MessagesAreTrue(messages, log)
    PROVE  LET result == Result(messages, truncated)
           IN  /\ result.messages \in Seq(Messages)
               /\ Numbers(result.messages) = {m \in Numbers(messages) : log[m].topic \in Retained}
               /\ Len(result.messages) = Cardinality(Numbers(result.messages))
               /\ result.count = Cardinality(Numbers(messages))
               /\ result.truncated = truncated
               /\ \A i, j \in DOMAIN result.messages : i < j =>
                     \/ result.messages[i].time < result.messages[j].time
                     \/ /\ result.messages[i].time = result.messages[j].time
                        /\ result.messages[i].number < result.messages[j].number
               /\ \A i \in DOMAIN result.messages :
                     result.start <= result.messages[i].time /\ result.messages[i].time <= result.end
<1> DEFINE retained == {i \in DOMAIN messages : messages[i].topic \in Retained}
           chosen == Chosen(messages, retained)
           sorted == Sorted(chosen)
           times == {messages[i].time : i \in DOMAIN messages}
           n == Cardinality(retained)
           result == Result(messages, truncated)
<1>1. /\ result.messages = sorted /\ result.count = Len(messages) /\ result.truncated = truncated
      /\ result.start = (IF times = {} THEN None ELSE Min(times))
      /\ result.end = (IF times = {} THEN None ELSE Max(times))
  BY DEF Result
<1> HIDE DEF result
<1>2. \A k, l \in DOMAIN messages : l < k => messages[l].number < messages[k].number
  <2>1. ASSUME NEW k \in DOMAIN messages, NEW l \in DOMAIN messages, l < k
        PROVE  l \in 1..k - 1
    BY <2>1
  <2> QED
    BY <2>1 DEF MessagesAreTrue
<1>3. /\ DOMAIN messages = 1..Len(messages) /\ Len(messages) \in Nat
      /\ \A k \in DOMAIN messages : messages[k] \in Messages /\ messages[k].number \in Nat /\ messages[k].time \in Nat
  <2>1. \A k \in DOMAIN messages : messages[k] \in Messages
    OBVIOUS
  <2> QED
    BY <2>1, MessageFacts
<1>4. \A k, l \in DOMAIN messages : messages[k].number = messages[l].number => k = l
  BY <1>2, <1>3
<1>5. /\ n \in Nat /\ chosen \in Seq(Messages) /\ DOMAIN chosen = 1..n
      /\ \E order \in [1..n -> retained] :
            /\ \A k \in 1..n : chosen[k] = messages[order[k]]
            /\ \A k, l \in 1..n : l < k => order[l] < order[k]
            /\ \A p \in retained : \E k \in 1..n : order[k] = p
  <2>1. retained \in SUBSET DOMAIN messages
    OBVIOUS
  <2> HIDE DEF retained
  <2>2. messages \in Seq(Messages)
    OBVIOUS
  <2>3. chosen = Chosen(messages, retained)
    OBVIOUS
  <2> HIDE DEF chosen
  <2>4. n \in Nat /\ chosen \in Seq(Messages) /\ DOMAIN chosen = 1..n
    BY ONLY <2>1, <2>2, <2>3, ChosenFacts
  <2>5. \E order \in [1..n -> retained] :
           /\ \A k \in 1..n : chosen[k] = messages[order[k]]
           /\ \A k, l \in 1..n : l < k => order[l] < order[k]
           /\ \A p \in retained : \E k \in 1..n : order[k] = p
    BY ONLY <2>1, <2>2, <2>3, ChosenFacts
  <2> QED
    BY <2>4, <2>5
<1> HIDE DEF chosen, n
<1>6. PICK order \in [1..n -> retained] :
            /\ \A k \in 1..n : chosen[k] = messages[order[k]]
            /\ \A k, l \in 1..n : l < k => order[l] < order[k]
            /\ \A p \in retained : \E k \in 1..n : order[k] = p
  BY <1>5
<1>7. /\ sorted \in Seq(Messages) /\ DOMAIN sorted = 1..n
      /\ \E place \in [1..n -> 1..n] :
            /\ \A k \in 1..n : sorted[k] = chosen[place[k]]
            /\ \A i \in 1..n : \E k \in 1..n : place[k] = i
            /\ \A k, l \in 1..n : k < l =>
                  \/ chosen[place[k]].time < chosen[place[l]].time
                  \/ chosen[place[k]].time = chosen[place[l]].time /\ place[k] < place[l]
  <2> DEFINE D == DOMAIN chosen
  <2>1. D = 1..n
    BY <1>5
  <2> HIDE DEF D
  <2>2. /\ sorted \in Seq(Messages) /\ DOMAIN sorted = D
        /\ \E place \in [D -> D] :
              /\ \A k \in D : sorted[k] = chosen[place[k]]
              /\ \A i \in D : \E k \in D : place[k] = i
              /\ \A k, l \in D : k < l =>
                    \/ chosen[place[k]].time < chosen[place[l]].time
                    \/ chosen[place[k]].time = chosen[place[l]].time /\ place[k] < place[l]
    BY <1>5, SortedFacts DEF D
  <2> QED
    BY <2>1, <2>2
<1>8. PICK place \in [1..n -> 1..n] :
            /\ \A k \in 1..n : sorted[k] = chosen[place[k]]
            /\ \A i \in 1..n : \E k \in 1..n : place[k] = i
            /\ \A k, l \in 1..n : k < l =>
                  \/ chosen[place[k]].time < chosen[place[l]].time
                  \/ chosen[place[k]].time = chosen[place[l]].time /\ place[k] < place[l]
  BY <1>7
<1> HIDE DEF sorted
<1> DEFINE at(k) == order[place[k]]
<1>9. ASSUME NEW k \in 1..n
      PROVE  at(k) \in DOMAIN messages /\ messages[at(k)].topic \in Retained /\ sorted[k] = messages[at(k)]
  BY <1>6, <1>8
<1>10. ASSUME NEW k \in 1..n, NEW l \in 1..n, k < l
       PROVE  \/ sorted[k].time < sorted[l].time
              \/ sorted[k].time = sorted[l].time /\ sorted[k].number < sorted[l].number
  <2>1. CASE chosen[place[k]].time < chosen[place[l]].time
    BY <1>8, <2>1
  <2>2. CASE chosen[place[k]].time = chosen[place[l]].time /\ place[k] < place[l]
    <3>1. order[place[k]] < order[place[l]]
      BY <1>6, <1>8, <2>2
    <3>2. sorted[k].number < sorted[l].number
      BY <1>2, <1>9, <3>1
    <3> QED
      BY <1>8, <2>2, <3>2
  <2> QED
    BY <1>8, <1>10, <2>1, <2>2
<1>11. Numbers(sorted) = {m \in Numbers(messages) : log[m].topic \in Retained}
  <2>1. \A i \in DOMAIN messages : log[messages[i].number] = messages[i]
    BY DEF MessagesAreTrue
  <2>2. ASSUME NEW m \in Numbers(sorted) PROVE m \in Numbers(messages) /\ log[m].topic \in Retained
    <3>1. PICK k \in 1..n : m = sorted[k].number
      BY <1>7 DEF Numbers
    <3> QED
      BY <1>9, <2>1, <3>1 DEF Numbers
  <2>3. ASSUME NEW m \in Numbers(messages), log[m].topic \in Retained PROVE m \in Numbers(sorted)
    <3>1. PICK i \in DOMAIN messages : m = messages[i].number
      BY DEF Numbers
    <3>2. i \in retained
      BY <2>1, <2>3, <3>1
    <3>3. PICK j \in 1..n : order[j] = i
      BY <1>6, <3>2
    <3>4. PICK k \in 1..n : place[k] = j
      BY <1>8
    <3>5. m = sorted[k].number
      BY <1>6, <1>8, <3>1, <3>3, <3>4
    <3> QED
      BY <1>7, <3>5 DEF Numbers
  <2> QED
    BY <2>2, <2>3
<1>12. Len(sorted) = Cardinality(Numbers(sorted))
  <2>1. \A k, l \in DOMAIN sorted : sorted[k].number = sorted[l].number => k = l
    <3>0. SUFFICES \A k, l \in 1..n : k < l => sorted[k].number # sorted[l].number
      <4>1. ASSUME NEW k \in 1..n, NEW l \in 1..n, k # l PROVE k < l \/ l < k
        BY <1>5, <4>1
      <4> QED
        BY <1>7, <3>0, <4>1
    <3> SUFFICES ASSUME NEW k \in 1..n, NEW l \in 1..n, k < l PROVE sorted[k].number # sorted[l].number
      OBVIOUS
    <3>1. at(k) = at(l) => FALSE
      <4>1. CASE chosen[place[k]].time < chosen[place[l]].time
        <5>1. chosen[place[k]] \in Messages /\ messages[at(k)].time \in Nat /\ messages[at(l)].time \in Nat
          BY <1>3, <1>5, <1>8, <1>9
        <5>2. messages[at(k)].time < messages[at(l)].time
          BY <1>6, <1>8, <4>1
        <5> QED
          BY <5>1, <5>2
      <4>2. CASE place[k] < place[l]
        <5>0. at(k) \in DOMAIN messages /\ at(l) \in DOMAIN messages
          BY <1>9
        <5>1. at(k) < at(l) /\ at(k) \in Nat /\ at(l) \in Nat
          <6>1. at(k) < at(l)
            BY <1>6, <1>8, <4>2
          <6> QED
            BY <1>3, <5>0, <6>1
        <5> QED
          BY <5>1
      <4> QED
        BY <1>8, <4>1, <4>2
    <3> QED
      BY <1>4, <1>9, <3>1
  <2> QED
    BY <1>7, <2>1, CountedByNumber
<1>13. ASSUME NEW k \in 1..n
       PROVE  result.start <= sorted[k].time /\ sorted[k].time <= result.end
  <2>1. sorted[k].time \in times
    BY <1>9
  <2>2. times \in SUBSET Nat /\ times # {}
    BY <1>3, <2>1
  <2>3. IsFiniteSet(times)
    <3> DEFINE f == [i \in DOMAIN messages |-> messages[i].time]
    <3>1. f \in Surjection(DOMAIN messages, times)
      BY DEF Surjection
    <3>2. IsFiniteSet(DOMAIN messages)
      <4>1. IsFiniteSet(1..Len(messages))
        BY <1>3, FS_Interval
      <4> QED
        BY <1>3, <4>1
    <3> QED
      BY <3>1, <3>2, FS_Surjection
  <2>4. result.start = Min(times) /\ result.end = Max(times)
    BY <1>1, <2>2
  <2> HIDE DEF times
  <2>5. \A x \in times : Min(times) <= x
    BY <2>2, LeastOf
  <2>6. \A x \in times : x <= Max(times)
    BY <2>2, <2>3, GreatestOf
  <2> QED
    BY <2>1, <2>4, <2>5, <2>6
<1>14. Len(messages) = Cardinality(Numbers(messages))
  BY <1>4, CountedByNumber
<1> HIDE DEF at
<1> QED
  BY <1>1, <1>7, <1>10, <1>11, <1>12, <1>13, <1>14 DEF result

-----------------------------------------------------------------------------
(* The bag: the recorder.                                                  *)

RecorderTyped ==
    /\ files \in Seq(Files) /\ files # <<>>
    /\ chunk \in Seq(Parts)
    /\ written \in Seq(Messages)
    /\ recording \in BOOLEAN

\* What is not yet flushed comes after what is, and the file it will be in declares
\* its channels.
RecordedInOrder ==
    /\ FilesAreTrue(files, written)
    /\ ContentIsTrue(chunk, written)
    /\ \A k \in DOMAIN chunk : IsMessage(chunk[k]) =>
          \/ \E l \in 1..k - 1 : chunk[l] = [channel |-> chunk[k].message.topic]
          \/ \E i \in DOMAIN LastFile.records :
                Declares(LastFile.records[i].content, chunk[k].message.topic)
    /\ \A i \in DOMAIN files : \A a \in FileNumbers(files[i]), b \in NumbersIn(chunk) : a < b

InFiles(n, all) == \E i \in DOMAIN all : n \in FileNumbers(all[i])

\* Nothing is missing while recording, nor from a last file that was closed.
NothingMissing ==
    /\ recording => /\ loaded = None /\ LastFile.ending = "missing"
                    /\ \A n \in DOMAIN written : n \in NumbersIn(chunk) \/ InFiles(n, files)
    /\ ~recording => /\ chunk = <<>>
                     /\ LastFile.ending = "closed" => \A n \in DOMAIN written : InFiles(n, files)

BagInv == RecorderTyped /\ RecordedInOrder /\ NothingMissing /\ BagIsWhatIsLeft

-----------------------------------------------------------------------------
\* Of a longer log the same is true.
LEMMA LogGrows ==
    ASSUME NEW content, NEW log, NEW longer, ContentIsTrue(content, log),
           \A n \in DOMAIN log : n \in DOMAIN longer /\ longer[n] = log[n]
    PROVE  ContentIsTrue(content, longer)
BY DEF ContentIsTrue

\* Only the contents of the records matter, and that not more is intact.
LEMMA SameContents ==
    ASSUME NEW log, NEW file, NEW other, FileIsTrue(file, log), file.records \in Seq(Records),
           DOMAIN other.records = DOMAIN file.records,
           \A j \in DOMAIN file.records :
              /\ other.records[j].content = file.records[j].content
              /\ other.records[j].intact <= Len(file.records[j].content)
    PROVE  FileIsTrue(other, log) /\ FileNumbers(other) = FileNumbers(file)
<1> DEFINE old == file.records
           new == other.records
<1>1. FileNumbers(other) = FileNumbers(file)
  BY DEF FileNumbers
<1>2. DOMAIN old = 1..Len(old) /\ Len(old) \in Nat
  OBVIOUS
<1>3. ASSUME NEW j \in DOMAIN old, NEW k, NEW topic, DeclaredBefore(old, j, k, topic)
      PROVE  DeclaredBefore(new, j, k, topic)
  <2>1. \A i \in 1..j : i \in DOMAIN old
    BY <1>2
  <2> QED
    BY <1>3, <2>1 DEF DeclaredBefore
<1>4. /\ DOMAIN new = DOMAIN old
      /\ \A j \in DOMAIN old : new[j].content = old[j].content /\ new[j].intact <= Len(old[j].content)
  OBVIOUS
<1>5. FileIsTrue(other, log)
  <2>1. ASSUME NEW j \in DOMAIN new
        PROVE  /\ new[j].intact <= Len(new[j].content)
               /\ ContentIsTrue(new[j].content, log)
               /\ \A k \in DOMAIN new[j].content : IsMessage(new[j].content[k]) =>
                     DeclaredBefore(new, j, k, new[j].content[k].message.topic)
    BY <1>3, <1>4 DEF FileIsTrue
  <2>2. \A i, j \in DOMAIN new : i < j =>
          \A a \in NumbersIn(new[i].content), b \in NumbersIn(new[j].content) : a < b
    BY <1>4 DEF FileIsTrue
  <2> QED
    BY <2>1, <2>2 DEF FileIsTrue
<1> QED
  BY <1>1, <1>5

\* A declaration is appended to a content.
LEMMA AppendChannel ==
    ASSUME NEW content \in Seq(Parts), NEW log, NEW topic \in Topics, ContentIsTrue(content, log)
    PROVE  LET longer == Append(content, [channel |-> topic])
           IN  /\ longer \in Seq(Parts) /\ ContentIsTrue(longer, log)
               /\ NumbersIn(longer) = NumbersIn(content)
<1> DEFINE part == [channel |-> topic]
           longer == Append(content, part)
<1>1. part \in Parts /\ ~IsMessage(part)
  BY DEF Parts, IsMessage
<1> HIDE DEF part
<1>2. /\ longer \in Seq(Parts) /\ Len(longer) = Len(content) + 1 /\ Len(content) \in Nat
      /\ DOMAIN longer = 1..Len(content) + 1 /\ DOMAIN content = 1..Len(content)
      /\ \A k \in 1..Len(content) : longer[k] = content[k]
      /\ longer[Len(content) + 1] = part
  BY <1>1
<1> HIDE DEF longer
<1>3. \A k \in 1..Len(content) + 1 : IsMessage(longer[k]) => k \in 1..Len(content) /\ longer[k] = content[k]
  <2> SUFFICES ASSUME NEW k \in 1..Len(content) + 1, IsMessage(longer[k]) PROVE k \in 1..Len(content)
    BY <1>2
  <2>1. k # Len(content) + 1
    BY <1>1, <1>2
  <2> QED
    BY <1>2, <2>1
<1>4. NumbersIn(longer) = NumbersIn(content)
  BY <1>2, <1>3 DEF NumbersIn, NumbersUpTo
<1>5. ContentIsTrue(longer, log)
  <2> SUFFICES ASSUME NEW k \in 1..Len(content), IsMessage(content[k])
               PROVE  /\ content[k].message.number \in DOMAIN log
                      /\ log[content[k].message.number] = content[k].message
                      /\ \A l \in 1..k - 1 : IsMessage(content[l]) =>
                            content[l].message.number < content[k].message.number
    <3>1. \A k \in 1..Len(content) : \A l \in 1..k - 1 : longer[l] = content[l]
      BY <1>2
    <3> QED
      BY <1>2, <1>3, <3>1 DEF ContentIsTrue
  <2> QED
    BY <1>2 DEF ContentIsTrue
<1> QED
  BY <1>2, <1>4, <1>5 DEF longer, part

\* A message is appended to a content, and to the log.
LEMMA AppendMessage ==
    ASSUME NEW content \in Seq(Parts), NEW log \in Seq(Messages), NEW message \in Messages,
           message.number = Len(log) + 1, ContentIsTrue(content, log)
    PROVE  LET longer == Append(content, [message |-> message])
           IN  /\ longer \in Seq(Parts) /\ ContentIsTrue(longer, Append(log, message))
               /\ NumbersIn(longer) = NumbersIn(content) \cup {Len(log) + 1}
<1> DEFINE part == [message |-> message]
           longer == Append(content, part)
           more == Append(log, message)
<1>1. part \in Parts /\ IsMessage(part) /\ part.message = message
  BY DEF Parts, IsMessage
<1> HIDE DEF part
<1>2. /\ longer \in Seq(Parts) /\ Len(longer) = Len(content) + 1 /\ Len(content) \in Nat
      /\ DOMAIN longer = 1..Len(content) + 1 /\ DOMAIN content = 1..Len(content)
      /\ \A k \in 1..Len(content) : longer[k] = content[k]
      /\ longer[Len(content) + 1] = part
  BY <1>1
<1>3. /\ DOMAIN more = 1..Len(log) + 1 /\ DOMAIN log = 1..Len(log) /\ Len(log) \in Nat
      /\ \A n \in 1..Len(log) : more[n] = log[n]
      /\ more[Len(log) + 1] = message
  OBVIOUS
<1> HIDE DEF longer, more
<1>4. ContentIsTrue(content, more)
  <2>1. \A n \in DOMAIN log : n \in DOMAIN more /\ more[n] = log[n]
    BY <1>3
  <2> QED
    BY <2>1, LogGrows
<1>5. NumbersIn(longer) = NumbersIn(content) \cup {Len(log) + 1}
  <2>1. ASSUME NEW n \in NumbersIn(longer) PROVE n \in NumbersIn(content) \cup {Len(log) + 1}
    <3>1. PICK k \in 1..Len(content) + 1 : IsMessage(longer[k]) /\ n = longer[k].message.number
      BY <1>2 DEF NumbersIn, NumbersUpTo
    <3>2. CASE k = Len(content) + 1
      BY <1>1, <1>2, <3>1, <3>2
    <3>3. CASE k # Len(content) + 1
      <4>1. k \in 1..Len(content) /\ longer[k] = content[k]
        BY <1>2, <3>3
      <4> QED
        BY <3>1, <4>1 DEF NumbersIn, NumbersUpTo
    <3> QED
      BY <3>2, <3>3
  <2>2. ASSUME NEW n \in NumbersIn(content) PROVE n \in NumbersIn(longer)
    <3>1. PICK k \in 1..Len(content) : IsMessage(content[k]) /\ n = content[k].message.number
      BY DEF NumbersIn, NumbersUpTo
    <3>2. k \in 1..Len(content) + 1 /\ longer[k] = content[k]
      BY <1>2
    <3> QED
      BY <1>2, <3>1, <3>2 DEF NumbersIn, NumbersUpTo
  <2>3. Len(log) + 1 \in NumbersIn(longer)
    <3>1. Len(content) + 1 \in 1..Len(longer) /\ IsMessage(longer[Len(content) + 1])
          /\ longer[Len(content) + 1].message.number = Len(log) + 1
      BY <1>1, <1>2
    <3> QED
      BY <3>1 DEF NumbersIn, NumbersUpTo
  <2> QED
    BY <2>1, <2>2, <2>3
<1>6. ContentIsTrue(longer, more)
  <2> SUFFICES ASSUME NEW k \in 1..Len(content) + 1, IsMessage(longer[k])
               PROVE  /\ longer[k].message.number \in DOMAIN more
                      /\ more[longer[k].message.number] = longer[k].message
                      /\ \A l \in 1..k - 1 : IsMessage(longer[l]) =>
                            longer[l].message.number < longer[k].message.number
    BY <1>2 DEF ContentIsTrue
  <2>1. CASE k = Len(content) + 1
    <3>1. longer[k].message = message /\ message.number \in DOMAIN more /\ more[message.number] = message
      BY <1>1, <1>2, <1>3, <2>1
    <3>2. ASSUME NEW l \in 1..k - 1, IsMessage(longer[l])
          PROVE  longer[l].message.number < message.number
      <4>1. l \in DOMAIN content /\ longer[l] = content[l]
        BY <1>2, <2>1
      <4>2. content[l].message.number \in DOMAIN log
        BY <3>2, <4>1 DEF ContentIsTrue
      <4> QED
        BY <1>3, <4>1, <4>2
    <3> QED
      BY <3>1, <3>2
  <2>2. CASE k # Len(content) + 1
    <3>1. k \in DOMAIN content /\ longer[k] = content[k] /\ \A l \in 1..k - 1 : longer[l] = content[l]
      BY <1>2, <2>2
    <3> QED
      BY <1>4, <3>1 DEF ContentIsTrue
  <2> QED
    BY <2>1, <2>2
<1> QED
  BY <1>2, <1>5, <1>6 DEF longer, part, more

\* There is a last file.
LEMMA LastFileFacts ==
    ASSUME RecorderTyped
    PROVE  /\ Len(files) \in Nat \ {0} /\ DOMAIN files = 1..Len(files) /\ Len(files) \in DOMAIN files
           /\ LastFile = files[Len(files)] /\ LastFile \in Files
           /\ LastFile.records \in Seq(Records)
           /\ \A i \in DOMAIN files : files[i] \in Files /\ files[i].records \in Seq(Records)
<1>1. Len(files) \in Nat \ {0} /\ DOMAIN files = 1..Len(files)
  BY DEF RecorderTyped
<1>2. \A i \in DOMAIN files : files[i] \in Files
  BY DEF RecorderTyped
<1>3. \A file \in Files : file.records \in Seq(Records)
  BY DEF Files
<1> QED
  BY <1>1, <1>2, <1>3 DEF LastFile

\* The last file with the open chunk in it.
LEMMA WithChunk ==
    ASSUME RecorderTyped, RecordedInOrder, NEW ending \in Endings
    PROVE  LET file == Flushed(ending)[Len(files)]
           IN  /\ file \in Files /\ file.ending = ending
               /\ FileIsTrue(file, written)
               /\ FileNumbers(file) = FileNumbers(LastFile) \cup NumbersIn(chunk)
<1> DEFINE old == LastFile.records
           record == [content |-> chunk, intact |-> Len(chunk)]
           new == IF chunk = <<>> THEN old ELSE Append(old, record)
           file == [records |-> new, ending |-> ending]
           n == Len(files)
<1>1. n \in DOMAIN files /\ LastFile \in Files /\ old \in Seq(Records)
  BY LastFileFacts
<1>2. Flushed(ending)[n] = file
  <2>1. Flushed(ending) = [files EXCEPT ![n] = file]
    BY DEF Flushed
  <2> HIDE DEF file
  <2> QED
    BY <1>1, <2>1
<1>3. FileIsTrue(LastFile, written)
  BY <1>1, LastFileFacts DEF RecordedInOrder, FilesAreTrue
<1>4. CASE chunk = <<>>
  <2>1. file.records = old /\ file.ending = ending /\ file \in Files
    BY <1>1, <1>4 DEF Files
  <2>2. \A j \in DOMAIN old : old[j].intact <= Len(old[j].content)
    BY <1>3 DEF FileIsTrue
  <2> HIDE DEF file
  <2>3. FileIsTrue(file, written) /\ FileNumbers(file) = FileNumbers(LastFile)
    BY <1>1, <1>3, <2>1, <2>2, SameContents
  <2>4. NumbersIn(chunk) = {}
    BY <1>4 DEF NumbersIn, NumbersUpTo
  <2> QED
    BY <1>2, <2>1, <2>3, <2>4
<1>5. CASE chunk # <<>>
  <2>1. record \in Records /\ record.content = chunk /\ record.intact = Len(chunk)
    BY DEF Records, RecorderTyped
  <2> HIDE DEF record
  <2> DEFINE m == Len(old)
  <2>2. new = Append(old, record)
    BY <1>5
  <2>3. /\ new \in Seq(Records) /\ m \in Nat /\ DOMAIN old = 1..m /\ DOMAIN new = 1..m + 1
        /\ \A j \in 1..m : new[j] = old[j]
        /\ new[m + 1] = record
    BY <1>1, <2>1, <2>2
  <2> HIDE DEF new
  <2>4. file \in Files /\ file.records = new /\ file.ending = ending
    BY <2>3 DEF Files
  <2>5. FileNumbers(file) = FileNumbers(LastFile) \cup NumbersIn(chunk)
    <3>1. ASSUME NEW a \in FileNumbers(file) PROVE a \in FileNumbers(LastFile) \cup NumbersIn(chunk)
      <4>1. PICK j \in 1..m + 1 : a \in NumbersIn(new[j].content)
        BY <2>3, <2>4 DEF FileNumbers
      <4>2. CASE j = m + 1
        BY <2>1, <2>3, <4>1, <4>2
      <4>3. CASE j # m + 1
        <5>1. j \in DOMAIN old /\ new[j] = old[j]
          BY <2>3, <4>3
        <5> QED
          BY <4>1, <5>1 DEF FileNumbers
      <4> QED
        BY <4>2, <4>3
    <3>2. ASSUME NEW a \in FileNumbers(LastFile) PROVE a \in FileNumbers(file)
      <4>1. PICK j \in 1..m : a \in NumbersIn(old[j].content)
        BY <2>3 DEF FileNumbers
      <4>2. j \in 1..m + 1 /\ new[j] = old[j]
        BY <2>3
      <4> QED
        BY <2>3, <2>4, <4>1, <4>2 DEF FileNumbers
    <3>3. ASSUME NEW a \in NumbersIn(chunk) PROVE a \in FileNumbers(file)
      <4>1. m + 1 \in DOMAIN new /\ a \in NumbersIn(new[m + 1].content)
        BY <2>1, <2>3, <3>3
      <4> QED
        BY <2>4, <4>1 DEF FileNumbers
    <3> QED
      BY <3>1, <3>2, <3>3
  <2>6. ASSUME NEW j \in 1..m + 1
        PROVE  /\ new[j].intact <= Len(new[j].content)
               /\ ContentIsTrue(new[j].content, written)
               /\ \A k \in DOMAIN new[j].content : IsMessage(new[j].content[k]) =>
                     DeclaredBefore(new, j, k, new[j].content[k].message.topic)
    <3>1. CASE j = m + 1
      <4>1. new[j].content = chunk /\ new[j].intact = Len(chunk) /\ Len(chunk) \in Nat
        BY <2>1, <2>3, <3>1 DEF RecorderTyped
      <4>2. ASSUME NEW k \in DOMAIN chunk, IsMessage(chunk[k])
            PROVE  DeclaredBefore(new, j, k, chunk[k].message.topic)
        <5> DEFINE topic == chunk[k].message.topic
        <5>1. \/ \E l \in 1..k - 1 : chunk[l] = [channel |-> topic]
              \/ \E i \in DOMAIN old : Declares(old[i].content, topic)
          BY <4>2 DEF RecordedInOrder
        <5> HIDE DEF topic
        <5>2. ASSUME \E l \in 1..k - 1 : chunk[l] = [channel |-> topic]
              PROVE  DeclaredBefore(new, j, k, topic)
          <6>1. PICK l \in 1..k - 1 : chunk[l] = [channel |-> topic]
            BY <5>2
          <6>2. DOMAIN chunk = 1..Len(chunk) /\ Len(chunk) \in Nat
            BY DEF RecorderTyped
          <6>3. l \in DOMAIN new[j].content /\ l < k /\ j \in 1..j
            BY <2>3, <4>1, <6>2
          <6>4. new[j].content[l] = [channel |-> topic]
            BY <4>1, <6>1
          <6>5. \E place \in DOMAIN new[j].content :
                   (j < j \/ place < k) /\ new[j].content[place] = [channel |-> topic]
            BY <6>3, <6>4
          <6> QED
            BY <6>3, <6>5 DEF DeclaredBefore
        <5>3. ASSUME \E i \in DOMAIN old : Declares(old[i].content, topic)
              PROVE  DeclaredBefore(new, j, k, topic)
          <6>1. PICK i \in 1..m : Declares(old[i].content, topic)
            BY <2>3, <5>3
          <6>2. i \in 1..j /\ i < j /\ new[i] = old[i]
            BY <2>3, <3>1
          <6>3. PICK l \in DOMAIN old[i].content : old[i].content[l] = [channel |-> topic]
            BY <6>1 DEF Declares
          <6>4. \E place \in DOMAIN new[i].content :
                   (i < j \/ place < k) /\ new[i].content[place] = [channel |-> topic]
            BY <6>2, <6>3
          <6> QED
            BY <6>2, <6>4 DEF DeclaredBefore
        <5> QED
          BY <5>1, <5>2, <5>3 DEF topic
      <4>3. ContentIsTrue(chunk, written)
        BY DEF RecordedInOrder
      <4> QED
        BY <4>1, <4>2, <4>3
    <3>2. CASE j # m + 1
      <4>1. j \in DOMAIN old /\ \A i \in 1..j : new[i] = old[i]
        BY <2>3, <3>2
      <4>2. j \in 1..j
        BY <2>3
      <4>3. /\ old[j].intact <= Len(old[j].content)
            /\ ContentIsTrue(old[j].content, written)
            /\ \A k \in DOMAIN old[j].content : IsMessage(old[j].content[k]) =>
                  DeclaredBefore(old, j, k, old[j].content[k].message.topic)
        BY <1>3, <4>1 DEF FileIsTrue
      <4>4. ASSUME NEW k, NEW topic, DeclaredBefore(old, j, k, topic)
            PROVE  DeclaredBefore(new, j, k, topic)
        BY <4>1, <4>4 DEF DeclaredBefore
      <4> QED
        BY <4>1, <4>2, <4>3, <4>4
    <3> QED
      BY <3>1, <3>2
  <2>7. ASSUME NEW i \in 1..m + 1, NEW j \in 1..m + 1, i < j,
               NEW a \in NumbersIn(new[i].content), NEW b \in NumbersIn(new[j].content)
        PROVE  a < b
    <3>1. i \in DOMAIN old /\ new[i] = old[i]
      BY <2>3, <2>7
    <3>2. CASE j = m + 1
      <4>1. a \in FileNumbers(LastFile) /\ b \in NumbersIn(chunk)
        BY <2>1, <2>3, <3>1, <3>2 DEF FileNumbers
      <4> QED
        BY <4>1, LastFileFacts DEF RecordedInOrder
    <3>3. CASE j # m + 1
      <4>1. j \in DOMAIN old /\ new[j] = old[j]
        BY <2>3, <3>3
      <4> QED
        BY <1>3, <2>7, <3>1, <4>1 DEF FileIsTrue
    <3> QED
      BY <3>2, <3>3
  <2>8. FileIsTrue(file, written)
    BY <2>3, <2>4, <2>6, <2>7 DEF FileIsTrue
  <2> QED
    BY <1>2, <2>4, <2>5, <2>8
<1> QED
  BY <1>4, <1>5

\* Flushed, the messages of the chunk are in the files.
LEMMA FlushedFacts ==
    ASSUME RecorderTyped, RecordedInOrder, NEW ending \in Endings
    PROVE  /\ Flushed(ending) \in Seq(Files) /\ Len(Flushed(ending)) = Len(files)
           /\ DOMAIN Flushed(ending) = DOMAIN files
           /\ Flushed(ending)[Len(files)].ending = ending
           /\ FilesAreTrue(Flushed(ending), written)
           /\ \A n : InFiles(n, files) \/ n \in NumbersIn(chunk) => InFiles(n, Flushed(ending))
<1> DEFINE new == Flushed(ending)
           n == Len(files)
<1>1. /\ n \in Nat \ {0} /\ DOMAIN files = 1..n /\ n \in DOMAIN files /\ files[n] = LastFile
      /\ \A i \in DOMAIN files : files[i] \in Files
  BY LastFileFacts
<1>2. /\ new[n] \in Files /\ new[n].ending = ending
      /\ FileIsTrue(new[n], written)
      /\ FileNumbers(new[n]) = FileNumbers(files[n]) \cup NumbersIn(chunk)
  BY <1>1, WithChunk
<1>3. /\ DOMAIN new = DOMAIN files
      /\ \A i \in DOMAIN files : i # n => new[i] = files[i]
  BY DEF Flushed
<1>4. new = [i \in DOMAIN files |-> new[i]]
  BY DEF Flushed
<1> HIDE DEF new
<1>5. new \in Seq(Files) /\ Len(new) = n
  BY <1>1, <1>2, <1>3, <1>4
<1>6. \A i \in DOMAIN new : FileIsTrue(new[i], written)
  BY <1>1, <1>2, <1>3 DEF RecordedInOrder, FilesAreTrue
<1>7. ASSUME NEW i \in DOMAIN new, NEW j \in DOMAIN new, i < j,
             NEW a \in FileNumbers(new[i]), NEW b \in FileNumbers(new[j])
      PROVE  a < b
  <2>1. i # n /\ new[i] = files[i]
    BY <1>1, <1>3, <1>7
  <2>2. CASE b \in FileNumbers(files[j])
    BY <1>3, <1>7, <2>1, <2>2 DEF RecordedInOrder, FilesAreTrue
  <2>3. CASE b \in NumbersIn(chunk)
    BY <1>3, <1>7, <2>1, <2>3 DEF RecordedInOrder
  <2>4. b \in FileNumbers(files[j]) \/ b \in NumbersIn(chunk)
    BY <1>2, <1>3
  <2> QED
    BY <2>2, <2>3, <2>4
<1>8. FilesAreTrue(new, written)
  BY <1>6, <1>7 DEF FilesAreTrue
<1>9. ASSUME NEW a, InFiles(a, files) \/ a \in NumbersIn(chunk) PROVE InFiles(a, new)
  <2>1. CASE a \in NumbersIn(chunk)
    BY <1>1, <1>2, <1>3, <2>1 DEF InFiles
  <2>2. CASE InFiles(a, files)
    <3>1. PICK i \in DOMAIN files : a \in FileNumbers(files[i])
      BY <2>2 DEF InFiles
    <3>2. a \in FileNumbers(new[i])
      BY <1>2, <1>3, <3>1
    <3> QED
      BY <1>3, <3>2 DEF InFiles
  <2> QED
    BY <1>9, <2>1, <2>2
<1> QED
  BY <1>2, <1>3, <1>5, <1>8, <1>9 DEF new

\* Before it is loaded nothing is said of a bag.
LEMMA NothingLoaded == loaded' = None => BagIsWhatIsLeft'
BY DEF BagIsWhatIsLeft, SurvivorsAreLoaded, UntruncatedIsComplete, LoadedInOrder, WindowHoldsAll

\* One more message is recorded, none of the file.
LEMMA FileLogGrows ==
    ASSUME NEW file \in Files, NEW log \in Seq(Messages), NEW message \in Messages, FileIsTrue(file, log)
    PROVE  FileIsTrue(file, Append(log, message)) /\ FileNumbers(file) \subseteq 1..Len(log)
<1> DEFINE more == Append(log, message)
           records == file.records
<1>1. \A n \in DOMAIN log : n \in DOMAIN more /\ more[n] = log[n]
  OBVIOUS
<1> HIDE DEF more
<1>2. FileIsTrue(file, more)
  BY <1>1, LogGrows DEF FileIsTrue
<1>3. ASSUME NEW a \in FileNumbers(file) PROVE a \in 1..Len(log)
  <2>1. PICK j \in DOMAIN records : a \in NumbersIn(records[j].content)
    BY DEF FileNumbers
  <2>2. records[j].content \in Seq(Parts) /\ ContentIsTrue(records[j].content, log)
    <3>1. records \in Seq(Records)
      BY DEF Files
    <3>2. records[j] \in Records
      BY <3>1
    <3> QED
      BY <3>2 DEF Records, FileIsTrue
  <2> DEFINE content == records[j].content
  <2> HIDE DEF content
  <2>3. PICK k \in 1..Len(content) : IsMessage(content[k]) /\ a = content[k].message.number
    BY <2>1 DEF NumbersIn, NumbersUpTo, content
  <2>4. k \in DOMAIN content /\ ContentIsTrue(content, log)
    BY <2>2 DEF content
  <2>5. a \in DOMAIN log
    BY <2>3, <2>4 DEF ContentIsTrue
  <2> QED
    BY <2>5
<1> QED
  BY <1>2, <1>3 DEF more

\* A message is recorded, behind the declaration of its channel.
LEMMA RecordStep ==
    ASSUME BagInv, NEW topic \in Topics, NEW time \in Times, Record(topic, time)
    PROVE  BagInv'
<1> DEFINE n == Len(written)
           message == [topic |-> topic, time |-> time, number |-> n + 1]
           channel == [channel |-> topic]
           first == IF Declared(topic) THEN chunk ELSE Append(chunk, channel)
<1>1. /\ recording /\ written' = Append(written, message) /\ chunk' = first \o <<[message |-> message]>>
      /\ files' = files /\ recording' = recording /\ loaded' = loaded /\ loaded = None
      /\ LastFile' = LastFile
  BY DEF Record, BagInv, NothingMissing, LastFile
<1>2. /\ written \in Seq(Messages) /\ chunk \in Seq(Parts) /\ n \in Nat
      /\ message \in Messages /\ message.number = n + 1 /\ message.topic = topic
      /\ DOMAIN chunk = 1..Len(chunk) /\ Len(chunk) \in Nat
  BY RecordingAssumption DEF BagInv, RecorderTyped, Messages
<1> HIDE DEF message
<1>3. /\ first \in Seq(Parts) /\ ContentIsTrue(first, written)
      /\ NumbersIn(first) = NumbersIn(chunk)
  BY <1>2, AppendChannel DEF BagInv, RecordedInOrder
\* The channels of its messages are declared.
<1>4. /\ \A k \in DOMAIN first : IsMessage(first[k]) =>
            \/ \E l \in 1..k - 1 : first[l] = [channel |-> first[k].message.topic]
            \/ \E i \in DOMAIN LastFile.records :
                  Declares(LastFile.records[i].content, first[k].message.topic)
      /\ \/ \E l \in DOMAIN first : first[l] = channel
         \/ \E i \in DOMAIN LastFile.records : Declares(LastFile.records[i].content, topic)
  <2>1. CASE Declared(topic)
    BY <2>1 DEF BagInv, RecordedInOrder, Declared, Declares
  <2>2. CASE ~Declared(topic)
    <3>1. first = Append(chunk, channel)
      BY <2>2
    <3>2. channel \in Parts /\ ~IsMessage(channel)
      BY DEF Parts, IsMessage
    <3>3. /\ DOMAIN first = 1..Len(chunk) + 1
          /\ \A k \in DOMAIN chunk : k \in 1..Len(chunk) /\ first[k] = chunk[k]
          /\ first[Len(chunk) + 1] = channel
      <4> HIDE DEF channel, first
      <4> QED
        BY <1>2, <3>1, <3>2
    <3> HIDE DEF first
    <3>4. ASSUME NEW k \in DOMAIN first, IsMessage(first[k])
          PROVE  \/ \E l \in 1..k - 1 : first[l] = [channel |-> first[k].message.topic]
                 \/ \E i \in DOMAIN LastFile.records :
                       Declares(LastFile.records[i].content, first[k].message.topic)
      <4>1. k \in DOMAIN chunk /\ first[k] = chunk[k]
        BY <1>2, <3>2, <3>3, <3>4
      <4>2. \A l \in 1..k - 1 : first[l] = chunk[l]
        BY <1>2, <3>3, <4>1
      <4> QED
        BY <3>4, <4>1, <4>2 DEF BagInv, RecordedInOrder
    <3>5. Len(chunk) + 1 \in DOMAIN first
      BY <1>2, <3>3
    <3> QED
      BY <3>3, <3>4, <3>5
  <2> QED
    BY <2>1, <2>2
<1> HIDE DEF first
<1>5. chunk' = Append(first, [message |-> message])
  <2>1. [message |-> message] \in Parts
    BY <1>2 DEF Parts
  <2> QED
    BY <1>1, <1>3, <2>1
<1>6. /\ chunk' \in Seq(Parts) /\ ContentIsTrue(chunk', written')
      /\ NumbersIn(chunk') = NumbersIn(chunk) \cup {n + 1}
  <2> DEFINE longer == Append(first, [message |-> message])
             more == Append(written, message)
  <2>1. /\ longer \in Seq(Parts) /\ ContentIsTrue(longer, more)
        /\ NumbersIn(longer) = NumbersIn(first) \cup {Len(written) + 1}
    BY <1>2, <1>3, AppendMessage
  <2>2. chunk' = longer /\ written' = more
    BY <1>1, <1>5
  <2> HIDE DEF longer, more
  <2> QED
    BY <1>3, <2>1, <2>2
<1>7. written' \in Seq(Messages) /\ DOMAIN written' = 1..n + 1 /\ DOMAIN written = 1..n
  BY <1>1, <1>2
<1>8. RecorderTyped'
  BY <1>1, <1>6, <1>7 DEF BagInv, RecorderTyped
<1>9. \A i \in DOMAIN files : FileIsTrue(files[i], written') /\ FileNumbers(files[i]) \subseteq 1..n
  <2>1. \A i \in DOMAIN files : files[i] \in Files /\ FileIsTrue(files[i], written)
    BY DEF BagInv, RecorderTyped, RecordedInOrder, FilesAreTrue
  <2> QED
    BY <1>1, <1>2, <2>1, FileLogGrows
<1>10. RecordedInOrder'
  <2>1. FilesAreTrue(files', written')
    BY <1>1, <1>9 DEF BagInv, RecordedInOrder, FilesAreTrue
  <2>2. ASSUME NEW k \in DOMAIN chunk', IsMessage(chunk'[k])
        PROVE  \/ \E l \in 1..k - 1 : chunk'[l] = [channel |-> chunk'[k].message.topic]
               \/ \E i \in DOMAIN LastFile.records :
                     Declares(LastFile.records[i].content, chunk'[k].message.topic)
    <3>1. /\ DOMAIN first = 1..Len(first) /\ Len(first) \in Nat /\ DOMAIN chunk' = 1..Len(first) + 1
          /\ \A l \in 1..Len(first) : chunk'[l] = first[l]
          /\ chunk'[Len(first) + 1] = [message |-> message]
      <4> DEFINE part == [message |-> message]
      <4>1. part \in Parts
        BY <1>2 DEF Parts
      <4> HIDE DEF part
      <4>2. chunk' = Append(first, part)
        BY <1>5 DEF part
      <4>3. chunk'[Len(first) + 1] = part
        BY <1>3, <4>1, <4>2
      <4> QED
        BY <1>3, <4>1, <4>2, <4>3 DEF part
    <3>2. CASE k = Len(first) + 1
      <4>1. chunk'[k].message.topic = topic
        BY <1>2, <3>1, <3>2
      <4>2. ASSUME NEW l \in DOMAIN first, first[l] = channel
            PROVE  l \in 1..k - 1 /\ chunk'[l] = channel
        BY <3>1, <3>2, <4>2
      <4> QED
        BY <1>4, <4>1, <4>2
    <3>3. CASE k # Len(first) + 1
      <4>1. k \in DOMAIN first /\ chunk'[k] = first[k] /\ \A l \in 1..k - 1 : chunk'[l] = first[l]
        BY <3>1, <3>3
      <4> QED
        BY <1>4, <2>2, <4>1
    <3> QED
      BY <3>2, <3>3
  <2>3. ASSUME NEW i \in DOMAIN files, NEW a \in FileNumbers(files[i]), NEW b \in NumbersIn(chunk')
        PROVE  a < b
    <3>1. a \in 1..n /\ (b \in NumbersIn(chunk) \/ b = n + 1)
      BY <1>6, <1>9
    <3>2. b \in NumbersIn(chunk) => a < b
      BY DEF BagInv, RecordedInOrder
    <3> QED
      BY <1>2, <3>1, <3>2
  <2> QED
    BY <1>1, <1>6, <2>1, <2>2, <2>3 DEF RecordedInOrder
<1>11. NothingMissing'
  <2>1. ASSUME NEW m \in 1..n + 1 PROVE m \in NumbersIn(chunk') \/ InFiles(m, files)
    <3>1. m \in DOMAIN written \/ m = n + 1
      BY <1>2, <1>7
    <3> QED
      BY <1>1, <1>6, <3>1 DEF BagInv, NothingMissing
  <2> QED
    BY <1>1, <1>7, <2>1 DEF BagInv, NothingMissing
<1> QED
  BY <1>1, <1>8, <1>10, <1>11, NothingLoaded DEF BagInv

\* Nothing is left to be flushed.
LEMMA ChunkIsFlushed ==
    ASSUME chunk' = <<>>, FilesAreTrue(files', written')
    PROVE  RecordedInOrder'
<1>1. NumbersIn(chunk') = {} /\ ContentIsTrue(chunk', written') /\ DOMAIN chunk' = {}
  BY DEF NumbersIn, NumbersUpTo, ContentIsTrue
<1> QED
  BY <1>1 DEF RecordedInOrder

\* The chunk goes to the last file.
LEMMA FlushedStep ==
    ASSUME BagInv, NEW ending \in Endings, recording, loaded' = loaded, written' = written,
           chunk' = <<>>, files' = Flushed(ending),
           \/ recording' = TRUE /\ ending = "missing"
           \/ recording' = FALSE
    PROVE  BagInv'
<1>1. /\ files' \in Seq(Files) /\ Len(files') = Len(files)
      /\ files'[Len(files)].ending = ending
      /\ FilesAreTrue(files', written)
      /\ \A n : InFiles(n, files) \/ n \in NumbersIn(chunk) => InFiles(n, files')
  BY FlushedFacts DEF BagInv
<1>2. Len(files) \in Nat \ {0}
  BY LastFileFacts DEF BagInv
<1>3. files' # <<>> /\ LastFile'.ending = ending
  BY <1>1, <1>2 DEF LastFile
<1>4. RecorderTyped'
  <2>1. recording' \in BOOLEAN /\ chunk' \in Seq(Parts)
    <3>1. recording' \in BOOLEAN
      OBVIOUS
    <3>2. <<>> \in Seq(Parts)
      OBVIOUS
    <3> QED
      BY <3>1, <3>2
  <2>2. written' \in Seq(Messages)
    BY DEF BagInv, RecorderTyped
  <2> QED
    BY <1>1, <1>3, <2>1, <2>2 DEF RecorderTyped
<1>5. RecordedInOrder'
  BY <1>1, ChunkIsFlushed
<1>6. loaded' = None /\ \A n \in DOMAIN written' : InFiles(n, files')
  BY <1>1 DEF BagInv, NothingMissing
<1>7. NothingMissing'
  BY <1>3, <1>6 DEF NothingMissing
<1> QED
  BY <1>4, <1>5, <1>6, <1>7, NothingLoaded DEF BagInv

\* The chunk goes to the last file, and another is begun.
LEMMA SplitStep ==
    ASSUME BagInv, Split
    PROVE  BagInv'
<1> DEFINE all == Flushed("closed")
           n == Len(files)
<1>1. /\ recording /\ recording' = recording /\ loaded' = loaded /\ written' = written
      /\ chunk' = <<>> /\ files' = Append(all, NewFile)
  BY DEF Split
<1>2. /\ all \in Seq(Files) /\ Len(all) = n /\ DOMAIN all = DOMAIN files
      /\ FilesAreTrue(all, written)
      /\ \A m : InFiles(m, files) \/ m \in NumbersIn(chunk) => InFiles(m, all)
  BY FlushedFacts DEF BagInv, Endings
<1>3. n \in Nat \ {0} /\ DOMAIN files = 1..n
  BY LastFileFacts DEF BagInv
<1>4. /\ NewFile \in Files /\ NewFile.ending = "missing"
      /\ FileIsTrue(NewFile, written) /\ FileNumbers(NewFile) = {}
  BY DEF NewFile, Files, Endings, FileIsTrue, FileNumbers
<1> HIDE DEF all
<1>5. /\ files' \in Seq(Files) /\ Len(files') = n + 1 /\ DOMAIN files' = 1..n + 1
      /\ \A i \in DOMAIN all : i \in DOMAIN files' /\ files'[i] = all[i]
      /\ files'[n + 1] = NewFile
  BY <1>1, <1>2, <1>3, <1>4
<1>6. \A i \in DOMAIN files' : i = n + 1 \/ i \in DOMAIN all
  BY <1>2, <1>3, <1>5
<1>7. FilesAreTrue(files', written')
  <2>1. \A i \in DOMAIN files' : FileIsTrue(files'[i], written)
    BY <1>2, <1>4, <1>5, <1>6 DEF FilesAreTrue
  <2>2. ASSUME NEW i \in DOMAIN files', NEW j \in DOMAIN files', i < j,
               NEW a \in FileNumbers(files'[i]), NEW b \in FileNumbers(files'[j])
        PROVE  a < b
    <3>1. j \in DOMAIN all /\ i \in DOMAIN all
      BY <1>2, <1>3, <1>4, <1>5, <1>6, <2>2
    <3> QED
      BY <1>2, <1>5, <2>2, <3>1 DEF FilesAreTrue
  <2> QED
    BY <1>1, <2>1, <2>2 DEF FilesAreTrue
<1>8. files' # <<>> /\ LastFile'.ending = "missing"
  BY <1>3, <1>4, <1>5 DEF LastFile
<1>9. RecorderTyped'
  BY <1>1, <1>5, <1>8 DEF BagInv, RecorderTyped
<1>10. RecordedInOrder'
  BY <1>1, <1>7, ChunkIsFlushed
<1>11. loaded' = None /\ \A m \in DOMAIN written' : InFiles(m, files')
  <2>1. \A m \in DOMAIN written : InFiles(m, all)
    BY <1>1, <1>2 DEF BagInv, NothingMissing
  <2>2. \A m : InFiles(m, all) => InFiles(m, files')
    BY <1>5 DEF InFiles
  <2> QED
    BY <1>1, <2>1, <2>2 DEF BagInv, NothingMissing
<1>12. NothingMissing'
  BY <1>1, <1>8, <1>11 DEF NothingMissing
<1> QED
  BY <1>9, <1>10, <1>11, <1>12, NothingLoaded DEF BagInv

\* A file is ended, or a record of it damaged: what was written in it stays.
LEMMA TouchedStep ==
    ASSUME BagInv, NEW i \in DOMAIN files, NEW file \in Files, loaded = None,
           DOMAIN file.records = DOMAIN files[i].records,
           \A j \in DOMAIN files[i].records :
              /\ file.records[j].content = files[i].records[j].content
              /\ file.records[j].intact <= Len(files[i].records[j].content),
           files' = [files EXCEPT ![i] = file],
           chunk' = <<>>, recording' = FALSE, written' = written, loaded' = loaded,
           \/ ~recording /\ file.ending = files[i].ending
           \/ i = Len(files) /\ file.ending # "closed"
    PROVE  BagInv'
<1>1. /\ Len(files) \in Nat \ {0} /\ DOMAIN files = 1..Len(files)
      /\ \A j \in DOMAIN files : files[j] \in Files /\ files[j].records \in Seq(Records)
  BY LastFileFacts DEF BagInv
<1>2. FileIsTrue(file, written) /\ FileNumbers(file) = FileNumbers(files[i])
  <2>1. FileIsTrue(files[i], written)
    BY DEF BagInv, RecordedInOrder, FilesAreTrue
  <2> QED
    BY <1>1, <2>1, SameContents
<1>3. /\ files' \in Seq(Files) /\ Len(files') = Len(files) /\ DOMAIN files' = DOMAIN files
      /\ files'[i] = file /\ \A j \in DOMAIN files : j # i => files'[j] = files[j]
  BY DEF BagInv, RecorderTyped
<1>4. \A j \in DOMAIN files : FileNumbers(files'[j]) = FileNumbers(files[j])
  BY <1>2, <1>3
<1>5. FilesAreTrue(files', written')
  <2>1. \A j \in DOMAIN files' : FileIsTrue(files'[j], written)
    BY <1>2, <1>3 DEF BagInv, RecordedInOrder, FilesAreTrue
  <2> QED
    BY <1>3, <1>4, <2>1 DEF BagInv, RecordedInOrder, FilesAreTrue
<1>6. files' # <<>>
  BY <1>1, <1>3
<1>7. RecorderTyped'
  <2>1. recording' \in BOOLEAN /\ chunk' \in Seq(Parts)
    <3>1. recording' \in BOOLEAN
      OBVIOUS
    <3>2. <<>> \in Seq(Parts)
      OBVIOUS
    <3> QED
      BY <3>1, <3>2
  <2>2. written' \in Seq(Messages)
    BY DEF BagInv, RecorderTyped
  <2> QED
    BY <1>3, <1>6, <2>1, <2>2 DEF RecorderTyped
<1>8. RecordedInOrder'
  BY <1>5, ChunkIsFlushed
<1>9. NothingMissing'
  <2> SUFFICES ASSUME LastFile'.ending = "closed" PROVE \A n \in DOMAIN written : InFiles(n, files')
    BY DEF NothingMissing
  <2>1. LastFile' = files'[Len(files)] /\ LastFile = files[Len(files)] /\ Len(files) \in DOMAIN files
    BY <1>1, <1>3 DEF LastFile
  <2>2. ~recording /\ LastFile.ending = "closed"
    BY <1>3, <2>1
  <2>3. \A n \in DOMAIN written : InFiles(n, files)
    BY <2>2 DEF BagInv, NothingMissing
  <2> QED
    BY <1>3, <1>4, <2>3 DEF InFiles
<1> QED
  BY <1>7, <1>8, <1>9, NothingLoaded DEF BagInv

\* The recorder dies, and the chunk with it or not.
LEMMA CrashStep ==
    ASSUME BagInv, Crash
    PROVE  BagInv'
<1> DEFINE n == Len(files)
<1>1. /\ recording /\ recording' = FALSE /\ chunk' = <<>> /\ written' = written /\ loaded' = loaded
      /\ loaded = None
  BY DEF Crash, BagInv, NothingMissing
<1>2. CASE files' = Flushed("footer")
  <2>1. "footer" \in Endings
    BY DEF Endings
  <2> QED
    BY <1>1, <1>2, <2>1, FlushedStep
<1>3. CASE \E ending \in Endings \ {"footer", "closed"} : files' = [files EXCEPT ![n].ending = ending]
  <2>1. PICK ending \in Endings \ {"footer", "closed"} : files' = [files EXCEPT ![n].ending = ending]
    BY <1>3
  <2>2. n \in DOMAIN files /\ files[n] \in Files /\ files[n].records \in Seq(Records)
    BY LastFileFacts DEF BagInv
  <2> DEFINE file == [files[n] EXCEPT !.ending = ending]
  <2>3. file \in Files /\ file.records = files[n].records /\ file.ending = ending
    BY <2>2 DEF Files
  <2>4. \A j \in DOMAIN files[n].records : files[n].records[j].intact <= Len(files[n].records[j].content)
    BY <2>2 DEF BagInv, RecordedInOrder, FilesAreTrue, FileIsTrue
  <2>5. files' = [files EXCEPT ![n] = file]
    BY <2>1
  <2>6. file.ending # "closed"
    BY <2>3
  <2> HIDE DEF file
  <2> QED
    BY <1>1, <2>2, <2>3, <2>4, <2>5, <2>6, TouchedStep
<1> QED
  BY <1>2, <1>3 DEF Crash

\* A record is damaged.
LEMMA DamageStep ==
    ASSUME BagInv, Damage
    PROVE  BagInv'
<1>1. /\ ~recording /\ loaded = None
      /\ UNCHANGED <<chunk, recording, written, loaded>>
  BY DEF Damage
<1>2. PICK i \in DOMAIN files : \E j \in DOMAIN files[i].records :
         \E intact \in 0..Len(files[i].records[j].content) - 1 :
            files' = [files EXCEPT ![i].records[j].intact = intact]
  BY DEF Damage
<1>3. PICK j \in DOMAIN files[i].records :
         \E intact \in 0..Len(files[i].records[j].content) - 1 :
            files' = [files EXCEPT ![i].records[j].intact = intact]
  BY <1>2
<1> DEFINE records == files[i].records
<1>4. PICK intact \in 0..Len(records[j].content) - 1 :
            files' = [files EXCEPT ![i].records[j].intact = intact]
  BY <1>3
<1>5. files[i] \in Files /\ records \in Seq(Records) /\ records[j] \in Records
  BY LastFileFacts DEF BagInv
<1> DEFINE record == [records[j] EXCEPT !.intact = intact]
           damaged == [records EXCEPT ![j] = record]
           file == [files[i] EXCEPT !.records = damaged]
<1>6. files' = [files EXCEPT ![i] = file]
  BY <1>4
<1>7. Len(records[j].content) \in Nat
  BY <1>5 DEF Records
<1>8. record \in Records /\ record.content = records[j].content /\ record.intact = intact
      /\ intact <= Len(records[j].content)
  <2>1. records[j] = [content |-> records[j].content, intact |-> records[j].intact]
        /\ records[j].content \in Seq(Parts)
    BY <1>5 DEF Records
  <2>2. intact \in Nat /\ intact <= Len(records[j].content)
    BY <1>7
  <2>3. record = [content |-> records[j].content, intact |-> intact]
    BY <2>1
  <2> HIDE DEF record
  <2> QED
    BY <2>1, <2>2, <2>3 DEF Records
<1> HIDE DEF record
<1>9. /\ damaged \in Seq(Records) /\ DOMAIN damaged = DOMAIN records
      /\ \A k \in DOMAIN records : damaged[k] = IF k = j THEN record ELSE records[k]
  BY <1>5, <1>8
<1> HIDE DEF damaged
<1>10. file \in Files /\ file.records = damaged /\ file.ending = files[i].ending
  BY <1>5, <1>9 DEF Files
<1> HIDE DEF file
<1>11. \A k \in DOMAIN records : records[k].intact <= Len(records[k].content)
  BY DEF BagInv, RecordedInOrder, FilesAreTrue, FileIsTrue
<1>12. \A k \in DOMAIN records : /\ file.records[k].content = records[k].content
                                 /\ file.records[k].intact <= Len(records[k].content)
  BY <1>8, <1>9, <1>10, <1>11
<1>13. chunk' = <<>> /\ recording' = FALSE
  BY <1>1 DEF BagInv, NothingMissing, RecorderTyped
<1> QED
  BY <1>1, <1>6, <1>9, <1>10, <1>12, <1>13, TouchedStep

\* Of a whole file everything is read.
LEMMA WholeFile ==
    ASSUME NEW file \in Files, NEW log, FileIsTrue(file, log),
           \A j \in DOMAIN file.records : ~Damaged(file.records[j])
    PROVE  FileNumbers(file) \subseteq FileSurvivors(file)
<1> SUFFICES ASSUME NEW n \in FileNumbers(file) PROVE n \in FileSurvivors(file)
  OBVIOUS
<1>1. PICK j \in DOMAIN file.records : n \in NumbersIn(file.records[j].content)
  BY DEF FileNumbers
<1>2. file.records \in Seq(Records)
  BY DEF Files
<1>3. file.records[j] \in Records
  BY <1>1, <1>2
<1>4. file.records[j].intact = Len(file.records[j].content)
  BY <1>1, <1>3 DEF Damaged, FileIsTrue, Records
<1>5. j \in Readable(file)
  BY <1>1, <1>2 DEF Readable
<1> QED
  BY <1>1, <1>4, <1>5 DEF FileSurvivors, NumbersIn

\* A bag that was read is what is left.
LEMMA ReadStep ==
    ASSUME BagInv, ~recording, UNCHANGED <<files, chunk, recording, written>>,
           NEW truncated, loaded' = Result(AllMessages, truncated),
           truncated \/ \A i \in DOMAIN files : /\ HasClosingMagic(files[i])
                                                /\ ~ParseError(files[i])
    PROVE  BagInv'
<1> DEFINE result == Result(AllMessages, truncated)
<1>1. /\ files \in Seq(Files) /\ FilesAreTrue(files, written)
      /\ DOMAIN written \subseteq Nat
  BY DEF BagInv, RecorderTyped, RecordedInOrder
<1>2. /\ AllMessages \in Seq(Messages) /\ MessagesAreTrue(AllMessages, written)
      /\ Numbers(AllMessages) = Survivors
  BY <1>1, AllMessagesFacts
<1>3. /\ Numbers(result.messages) = {n \in Survivors : written[n].topic \in Retained}
      /\ Len(result.messages) = Cardinality(Numbers(result.messages))
      /\ result.count = Cardinality(Survivors)
      /\ result.truncated = truncated
      /\ \A i, j \in DOMAIN result.messages : i < j =>
            \/ result.messages[i].time < result.messages[j].time
            \/ /\ result.messages[i].time = result.messages[j].time
               /\ result.messages[i].number < result.messages[j].number
      /\ \A i \in DOMAIN result.messages :
            result.start <= result.messages[i].time /\ result.messages[i].time <= result.end
  BY <1>1, <1>2, ResultFacts
<1>4. Survivors' = Survivors /\ loaded' = result /\ written' = written
  BY DEF Survivors
<1> HIDE DEF result
<1>5. SurvivorsAreLoaded'
  BY <1>3, <1>4 DEF SurvivorsAreLoaded
<1>6. UntruncatedIsComplete'
  <2> SUFFICES ASSUME ~truncated PROVE Survivors = DOMAIN written
    BY <1>3, <1>4 DEF UntruncatedIsComplete
  <2>1. Survivors \subseteq DOMAIN written
    BY <1>2 DEF Numbers, MessagesAreTrue
  <2>2. ASSUME NEW n \in DOMAIN written PROVE n \in Survivors
    <3>1. LastFile.ending = "closed"
      BY LastFileFacts DEF BagInv, HasClosingMagic
    <3>2. PICK i \in DOMAIN files : n \in FileNumbers(files[i])
      BY <3>1 DEF BagInv, NothingMissing, InFiles
    <3>3. /\ files[i] \in Files /\ FileIsTrue(files[i], written)
          /\ \A j \in DOMAIN files[i].records : ~Damaged(files[i].records[j])
      BY <1>1 DEF FilesAreTrue, ParseError
    <3>4. n \in FileSurvivors(files[i])
      BY <3>2, <3>3, WholeFile
    <3> QED
      BY <3>4, SurvivorsOfFiles
  <2> QED
    BY <2>1, <2>2
<1>7. LoadedInOrder'
  BY <1>3, <1>4 DEF LoadedInOrder
<1>8. WindowHoldsAll'
  BY <1>3, <1>4 DEF WindowHoldsAll, InWindow
<1>9. RecorderTyped' /\ RecordedInOrder' /\ NothingMissing'
  BY DEF BagInv, RecorderTyped, RecordedInOrder, NothingMissing, LastFile
<1> QED
  BY <1>5, <1>6, <1>7, <1>8, <1>9 DEF BagInv, BagIsWhatIsLeft

\* The reader is tried on files that are complete, or not.
LEMMA LoadStep ==
    ASSUME BagInv, Load
    PROVE  BagInv'
<1>1. ~recording /\ UNCHANGED <<files, chunk, recording, written>>
  BY DEF Load
<1>2. \/ loaded' = Result(AllMessages, AnyTruncated)
      \/ /\ \A i \in DOMAIN files : HasClosingMagic(files[i]) /\ ~ParseError(files[i])
         /\ loaded' = Result(AllMessages, FALSE)
  BY DEF Load, Recovered, RecoveredInstead
<1>3. AnyTruncated \/ \A i \in DOMAIN files : HasClosingMagic(files[i]) /\ ~ParseError(files[i])
  BY DEF AnyTruncated, Truncated
<1>4. CASE loaded' = Result(AllMessages, AnyTruncated)
  BY <1>1, <1>3, <1>4, ReadStep
<1>5. CASE /\ \A i \in DOMAIN files : HasClosingMagic(files[i]) /\ ~ParseError(files[i])
           /\ loaded' = Result(AllMessages, FALSE)
  BY <1>1, <1>5, ReadStep
<1> QED
  BY <1>2, <1>4, <1>5

\* A recording begins with one file.
LEMMA BagInvInit == RecordingInit => BagInv
<1> SUFFICES ASSUME RecordingInit PROVE BagInv
  OBVIOUS
<1>1. files = <<NewFile>> /\ chunk = <<>> /\ recording = TRUE /\ written = <<>> /\ loaded = None
  BY DEF RecordingInit
<1>2. /\ NewFile \in Files /\ NewFile.ending = "missing"
      /\ FileIsTrue(NewFile, written) /\ FileNumbers(NewFile) = {}
  BY DEF NewFile, Files, Endings, FileIsTrue, FileNumbers
<1>3. RecorderTyped
  <2>1. <<>> \in Seq(Parts) /\ <<>> \in Seq(Messages)
    OBVIOUS
  <2>2. <<NewFile>> \in Seq(Files) /\ <<NewFile>> # <<>>
    BY <1>2
  <2> QED
    BY <1>1, <2>1, <2>2 DEF RecorderTyped
<1>4. DOMAIN files = {1} /\ files[1] = NewFile /\ LastFile = NewFile
  BY <1>1 DEF LastFile
<1>5. FilesAreTrue(files, written)
  BY <1>2, <1>4 DEF FilesAreTrue
<1>6. RecordedInOrder
  BY <1>1, <1>2, <1>4, <1>5 DEF RecordedInOrder, ContentIsTrue
<1>7. NothingMissing
  BY <1>1, <1>2, <1>4 DEF NothingMissing
<1>8. BagIsWhatIsLeft
  BY <1>1 DEF BagIsWhatIsLeft, SurvivorsAreLoaded, UntruncatedIsComplete, LoadedInOrder, WindowHoldsAll
<1> QED
  BY <1>3, <1>6, <1>7, <1>8 DEF BagInv

\* The recorder, damage and the loader keep it; the tools do not touch it.
LEMMA BagInvStep == BagInv /\ [Next]_vars => BagInv'
<1> SUFFICES ASSUME BagInv, [Next]_vars PROVE BagInv'
  OBVIOUS
<1>1. CASE UNCHANGED recordingVars
  <2>1. /\ files' = files /\ chunk' = chunk /\ recording' = recording
        /\ written' = written /\ loaded' = loaded
    BY <1>1 DEF recordingVars
  <2>2. RecorderTyped' /\ RecordedInOrder' /\ NothingMissing'
    BY <2>1 DEF BagInv, RecorderTyped, RecordedInOrder, NothingMissing, LastFile
  <2>3. Survivors' = Survivors
    BY <2>1 DEF Survivors
  <2>4. SurvivorsAreLoaded' /\ UntruncatedIsComplete'
    BY <2>1, <2>3 DEF BagInv, BagIsWhatIsLeft, SurvivorsAreLoaded, UntruncatedIsComplete
  <2>5. LoadedInOrder' /\ WindowHoldsAll'
    BY <2>1 DEF BagInv, BagIsWhatIsLeft, LoadedInOrder, WindowHoldsAll, WindowResolves, InWindow
  <2> QED
    BY <2>2, <2>4, <2>5 DEF BagInv, BagIsWhatIsLeft
<1>2. CASE RecordingNext
  <2>1. ASSUME NEW topic \in Topics, NEW time \in Times, Record(topic, time) PROVE BagInv'
    BY <2>1, RecordStep
  <2>2. CASE Flush
    BY <2>2, FlushedStep DEF Flush, Endings
  <2>3. CASE Close
    BY <2>3, FlushedStep DEF Close, Endings
  <2> QED
    BY <1>2, <2>1, <2>2, <2>3, SplitStep, CrashStep, DamageStep, LoadStep DEF RecordingNext
<1>3. \/ UNCHANGED recordingVars
      \/ RecordingNext
  BY DEF vars, Next, Reads, ReadCommand, ReadPoint, ReadRun, ReadDrive, ReadMoment,
         ReadState, ReadStatus, ReadChange, ReadSample, ReadRate, ReadScan, Event
<1> QED
  BY <1>1, <1>2, <1>3

\* Wherever a recording was cut off, split or damaged, and whether the reader could
\* open it: every message before the damage is returned once, in the order of time,
\* and nothing behind it; the bag says so if that is not all; and no window without
\* limits cuts any of it off (recover_mcap_file, recover_mcap_bag, load_bag_messages,
\* resolve_analysis_window, messages_in_receive_window).
THEOREM BagsAreWhatIsLeft == Spec => []BagIsWhatIsLeft
<1>1. Init => BagInv
  BY BagInvInit DEF Init
<1>2. BagInv /\ [Next]_vars => BagInv'
  BY BagInvStep
<1>3. BagInv => BagIsWhatIsLeft
  BY DEF BagInv
<1> QED
  BY <1>1, <1>2, <1>3, PTL DEF Spec

-----------------------------------------------------------------------------
(* Tuning runs: what the tools of analyze_pid_run.py say of them.           *)

\* The operators of the tuning runs' module are those of this one.
LEMMA PidOperators ==
    /\ \A S : Pid!Max(S) = Max(S) /\ Pid!Min(S) = Min(S)
    /\ \A s : Pid!ToSet(s) = ToSet(s)
    /\ \A S : Pid!Cardinality(S) = Cardinality(S)
    /\ \A S : Pid!Arranged(S, <) = Arranged(S, <)
    /\ \A s, places : Pid!Chosen(s, places) = Chosen(s, places)
<1>1. \A S : Pid!Cardinality(S) = Cardinality(S)
  BY DEF Pid!Cardinality, Cardinality
<1>2. ASSUME NEW S PROVE Pid!Arranged(S, <) = Arranged(S, <)
  <2> DEFINE here(k) == CHOOSE x \in S : Cardinality({y \in S : y < x}) = k - 1
             there(k) == CHOOSE x \in S : Pid!Cardinality({y \in S : y < x}) = k - 1
  <2>1. \A k : there(k) = here(k)
    BY <1>1
  <2>2. Arranged(S, <) = SubSeq([k \in 1..Cardinality(S) |-> here(k)], 1, Cardinality(S))
    BY DEF Arranged
  <2>3. Pid!Arranged(S, <)
          = SubSeq([k \in 1..Pid!Cardinality(S) |-> there(k)], 1, Pid!Cardinality(S))
    BY DEF Pid!Arranged
  <2> HIDE DEF here, there
  <2> QED
    BY <1>1, <2>1, <2>2, <2>3
<1>3. ASSUME NEW s, NEW places PROVE Pid!Chosen(s, places) = Chosen(s, places)
  <2> DEFINE order == Arranged(places, <)
             other == Pid!Arranged(places, <)
  <2>1. other = order
    BY <1>2
  <2>2. Chosen(s, places) = [k \in DOMAIN order |-> s[order[k]]]
    BY DEF Chosen
  <2>3. Pid!Chosen(s, places) = [k \in DOMAIN other |-> s[other[k]]]
    BY Zenon DEF Pid!Chosen
  <2> HIDE DEF order, other
  <2> QED
    BY <2>1, <2>2, <2>3
<1> QED
  BY <1>1, <1>2, <1>3 DEF Pid!Max, Max, Pid!Min, Min, Pid!ToSet, ToSet

\* Where the run of state i begins, if those before are known.
Follows(states, run, i) ==
    IF i = 1 THEN 1
    ELSE IF \/ states[i].speed # states[run[i - 1]].speed
            \/ states[i].time - states[i - 1].time > PlateauGap
         THEN i ELSE run[i - 1]

\* The runs are what the recursion says they are.
LEMMA RunIsFound ==
    ASSUME NEW S, NEW states \in Seq(S)
    PROVE  Pid!RunOf(states) = [i \in DOMAIN states |-> Follows(states, Pid!RunOf(states), i)]
<1> DEFINE N == Len(states)
           breaks(i, start) == \/ states[i].speed # states[start].speed
                               \/ states[i].time - states[i - 1].time > PlateauGap
           A == {n \in Nat : n <= N =>
                   \E f \in [1..n -> Nat] : \A i \in 1..n : f[i] = Follows(states, f, i)}
<1>1. N \in Nat /\ DOMAIN states = 1..N
  OBVIOUS
<1>2. \A f, i : Follows(states, f, i)
                  = IF i = 1 THEN 1 ELSE IF breaks(i, f[i - 1]) THEN i ELSE f[i - 1]
  BY DEF Follows
<1> HIDE DEF breaks
<1>3. 0 \in A
  <2> DEFINE f == [i \in 1..0 |-> i]
  <2>1. f \in [1..0 -> Nat] /\ \A i \in 1..0 : f[i] = Follows(states, f, i)
    OBVIOUS
  <2> QED
    BY <2>1
<1>4. ASSUME NEW n \in A PROVE n + 1 \in A
  <2>1. n \in Nat
    OBVIOUS
  <2> SUFFICES ASSUME n + 1 <= N
               PROVE  \E g \in [1..n + 1 -> Nat] : \A i \in 1..n + 1 : g[i] = Follows(states, g, i)
    <3>1. n + 1 \in Nat
      BY <2>1
    <3> QED
      BY <3>1
  <2>2. PICK f \in [1..n -> Nat] : \A i \in 1..n : f[i] = Follows(states, f, i)
    BY <1>1, <2>1
  <2> DEFINE g == [i \in 1..n + 1 |-> IF i = n + 1 THEN Follows(states, f, n + 1) ELSE f[i]]
  <2>3. Follows(states, f, n + 1) \in Nat
    <3>1. n # 0 => n \in 1..n /\ f[n] \in Nat
      BY <2>1
    <3>2. n + 1 - 1 = n /\ (n = 0 <=> n + 1 = 1)
      BY <2>1
    <3>3. Follows(states, f, n + 1)
            = IF n + 1 = 1 THEN 1 ELSE IF breaks(n + 1, f[n + 1 - 1]) THEN n + 1 ELSE f[n + 1 - 1]
      BY <1>2
    <3>4. Follows(states, f, n + 1) = IF n = 0 THEN 1 ELSE IF breaks(n + 1, f[n]) THEN n + 1 ELSE f[n]
      BY <3>2, <3>3
    <3> QED
      BY <2>1, <3>1, <3>4
  <2>4. g \in [1..n + 1 -> Nat]
    BY <2>1, <2>3
  <2>5. ASSUME NEW i \in 1..n + 1 PROVE g[i] = Follows(states, g, i)
    <3>1. i # 1 => i - 1 \in 1..n /\ g[i - 1] = f[i - 1]
      BY <2>1
    <3>2. Follows(states, g, i) = Follows(states, f, i)
      BY <1>2, <3>1
    <3>3. g[i] = Follows(states, f, i)
      BY <2>1, <2>2
    <3> QED
      BY <3>2, <3>3
  <2> QED
    BY <2>4, <2>5
<1> HIDE DEF A
<1>5. A = Nat
  <2>1. A \in SUBSET Nat
    BY DEF A
  <2> QED
    BY <1>3, <1>4, <2>1, Inductive
<1>6. PICK f \in [1..N -> Nat] : \A i \in 1..N : f[i] = Follows(states, f, i)
  <2>1. N \in A /\ N <= N
    BY <1>1, <1>5
  <2> QED
    BY <2>1 DEF A
<1>7. f = [i \in DOMAIN states |-> Follows(states, f, i)]
  BY <1>1, <1>6
<1> QED
  BY Zenon, <1>7 DEF Pid!RunOf, Follows

\* The runs follow one another, and the speed of a run is that of its first state.
LEMMA RunFacts ==
    ASSUME NEW S, NEW states \in Seq(S)
    PROVE  LET run == Pid!RunOf(states)
           IN  /\ run \in [DOMAIN states -> DOMAIN states]
               /\ \A i \in DOMAIN states :
                     /\ run[i] <= i
                     /\ run[run[i]] = run[i]
                     /\ states[i].speed = states[run[i]].speed
               /\ \A i, j \in DOMAIN states : i <= j => run[i] <= run[j]
<1> DEFINE N == Len(states)
           run == Pid!RunOf(states)
           breaks(i, start) == \/ states[i].speed # states[start].speed
                               \/ states[i].time - states[i - 1].time > PlateauGap
<1>1. N \in Nat /\ DOMAIN states = 1..N
  OBVIOUS
<1>2. run = [i \in 1..N |-> Follows(states, run, i)]
  BY <1>1, RunIsFound
<1> HIDE DEF run
<1>3. DOMAIN run = 1..N
      /\ \A i \in 1..N : run[i] = IF i = 1 THEN 1 ELSE IF breaks(i, run[i - 1]) THEN i ELSE run[i - 1]
  <2>1. \A i : Follows(states, run, i)
                 = IF i = 1 THEN 1 ELSE IF breaks(i, run[i - 1]) THEN i ELSE run[i - 1]
    BY DEF Follows
  <2> HIDE DEF breaks
  <2> QED
    BY <1>2, <2>1
<1>4. \A i, start : ~breaks(i, start) => states[i].speed = states[start].speed
  OBVIOUS
<1> HIDE DEF breaks
<1> DEFINE A == {n \in Nat : n + 1 <= N =>
                   /\ run[n + 1] \in 1..n + 1
                   /\ run[run[n + 1]] = run[n + 1]
                   /\ states[n + 1].speed = states[run[n + 1]].speed}
<1>5. 0 \in A
  BY <1>3
<1>6. ASSUME NEW n \in A PROVE n + 1 \in A
  <2>1. n \in Nat
    OBVIOUS
  <2> SUFFICES ASSUME n + 2 <= N
               PROVE  /\ run[n + 2] \in 1..n + 2
                      /\ run[run[n + 2]] = run[n + 2]
                      /\ states[n + 2].speed = states[run[n + 2]].speed
    BY <2>1
  <2>2. /\ run[n + 1] \in 1..n + 1
        /\ run[run[n + 1]] = run[n + 1]
    BY <1>1, <2>1
  <2>3. n + 2 \in 1..N /\ n + 2 # 1 /\ n + 2 - 1 = n + 1
    BY <1>1, <2>1
  <2>4. run[n + 2] = IF breaks(n + 2, run[n + 1]) THEN n + 2 ELSE run[n + 1]
    BY <1>3, <2>3
  <2> QED
    BY <1>4, <2>1, <2>2, <2>4
<1> HIDE DEF A
<1>7. A = Nat
  <2>1. A \in SUBSET Nat
    BY DEF A
  <2> QED
    BY <1>5, <1>6, <2>1, Inductive
<1>8. ASSUME NEW i \in 1..N
      PROVE  /\ run[i] \in 1..i
             /\ run[run[i]] = run[i]
             /\ states[i].speed = states[run[i]].speed
  <2>1. i - 1 \in A
    BY <1>1, <1>7
  <2>2. i - 1 + 1 = i
    BY <1>1
  <2> QED
    BY <1>1, <2>1, <2>2 DEF A
<1>9. ASSUME NEW i \in 1..N, i + 1 <= N PROVE run[i] <= run[i + 1]
  <2>1. i + 1 \in 1..N /\ i + 1 # 1 /\ i + 1 - 1 = i
    BY <1>1, <1>9
  <2>2. run[i + 1] \in {i + 1, run[i]}
    BY <1>3, <2>1
  <2> QED
    BY <1>1, <1>8, <2>2
<1> DEFINE B == {d \in Nat : \A i \in 1..N : i + d <= N => run[i] <= run[i + d]}
<1>10. 0 \in B
  BY <1>1, <1>8
<1>11. ASSUME NEW d \in B PROVE d + 1 \in B
  <2>1. d \in Nat
    OBVIOUS
  <2> SUFFICES ASSUME NEW i \in 1..N, i + d + 1 <= N PROVE run[i] <= run[i + d + 1]
    BY <2>1
  <2>2. i + d \in 1..N /\ i + d + 1 \in 1..N
    BY <1>1, <2>1
  <2>3. run[i] <= run[i + d] /\ run[i + d] <= run[i + d + 1]
    BY <1>1, <1>9, <2>1, <2>2
  <2>4. run[i] \in Nat /\ run[i + d] \in Nat /\ run[i + d + 1] \in Nat
    BY <1>8, <2>2
  <2> QED
    BY <2>3, <2>4
<1> HIDE DEF B
<1>12. B = Nat
  <2>1. B \in SUBSET Nat
    BY DEF B
  <2> QED
    BY <1>10, <1>11, <2>1, Inductive
<1>13. ASSUME NEW i \in 1..N, NEW j \in 1..N, i <= j PROVE run[i] <= run[j]
  <2>1. j - i \in B /\ i + (j - i) = j
    BY <1>1, <1>12, <1>13
  <2> QED
    BY <1>1, <2>1 DEF B
<1>14. run \in [1..N -> 1..N]
  <2>1. \A i \in 1..N : run[i] \in 1..N
    BY <1>1, <1>8
  <2> QED
    BY <1>2, <1>3, <2>1
<1> QED
  BY <1>1, <1>8, <1>13, <1>14 DEF run

\* Of some states there is a last.
LEMMA LastPlace ==
    ASSUME NEW n \in Nat, NEW T \in SUBSET (1..n), T # {}
    PROVE  Max(T) \in T /\ \A i \in T : i <= Max(T)
<1>1. IsFiniteSet(T)
  <2>1. IsFiniteSet(1..n)
    BY FS_Interval
  <2> QED
    BY <2>1, FS_Subset
<1>2. T \in SUBSET Nat
  OBVIOUS
<1> QED
  BY <1>1, <1>2, GreatestOf

\* A plateau is a run, from its first state to its last, and the plateaus follow one another.
LEMMA PlateauFacts ==
    ASSUME NEW S, NEW states \in Seq(S)
    PROVE  LET run == Pid!RunOf(states)
               plateaus == Pid!Plateaus(states)
           IN  /\ Len(plateaus) \in Nat
               /\ \A k \in 1..Len(plateaus) :
                     /\ plateaus[k].first \in DOMAIN states
                     /\ plateaus[k].last \in DOMAIN states
                     /\ plateaus[k].first <= plateaus[k].last
                     /\ \A i \in plateaus[k].first..plateaus[k].last : run[i] = plateaus[k].first
               /\ \A k \in 1..Len(plateaus) - 1 : plateaus[k].last < plateaus[k + 1].first
<1> DEFINE N == Len(states)
           run == Pid!RunOf(states)
           last(start) == Max({i \in DOMAIN states : run[i] = start})
           long == {start \in ToSet(run) :
                      states[last(start)].time - states[start].time >= MinPlateau}
           order == Arranged(long, <)
           plateaus == Pid!Plateaus(states)
<1>1. N \in Nat /\ DOMAIN states = 1..N
  OBVIOUS
<1>2. /\ run \in [1..N -> 1..N]
      /\ \A i \in 1..N : run[i] <= i /\ run[run[i]] = run[i]
      /\ \A i, j \in 1..N : i <= j => run[i] <= run[j]
  BY <1>1, RunFacts
<1>3. plateaus = [k \in DOMAIN order |-> [first |-> order[k], last |-> last(order[k])]]
  <2> DEFINE other(start) == Pid!Max({i \in DOMAIN states : run[i] = start})
             far == {start \in Pid!ToSet(run) :
                       states[other(start)].time - states[start].time >= MinPlateau}
             there == Pid!Arranged(far, <)
  <2>1. plateaus = [k \in DOMAIN there |-> [first |-> there[k], last |-> other(there[k])]]
    BY DEF Pid!Plateaus
  <2>2. \A start : other(start) = last(start)
    BY PidOperators
  <2> HIDE DEF other, last, run
  <2>3. far = long
    BY <2>2, PidOperators
  <2> HIDE DEF far, long
  <2>4. there = order
    BY <2>3, PidOperators
  <2> HIDE DEF there, order, plateaus
  <2> QED
    BY <2>1, <2>2, <2>4
<1> HIDE DEF run, plateaus
<1>4. ASSUME NEW start \in long
      PROVE  /\ start \in 1..N /\ run[start] = start
             /\ last(start) \in 1..N /\ run[last(start)] = start
             /\ start <= last(start)
  <2> DEFINE T == {i \in DOMAIN states : run[i] = start}
  <2>1. PICK i \in 1..N : run[i] = start
    BY <1>2 DEF ToSet
  <2>2. start \in 1..N /\ run[start] = start
    BY <1>2, <2>1
  <2>3. T \in SUBSET (1..N) /\ start \in T
    BY <1>1, <2>2
  <2> HIDE DEF T
  <2>4. Max(T) \in T /\ start <= Max(T)
    BY <1>1, <2>3, LastPlace
  <2> QED
    BY <1>1, <2>2, <2>3, <2>4 DEF T
<1>5. long \in SUBSET Nat /\ IsFiniteSet(long)
  <2>1. long \in SUBSET (1..N)
    BY <1>4
  <2>2. IsFiniteSet(1..N)
    BY <1>1, FS_Interval
  <2> HIDE DEF long
  <2>3. IsFiniteSet(long)
    BY <2>1, <2>2, FS_Subset
  <2> QED
    BY <2>1, <2>3
<1> HIDE DEF long, last
<1> DEFINE n == Cardinality(long)
<1>6. n \in Nat
  BY <1>5, FS_CardinalityType
<1>7. order \in [1..n -> long] /\ \A k \in 1..n : \A l \in 1..k - 1 : order[l] < order[k]
  <2>1. order \in Bijection(1..n, long)
    BY <1>5, ArrangedUp
  <2> HIDE DEF order
  <2>2. order \in [1..n -> long]
    BY <2>1 DEF Bijection, Injection
  <2> USE DEF order
  <2> QED
    BY <1>5, <2>2, ArrangedUp
<1> HIDE DEF order, n
<1>8. /\ plateaus = [k \in 1..n |-> [first |-> order[k], last |-> last(order[k])]]
      /\ Len(plateaus) = n
      /\ \A k \in 1..n : plateaus[k].first = order[k] /\ plateaus[k].last = last(order[k])
  <2>1. plateaus = [k \in 1..n |-> [first |-> order[k], last |-> last(order[k])]]
    BY <1>3, <1>7
  <2> QED
    BY <1>6, <2>1
<1>9. ASSUME NEW k \in 1..n
      PROVE  /\ plateaus[k].first \in 1..N
             /\ plateaus[k].last \in 1..N
             /\ plateaus[k].first <= plateaus[k].last
             /\ run[plateaus[k].first] = plateaus[k].first
             /\ run[plateaus[k].last] = plateaus[k].first
  BY <1>4, <1>7, <1>8
<1>10. ASSUME NEW k \in 1..n, NEW i \in plateaus[k].first..plateaus[k].last
       PROVE  run[i] = plateaus[k].first
  <2>1. i \in 1..N /\ plateaus[k].first <= i /\ i <= plateaus[k].last
    BY <1>1, <1>9
  <2>2. run[plateaus[k].first] <= run[i] /\ run[i] <= run[plateaus[k].last]
    BY <1>2, <1>9, <2>1
  <2>3. run[i] \in 1..N
    BY <1>2, <2>1
  <2> QED
    BY <1>1, <1>9, <2>2, <2>3
<1>11. ASSUME NEW k \in 1..n - 1 PROVE plateaus[k].last < plateaus[k + 1].first
  <2>1. k \in 1..n /\ k + 1 \in 1..n /\ k \in 1..k + 1 - 1
    BY <1>6
  <2>2. plateaus[k].first < plateaus[k + 1].first
    BY <1>7, <1>8, <2>1
  <2>3. ASSUME plateaus[k + 1].first <= plateaus[k].last PROVE FALSE
    <3>1. run[plateaus[k + 1].first] <= run[plateaus[k].last]
      BY <1>2, <1>9, <2>1, <2>3
    <3> QED
      BY <1>1, <1>9, <2>1, <2>2, <3>1
  <2> QED
    BY <1>1, <1>9, <2>1, <2>3
<1> QED
  BY <1>1, <1>6, <1>8, <1>9, <1>10, <1>11 DEF run, plateaus

\* What is recorded of a tuning run.
Events == [kind : {"state", "status", "change"}, gain : Gains, speed : PlateauSpeeds \cup {None}, time : Nat]

\* The events of a tuning run come one after another, one status at most; and a gain
\* is in force until it is changed.
EventsFit(events) ==
    /\ events \in Seq(Events)
    /\ \A i, j \in DOMAIN events : i < j => events[i].time < events[j].time
    /\ \A i, j \in DOMAIN events : events[i].kind = "status" /\ events[j].kind = "status" => i = j
    /\ \A i \in DOMAIN events :
          i + 1 \in DOMAIN events /\ events[i + 1].kind # "change" => events[i + 1].gain = events[i].gain

\* The events of a kind are those events, and all of them.
LEMMA KindFacts ==
    ASSUME NEW S, NEW events \in Seq(S), NEW kind
    PROVE  /\ Pid!Kind(events, kind) \in Seq(S)
           /\ \A k \in DOMAIN Pid!Kind(events, kind) : \E i \in DOMAIN events :
                 events[i].kind = kind /\ Pid!Kind(events, kind)[k] = events[i]
           /\ \A i \in DOMAIN events : events[i].kind = kind =>
                 \E k \in DOMAIN Pid!Kind(events, kind) : Pid!Kind(events, kind)[k] = events[i]
<1> DEFINE places == {i \in DOMAIN events : events[i].kind = kind}
           chosen == Chosen(events, places)
           n == Cardinality(places)
<1>1. Pid!Kind(events, kind) = chosen
  BY PidOperators DEF Pid!Kind
<1>2. places \in SUBSET DOMAIN events
  OBVIOUS
<1>3. /\ chosen \in Seq(S)
      /\ DOMAIN chosen = 1..n
      /\ \E order \in [1..n -> places] :
            /\ \A k \in 1..n : chosen[k] = events[order[k]]
            /\ \A p \in places : \E k \in 1..n : order[k] = p
  <2> HIDE DEF places
  <2>1. events \in Seq(S)
    OBVIOUS
  <2>2. chosen = Chosen(events, places)
    OBVIOUS
  <2> HIDE DEF chosen
  <2>3. n \in Nat /\ chosen \in Seq(S) /\ DOMAIN chosen = 1..n
    BY ONLY <1>2, <2>1, <2>2, ChosenFacts
  <2>4. \E order \in [1..n -> places] :
           /\ \A k \in 1..n : chosen[k] = events[order[k]]
           /\ \A k, l \in 1..n : l < k => order[l] < order[k]
           /\ \A p \in places : \E k \in 1..n : order[k] = p
    BY ONLY <1>2, <2>1, <2>2, ChosenFacts
  <2> QED
    BY <2>3, <2>4
<1>4. PICK order \in [1..n -> places] :
         /\ \A k \in 1..n : chosen[k] = events[order[k]]
         /\ \A p \in places : \E k \in 1..n : order[k] = p
  BY <1>3
<1> HIDE DEF chosen, n
<1>5. \A k \in 1..n : order[k] \in DOMAIN events /\ events[order[k]].kind = kind
  BY <1>4
<1>6. \A i \in DOMAIN events : events[i].kind = kind => \E k \in 1..n : order[k] = i
  BY <1>4
<1> HIDE DEF places
<1> QED
  BY <1>1, <1>3, <1>4, <1>5, <1>6

\* The first status is the only one.
LEMMA StatusFacts ==
    ASSUME NEW events, EventsFit(events), Pid!Kind(events, "status") # <<>>
    PROVE  \E q \in DOMAIN events :
              events[q].kind = "status" /\ Head(Pid!Kind(events, "status")) = events[q]
<1> DEFINE statuses == Pid!Kind(events, "status")
<1>1. events \in Seq(Events)
  BY DEF EventsFit
<1>2. /\ statuses \in Seq(Events)
      /\ \A k \in DOMAIN statuses : \E i \in DOMAIN events :
            events[i].kind = "status" /\ statuses[k] = events[i]
  BY <1>1, KindFacts
<1> HIDE DEF statuses
<1>3. 1 \in DOMAIN statuses /\ Head(statuses) = statuses[1]
  BY <1>2 DEF statuses
<1> QED
  BY <1>2, <1>3 DEF statuses

\* The changes are the events that are changes.
LEMMA ChangesFacts ==
    ASSUME NEW events, EventsFit(events)
    PROVE  \A c : c \in Pid!Changes(events) <=>
              \E i \in DOMAIN events : events[i].kind = "change" /\ c = events[i]
<1> DEFINE changes == Pid!Kind(events, "change")
<1>1. events \in Seq(Events)
  BY DEF EventsFit
<1>2. /\ \A k \in DOMAIN changes : \E i \in DOMAIN events :
            events[i].kind = "change" /\ changes[k] = events[i]
      /\ \A i \in DOMAIN events : events[i].kind = "change" =>
            \E k \in DOMAIN changes : changes[k] = events[i]
  BY <1>1, KindFacts
<1>3. Pid!Changes(events) = {changes[k] : k \in DOMAIN changes}
  BY PidOperators DEF Pid!Changes, ToSet
<1> HIDE DEF changes
<1> QED
  BY <1>2, <1>3

\* Without a change the gain stays.
LEMMA GainStays ==
    ASSUME NEW events, EventsFit(events), NEW r \in DOMAIN events, NEW p \in DOMAIN events, r <= p,
           \A i \in r + 1..p : events[i].kind # "change"
    PROVE  events[p].gain = events[r].gain
<1> DEFINE A == {d \in Nat : r + d <= p => events[r + d].gain = events[r].gain}
<1>1. DOMAIN events = 1..Len(events) /\ Len(events) \in Nat
  BY DEF EventsFit
<1>2. 0 \in A
  BY <1>1
<1>3. ASSUME NEW d \in A PROVE d + 1 \in A
  <2>1. d \in Nat
    OBVIOUS
  <2> SUFFICES ASSUME r + d + 1 <= p PROVE events[r + d + 1].gain = events[r].gain
    BY <1>1, <2>1
  <2>2. /\ r + d \in DOMAIN events
        /\ r + d + 1 \in DOMAIN events
        /\ r + d + 1 \in r + 1..p
        /\ r + d <= p
    BY <1>1, <2>1
  <2>3. events[r + d + 1].gain = events[r + d].gain
    BY <2>2 DEF EventsFit
  <2> QED
    BY <2>1, <2>2, <2>3
<1> HIDE DEF A
<1>4. A = Nat
  <2>1. A \in SUBSET Nat
    BY DEF A
  <2> QED
    BY <1>2, <1>3, <2>1, Inductive
<1>5. p - r \in A /\ r + (p - r) = p
  BY <1>1, <1>4
<1> QED
  BY <1>1, <1>5 DEF A

\* The segment of an event starts with the last change up to it, or with the recording.
LEMMA SegmentFacts ==
    ASSUME NEW events, EventsFit(events), NEW p \in DOMAIN events
    PROVE  \E r \in 1..p :
              /\ Pid!SegmentFor(events, events[p].time) = events[r].time
              /\ r = 1 \/ events[r].kind = "change"
              /\ \A i \in r + 1..p : events[i].kind # "change"
<1> DEFINE time == events[p].time
           T == {s \in Pid!Starts(events) : s <= time} \cup {Pid!Start(events)}
<1>1. /\ DOMAIN events = 1..Len(events) /\ Len(events) \in Nat
      /\ events \in Seq(Events)
  BY DEF EventsFit
<1>2. \A i \in DOMAIN events : events[i].time \in Nat
  <2>1. \A i \in DOMAIN events : events[i] \in Events
    BY <1>1
  <2> QED
    BY <2>1 DEF Events
<1>3. \A i, j \in DOMAIN events : i <= j => events[i].time <= events[j].time
  BY <1>1, <1>2 DEF EventsFit
<1>4. \A i, j \in DOMAIN events : events[i].time <= events[j].time => i <= j
  BY <1>1, <1>2 DEF EventsFit
<1>5. 1 \in DOMAIN events /\ Pid!Start(events) = events[1].time
  BY <1>1 DEF Pid!Start
<1>6. \A s : s \in Pid!Starts(events) <=>
         \/ s = events[1].time
         \/ \E i \in DOMAIN events : events[i].kind = "change" /\ s = events[i].time
  BY <1>5, ChangesFacts DEF Pid!Starts
<1>7. \A s \in T : \E r \in 1..p :
         s = events[r].time /\ (r = 1 \/ events[r].kind = "change")
  <2>1. 1 \in 1..p /\ events[1].time <= time
    BY <1>1, <1>3, <1>5
  <2>2. ASSUME NEW s, s \in Pid!Starts(events), s <= time
        PROVE  \E r \in 1..p : s = events[r].time /\ (r = 1 \/ events[r].kind = "change")
    <3>1. CASE s = events[1].time
      BY <2>1, <3>1
    <3>2. CASE \E i \in DOMAIN events : events[i].kind = "change" /\ s = events[i].time
      <4>1. PICK i \in DOMAIN events : events[i].kind = "change" /\ s = events[i].time
        BY <3>2
      <4>2. i \in 1..p
        BY <1>1, <1>4, <2>2, <4>1
      <4> QED
        BY <4>1, <4>2
    <3> QED
      BY <1>6, <2>2, <3>1, <3>2
  <2> QED
    BY <1>5, <2>1, <2>2
<1>8. T \in SUBSET (0..time) /\ T # {}
  <2>1. \A r \in 1..p : r \in DOMAIN events /\ events[r].time \in Nat /\ events[r].time <= time
    BY <1>1, <1>2, <1>3
  <2>2. time \in Nat
    BY <1>2
  <2> HIDE DEF time
  <2> QED
    BY <1>7, <2>1, <2>2
<1>9. Max(T) \in T /\ \A s \in T : s <= Max(T)
  <2>1. time \in Nat
    BY <1>2
  <2> HIDE DEF time, T
  <2>2. IsFiniteSet(0..time)
    BY <2>1, FS_Interval
  <2>3. IsFiniteSet(T)
    BY <1>8, <2>2, FS_Subset
  <2>4. T \in SUBSET Nat
    BY <1>8, <2>1
  <2> QED
    BY <1>8, <2>3, <2>4, GreatestOf
<1>10. Pid!SegmentFor(events, time) = Max(T)
  BY PidOperators DEF Pid!SegmentFor
<1>11. PICK r \in 1..p : Max(T) = events[r].time /\ (r = 1 \/ events[r].kind = "change")
  <2> HIDE DEF T
  <2> QED
    BY <1>7, <1>9
<1>12. ASSUME NEW i \in r + 1..p PROVE events[i].kind # "change"
  <2>1. i \in DOMAIN events /\ r \in DOMAIN events /\ r < i /\ i <= p
    BY <1>1
  <2>2. events[r].time < events[i].time /\ events[i].time <= time
    BY <1>3, <2>1 DEF EventsFit
  <2>3. events[i].kind = "change" => events[i].time \in T
    BY <1>6, <2>1, <2>2
  <2> HIDE DEF T, time
  <2> QED
    BY <1>2, <1>9, <1>11, <2>1, <2>2, <2>3
<1> QED
  BY <1>10, <1>11, <1>12

\* From the status on the timeline knows the gain in force at every event.
LEMMA TimelineFacts ==
    ASSUME NEW events, EventsFit(events), NEW p \in DOMAIN events,
           NEW q \in 1..p, events[q].kind = "status"
    PROVE  Pid!GainFrom(events, Pid!SegmentFor(events, events[p].time)) = events[p].gain
<1>1. /\ DOMAIN events = 1..Len(events) /\ Len(events) \in Nat
      /\ events \in Seq(Events)
  BY DEF EventsFit
<1>2. \A i \in DOMAIN events : events[i].time \in Nat
  <2>1. \A i \in DOMAIN events : events[i] \in Events
    BY <1>1
  <2> QED
    BY <2>1 DEF Events
<1>3. \A i, j \in DOMAIN events : events[i].time = events[j].time => i = j
  BY <1>1, <1>2 DEF EventsFit
<1> DEFINE start == Pid!SegmentFor(events, events[p].time)
<1>4. PICK r \in 1..p :
              /\ start = events[r].time
              /\ r = 1 \/ events[r].kind = "change"
              /\ \A i \in r + 1..p : events[i].kind # "change"
  BY SegmentFacts
<1>5. 1 \in DOMAIN events /\ Pid!Start(events) = events[1].time /\ r \in DOMAIN events /\ q \in DOMAIN events
  BY <1>1 DEF Pid!Start
<1> HIDE DEF start
<1>6. CASE r = 1
  <2>1. Pid!GainFrom(events, start) = Pid!Initial(events)
    BY <1>4, <1>5, <1>6 DEF Pid!GainFrom
  <2>2. Pid!Kind(events, "status") # <<>>
    BY <1>1, <1>5, KindFacts
  <2>3. PICK s \in DOMAIN events :
              events[s].kind = "status" /\ Head(Pid!Kind(events, "status")) = events[s]
    BY <2>2, StatusFacts
  <2>4. s = q
    BY <1>5, <2>3 DEF EventsFit
  <2>5. Pid!Initial(events) = events[q].gain
    BY <2>3, <2>4 DEF Pid!Initial
  <2>6. events[p].gain = events[q].gain
    <3>1. \A i \in q + 1..p : i \in r + 1..p
      BY <1>1, <1>6
    <3>2. q <= p
      BY <1>1
    <3> QED
      BY <1>4, <1>5, <3>1, <3>2, GainStays
  <2> QED
    BY <2>1, <2>5, <2>6 DEF start
<1>7. CASE r # 1
  <2>1. events[r].kind = "change"
    BY <1>4, <1>7
  <2>2. start # Pid!Start(events)
    BY <1>3, <1>4, <1>5, <1>7
  <2> DEFINE c == CHOOSE change \in Pid!Changes(events) : change.time = start
  <2>3. c \in Pid!Changes(events) /\ c.time = start
    <3>1. events[r] \in Pid!Changes(events) /\ events[r].time = start
      BY <1>4, <1>5, <2>1, ChangesFacts
    <3> QED
      BY <3>1
  <2>4. Pid!GainFrom(events, start) = c.gain
    BY <2>2 DEF Pid!GainFrom
  <2> HIDE DEF c
  <2>5. PICK i \in DOMAIN events : c = events[i]
    BY <2>3, ChangesFacts
  <2>6. i = r
    BY <1>3, <1>4, <1>5, <2>3, <2>5
  <2>7. events[p].gain = events[r].gain
    <3>1. r <= p
      BY <1>1
    <3> QED
      BY <1>4, <1>5, <3>1, GainStays
  <2> QED
    BY <2>4, <2>5, <2>6, <2>7 DEF start
<1> QED
  BY <1>6, <1>7

\* A state that comes after the status is told its gain.
LEMMA StateFacts ==
    ASSUME NEW events, EventsFit(events), Pid!Kind(events, "status") # <<>>,
           NEW i \in DOMAIN Pid!Kind(events, "state"),
           Pid!Kind(events, "state")[i].time >= Head(Pid!Kind(events, "status")).time
    PROVE  Pid!GainFrom(events, Pid!SegmentFor(events, Pid!Kind(events, "state")[i].time))
             = Pid!Kind(events, "state")[i].gain
<1> DEFINE states == Pid!Kind(events, "state")
           status == Head(Pid!Kind(events, "status"))
<1>1. DOMAIN events = 1..Len(events) /\ Len(events) \in Nat /\ events \in Seq(Events)
  BY DEF EventsFit
<1>2. PICK p \in DOMAIN events : events[p].kind = "state" /\ states[i] = events[p]
  <2>0. events \in Seq(Events)
    BY <1>1
  <2>1. \A k \in DOMAIN states : \E j \in DOMAIN events : events[j].kind = "state" /\ states[k] = events[j]
    BY ONLY <2>0, KindFacts
  <2> HIDE DEF states
  <2>2. i \in DOMAIN states
    BY DEF states
  <2> QED
    BY <2>1, <2>2
<1>3. PICK q \in DOMAIN events : events[q].kind = "status" /\ status = events[q]
  BY StatusFacts
<1>4. events[q].time <= events[p].time
  BY <1>2, <1>3
<1> HIDE DEF states, status
<1>5. \A j \in DOMAIN events : events[j].time \in Nat
  <2>1. \A j \in DOMAIN events : events[j] \in Events
    BY <1>1
  <2> QED
    BY <2>1 DEF Events
<1>6. q \in 1..p
  <2>1. p < q => events[p].time < events[q].time
    BY DEF EventsFit
  <2> QED
    BY <1>1, <1>4, <1>5, <2>1
<1>7. Pid!GainFrom(events, Pid!SegmentFor(events, events[p].time)) = events[p].gain
  BY <1>3, <1>6, TimelineFacts
<1> QED
  BY <1>2, <1>7 DEF states

\* The timeline is true.
LEMMA TimelineHolds ==
    ASSUME NEW events, EventsFit(events)
    PROVE  Pid!TimelineIsTrue(events)
<1> DEFINE states == Pid!Kind(events, "state")
<1>1. Pid!ToSet(states) = {states[i] : i \in DOMAIN states}
  BY PidOperators DEF ToSet
<1>2. SUFFICES ASSUME Pid!Kind(events, "status") # <<>>, NEW state \in Pid!ToSet(states),
                      state.time >= Head(Pid!Kind(events, "status")).time
               PROVE  Pid!GainFrom(events, Pid!SegmentFor(events, state.time)) = state.gain
  BY DEF Pid!TimelineIsTrue
<1>3. PICK i \in DOMAIN states : state = states[i]
  BY <1>1
<1> QED
  BY <1>2, <1>3, StateFacts

\* What is known of a step: its two plateaus, and the one segment of its window.
LEMMA StepFacts ==
    ASSUME NEW events, EventsFit(events), NEW step \in Pid!Steps(events)
    PROVE  LET states == Pid!Kind(events, "state")
               segment(i) == Pid!SegmentFor(events, states[i].time)
           IN  \E first \in DOMAIN states :
                  /\ step.left \in DOMAIN states /\ step.reached \in DOMAIN states
                  /\ step.left < first /\ first <= step.reached
                  /\ \A i \in first..step.reached : states[i].speed = states[first].speed
                  /\ \A i \in step.left + 1..step.reached : segment(i) = segment(step.reached)
                  /\ step.gain = Pid!GainFrom(events, segment(step.reached))
                  /\ step.steady = {i \in first + (step.reached - first + 1) \div 2..step.reached :
                                      ~Pid!InExclusion(events, states[i].time)}
<1> DEFINE states == Pid!Kind(events, "state")
           segment(i) == Pid!SegmentFor(events, states[i].time)
           plateaus == Pid!Plateaus(states)
           run == Pid!RunOf(states)
<1>1. states \in Seq(Events)
  BY KindFacts DEF EventsFit
<1>2. PICK k \in 1..Len(plateaus) - 1 :
         /\ Pid!Attributable(events, states, plateaus[k], plateaus[k + 1])
         /\ step = [left |-> plateaus[k].last, reached |-> plateaus[k + 1].last,
                    gain |-> Pid!GainFrom(events, Pid!SegmentFor(events, states[plateaus[k + 1].last].time)),
                    steady |-> Pid!Steady(events, states, plateaus[k + 1])]
  BY DEF Pid!Steps
<1>3. /\ step.left = plateaus[k].last
      /\ step.reached = plateaus[k + 1].last
      /\ step.gain = Pid!GainFrom(events, segment(step.reached))
      /\ step.steady = Pid!Steady(events, states, plateaus[k + 1])
  BY <1>2
<1>4. /\ Len(plateaus) \in Nat
      /\ \A j \in 1..Len(plateaus) :
            /\ plateaus[j].first \in DOMAIN states
            /\ plateaus[j].last \in DOMAIN states
            /\ plateaus[j].first <= plateaus[j].last
            /\ \A i \in plateaus[j].first..plateaus[j].last : run[i] = plateaus[j].first
      /\ \A j \in 1..Len(plateaus) - 1 : plateaus[j].last < plateaus[j + 1].first
  BY <1>1, PlateauFacts
<1>5. \A i \in DOMAIN states : states[i].speed = states[run[i]].speed
  BY <1>1, RunFacts
<1>6. DOMAIN states = 1..Len(states) /\ Len(states) \in Nat
  BY <1>1
<1>7. step.steady = {i \in plateaus[k + 1].first
                            + (plateaus[k + 1].last - plateaus[k + 1].first + 1) \div 2..plateaus[k + 1].last :
                       ~Pid!InExclusion(events, states[i].time)}
  BY <1>3 DEF Pid!Steady
<1>8. Cardinality({segment(i) : i \in plateaus[k].last + 1..plateaus[k + 1].last}) = 1
  BY <1>2, PidOperators DEF Pid!Attributable, Pid!Window
<1> HIDE DEF plateaus, segment, run, states
<1>9. k \in 1..Len(plateaus) /\ k + 1 \in 1..Len(plateaus)
  BY <1>4
<1> DEFINE first == plateaus[k + 1].first
<1>10. /\ first \in DOMAIN states /\ step.left \in DOMAIN states /\ step.reached \in DOMAIN states
       /\ step.left < first /\ first <= step.reached
       /\ \A i \in first..step.reached : run[i] = first
  BY <1>3, <1>4, <1>9
<1>11. step.steady = {i \in first + (step.reached - first + 1) \div 2..step.reached :
                        ~Pid!InExclusion(events, states[i].time)}
  BY <1>3, <1>7
<1>12. Cardinality({segment(i) : i \in step.left + 1..step.reached}) = 1
  BY <1>3, <1>8
<1> HIDE DEF first
<1>13. \A i \in step.left + 1..step.reached : segment(i) = segment(step.reached)
  <2> DEFINE window == step.left + 1..step.reached
             image == {segment(i) : i \in window}
  <2>1. IsFiniteSet(image)
    <3>1. step.left + 1 \in Int /\ step.reached \in Int
      BY <1>6, <1>10
    <3>2. IsFiniteSet(window)
      BY <3>1, FS_Interval
    <3> HIDE DEF window
    <3> DEFINE f == [i \in window |-> segment(i)]
    <3>3. f \in Surjection(window, image)
      BY DEF Surjection
    <3> QED
      BY <3>2, <3>3, FS_Surjection
  <2>2. step.reached \in window
    BY <1>6, <1>10
  <2>3. PICK x : image = {x}
    <3> HIDE DEF image
    <3>1. Cardinality(image) = 1
      BY <1>12 DEF image
    <3> QED
      BY <2>1, <3>1, FS_Singleton
  <2> QED
    BY <2>2, <2>3
<1>14. \A i \in first..step.reached : states[i].speed = states[first].speed
  <2>1. \A i \in first..step.reached : i \in DOMAIN states
    BY <1>6, <1>10
  <2> QED
    BY <1>5, <1>10, <2>1
<1> QED
  BY <1>3, <1>10, <1>11, <1>13, <1>14 DEF states, segment

\* A step is attributed to the gain of all its states.
LEMMA OneGainHolds ==
    ASSUME NEW events, EventsFit(events)
    PROVE  Pid!StepsHaveOneGain(events)
<1> DEFINE states == Pid!Kind(events, "state")
           segment(i) == Pid!SegmentFor(events, states[i].time)
           since == Head(Pid!Kind(events, "status")).time
<1>1. SUFFICES ASSUME Pid!Kind(events, "status") # <<>>, NEW step \in Pid!Steps(events),
                      NEW i \in step.left + 1..step.reached, states[i].time >= since
               PROVE  states[i].gain = step.gain
  BY DEF Pid!StepsHaveOneGain
<1>2. /\ step.left \in DOMAIN states /\ step.reached \in DOMAIN states
      /\ \A j \in step.left + 1..step.reached : segment(j) = segment(step.reached)
      /\ step.gain = Pid!GainFrom(events, segment(step.reached))
  BY StepFacts
<1>3. i \in DOMAIN states
  <2>1. DOMAIN states = 1..Len(states) /\ Len(states) \in Nat
    BY KindFacts DEF EventsFit
  <2> HIDE DEF states
  <2> QED
    BY <1>2, <2>1
<1>4. Pid!GainFrom(events, segment(i)) = states[i].gain
  BY <1>1, <1>3, StateFacts
<1> HIDE DEF states, segment
<1> QED
  BY <1>2, <1>4

\* What counts as steady is of one plateau, and no change was close before.
LEMMA SteadyHolds ==
    ASSUME NEW events, EventsFit(events)
    PROVE  Pid!SteadyIsSettled(events)
<1> DEFINE states == Pid!Kind(events, "state")
<1>max. \A step : Pid!Max(step.steady) = Max(step.steady)
  BY PidOperators
<1>1. SUFFICES ASSUME NEW step \in Pid!Steps(events), NEW i \in step.steady
      PROVE /\ i \in step.left + 1..step.reached
            /\ \A j \in DOMAIN states : j \in i..Max(step.steady) => states[j].speed = states[i].speed
            /\ \A change \in Pid!Changes(events) :
                  change.time \notin states[i].time - Exclusion + 1..states[i].time
  BY <1>max DEF Pid!SteadyIsSettled
<1>2. PICK first \in DOMAIN states :
         /\ step.left \in DOMAIN states /\ step.reached \in DOMAIN states
         /\ step.left < first /\ first <= step.reached
         /\ \A j \in first..step.reached : states[j].speed = states[first].speed
         /\ step.steady = {j \in first + (step.reached - first + 1) \div 2..step.reached :
                             ~Pid!InExclusion(events, states[j].time)}
  BY StepFacts
<1>3. states \in Seq(Events)
  BY KindFacts DEF EventsFit
<1>4. DOMAIN states = 1..Len(states) /\ Len(states) \in Nat
  BY <1>3
<1> HIDE DEF states
<1>typed. first \in Nat /\ step.left \in Nat /\ step.reached \in Nat
  BY <1>2, <1>4
<1>5. step.steady \in SUBSET (first..step.reached)
  <2>1. \A a, b \in Nat : a <= b => (b - a + 1) \div 2 \in Nat
    OBVIOUS
  <2>2. (step.reached - first + 1) \div 2 \in Nat
    BY <1>2, <1>typed, <2>1
  <2>3. \A j \in first + (step.reached - first + 1) \div 2..step.reached : j \in first..step.reached
    BY <1>typed, <2>2
  <2> QED
    BY <1>2, <2>3
<1>6. i \in first..step.reached /\ i \in step.left + 1..step.reached
  BY <1>1, <1>2, <1>typed, <1>5
<1>7. Max(step.steady) \in step.steady
  <2>1. \A j \in first..step.reached : j \in 1..Len(states)
    BY <1>2, <1>4
  <2>2. step.steady \in SUBSET (1..Len(states)) /\ step.steady # {}
    BY <1>1, <1>5, <2>1
  <2> QED
    BY <1>4, <2>2, LastPlace
<1>8. ASSUME NEW j \in i..Max(step.steady) PROVE states[j].speed = states[i].speed
  <2>1. Max(step.steady) \in first..step.reached
    BY <1>5, <1>7
  <2>2. j \in first..step.reached
    BY <1>typed, <1>6, <2>1
  <2> QED
    BY <1>2, <1>6, <2>2
<1>9. ASSUME NEW change \in Pid!Changes(events)
      PROVE  change.time \notin states[i].time - Exclusion + 1..states[i].time
  <2>1. states[i].time \in Nat
    <3>1. i \in 1..Len(states)
      BY <1>2, <1>4, <1>6
    <3>2. states[i] \in Events
      BY <1>3, <1>4, <3>1
    <3> QED
      BY <3>2 DEF Events
  <2>2. change.time \in Nat
    <3>1. PICK c \in DOMAIN events : change = events[c]
      BY ChangesFacts
    <3>2. events[c] \in Events
      BY DEF EventsFit
    <3> QED
      BY <3>1, <3>2 DEF Events
  <2>3. ~Pid!InExclusion(events, states[i].time)
    BY <1>1, <1>2
  <2>4. ~(change.time <= states[i].time /\ states[i].time < change.time + Exclusion)
    BY <2>3 DEF Pid!InExclusion
  <2>5. Exclusion \in Nat
    BY AnalysisAssumption DEF Pid!ValidLimits
  <2> QED
    BY <2>1, <2>2, <2>4, <2>5
<1> QED
  BY <1>6, <1>8, <1>9

-----------------------------------------------------------------------------
(* The response to a step.                                                 *)

\* What is measured on a step.
Samples == [time : Nat, measured : Int \cup {None}, free : BOOLEAN]

\* The samples of a step come one after another.
SamplesFit(window) ==
    /\ window \in Seq(Samples)
    /\ \A i, j \in DOMAIN window : i < j => window[i].time < window[j].time

\* The extremes of finitely many integers.
LEMMA ExtremesOf ==
    ASSUME NEW S \in SUBSET Int, S # {}, IsFiniteSet(S)
    PROVE  /\ Max(S) \in S /\ \A x \in S : x <= Max(S)
           /\ Min(S) \in S /\ \A x \in S : Min(S) <= x
<1> DEFINE R == {p \in S \X S : p[1] < p[2]}
           Q == {p \in S \X S : p[2] < p[1]}
<1>1. Orders(R, S) /\ Orders(Q, S)
  BY DEF Orders
<1>2. /\ \E m \in S : \A x \in S \ {m} : <<x, m>> \in R
      /\ \E m \in S : \A x \in S \ {m} : <<x, m>> \in Q
  <2> HIDE DEF R, Q
  <2>1. /\ \A T \in SUBSET S : T # {} => \E m \in T : \A x \in T \ {m} : <<x, m>> \in R
        /\ \A T \in SUBSET S : T # {} => \E m \in T : \A x \in T \ {m} : <<x, m>> \in Q
    BY <1>1, GreatestExists
  <2>2. S \in SUBSET S
    OBVIOUS
  <2> QED
    BY <2>1, <2>2
<1>3. PICK m \in S : \A x \in S \ {m} : x < m
  BY <1>2
<1>4. PICK l \in S : \A x \in S \ {l} : l < x
  BY <1>2
<1>5. (\A x \in S : m >= x) /\ \A x \in S : l <= x
  BY <1>3, <1>4
<1> QED
  BY <1>5 DEF Max, Min

\* When the first of some samples was taken.
FirstAt(window, places) ==
    IF places = {} THEN None ELSE window[Min(places)].time - Head(window).time

\* Of more samples the first is no later; and what comes before the first is before
\* its time.
LEMMA FirstAtFacts ==
    ASSUME NEW window, SamplesFit(window), NEW places \in SUBSET DOMAIN window
    PROVE  /\ FirstAt(window, places) # None <=> places # {}
           /\ places # {} =>
                 /\ Min(places) \in places
                 /\ \A i \in places : Min(places) <= i
                 /\ \A i \in DOMAIN window : i < Min(places) =>
                       window[i].time - Head(window).time < FirstAt(window, places)
           /\ \A fewer \in SUBSET places : FirstAt(window, fewer) # None =>
                 /\ FirstAt(window, places) # None
                 /\ FirstAt(window, places) <= FirstAt(window, fewer)
<1> DEFINE at(i) == window[i].time - Head(window).time
<1>1. DOMAIN window = 1..Len(window) /\ Len(window) \in Nat /\ window \in Seq(Samples)
  BY DEF SamplesFit
<1>2. \A i \in DOMAIN window : window[i].time \in Nat
  <2>1. \A i \in DOMAIN window : window[i] \in Samples
    BY <1>1
  <2> QED
    BY <2>1 DEF Samples
<1>3. \A i, j \in DOMAIN window : i <= j => window[i].time <= window[j].time
  BY <1>1, <1>2 DEF SamplesFit
<1>4. DOMAIN window # {} => 1 \in DOMAIN window /\ Head(window) = window[1]
  BY <1>1
<1>5. \A i \in DOMAIN window : at(i) \in Nat
  <2> SUFFICES ASSUME NEW i \in DOMAIN window PROVE at(i) \in Nat
    OBVIOUS
  <2>1. 1 \in DOMAIN window /\ Head(window) = window[1] /\ 1 <= i
    BY <1>1, <1>4
  <2>2. window[1].time \in Nat /\ window[i].time \in Nat /\ window[1].time <= window[i].time
    BY <1>2, <1>3, <2>1
  <2> QED
    BY <2>1, <2>2
<1>6. \A i, j \in DOMAIN window : (i <= j => at(i) <= at(j)) /\ (i < j => at(i) < at(j))
  <2> SUFFICES ASSUME NEW i \in DOMAIN window, NEW j \in DOMAIN window
               PROVE  (i <= j => at(i) <= at(j)) /\ (i < j => at(i) < at(j))
    OBVIOUS
  <2>1. Head(window) = window[1] /\ window[1].time \in Nat /\ window[i].time \in Nat /\ window[j].time \in Nat
    BY <1>2, <1>4
  <2>2. i <= j => window[i].time <= window[j].time
    BY <1>3
  <2>3. i < j => window[i].time < window[j].time
    BY DEF SamplesFit
  <2> QED
    BY <2>1, <2>2, <2>3
<1>7. None \notin Nat
  BY AnalysisAssumption
<1>8. \A T \in SUBSET DOMAIN window : T # {} =>
         /\ Min(T) \in T /\ \A i \in T : Min(T) <= i
         /\ FirstAt(window, T) = at(Min(T))
         /\ at(Min(T)) \in Nat
         /\ FirstAt(window, T) # None
  <2> SUFFICES ASSUME NEW T \in SUBSET DOMAIN window, T # {}
               PROVE  /\ Min(T) \in T /\ \A i \in T : Min(T) <= i
                      /\ FirstAt(window, T) = at(Min(T))
                      /\ at(Min(T)) \in Nat
                      /\ FirstAt(window, T) # None
    OBVIOUS
  <2>1. T \in SUBSET Nat
    BY <1>1
  <2>2. Min(T) \in T /\ \A i \in T : Min(T) <= i
    BY <2>1, LeastOf
  <2>3. FirstAt(window, T) = at(Min(T))
    BY DEF FirstAt
  <2>4. at(Min(T)) \in Nat
    BY <1>5, <2>2
  <2> HIDE DEF at
  <2> QED
    BY <1>7, <2>2, <2>3, <2>4
<1>9. FirstAt(window, {}) = None
  BY DEF FirstAt
<1> HIDE DEF at
<1>10. ASSUME places # {}
       PROVE  /\ Min(places) \in places
              /\ \A i \in places : Min(places) <= i
              /\ \A i \in DOMAIN window : i < Min(places) => at(i) < FirstAt(window, places)
  <2>1. Min(places) \in DOMAIN window
    BY <1>8, <1>10
  <2> QED
    BY <1>6, <1>8, <1>10, <2>1
<1>11. ASSUME NEW fewer \in SUBSET places, FirstAt(window, fewer) # None
       PROVE  /\ FirstAt(window, places) # None
              /\ FirstAt(window, places) <= FirstAt(window, fewer)
  <2>1. fewer # {} /\ places # {} /\ fewer \in SUBSET DOMAIN window
    BY <1>9, <1>11
  <2>2. Min(fewer) \in places /\ Min(fewer) \in DOMAIN window /\ Min(places) \in DOMAIN window
    BY <1>8, <2>1
  <2>3. Min(places) <= Min(fewer)
    BY <1>8, <2>1, <2>2
  <2>4. at(Min(places)) <= at(Min(fewer))
    BY <1>6, <2>2, <2>3
  <2> QED
    BY <1>8, <2>1, <2>4
<1> QED
  BY <1>8, <1>9, <1>10, <1>11 DEF at

\* How far a speed is past so many percent of a step, counted upwards.
Beyond(percent, m, initial, target) == 100 * (m - initial) - percent * (target - initial)

\* A speed past nine tenths of a step is past 63 percent; one as close to the
\* target as a tenth of the step is past nine tenths.
LEMMA CrossingFacts ==
    ASSUME NEW m \in Int, NEW initial \in Int, NEW target \in Int, NEW scale \in Nat,
           NEW direction, direction = IF target >= initial THEN 1 ELSE -1
    PROVE  /\ direction * Beyond(90, m, initial, target) >= 0
                 => direction * Beyond(63, m, initial, target) >= 0
           /\ 100 * Pid!Distance(m, target) <= 2 * scale /\ scale <= 5 * Pid!Distance(target, initial)
                 => direction * Beyond(90, m, initial, target) >= 0
<1> DEFINE past90 == Beyond(90, m, initial, target)
           past63 == Beyond(63, m, initial, target)
           off == Pid!Distance(m, target)
           height == Pid!Distance(target, initial)
<1>1. /\ past90 \in Int /\ past63 \in Int
      /\ past63 = past90 + 27 * (target - initial)
      /\ past90 = 100 * (m - target) + 10 * (target - initial)
  BY DEF Beyond
<1>2. /\ off \in Int /\ height \in Int
      /\ m - target <= off /\ target - m <= off
      /\ height = IF target >= initial THEN target - initial ELSE initial - target
  BY DEF Pid!Distance
<1> HIDE DEF past90, past63, off, height
<1>3. ASSUME target >= initial
      PROVE  /\ direction * past90 >= 0 => direction * past63 >= 0
             /\ 100 * off <= 2 * scale /\ scale <= 5 * height => direction * past90 >= 0
  <2>1. direction * past90 = past90 /\ direction * past63 = past63
    BY <1>1, <1>3
  <2>2. past90 >= 0 => past63 >= 0
    BY <1>1, <1>3
  <2>3. 100 * off <= 2 * scale /\ scale <= 5 * height => past90 >= 0
    BY <1>1, <1>2, <1>3
  <2> QED
    BY <2>1, <2>2, <2>3
<1>4. ASSUME ~(target >= initial)
      PROVE  /\ direction * past90 >= 0 => direction * past63 >= 0
             /\ 100 * off <= 2 * scale /\ scale <= 5 * height => direction * past90 >= 0
  <2>1. direction * past90 = -past90 /\ direction * past63 = -past63
    BY <1>1, <1>4
  <2>2. -past90 >= 0 => -past63 >= 0
    BY <1>1, <1>4
  <2>3. 100 * off <= 2 * scale /\ scale <= 5 * height => -past90 >= 0
    BY <1>1, <1>2, <1>4
  <2> QED
    BY <2>1, <2>2, <2>3
<1> QED
  BY <1>3, <1>4 DEF past90, past63, off, height

\* The times and the overshoot of a step agree.
LEMMA ResponseHolds ==
    ASSUME NEW window, SamplesFit(window), NEW initial \in Int \cup {None}, NEW old \in Int, NEW target \in Int,
           ~Pid!Raises(window, initial)
    PROVE  Pid!ResponseIsOrdered(window, initial, old, target)
<1> DEFINE D == DOMAIN window
           direction == IF target >= initial THEN 1 ELSE -1
           crossed63 == {i \in D : direction * Beyond(63, window[i].measured, initial, target) >= 0}
           crossed90 == {i \in D : direction * Beyond(90, window[i].measured, initial, target) >= 0}
           height == Pid!Distance(target, old)
           scale == IF target # 0 THEN Pid!Distance(target, 0) ELSE height
           close(i) == 100 * Pid!Distance(window[i].measured, target) <= 2 * scale
           settled == {i \in D : \A j \in i..Len(window) : close(j)}
           past(i) == 100 * (IF target > old THEN window[i].measured - target
                                             ELSE target - window[i].measured) > 2 * scale
           response == Pid!Response(window, initial, old, target)
           over == Pid!Overshoot(window, old, target)
<1>1. D = 1..Len(window) /\ Len(window) \in Nat
  BY DEF SamplesFit
<1>2. initial \in Int /\ \A i \in D : window[i].measured \in Int
  <2>1. \A i \in D : window[i] \in Samples
    BY DEF SamplesFit
  <2>2. \A i \in D : window[i].measured \in Int \cup {None}
    BY <2>1 DEF Samples
  <2>3. initial # None /\ \A i \in D : window[i].measured # None
    BY PidOperators DEF Pid!Raises, ToSet
  <2> QED
    BY <2>2, <2>3
<1>3. height \in Nat /\ scale \in Nat
  BY DEF Pid!Distance
<1>4. \E timed \in BOOLEAN :
         /\ response.t63 = IF timed THEN FirstAt(window, crossed63) ELSE None
         /\ response.t90 = IF timed THEN FirstAt(window, crossed90) ELSE None
         /\ response.settling = IF timed THEN FirstAt(window, settled) ELSE None
         /\ response.overshoot = over
  <2> DEFINE timed == /\ ~Pid!PoorInitial(initial, old, target)
                      /\ \A s \in Pid!ToSet(window) : s.free
  <2>1. Pid!FirstCrossing(window, initial, target, 63) = FirstAt(window, crossed63)
    BY PidOperators DEF Pid!FirstCrossing, FirstAt, Beyond
  <2>2. Pid!FirstCrossing(window, initial, target, 90) = FirstAt(window, crossed90)
    BY PidOperators DEF Pid!FirstCrossing, FirstAt, Beyond
  <2>3. Pid!SettlingTime(window, target, height) = FirstAt(window, settled)
    BY PidOperators DEF Pid!SettlingTime, FirstAt, Pid!Close
  <2>4. response = [t63 |-> IF timed THEN Pid!FirstCrossing(window, initial, target, 63) ELSE None,
                    t90 |-> IF timed THEN Pid!FirstCrossing(window, initial, target, 90) ELSE None,
                    settling |-> IF timed THEN Pid!SettlingTime(window, target, height) ELSE None,
                    overshoot |-> over]
    BY DEF Pid!Response
  <2>5. timed \in BOOLEAN
    OBVIOUS
  <2> HIDE DEF timed, response, over, crossed63, crossed90, settled, height
  <2> QED
    BY <2>1, <2>2, <2>3, <2>4, <2>5
<1>5. crossed90 \in SUBSET crossed63
  BY <1>2, <1>3, CrossingFacts
<1>6. ASSUME scale <= 5 * Pid!Distance(target, initial) PROVE settled \in SUBSET crossed90
  <2> SUFFICES ASSUME NEW i \in settled PROVE i \in crossed90
    OBVIOUS
  <2>1. i \in D /\ close(i)
    BY <1>1
  <2> HIDE DEF scale
  <2> QED
    BY <1>2, <1>3, <1>6, <2>1, CrossingFacts
<1>7. \A i \in D : past(i) => ~close(i)
  BY <1>2, <1>3 DEF Pid!Distance
<1>8. ASSUME NEW i \in D, past(i) PROVE 100 * over > 2 * scale
  <2> DEFINE S == {window[j].measured : j \in D}
             m == window[i].measured
             extreme == IF target > old THEN Max(S) ELSE Min(S)
             beyond == (IF target > old THEN 1 ELSE -1) * (extreme - target)
  <2>1. IsFiniteSet(S)
    <3> DEFINE f == [j \in D |-> window[j].measured]
    <3>1. IsFiniteSet(D)
      BY <1>1, FS_Interval
    <3>2. f \in Surjection(D, S)
      BY DEF Surjection
    <3> HIDE DEF D, S, f
    <3> QED
      BY <3>1, <3>2, FS_Surjection
  <2>2. S \in SUBSET Int /\ m \in S
    BY <1>2
  <2>3. over = Max({0, beyond})
    <3>1. {s.measured : s \in Pid!ToSet(window)} = S
      BY PidOperators DEF ToSet
    <3> QED
      BY <3>1, PidOperators DEF Pid!Overshoot
  <2> HIDE DEF S
  <2>4. Max(S) \in Int /\ m <= Max(S) /\ Min(S) \in Int /\ Min(S) <= m
    BY <2>1, <2>2, ExtremesOf
  <2>5. m \in Int
    BY <1>2
  <2>6. 100 * (IF target > old THEN m - target ELSE target - m) > 2 * scale
    BY <1>8
  <2>7. beyond \in Int /\ 100 * beyond > 2 * scale
    <3> HIDE DEF m, scale
    <3>1. CASE target > old
      BY <1>3, <2>4, <2>5, <2>6, <3>1
    <3>2. CASE ~(target > old)
      BY <1>3, <2>4, <2>5, <2>6, <3>2
    <3> QED
      BY <3>1, <3>2
  <2> HIDE DEF beyond, over, scale
  <2>8. Max({0, beyond}) \in Int /\ beyond <= Max({0, beyond})
    <3>1. IsFiniteSet({0, beyond})
      <4>1. IsFiniteSet({0})
        BY FS_Singleton
      <4>2. {0, beyond} = {0} \cup {beyond}
        OBVIOUS
      <4> QED
        BY <4>1, <4>2, FS_AddElement
    <3>2. {0, beyond} \in SUBSET Int /\ beyond \in {0, beyond}
      BY <2>7
    <3> QED
      BY <3>1, <3>2, ExtremesOf
  <2> QED
    BY <1>3, <2>3, <2>7, <2>8
<1> HIDE DEF crossed63, crossed90, scale, close, past, over, response
<1>9. response.t90 # None => response.t63 # None /\ response.t63 <= response.t90
  <2>1. crossed63 \in SUBSET D
    BY DEF crossed63
  <2> HIDE DEF D
  <2> QED
    BY <1>4, <1>5, <2>1, FirstAtFacts DEF D
<1>10. response.settling # None /\ scale <= 5 * Pid!Distance(target, initial)
          => response.t90 # None /\ response.t90 <= response.settling
  <2>1. crossed90 \in SUBSET D
    BY DEF crossed90
  <2> HIDE DEF D, settled
  <2> QED
    BY <1>4, <1>6, <2>1, FirstAtFacts DEF D
<1>11. response.settling # None =>
          \A i \in D : past(i) => window[i].time - Head(window).time < response.settling
  <2> SUFFICES ASSUME response.settling # None, NEW i \in D, past(i)
               PROVE  window[i].time - Head(window).time < response.settling
    OBVIOUS
  <2>1. settled \in SUBSET D
    OBVIOUS
  <2>2. response.settling = FirstAt(window, settled)
    BY <1>4
  <2>3. settled # {} /\ Min(settled) \in settled
    BY <2>1, <2>2, FirstAtFacts
  <2>4. i < Min(settled)
    <3>1. Min(settled) \in D /\ \A j \in Min(settled)..Len(window) : close(j)
      BY <2>3
    <3>2. ~(i \in Min(settled)..Len(window))
      BY <1>7, <3>1
    <3> QED
      BY <1>1, <3>1, <3>2
  <2> HIDE DEF settled
  <2> QED
    BY <2>1, <2>2, <2>3, <2>4, FirstAtFacts
<1>12. (\E i \in D : past(i)) => 100 * response.overshoot > 2 * scale
  BY <1>4, <1>8
<1>13. initial # None /\ \A i \in D : window[i].measured # None
  BY PidOperators DEF Pid!Raises, ToSet
<1> QED
  BY <1>9, <1>10, <1>11, <1>12, <1>13 DEF Pid!ResponseIsOrdered, response, scale, past

-----------------------------------------------------------------------------
(* Every tuning run that is read.                                          *)

\* What is read of a tuning run fits together, and nothing is read before its program
\* is chosen.
TuningInput ==
    /\ program = None => input = <<>>
    /\ program = "pid" => EventsFit(input)
    /\ program = "response" => SamplesFit(input)

\* The next event fits.
LEMMA AppendEvent ==
    ASSUME EventsFit(input), NEW event \in Events, event.time = LastTime + 1,
           event.kind = "status" => \A i \in DOMAIN input : input[i].kind # "status",
           event.kind # "change" /\ input # <<>> => event.gain = Last(input).gain
    PROVE  EventsFit(Append(input, event))
<1> DEFINE n == Len(input)
           longer == Append(input, event)
<1>1. input \in Seq(Events) /\ n \in Nat /\ DOMAIN input = 1..n
  BY DEF EventsFit
<1>size. n \in Nat
  BY <1>1
<1>2. /\ longer \in Seq(Events) /\ DOMAIN longer = 1..n + 1
      /\ longer[n + 1] = event /\ \A i \in 1..n : longer[i] = input[i]
  BY <1>1
<1> HIDE DEF longer, n
<1>3. \A i \in 1..n : input[i].time \in Nat
  <2>1. \A i \in 1..n : input[i] \in Events
    BY <1>1
  <2> QED
    BY <2>1 DEF Events
<1>4. \A i \in 1..n : input[i].time < event.time
  <2> SUFFICES ASSUME NEW i \in 1..n PROVE input[i].time < event.time
    OBVIOUS
  <2>1. input # <<>> /\ n \in 1..n /\ LastTime = input[n].time
    BY <1>1 DEF LastTime, Last, n
  <2>2. i # n => input[i].time < input[n].time
    <3>1. i # n => i < n
      BY <1>size
    <3>2. i \in DOMAIN input /\ n \in DOMAIN input
      BY <1>1, <2>1
    <3> QED
      BY <3>1, <3>2 DEF EventsFit
  <2> QED
    BY <1>3, <2>1, <2>2
<1>5. \A i, j \in DOMAIN longer : i < j => longer[i].time < longer[j].time
  <2> SUFFICES ASSUME NEW i \in 1..n + 1, NEW j \in 1..n + 1, i < j
               PROVE  longer[i].time < longer[j].time
    BY <1>2
  <2>1. i \in 1..n /\ longer[i] = input[i]
    BY <1>1, <1>2
  <2>2. CASE j = n + 1
    BY <1>2, <1>4, <2>1, <2>2
  <2>3. CASE j # n + 1
    <3>1. j \in 1..n /\ longer[j] = input[j]
      BY <1>1, <1>2, <2>3
    <3> QED
      BY <1>1, <2>1, <3>1 DEF EventsFit
  <2> QED
    BY <2>2, <2>3
<1>6. \A i, j \in DOMAIN longer : longer[i].kind = "status" /\ longer[j].kind = "status" => i = j
  <2>1. \A i \in 1..n + 1 : i = n + 1 \/ i \in 1..n
    BY <1>1
  <2>2. \A i, j \in 1..n : input[i].kind = "status" /\ input[j].kind = "status" => i = j
    BY <1>1 DEF EventsFit
  <2> QED
    BY <1>1, <1>2, <2>1, <2>2
<1>7. \A i \in DOMAIN longer :
         i + 1 \in DOMAIN longer /\ longer[i + 1].kind # "change" => longer[i + 1].gain = longer[i].gain
  <2> SUFFICES ASSUME NEW i \in 1..n + 1, i + 1 \in 1..n + 1, longer[i + 1].kind # "change"
               PROVE  longer[i + 1].gain = longer[i].gain
    BY <1>2
  <2>1. i \in 1..n /\ longer[i] = input[i]
    BY <1>1, <1>2
  <2>2. CASE i = n
    <3>1. input # <<>> /\ Last(input) = input[n]
      BY <1>1, <2>1 DEF Last, n
    <3> QED
      BY <1>2, <2>1, <2>2, <3>1
  <2>3. CASE i # n
    <3>1. i + 1 \in 1..n
      BY <1>size, <2>1, <2>3
    <3>2. longer[i + 1] = input[i + 1]
      BY <1>2, <3>1
    <3> QED
      BY <1>1, <2>1, <3>1, <3>2 DEF EventsFit
  <2> QED
    BY <2>2, <2>3
<1> QED
  BY <1>2, <1>5, <1>6, <1>7 DEF EventsFit, longer, n

\* The next sample fits.
LEMMA AppendSample ==
    ASSUME SamplesFit(input), NEW sample \in Samples, sample.time = LastTime + 1
    PROVE  SamplesFit(Append(input, sample))
<1> DEFINE n == Len(input)
           longer == Append(input, sample)
<1>1. input \in Seq(Samples) /\ n \in Nat /\ DOMAIN input = 1..n
  BY DEF SamplesFit
<1>size. n \in Nat
  BY <1>1
<1>2. /\ longer \in Seq(Samples) /\ DOMAIN longer = 1..n + 1
      /\ longer[n + 1] = sample /\ \A i \in 1..n : longer[i] = input[i]
  BY <1>1
<1> HIDE DEF longer, n
<1>3. \A i \in 1..n : input[i].time \in Nat
  <2>1. \A i \in 1..n : input[i] \in Samples
    BY <1>1
  <2> QED
    BY <2>1 DEF Samples
<1>4. \A i \in 1..n : input[i].time < sample.time
  <2> SUFFICES ASSUME NEW i \in 1..n PROVE input[i].time < sample.time
    OBVIOUS
  <2>1. input # <<>> /\ n \in 1..n /\ LastTime = input[n].time
    BY <1>1 DEF LastTime, Last, n
  <2>2. i # n => input[i].time < input[n].time
    <3>1. i # n => i < n
      BY <1>size
    <3>2. i \in DOMAIN input /\ n \in DOMAIN input
      BY <1>1, <2>1
    <3> QED
      BY <3>1, <3>2 DEF SamplesFit
  <2> QED
    BY <1>3, <2>1, <2>2
<1>5. ASSUME NEW i \in 1..n + 1, NEW j \in 1..n + 1, i < j
      PROVE  longer[i].time < longer[j].time
  <2>1. i \in 1..n /\ longer[i] = input[i]
    BY <1>1, <1>2, <1>5
  <2>2. CASE j = n + 1
    BY <1>2, <1>4, <2>1, <2>2
  <2>3. CASE j # n + 1
    <3>1. j \in 1..n /\ longer[j] = input[j]
      BY <1>1, <1>2, <2>3
    <3> QED
      BY <1>1, <1>5, <2>1, <3>1 DEF SamplesFit
  <2> QED
    BY <2>2, <2>3
<1> QED
  BY <1>2, <1>5 DEF SamplesFit, longer, n

\* Before anything is read everything fits.
LEMMA NothingRead == input = <<>> => EventsFit(input) /\ SamplesFit(input) /\ LastTime = 0
BY DEF EventsFit, SamplesFit, LastTime

\* A step of the recorder, or of another program, reads nothing of a tuning run.
LEMMA TuningElsewhere ==
    ASSUME TuningInput, NEW name, NEW item, name \notin {None, "pid", "response"}, Reads(name, item)
    PROVE  TuningInput'
BY DEF TuningInput, Reads

\* An event that is read fits those before it.
LEMMA EventRead ==
    ASSUME TuningInput, Runs("pid"), NEW kind \in {"state", "status", "change"}, NEW gain \in Gains,
           NEW speed \in PlateauSpeeds \cup {None}, Event(kind, gain, speed),
           kind = "status" => \A i \in DOMAIN input : input[i].kind # "status",
           kind # "change" => gain \in GainNow
    PROVE  TuningInput'
<1> DEFINE event == [kind |-> kind, gain |-> gain, speed |-> speed, time |-> LastTime + 1]
<1>1. EventsFit(input)
  BY NothingRead DEF TuningInput, Runs, Idle
<1>2. LastTime \in Nat
  <2>1. CASE input = <<>>
    BY <2>1 DEF LastTime
  <2>2. CASE input # <<>>
    <3>1. Last(input) \in Events
      BY <1>1, <2>2 DEF EventsFit, Last
    <3> QED
      BY <2>2, <3>1 DEF LastTime, Events
  <2> QED
    BY <2>1, <2>2
<1>3. event \in Events
  BY <1>2 DEF Events
<1>4. event.kind = kind /\ event.gain = gain /\ event.time = LastTime + 1
  OBVIOUS
<1>5. program' = "pid" /\ input' = Append(input, event)
  BY DEF Event, Reads
<1> HIDE DEF event
<1>6. kind # "change" /\ input # <<>> => gain = Last(input).gain
  BY DEF GainNow
<1>7. EventsFit(Append(input, event))
  BY <1>1, <1>3, <1>4, <1>6, AppendEvent
<1>8. "pid" # None
  BY AnalysisAssumption
<1> QED
  BY <1>5, <1>7, <1>8 DEF TuningInput

\* The gain in force is one of the gains.
LEMMA GainsAreGains == EventsFit(input) => GainNow \subseteq Gains
<1> SUFFICES ASSUME EventsFit(input), input # <<>> PROVE Last(input).gain \in Gains
  BY DEF GainNow
<1>1. Last(input) \in Events
  BY DEF EventsFit, Last
<1> QED
  BY <1>1 DEF Events

\* Whatever is read, the events and the samples keep fitting together.
LEMMA TuningInputStep == TuningInput /\ [Next]_vars => TuningInput'
<1> SUFFICES ASSUME TuningInput, [Next]_vars PROVE TuningInput'
  OBVIOUS
<1> DEFINE names == {"segments", "target", "groups", "drives", "rest", "series", "scan"}
<1>1. \A name \in names : name \notin {None, "pid", "response"}
  BY AnalysisAssumption
<1>2. CASE UNCHANGED vars
  BY <1>2 DEF vars, TuningInput
<1>3. CASE RecordingNext /\ UNCHANGED <<program, input>>
  BY <1>3 DEF TuningInput
<1>4. Runs("pid") => GainNow \subseteq Gains
  BY NothingRead, GainsAreGains DEF TuningInput, Runs, Idle
<1>5. CASE ReadState
  <2>1. PICK gain \in GainNow, speed \in PlateauSpeeds : Event("state", gain, speed)
    BY <1>5 DEF ReadState
  <2>2. Runs("pid") /\ gain \in Gains
    BY <1>4, <1>5 DEF ReadState
  <2> QED
    BY <2>1, <2>2, EventRead
<1>6. CASE ReadStatus
  <2>1. PICK gain \in GainNow : Event("status", gain, None)
    BY <1>6 DEF ReadStatus
  <2>2. /\ Runs("pid") /\ gain \in Gains
        /\ \A i \in DOMAIN input : input[i].kind # "status"
    BY <1>4, <1>6 DEF ReadStatus
  <2> QED
    BY <2>1, <2>2, EventRead
<1>7. CASE ReadChange
  <2>1. PICK gain \in Gains : Event("change", gain, None)
    BY <1>7 DEF ReadChange
  <2>2. Runs("pid")
    BY <1>7 DEF ReadChange
  <2> QED
    BY <2>1, <2>2, EventRead
<1>8. CASE ReadSample
  <2>1. PICK measured \in Measurements \cup Unmeasured, free \in BOOLEAN :
          Reads("response", [time |-> LastTime + 1, measured |-> measured, free |-> free])
    BY <1>8 DEF ReadSample
  <2> DEFINE sample == [time |-> LastTime + 1, measured |-> measured, free |-> free]
  <2>2. SamplesFit(input)
    BY <1>8, NothingRead DEF ReadSample, TuningInput, Runs, Idle
  <2>3. LastTime \in Nat
    <3>1. CASE input = <<>>
      BY <3>1 DEF LastTime
    <3>2. CASE input # <<>>
      <4>1. Last(input) \in Samples
        BY <2>2, <3>2 DEF SamplesFit, Last
      <4> QED
        BY <3>2, <4>1 DEF LastTime, Samples
    <3> QED
      BY <3>1, <3>2
  <2>4. measured \in Int \cup {None}
    BY AnalysisAssumption DEF Unmeasured
  <2>5. sample \in Samples /\ sample.time = LastTime + 1
    BY <2>3, <2>4 DEF Samples
  <2>6. program' = "response" /\ input' = Append(input, sample)
    BY <2>1 DEF Reads
  <2> HIDE DEF sample
  <2>7. SamplesFit(Append(input, sample))
    BY <2>2, <2>5, AppendSample
  <2>8. "response" # None
    BY AnalysisAssumption
  <2> QED
    BY <2>6, <2>7, <2>8 DEF TuningInput
<1>9. CASE \E name \in names : \E item : Reads(name, item)
  BY <1>1, <1>9, TuningElsewhere
<1>10. ASSUME \/ ReadCommand \/ ReadPoint \/ ReadRun \/ ReadDrive \/ ReadMoment \/ ReadRate \/ ReadScan
       PROVE  \E name \in names : \E item : Reads(name, item)
  BY <1>10 DEF ReadCommand, ReadPoint, ReadRun, ReadDrive, ReadMoment, ReadRate, ReadScan
<1> QED
  BY <1>2, <1>3, <1>5, <1>6, <1>7, <1>8, <1>9, <1>10 DEF Next

\* From the first status on every state of a tuning run is told the gain it was under,
\* wherever the gains changed; a step is attributed to a gain that all its states were
\* under, its steady part is of one plateau and after no recent change; and the times
\* and the overshoot of a step agree, up or down, from wherever it began
\* (recover_timeline, step_metrics, in_exclusion, first_crossing, settling_time).
THEOREM TuningRunsAreTrue == Spec => []TuningIsTrue
<1>1. Init => TuningInput
  BY AnalysisAssumption DEF Init, TuningInput
<1>2. TuningInput /\ [Next]_vars => TuningInput'
  BY TuningInputStep
<1>3. TuningInput => TuningIsTrue
  <2> SUFFICES ASSUME TuningInput PROVE TuningIsTrue
    OBVIOUS
  <2>1. ASSUME program = "pid"
        PROVE  Pid!TimelineIsTrue(input) /\ Pid!StepsHaveOneGain(input) /\ Pid!SteadyIsSettled(input)
    BY <2>1, TimelineHolds, OneGainHolds, SteadyHolds DEF TuningInput
  <2>2. ASSUME program = "response", NEW step \in StepsTaken,
               NEW initial \in {step[1], step[1] + 1, step[1] + 6, None}
        PROVE  Pid!ResponseIsOrdered(input, initial, step[1], step[2])
    <3>1. step[1] \in Int /\ step[2] \in Int
      BY AnalysisAssumption
    <3>2. SamplesFit(input)
      BY <2>2 DEF TuningInput
    <3>3. initial \in Int \cup {None}
      BY <3>1
    <3>4. CASE Pid!Raises(input, initial)
      <4>1. Pid!Response(input, initial, step[1], step[2]) = None
        BY <3>4 DEF Pid!Response
      <4> QED
        BY <4>1 DEF Pid!ResponseIsOrdered
    <3> QED
      BY <3>1, <3>2, <3>3, <3>4, ResponseHolds
  <2> QED
    BY <2>1, <2>2 DEF TuningIsTrue
<1> QED
  BY <1>1, <1>2, <1>3, PTL DEF Spec

===============================================================================
