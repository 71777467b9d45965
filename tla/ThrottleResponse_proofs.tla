------------------------ MODULE ThrottleResponse_proofs ------------------------
(***************************************************************************)
(* Proofs about ThrottleResponse as Analysis uses it, for every value of   *)
(* its constants; the bags, scans and tuning runs are in Analysis_proofs.  *)
(***************************************************************************)
EXTENDS Analysis_proofs

-----------------------------------------------------------------------------
(* The segments of commands: what one pass over the samples finds.         *)

\* The operators of the tools' module are those of this one.
LEMMA ThrottleOperators ==
    /\ \A S : Throttle!Max(S) = Max(S) /\ Throttle!Min(S) = Min(S)
    /\ \A s : Throttle!ToSet(s) = ToSet(s) /\ Throttle!Last(s) = Last(s)
    /\ \A S : Throttle!Cardinality(S) = Cardinality(S)
    /\ \A s, places : Throttle!Chosen(s, places) = Chosen(s, places)
<1>1. \A S : Throttle!Cardinality(S) = Cardinality(S)
  BY DEF Throttle!Cardinality, Cardinality
<1>2. ASSUME NEW S PROVE Throttle!Arranged(S, <) = Arranged(S, <)
  <2> DEFINE here(k) == CHOOSE x \in S : Cardinality({y \in S : y < x}) = k - 1
             there(k) == CHOOSE x \in S : Throttle!Cardinality({y \in S : y < x}) = k - 1
  <2>1. \A k : there(k) = here(k)
    BY <1>1
  <2>2. Arranged(S, <) = SubSeq([k \in 1..Cardinality(S) |-> here(k)], 1, Cardinality(S))
    BY DEF Arranged
  <2>3. Throttle!Arranged(S, <)
          = SubSeq([k \in 1..Throttle!Cardinality(S) |-> there(k)], 1, Throttle!Cardinality(S))
    BY DEF Throttle!Arranged
  <2> HIDE DEF here, there
  <2> QED
    BY <1>1, <2>1, <2>2, <2>3
<1>3. ASSUME NEW s, NEW places PROVE Throttle!Chosen(s, places) = Chosen(s, places)
  <2> DEFINE order == Arranged(places, <)
             other == Throttle!Arranged(places, <)
  <2>1. other = order
    BY <1>2
  <2>2. Chosen(s, places) = [k \in DOMAIN order |-> s[order[k]]]
    BY DEF Chosen
  <2>3. Throttle!Chosen(s, places) = [k \in DOMAIN other |-> s[other[k]]]
    BY DEF Throttle!Chosen
  <2> HIDE DEF order, other
  <2> QED
    BY <2>1, <2>2, <2>3
<1> QED
  BY <1>1, <1>3 DEF Throttle!Max, Max, Throttle!Min, Min, Throttle!ToSet, ToSet, Throttle!Last, Last

\* Samples in the order of their times, no two of one time.
InTime(all) ==
    /\ DOMAIN all = 1..Len(all) /\ Len(all) \in Nat
    /\ \A i \in DOMAIN all : all[i].time \in Nat
    /\ \A i, j \in DOMAIN all : i < j => all[i].time < all[j].time

\* Deduplicated samples are.
LEMMA DeduplicatedFacts ==
    ASSUME NEW S, NEW samples \in Seq(S), \A i \in DOMAIN samples : samples[i].time \in Nat
    PROVE  /\ Throttle!Deduplicated(samples) \in Seq(S)
           /\ InTime(Throttle!Deduplicated(samples))
           /\ \A k \in DOMAIN Throttle!Deduplicated(samples) :
                 \E i \in DOMAIN samples : Throttle!Deduplicated(samples)[k] = samples[i]
<1> DEFINE N == Len(samples)
           lastOfItsTime(i) == \A j \in i + 1..Len(samples) : samples[j].time # samples[i].time
           earlier(i, j) == samples[i].time < samples[j].time
           D == {i \in DOMAIN samples : lastOfItsTime(i)}
           R == {p \in D \X D : earlier(p[1], p[2])}
           n == Cardinality(D)
           order == Throttle!Arranged(D, earlier)
           all == Throttle!Deduplicated(samples)
<1>1. DOMAIN samples = 1..N /\ N \in Nat
  OBVIOUS
<1>2. D \in SUBSET (1..N) /\ IsFiniteSet(D) /\ n \in Nat
  <2>1. D \in SUBSET (1..N)
    BY <1>1
  <2>2. IsFiniteSet(1..N)
    BY <1>1, FS_Interval
  <2> HIDE DEF D
  <2>3. IsFiniteSet(D)
    BY <2>1, <2>2, FS_Subset
  <2> QED
    BY <2>1, <2>3, FS_CardinalityType
<1>3. \A x, y \in D : x < y => samples[x].time # samples[y].time
  <2> SUFFICES ASSUME NEW x \in D, NEW y \in D, x < y PROVE samples[x].time # samples[y].time
    OBVIOUS
  <2>1. y \in x + 1..Len(samples)
    BY <1>1, <1>2
  <2> QED
    BY <2>1
<1>4. \A x, y \in D : <<x, y>> \in R <=> earlier(x, y)
  OBVIOUS
<1>5. Orders(R, D)
  <2>1. \A x \in D : x \in 1..N /\ samples[x].time \in Nat
    BY <1>1, <1>2
  <2> HIDE DEF D, R
  <2>2. \A x, y \in D : x # y => earlier(x, y) \/ earlier(y, x)
    BY <1>1, <1>3, <2>1
  <2>3. \A x, y \in D : earlier(x, y) => ~earlier(y, x)
    BY <2>1
  <2>4. \A x, y, z \in D : earlier(x, y) /\ earlier(y, z) => earlier(x, z)
    BY <2>1
  <2> HIDE DEF earlier
  <2> QED
    BY <1>4, <2>2, <2>3, <2>4 DEF Orders
<1>6. order = Ranked(R, D)
  <2> DEFINE there(k) == CHOOSE x \in D : Throttle!Cardinality({y \in D : earlier(y, x)}) = k - 1
             related(k) == CHOOSE x \in D : Cardinality({y \in D : <<y, x>> \in R}) = k - 1
  <2> HIDE DEF D, R
  <2>1. /\ order = SubSeq([k \in 1..Throttle!Cardinality(D) |-> there(k)], 1, Throttle!Cardinality(D))
        /\ Ranked(R, D) = [k \in 1..Cardinality(D) |-> related(k)]
    BY DEF Throttle!Arranged, Ranked
  <2> HIDE DEF earlier
  <2>2. \A x \in D : {y \in D : <<y, x>> \in R} = {y \in D : earlier(y, x)}
    BY <1>4
  <2>3. \A k : related(k) = there(k)
    BY <2>2, ThrottleOperators
  <2>4. Throttle!Cardinality(D) = Cardinality(D)
    BY ThrottleOperators
  <2> HIDE DEF there, related, order
  <2>5. order = SubSeq(Ranked(R, D), 1, Cardinality(D))
    BY <2>1, <2>3, <2>4
  <2> QED
    BY <1>2, <1>5, <2>5, RankedIsWhole
<1>7. /\ order \in [1..n -> D]
      /\ \A k \in 1..n : \A l \in 1..k - 1 : <<order[l], order[k]>> \in R
  <2> HIDE DEF order, R, D
  <2>1. /\ Ranked(R, D) \in Bijection(1..n, D)
        /\ \A k \in 1..n : \A l \in 1..k - 1 : <<Ranked(R, D)[l], Ranked(R, D)[k]>> \in R
    BY <1>2, <1>5, RankedFacts
  <2> QED
    BY <1>6, <2>1 DEF Bijection, Injection
<1>8. all = [k \in DOMAIN order |-> samples[order[k]]]
  BY DEF Throttle!Deduplicated
<1> HIDE DEF order, all, n
<1>9. all = [k \in 1..n |-> samples[order[k]]]
  BY <1>7, <1>8
<1>10. \A k \in 1..n : order[k] \in D /\ order[k] \in 1..N
  BY <1>2, <1>7
<1>11. ASSUME NEW k \in 1..n, NEW l \in 1..n, l < k PROVE samples[order[l]].time < samples[order[k]].time
  <2>1. l \in 1..k - 1
    BY <1>2, <1>11
  <2>2. <<order[l], order[k]>> \in R
    BY <1>7, <2>1
  <2> QED
    BY <1>4, <1>10, <2>2
<1> HIDE DEF D, R
<1>12. all \in Seq(S) /\ Len(all) = n
  <2>1. \A k \in 1..n : samples[order[k]] \in S
    BY <1>1, <1>10
  <2> QED
    BY <1>2, <1>9, <2>1
<1>13. InTime(all)
  <2>1. \A k \in 1..n : all[k] = samples[order[k]] /\ all[k].time \in Nat
    BY <1>1, <1>9, <1>10
  <2> QED
    BY <1>2, <1>11, <1>12, <2>1 DEF InTime
<1> QED
  BY <1>1, <1>9, <1>10, <1>12, <1>13 DEF all

\* The pass after no sample, and after one more.
PassAfter(all, pass, n) ==
    IF n = 0 THEN Throttle!FirstPass ELSE Throttle!OnSample(pass[n - 1], all[n])

\* The passes are what the recursion says they are.
LEMMA PassesAreFound ==
    ASSUME NEW all, Len(all) \in Nat
    PROVE  Throttle!Passes(all) = [n \in 0..Len(all) |-> PassAfter(all, Throttle!Passes(all), n)]
<1> DEFINE N == Len(all)
           Found(f, n) == f = [i \in 0..n |-> PassAfter(all, f, i)]
           A == {n \in Nat : \E f : Found(f, n)}
<1>1. 0 \in A
  <2> DEFINE f == [i \in 0..0 |-> Throttle!FirstPass]
  <2>1. Found(f, 0)
    BY DEF PassAfter
  <2> QED
    BY <2>1
<1>2. ASSUME NEW n \in A PROVE n + 1 \in A
  <2>1. n \in Nat
    OBVIOUS
  <2>2. PICK f : Found(f, n)
    OBVIOUS
  <2> DEFINE g == [i \in 0..n + 1 |-> IF i = n + 1 THEN PassAfter(all, f, n + 1) ELSE f[i]]
  <2>3. \A i \in 0..n + 1 : g[i] = PassAfter(all, f, i)
    <3>1. \A i \in 0..n : f[i] = PassAfter(all, f, i)
      BY <2>2
    <3>2. \A i \in 0..n + 1 : i # n + 1 => i \in 0..n
      BY <2>1
    <3> QED
      BY <3>1, <3>2
  <2>4. \A i \in 0..n + 1 : PassAfter(all, f, i) = PassAfter(all, g, i)
    <3> SUFFICES ASSUME NEW i \in 0..n + 1 PROVE PassAfter(all, f, i) = PassAfter(all, g, i)
      OBVIOUS
    <3>1. i # 0 => i - 1 \in 0..n + 1 /\ i - 1 # n + 1
      BY <2>1
    <3>2. i # 0 => g[i - 1] = f[i - 1]
      BY <3>1
    <3> QED
      BY <3>2 DEF PassAfter
  <2>5. DOMAIN g = 0..n + 1 /\ g = [i \in 0..n + 1 |-> g[i]]
    OBVIOUS
  <2> HIDE DEF g
  <2>6. Found(g, n + 1)
    BY <2>3, <2>4, <2>5
  <2> QED
    BY <2>1, <2>6
<1>3. A \in SUBSET Nat
  OBVIOUS
<1> HIDE DEF A
<1>4. A = Nat
  BY <1>1, <1>2, <1>3, Inductive
<1>5. PICK f : Found(f, N)
  <2>1. N \in A
    BY <1>4
  <2> QED
    BY <2>1 DEF A
<1> QED
  BY <1>5 DEF Throttle!Passes, PassAfter

\* The first pass, and each one after another sample.
LEMMA PassFacts ==
    ASSUME NEW all, Len(all) \in Nat
    PROVE  /\ Throttle!Passes(all)[0] = Throttle!FirstPass
           /\ \A n \in 1..Len(all) :
                 Throttle!Passes(all)[n] = Throttle!OnSample(Throttle!Passes(all)[n - 1], all[n])
<1> DEFINE pass == Throttle!Passes(all)
<1>1. pass = [n \in 0..Len(all) |-> PassAfter(all, pass, n)]
  BY PassesAreFound
<1> HIDE DEF pass
<1>2. \A n \in 0..Len(all) : pass[n] = PassAfter(all, pass, n)
  BY <1>1
<1>3. 0 \in 0..Len(all) /\ \A n \in 1..Len(all) : n \in 0..Len(all) /\ n # 0
  OBVIOUS
<1> QED
  BY <1>2, <1>3 DEF PassAfter, pass

\* Samples of commands, in the order of their times.
IsCourse(all) == InTime(all) /\ \A i \in DOMAIN all : all[i].value \in Int

\* The samples from a to b are a run: of one sign, near one another, without a gap.
IsRun(all, a, b) ==
    /\ \A i \in a..b : ~Throttle!Neutral(all[i])
    /\ \A i, j \in a..b :
          /\ Throttle!Sign(all[i].value) = Throttle!Sign(all[j].value)
          /\ all[i].value - all[j].value \in -Spread..Spread
    /\ \A i \in a..b - 1 : all[i + 1].time - all[i].time <= GapLimit

\* The samples from f to l are neutral, without a gap, and those before f are not of
\* that stretch.
IsStretch(all, f, l) ==
    /\ \A i \in f..l : Throttle!Neutral(all[i])
    /\ \A i \in f..l - 1 : all[i + 1].time - all[i].time <= GapLimit
    /\ f # 1 /\ Throttle!Neutral(all[f - 1]) => all[f].time - all[f - 1].time > GapLimit

\* A neutral stretch as a pass keeps it.
Stretch(all, f, l) == [from |-> all[f].time, to |-> all[l].time]

\* What is known of the time before a run that begins at a.
IsPreceded(all, a, before, preceded) ==
    IF a # 1 /\ Throttle!Neutral(all[a - 1])
    THEN \E f \in 1..a - 1 :
            /\ IsStretch(all, f, a - 1)
            /\ before = Stretch(all, f, a - 1)
            /\ preceded = (all[a - 1].time - all[f].time >= MinNeutral)
    ELSE before = None /\ preceded = FALSE

\* The segments there could be, and those found in the first n samples.
SegmentsOf(all) ==
    [start : Nat, end : Nat, analyzed : Nat, commands : Seq({all[i].value : i \in DOMAIN all}),
     before : {None} \cup [from : Nat, to : Nat], preceded : BOOLEAN]

\* A segment is a run that lasted.
IsSegment(all, segment, n) ==
    \E a, b \in 1..n :
       /\ a <= b /\ IsRun(all, a, b)
       /\ segment.start = all[a].time /\ segment.end = all[b].time
       /\ segment.analyzed = segment.start + Settling
       /\ segment.end - segment.start >= MinDuration
       /\ segment.start + Settling < segment.end
       /\ IsPreceded(all, a, segment.before, segment.preceded)

FoundAreSegments(all, found, n) ==
    /\ found \in Seq(SegmentsOf(all))
    /\ \A k \in DOMAIN found : IsSegment(all, found[k], n)

\* The samples from a to b.
Part(all, a, b) == [i \in 1..b - a + 1 |-> all[a + i - 1]]

\* A run begins with the samples, after a neutral one, or where the run before it ends.
Begins(all, a) ==
    \/ a = 1
    \/ Throttle!Neutral(all[a - 1])
    \/ \E b \in 1..a - 1 : (\A i \in b..a - 1 : ~Throttle!Neutral(all[i])) /\ ~IsRun(all, b, a)

\* A pass reads the run that began at a.
Reading(all, pass, a, n) ==
    /\ pass.run = Part(all, a, n)
    /\ IsRun(all, a, n)
    /\ Begins(all, a)
    /\ IsPreceded(all, a, pass.before, pass.preceded)
    /\ pass.neutral = None

\* A pass reads the neutral stretch that began at f.
Standing(all, pass, f, n) ==
    /\ pass.run = <<>>
    /\ IsStretch(all, f, n)
    /\ pass.neutral = Stretch(all, f, n)

\* The pass after n samples.
IsPass(all, pass, n) ==
    /\ pass = [run |-> pass.run, before |-> pass.before, preceded |-> pass.preceded,
               neutral |-> pass.neutral, found |-> pass.found]
    /\ FoundAreSegments(all, pass.found, n)
    /\ \/ n = 0 /\ pass.run = <<>> /\ pass.neutral = None
       \/ \E a \in 1..n : Reading(all, pass, a, n)
       \/ \E f \in 1..n : Standing(all, pass, f, n)

\* What was found stays found.
Keeps(found, more) == \A k \in DOMAIN found : k \in DOMAIN more /\ more[k] = found[k]

\* The samples from a to b last long enough to be a segment.
Lasts(all, a, b) ==
    all[b].time - all[a].time >= MinDuration /\ all[a].time + Settling < all[b].time

\* The samples from a to b are among the segments found.
HasSegment(all, found, a, b) ==
    \E k \in DOMAIN found : found[k].start = all[a].time /\ found[k].end = all[b].time

\* What a part of the samples holds, and its ends.
LEMMA ReadFacts ==
    ASSUME NEW all, InTime(all), NEW n \in 0..Len(all), NEW a \in 1..n
    PROVE  /\ Part(all, a, n) \in Seq({all[i] : i \in DOMAIN all})
           /\ Len(Part(all, a, n)) = n - a + 1
           /\ Part(all, a, n) # <<>>
           /\ Head(Part(all, a, n)) = all[a]
           /\ Throttle!Last(Part(all, a, n)) = all[n]
           /\ \A i \in 1..n - a + 1 : Part(all, a, n)[i] = all[a + i - 1]
<1> DEFINE part == Part(all, a, n)
           T == {all[i] : i \in DOMAIN all}
<1>1. n \in Nat /\ a \in Nat /\ n - a + 1 \in Nat /\ n - a + 1 >= 1
  BY DEF InTime
<1>2. \A i \in 1..n - a + 1 : a + i - 1 \in DOMAIN all
  BY <1>1 DEF InTime
<1>3. part = [i \in 1..n - a + 1 |-> all[a + i - 1]]
  BY DEF Part
<1> DEFINE m == n - a + 1
<1> HIDE DEF part
<1>4. \A i \in 1..m : all[a + i - 1] \in T
  BY <1>2
<1> HIDE DEF T
<1>5. part \in Seq(T) /\ Len(part) = m
  <2> HIDE DEF m
  <2>1. m \in Nat
    BY <1>1 DEF m
  <2>2. part = [i \in 1..m |-> all[a + i - 1]]
    BY <1>3 DEF m
  <2> QED
    BY <1>4, <2>1, <2>2
<1>6. 1 \in 1..m /\ a + 1 - 1 = a /\ m \in 1..m /\ a + m - 1 = n
  BY <1>1
<1>7. part[1] = all[a] /\ part[m] = all[n]
  BY <1>3, <1>6
<1>8. part # <<>> /\ Head(part) = part[1]
  BY <1>1, <1>5
<1> QED
  BY <1>3, <1>5, <1>7, <1>8 DEF part, T, Throttle!Last

\* Closing a run adds it to the segments if it lasted, and nothing else.
LEMMA ClosedFacts ==
    ASSUME NEW all, IsCourse(all), NEW n \in 0..Len(all), NEW pass, IsPass(all, pass, n)
    PROVE  /\ FoundAreSegments(all, Throttle!Closed(pass), n)
           /\ Keeps(pass.found, Throttle!Closed(pass))
           /\ \A a \in 1..n :
                 Reading(all, pass, a, n) /\ Lasts(all, a, n) => HasSegment(all, Throttle!Closed(pass), a, n)
<1> DEFINE closed == Throttle!Closed(pass)
           lasts(a) == Lasts(all, a, n)
<1>1. InTime(all) /\ \A i \in DOMAIN all : all[i].value \in Int
  BY DEF IsCourse
<1>2. FoundAreSegments(all, pass.found, n) /\ pass.found \in Seq(SegmentsOf(all))
  BY DEF IsPass, FoundAreSegments
<1>3. ASSUME pass.run = <<>> PROVE closed = pass.found
  BY <1>3 DEF Throttle!Closed
<1>4. ASSUME NEW a \in 1..n, Reading(all, pass, a, n)
      PROVE  /\ ~lasts(a) => closed = pass.found
             /\ lasts(a) => \E segment \in SegmentsOf(all) :
                   /\ closed = Append(pass.found, segment)
                   /\ IsSegment(all, segment, n)
                   /\ segment.start = all[a].time /\ segment.end = all[n].time
  <2> DEFINE run == Part(all, a, n)
             segment == [start |-> all[a].time, end |-> all[n].time, analyzed |-> all[a].time + Settling,
                         commands |-> [i \in DOMAIN run |-> run[i].value],
                         before |-> pass.before, preceded |-> pass.preceded]
  <2>1. /\ run \in Seq({all[i] : i \in DOMAIN all}) /\ run # <<>>
        /\ Head(run) = all[a] /\ Throttle!Last(run) = all[n]
    BY <1>1, ReadFacts
  <2>2. pass.run = run
    BY <1>4 DEF Reading
  <2>3. closed = IF lasts(a) THEN Append(pass.found, segment) ELSE pass.found
    <3> HIDE DEF run
    <3> QED
      BY <2>1, <2>2 DEF Throttle!Closed, Lasts
  <2>4. /\ a \in DOMAIN all /\ n \in DOMAIN all /\ n \in 1..n /\ a <= n
        /\ all[a].time \in Nat /\ all[n].time \in Nat
        /\ Settling \in Nat
    <3>1. Settling \in Nat
      BY AnalysisAssumption DEF Throttle!ValidMeasures, Throttle!ValidLimits
    <3> QED
      BY <1>1, <3>1 DEF InTime
  <2>5. /\ pass.before \in {None} \cup [from : Nat, to : Nat]
        /\ pass.preceded \in BOOLEAN
    <3>1. IsPreceded(all, a, pass.before, pass.preceded)
      BY <1>4 DEF Reading
    <3>2. \A f \in 1..a - 1 : Stretch(all, f, a - 1) \in [from : Nat, to : Nat]
      <4> SUFFICES ASSUME NEW f \in 1..a - 1 PROVE Stretch(all, f, a - 1) \in [from : Nat, to : Nat]
        OBVIOUS
      <4>1. f \in DOMAIN all /\ a - 1 \in DOMAIN all
        BY <1>1 DEF InTime
      <4>2. all[f].time \in Nat /\ all[a - 1].time \in Nat
        BY <1>1, <4>1 DEF InTime
      <4> QED
        BY <4>2 DEF Stretch
    <3>3. CASE a # 1 /\ Throttle!Neutral(all[a - 1])
      <4>1. PICK f \in 1..a - 1 :
               /\ pass.before = Stretch(all, f, a - 1)
               /\ pass.preceded = (all[a - 1].time - all[f].time >= MinNeutral)
        BY <3>1, <3>3 DEF IsPreceded
      <4> QED
        BY <3>2, <4>1
    <3>4. CASE ~(a # 1 /\ Throttle!Neutral(all[a - 1]))
      BY <3>1, <3>4 DEF IsPreceded
    <3> QED
      BY <3>3, <3>4
  <2>6. segment.commands \in Seq({all[i].value : i \in DOMAIN all})
    <3>1. \A i \in DOMAIN run : run[i] \in {all[j] : j \in DOMAIN all}
      BY <2>1
    <3>2. \A i \in DOMAIN run : run[i].value \in {all[j].value : j \in DOMAIN all}
      BY <3>1
    <3>3. DOMAIN run = 1..Len(run) /\ Len(run) \in Nat
      BY <2>1
    <3> DEFINE V == {all[j].value : j \in DOMAIN all}
               commands == [i \in DOMAIN run |-> run[i].value]
    <3> HIDE DEF run, V
    <3>4. commands \in Seq(V)
      BY <3>2, <3>3 DEF V
    <3> QED
      BY <3>4 DEF V
  <2> HIDE DEF run
  <2>7. segment \in SegmentsOf(all)
    BY <2>4, <2>5, <2>6 DEF SegmentsOf
  <2>8. /\ segment.start = all[a].time /\ segment.end = all[n].time
        /\ segment.analyzed = all[a].time + Settling
        /\ segment.before = pass.before /\ segment.preceded = pass.preceded
    OBVIOUS
  <2> HIDE DEF segment
  <2>9. lasts(a) => IsSegment(all, segment, n)
    BY <1>4, <2>4, <2>8 DEF IsSegment, Reading, Lasts
  <2> QED
    BY <2>3, <2>7, <2>8, <2>9
<1> HIDE DEF closed, lasts, Keeps, HasSegment
<1>5. ASSUME NEW segment \in SegmentsOf(all), closed = Append(pass.found, segment)
      PROVE  /\ closed \in Seq(SegmentsOf(all))
             /\ DOMAIN closed = 1..Len(pass.found) + 1
             /\ \A k \in DOMAIN pass.found : k \in DOMAIN closed /\ closed[k] = pass.found[k]
             /\ Len(pass.found) + 1 \in DOMAIN closed
             /\ closed[Len(pass.found) + 1] = segment
             /\ \A k \in DOMAIN closed : k \in DOMAIN pass.found \/ k = Len(pass.found) + 1
  BY <1>2, <1>5
<1>6. CASE closed = pass.found
  <2>1. \A a \in 1..n : Reading(all, pass, a, n) /\ lasts(a) => FALSE
    <3> SUFFICES ASSUME NEW a \in 1..n, Reading(all, pass, a, n), lasts(a) PROVE FALSE
      OBVIOUS
    <3>1. PICK segment \in SegmentsOf(all) : closed = Append(pass.found, segment)
      BY <1>4
    <3>2. DOMAIN closed = 1..Len(pass.found) + 1 /\ DOMAIN pass.found = 1..Len(pass.found)
          /\ Len(pass.found) \in Nat
      BY <1>2, <1>5, <3>1
    <3> QED
      BY <1>6, <3>2
  <2> QED
    BY <1>2, <1>6, <2>1 DEF closed, lasts, Keeps, HasSegment
<1>7. CASE \E a \in 1..n : Reading(all, pass, a, n) /\ lasts(a)
  <2>1. PICK a \in 1..n : Reading(all, pass, a, n) /\ lasts(a)
    BY <1>7
  <2>2. PICK segment \in SegmentsOf(all) :
           /\ closed = Append(pass.found, segment)
           /\ IsSegment(all, segment, n)
           /\ segment.start = all[a].time /\ segment.end = all[n].time
    BY <1>4, <2>1
  <2>3. FoundAreSegments(all, closed, n)
    BY <1>2, <1>5, <2>2 DEF FoundAreSegments
  <2>4. \A b \in 1..n : Reading(all, pass, b, n) => b = a
    <3> SUFFICES ASSUME NEW b \in 1..n, Reading(all, pass, b, n) PROVE b = a
      OBVIOUS
    <3>1. Len(Part(all, a, n)) = n - a + 1 /\ Len(Part(all, b, n)) = n - b + 1
      BY <1>1, ReadFacts
    <3>2. Part(all, a, n) = Part(all, b, n)
      BY <2>1 DEF Reading
    <3> QED
      BY <3>1, <3>2
  <2> QED
    BY <1>5, <2>2, <2>3, <2>4 DEF closed, lasts, Keeps, HasSegment
<1>8. closed = pass.found \/ \E a \in 1..n : Reading(all, pass, a, n) /\ lasts(a)
  BY <1>3, <1>4 DEF IsPass, Standing
<1> QED
  BY <1>6, <1>7, <1>8

\* The limits are numbers.
LEMMA ThrottleLimits ==
    /\ ZeroTolerance \in Nat /\ Spread \in Nat /\ GapLimit \in Nat /\ MinNeutral \in Nat
    /\ MinDuration \in Nat /\ Settling \in Nat /\ GapLimit <= MinNeutral
BY AnalysisAssumption DEF Throttle!ValidMeasures, Throttle!ValidLimits

\* A segment of the samples so far is one of the samples after another.
LEMMA FoundStay ==
    ASSUME NEW all, NEW found, NEW n \in Nat, FoundAreSegments(all, found, n)
    PROVE  FoundAreSegments(all, found, n + 1)
<1>1. \A a \in 1..n : a \in 1..n + 1
  OBVIOUS
<1>2. ASSUME NEW segment, IsSegment(all, segment, n) PROVE IsSegment(all, segment, n + 1)
  BY <1>1, <1>2 DEF IsSegment
<1> QED
  BY <1>2 DEF FoundAreSegments

\* One sample is a run.
LEMMA OneIsRun ==
    ASSUME NEW all, IsCourse(all), NEW n \in DOMAIN all, ~Throttle!Neutral(all[n])
    PROVE  /\ IsRun(all, n, n)
           /\ Part(all, n, n) = <<all[n]>>
<1>1. all[n].value \in Int /\ n \in Nat
  BY DEF IsCourse, InTime
<1>2. n..n = {n} /\ n..n - 1 = {} /\ n - n + 1 = 1
  BY <1>1
<1>3. all[n].value - all[n].value \in -Spread..Spread
  BY <1>1, ThrottleLimits
<1>4. Part(all, n, n) = <<all[n]>>
  <2>1. n + 1 - 1 = n
    BY <1>1
  <2>2. 1..1 = {1}
    OBVIOUS
  <2>3. Part(all, n, n) = [i \in 1..1 |-> all[n + i - 1]]
    BY <1>2 DEF Part
  <2>4. [i \in 1..1 |-> all[n + i - 1]] = [i \in 1..1 |-> all[n]]
    BY <2>1, <2>2
  <2> QED
    BY <2>3, <2>4
<1> QED
  BY <1>2, <1>3, <1>4 DEF IsRun

\* A neutral stretch goes on, or a new one begins.
LEMMA StretchGoesOn ==
    ASSUME NEW all, IsCourse(all), NEW n \in 0..Len(all) - 1, NEW pass, IsPass(all, pass, n),
           Throttle!Neutral(all[n + 1])
    PROVE  \E f \in 1..n + 1 :
              /\ IsStretch(all, f, n + 1)
              /\ Throttle!Stretched(pass.neutral, all[n + 1]) = Stretch(all, f, n + 1)
<1> DEFINE next == Throttle!Stretched(pass.neutral, all[n + 1])
           stretched(f) == IsStretch(all, f, n + 1) /\ next = Stretch(all, f, n + 1)
<1>1. /\ n \in Nat /\ n + 1 \in DOMAIN all /\ Len(all) \in Nat /\ all[n + 1].time \in Nat
      /\ n # 0 => n \in DOMAIN all /\ all[n].time \in Nat
  BY DEF IsCourse, InTime
<1>2. n + 1 \in 1..n + 1 /\ n + 1..n + 1 = {n + 1} /\ n + 1..n + 1 - 1 = {} /\ n + 1 - 1 = n
      /\ (n + 1 # 1 <=> n # 0)
  BY <1>1
<1>3. ASSUME n # 0 /\ Throttle!Neutral(all[n]) => all[n + 1].time - all[n].time > GapLimit,
             next = [from |-> all[n + 1].time, to |-> all[n + 1].time]
      PROVE  stretched(n + 1)
  <2>1. IsStretch(all, n + 1, n + 1)
    BY <1>2, <1>3 DEF IsStretch
  <2> QED
    BY <1>3, <2>1 DEF Stretch, stretched
<1>4. next = [from |-> IF pass.neutral = None \/ all[n + 1].time - pass.neutral.to > GapLimit
                       THEN all[n + 1].time ELSE pass.neutral.from,
              to |-> all[n + 1].time]
  BY DEF Throttle!Stretched
<1> SUFFICES \E f \in 1..n + 1 : stretched(f)
  OBVIOUS
<1> HIDE DEF next, stretched
<1>5. CASE n = 0 /\ pass.neutral = None
  <2>1. next = [from |-> all[n + 1].time, to |-> all[n + 1].time]
    BY <1>4, <1>5
  <2> QED
    BY <1>2, <1>3, <1>5, <2>1
<1>6. CASE \E a \in 1..n : Reading(all, pass, a, n)
  <2>1. PICK a \in 1..n : Reading(all, pass, a, n)
    BY <1>6
  <2>2. pass.neutral = None /\ ~Throttle!Neutral(all[n])
    <3>1. n \in a..n
      BY <1>1
    <3> QED
      BY <2>1, <3>1 DEF Reading, IsRun
  <2>3. next = [from |-> all[n + 1].time, to |-> all[n + 1].time]
    BY <1>4, <2>2
  <2> QED
    BY <1>2, <1>3, <2>2, <2>3
<1>7. CASE \E f \in 1..n : Standing(all, pass, f, n)
  <2>1. PICK f \in 1..n : Standing(all, pass, f, n)
    BY <1>7
  <2>2. f \in DOMAIN all /\ n \in DOMAIN all /\ all[f].time \in Nat /\ all[n].time \in Nat /\ n # 0
    BY <1>1 DEF IsCourse, InTime
  <2>3. pass.neutral # None
    <3>1. Stretch(all, f, n) \in [from : Nat, to : Nat]
      BY <2>2 DEF Stretch
    <3>2. None \notin [from : Nat, to : Nat]
      BY AnalysisAssumption
    <3> QED
      BY <2>1, <3>1, <3>2 DEF Standing
  <2>4. pass.neutral.from = all[f].time /\ pass.neutral.to = all[n].time
    BY <2>1 DEF Standing, Stretch
  <2>5. CASE all[n + 1].time - all[n].time > GapLimit
    <3>1. next = [from |-> all[n + 1].time, to |-> all[n + 1].time]
      BY <1>4, <2>4, <2>5
    <3> QED
      BY <1>2, <1>3, <2>5, <3>1
  <2>6. CASE ~(all[n + 1].time - all[n].time > GapLimit)
    <3>1. next = Stretch(all, f, n + 1)
      BY <1>4, <2>3, <2>4, <2>6 DEF Stretch
    <3>2. all[n + 1].time - all[n].time <= GapLimit
      BY <1>1, <2>2, <2>6, ThrottleLimits
    <3>3. IsStretch(all, f, n)
      BY <2>1 DEF Standing
    <3>4. /\ \A i \in f..n + 1 : i \in f..n \/ i = n + 1
          /\ \A i \in f..n + 1 - 1 : i \in f..n - 1 \/ i = n
          /\ f \in 1..n + 1
      BY <1>1
    <3>5. \A i \in f..n + 1 : Throttle!Neutral(all[i])
      BY <3>3, <3>4 DEF IsStretch
    <3>6. \A i \in f..n + 1 - 1 : all[i + 1].time - all[i].time <= GapLimit
      BY <3>2, <3>3, <3>4 DEF IsStretch
    <3>7. IsStretch(all, f, n + 1)
      BY <3>3, <3>5, <3>6 DEF IsStretch
    <3> QED
      BY <3>1, <3>4, <3>7 DEF stretched
  <2> QED
    BY <2>5, <2>6
<1> QED
  BY <1>5, <1>6, <1>7 DEF IsPass

\* A neutral sample ends the run being read.
LEMMA NeutralSample ==
    ASSUME NEW all, IsCourse(all), NEW n \in 0..Len(all) - 1, NEW pass, IsPass(all, pass, n),
           Throttle!Neutral(all[n + 1])
    PROVE  /\ IsPass(all, Throttle!OnNeutral(pass, all[n + 1]), n + 1)
           /\ Throttle!OnNeutral(pass, all[n + 1]).found = Throttle!Closed(pass)
<1> DEFINE next == Throttle!OnNeutral(pass, all[n + 1])
           closed == Throttle!Closed(pass)
           stretched == Throttle!Stretched(pass.neutral, all[n + 1])
<1>1. n \in Nat /\ n \in 0..Len(all) /\ n + 1 # 0
  BY DEF IsCourse, InTime
<1>2. next = [run |-> <<>>, before |-> pass.before, preceded |-> pass.preceded,
              neutral |-> stretched, found |-> closed]
  <2> HIDE DEF closed, stretched
  <2>1. pass = [run |-> pass.run, before |-> pass.before, preceded |-> pass.preceded,
                neutral |-> pass.neutral, found |-> pass.found]
    BY DEF IsPass
  <2>2. next = [pass EXCEPT !.found = closed, !.run = <<>>, !.neutral = stretched]
    BY DEF Throttle!OnNeutral, closed, stretched
  <2> HIDE DEF next
  <2> QED
    BY <2>1, <2>2
<1>3. FoundAreSegments(all, closed, n + 1)
  BY <1>1, ClosedFacts, FoundStay
<1>4. PICK f \in 1..n + 1 : IsStretch(all, f, n + 1) /\ stretched = Stretch(all, f, n + 1)
  BY StretchGoesOn
<1> HIDE DEF next, closed, stretched
<1>5. /\ next.run = <<>> /\ next.neutral = stretched /\ next.found = closed
      /\ next.before = pass.before /\ next.preceded = pass.preceded
  BY <1>2
<1>6. next = [run |-> next.run, before |-> next.before, preceded |-> next.preceded,
              neutral |-> next.neutral, found |-> next.found]
  BY <1>2, <1>5
<1>7. Standing(all, next, f, n + 1)
  BY <1>4, <1>5 DEF Standing
<1>8. IsPass(all, next, n + 1)
  BY <1>3, <1>5, <1>6, <1>7 DEF IsPass
<1> QED
  BY <1>5, <1>8 DEF next, closed

\* The first sample that is not neutral begins a run.
LEMMA FirstSample ==
    ASSUME NEW all, IsCourse(all), NEW n \in 0..Len(all) - 1, NEW pass, IsPass(all, pass, n),
           ~Throttle!Neutral(all[n + 1]), pass.run = <<>>
    PROVE  /\ IsPass(all, Throttle!OnFirst(pass, all[n + 1]), n + 1)
           /\ Throttle!OnFirst(pass, all[n + 1]).found = pass.found
<1> DEFINE next == Throttle!OnFirst(pass, all[n + 1])
           long == pass.neutral # None /\ pass.neutral.to - pass.neutral.from >= MinNeutral
<1>1. /\ n \in Nat /\ n + 1 \in DOMAIN all /\ n + 1 \in 1..n + 1 /\ n + 1 - 1 = n
      /\ InTime(all) /\ Len(all) \in Nat /\ n \in 0..Len(all)
  BY DEF IsCourse, InTime
<1>2. next = [run |-> <<all[n + 1]>>, before |-> pass.neutral, preceded |-> long,
              neutral |-> None, found |-> pass.found]
  <2> HIDE DEF long
  <2>1. pass = [run |-> pass.run, before |-> pass.before, preceded |-> pass.preceded,
                neutral |-> pass.neutral, found |-> pass.found]
    BY DEF IsPass
  <2>2. next = [pass EXCEPT !.run = <<all[n + 1]>>, !.neutral = None, !.before = pass.neutral,
                            !.preceded = long]
    BY DEF Throttle!OnFirst, long
  <2> HIDE DEF next
  <2> QED
    BY <2>1, <2>2
<1> HIDE DEF next
<1>3. /\ next.run = <<all[n + 1]>> /\ next.neutral = None /\ next.found = pass.found
      /\ next.before = pass.neutral /\ next.preceded = long
  BY <1>2
<1>4. next = [run |-> next.run, before |-> next.before, preceded |-> next.preceded,
              neutral |-> next.neutral, found |-> next.found]
  BY <1>2, <1>3
<1>5. FoundAreSegments(all, pass.found, n + 1)
  BY <1>1, FoundStay DEF IsPass
<1>6. IsRun(all, n + 1, n + 1) /\ Part(all, n + 1, n + 1) = <<all[n + 1]>>
  BY <1>1, OneIsRun
<1>7. Begins(all, n + 1) /\ IsPreceded(all, n + 1, pass.neutral, long)
  <2>1. CASE n = 0 /\ pass.neutral = None
    <3>1. n + 1 = 1
      BY <2>1
    <3> QED
      BY <2>1, <3>1 DEF Begins, IsPreceded
  <2>2. CASE \E a \in 1..n : Reading(all, pass, a, n)
    <3>1. PICK a \in 1..n : Reading(all, pass, a, n)
      BY <2>2
    <3>2. Part(all, a, n) # <<>>
      BY <1>1, ReadFacts
    <3>3. pass.run = Part(all, a, n)
      BY <3>1 DEF Reading
    <3> QED
      BY <3>2, <3>3
  <2>3. CASE \E f \in 1..n : Standing(all, pass, f, n)
    <3>1. PICK f \in 1..n : Standing(all, pass, f, n)
      BY <2>3
    <3>2. f \in DOMAIN all /\ n \in DOMAIN all /\ all[f].time \in Nat /\ all[n].time \in Nat /\ n # 0
          /\ n \in f..n
      BY <1>1 DEF InTime
    <3>3. pass.neutral # None
      <4>1. Stretch(all, f, n) \in [from : Nat, to : Nat]
        BY <3>2 DEF Stretch
      <4>2. None \notin [from : Nat, to : Nat]
        BY AnalysisAssumption
      <4> QED
        BY <3>1, <4>1, <4>2 DEF Standing
    <3>4. pass.neutral = Stretch(all, f, n) /\ IsStretch(all, f, n)
      BY <3>1 DEF Standing
    <3>5. long = (all[n].time - all[f].time >= MinNeutral)
      BY <3>3, <3>4 DEF Stretch
    <3>6. Throttle!Neutral(all[n]) /\ n + 1 # 1
      BY <1>1, <3>2, <3>4 DEF IsStretch
    <3> HIDE DEF long
    <3> QED
      BY <1>1, <3>4, <3>5, <3>6 DEF Begins, IsPreceded
  <2> QED
    BY <2>1, <2>2, <2>3 DEF IsPass
<1> HIDE DEF long
<1>8. Reading(all, next, n + 1, n + 1)
  BY <1>3, <1>6, <1>7 DEF Reading
<1>9. IsPass(all, next, n + 1)
  BY <1>1, <1>3, <1>4, <1>5, <1>8 DEF IsPass
<1> QED
  BY <1>3, <1>9 DEF next

\* A pass that reads a run, and the run it reads.
LEMMA RunBeingRead ==
    ASSUME NEW all, IsCourse(all), NEW n \in 0..Len(all), NEW pass, IsPass(all, pass, n),
           pass.run # <<>>
    PROVE  \E a \in 1..n : Reading(all, pass, a, n)
BY DEF IsPass, Standing

\* A sample that breaks the run being read begins another, which nothing precedes.
LEMMA BreakingSample ==
    ASSUME NEW all, IsCourse(all), NEW n \in 0..Len(all) - 1, NEW pass, IsPass(all, pass, n),
           ~Throttle!Neutral(all[n + 1]), pass.run # <<>>, Throttle!Breaks(pass.run, all[n + 1])
    PROVE  /\ IsPass(all, Throttle!OnBreak(pass, all[n + 1]), n + 1)
           /\ Throttle!OnBreak(pass, all[n + 1]).found = Throttle!Closed(pass)
<1> DEFINE next == Throttle!OnBreak(pass, all[n + 1])
           closed == Throttle!Closed(pass)
<1>1. /\ n \in Nat /\ n + 1 \in DOMAIN all /\ n + 1 \in 1..n + 1 /\ n + 1 - 1 = n
      /\ InTime(all) /\ n \in 0..Len(all) /\ Len(all) \in Nat
  BY DEF IsCourse, InTime
<1>2. PICK a \in 1..n : Reading(all, pass, a, n)
  BY <1>1, RunBeingRead
<1>3. pass.run = Part(all, a, n) /\ IsRun(all, a, n) /\ pass.neutral = None
  BY <1>2 DEF Reading
<1>4. next = [run |-> <<all[n + 1]>>, before |-> None, preceded |-> FALSE,
              neutral |-> None, found |-> closed]
  <2> HIDE DEF closed
  <2>1. pass = [run |-> pass.run, before |-> pass.before, preceded |-> pass.preceded,
                neutral |-> pass.neutral, found |-> pass.found]
    BY DEF IsPass
  <2>2. next = [pass EXCEPT !.found = closed, !.run = <<all[n + 1]>>, !.before = None,
                            !.preceded = FALSE]
    BY DEF Throttle!OnBreak, closed
  <2> HIDE DEF next
  <2>3. next = [run |-> <<all[n + 1]>>, before |-> None, preceded |-> FALSE,
                neutral |-> pass.neutral, found |-> closed]
    BY <2>1, <2>2
  <2> QED
    BY <1>3, <2>3
<1>5. FoundAreSegments(all, closed, n + 1)
  BY <1>1, ClosedFacts, FoundStay
<1> HIDE DEF next, closed
<1>6. /\ next.run = <<all[n + 1]>> /\ next.neutral = None /\ next.found = closed
      /\ next.before = None /\ next.preceded = FALSE
  BY <1>4
<1>7. next = [run |-> next.run, before |-> next.before, preceded |-> next.preceded,
              neutral |-> next.neutral, found |-> next.found]
  BY <1>4, <1>6
<1>8. IsRun(all, n + 1, n + 1) /\ Part(all, n + 1, n + 1) = <<all[n + 1]>>
  BY <1>1, OneIsRun
<1>9. ~Throttle!Neutral(all[n])
  <2>1. n \in a..n
    BY <1>1
  <2> QED
    BY <1>3, <2>1 DEF IsRun
<1>10. IsPreceded(all, n + 1, next.before, next.preceded)
  BY <1>1, <1>6, <1>9 DEF IsPreceded
<1>11. ~IsRun(all, a, n + 1)
  <2>1. SUFFICES ASSUME IsRun(all, a, n + 1) PROVE FALSE
    OBVIOUS
  <2>2. /\ Len(Part(all, a, n)) = n - a + 1 /\ DOMAIN Part(all, a, n) = 1..n - a + 1
        /\ Head(Part(all, a, n)) = all[a] /\ Throttle!Last(Part(all, a, n)) = all[n]
        /\ \A i \in 1..n - a + 1 : Part(all, a, n)[i] = all[a + i - 1]
    <3>1. DOMAIN Part(all, a, n) = 1..n - a + 1
      BY DEF Part
    <3>2. InTime(all) /\ n \in 0..Len(all) /\ a \in 1..n
      BY <1>1
    <3>3. /\ Len(Part(all, a, n)) = n - a + 1
          /\ Head(Part(all, a, n)) = all[a] /\ Throttle!Last(Part(all, a, n)) = all[n]
          /\ \A i \in 1..n - a + 1 : Part(all, a, n)[i] = all[a + i - 1]
      BY ONLY <3>2, ReadFacts
    <3> QED
      BY <3>1, <3>3
  <2>3. n \in a..n + 1 - 1 /\ a \in a..n + 1 /\ n + 1 \in a..n + 1
        /\ \A i \in 1..n - a + 1 : a + i - 1 \in a..n + 1
    BY <1>1
  <2>4. all[n + 1].time - all[n].time <= GapLimit
    <3>1. \A i \in a..n + 1 - 1 : all[i + 1].time - all[i].time <= GapLimit
      BY ONLY <2>1 DEF IsRun
    <3>2. n \in a..n + 1 - 1
      BY <2>3
    <3> QED
      BY ONLY <3>1, <3>2
  <2>5. all[n + 1].time \in Nat /\ all[n].time \in Nat
    BY <1>1 DEF InTime
  <2>6. ~(all[n + 1].time - all[n].time > GapLimit)
    BY <2>4, <2>5, ThrottleLimits
  <2>7. Throttle!Sign(all[n + 1].value) = Throttle!Sign(all[a].value)
    BY <2>1, <2>3 DEF IsRun
  <2>8. \A i \in 1..n - a + 1 : all[n + 1].value - all[a + i - 1].value \in -Spread..Spread
    <3>1. \A i, j \in a..n + 1 : all[i].value - all[j].value \in -Spread..Spread
      BY <2>1 DEF IsRun
    <3> QED
      BY <2>3, <3>1
  <2>9. ~Throttle!Breaks(Part(all, a, n), all[n + 1])
    BY <2>2, <2>6, <2>7, <2>8 DEF Throttle!Breaks
  <2> QED
    BY <1>3, <2>9
<1>12. Begins(all, n + 1)
  <2>1. \A i \in a..n + 1 - 1 : ~Throttle!Neutral(all[i])
    BY <1>1, <1>3 DEF IsRun
  <2>2. a \in 1..n + 1 - 1
    BY <1>1
  <2> QED
    BY <1>11, <2>1, <2>2 DEF Begins
<1>13. Reading(all, next, n + 1, n + 1)
  BY <1>6, <1>8, <1>10, <1>12 DEF Reading
<1>14. IsPass(all, next, n + 1)
  BY <1>1, <1>5, <1>6, <1>7, <1>13 DEF IsPass
<1> QED
  BY <1>6, <1>14 DEF next, closed

\* Any other sample continues the run.
LEMMA SampleOfRun ==
    ASSUME NEW all, IsCourse(all), NEW n \in 0..Len(all) - 1, NEW pass, IsPass(all, pass, n),
           ~Throttle!Neutral(all[n + 1]), pass.run # <<>>, ~Throttle!Breaks(pass.run, all[n + 1]),
           NEW next, next = [pass EXCEPT !.run = Append(@, all[n + 1])]
    PROVE  IsPass(all, next, n + 1) /\ next.found = pass.found
<1>1. /\ n \in Nat /\ n + 1 \in DOMAIN all /\ n + 1 - 1 = n
      /\ InTime(all) /\ n \in 0..Len(all) /\ Len(all) \in Nat
      /\ n + 1 \in 0..Len(all)
  BY DEF IsCourse, InTime
<1>2. PICK a \in 1..n : Reading(all, pass, a, n)
  BY <1>1, RunBeingRead
<1>3. /\ pass.run = Part(all, a, n) /\ IsRun(all, a, n) /\ pass.neutral = None
      /\ Begins(all, a) /\ IsPreceded(all, a, pass.before, pass.preceded)
  BY <1>2 DEF Reading
<1>4. /\ Part(all, a, n) \in Seq({all[i] : i \in DOMAIN all})
      /\ Len(Part(all, a, n)) = n - a + 1 /\ DOMAIN Part(all, a, n) = 1..n - a + 1
      /\ Head(Part(all, a, n)) = all[a] /\ Throttle!Last(Part(all, a, n)) = all[n]
      /\ \A i \in 1..n - a + 1 : Part(all, a, n)[i] = all[a + i - 1]
  <2>1. DOMAIN Part(all, a, n) = 1..n - a + 1
    BY DEF Part
  <2>2. InTime(all) /\ n \in 0..Len(all) /\ a \in 1..n
    BY <1>1
  <2>3. /\ Part(all, a, n) \in Seq({all[i] : i \in DOMAIN all})
        /\ Len(Part(all, a, n)) = n - a + 1
        /\ Head(Part(all, a, n)) = all[a] /\ Throttle!Last(Part(all, a, n)) = all[n]
        /\ \A i \in 1..n - a + 1 : Part(all, a, n)[i] = all[a + i - 1]
    BY ONLY <2>2, ReadFacts
  <2> QED
    BY <2>1, <2>3
<1>5. Append(Part(all, a, n), all[n + 1]) = Part(all, a, n + 1)
  <2> DEFINE T == {all[i] : i \in DOMAIN all}
             part == Part(all, a, n)
             m == n - a + 1
  <2>1. m \in Nat /\ n + 1 - a + 1 = m + 1 /\ a + (m + 1) - 1 = n + 1
        /\ \A i \in 1..m + 1 : i \in 1..m \/ i = m + 1
    BY <1>1
  <2>2. all[n + 1] \in T
    BY <1>1
  <2>3. Part(all, a, n + 1) = [i \in 1..m + 1 |-> all[a + i - 1]]
    BY <2>1 DEF Part
  <2>4. \A i \in 1..m : part[i] = all[a + i - 1]
    BY <1>4
  <2>5. part \in Seq(T) /\ Len(part) = m
    BY <1>4
  <2> HIDE DEF T, part, m
  <2>6. Append(part, all[n + 1]) = [i \in 1..m + 1 |-> IF i = m + 1 THEN all[n + 1] ELSE part[i]]
    BY <2>1, <2>2, <2>5
  <2>7. \A i \in 1..m + 1 : (IF i = m + 1 THEN all[n + 1] ELSE part[i]) = all[a + i - 1]
    BY <2>1, <2>4
  <2>8. Append(part, all[n + 1]) = [i \in 1..m + 1 |-> all[a + i - 1]]
    BY <2>6, <2>7
  <2> QED
    BY <2>3, <2>8 DEF part
<1>6. next = [run |-> Part(all, a, n + 1), before |-> pass.before, preceded |-> pass.preceded,
              neutral |-> None, found |-> pass.found]
  <2>1. pass = [run |-> pass.run, before |-> pass.before, preceded |-> pass.preceded,
                neutral |-> pass.neutral, found |-> pass.found]
    BY DEF IsPass
  <2>2. next = [pass EXCEPT !.run = Part(all, a, n + 1)]
    BY <1>3, <1>5
  <2>3. next = [run |-> Part(all, a, n + 1), before |-> pass.before, preceded |-> pass.preceded,
                neutral |-> pass.neutral, found |-> pass.found]
    BY ONLY <2>1, <2>2
  <2> QED
    BY <1>3, <2>3
<1>7. /\ next.run = Part(all, a, n + 1) /\ next.neutral = None /\ next.found = pass.found
      /\ next.before = pass.before /\ next.preceded = pass.preceded
  BY <1>6
<1>8. next = [run |-> next.run, before |-> next.before, preceded |-> next.preceded,
              neutral |-> next.neutral, found |-> next.found]
  BY <1>6, <1>7
<1>9. FoundAreSegments(all, pass.found, n + 1)
  BY <1>1, FoundStay DEF IsPass
<1>10. /\ ~(all[n + 1].time - all[n].time > GapLimit)
       /\ Throttle!Sign(all[n + 1].value) = Throttle!Sign(all[a].value)
       /\ \A i \in 1..n - a + 1 : all[n + 1].value - all[a + i - 1].value \in -Spread..Spread
  BY <1>3, <1>4 DEF Throttle!Breaks
<1>11. all[n + 1].time - all[n].time <= GapLimit
  <2> DEFINE later == all[n + 1].time
             sooner == all[n].time
  <2>1. later \in Nat /\ sooner \in Nat
    BY <1>1 DEF InTime
  <2>2. ~(later - sooner > GapLimit)
    BY <1>10
  <2> HIDE DEF later, sooner
  <2>3. later - sooner <= GapLimit
    BY <2>1, <2>2, ThrottleLimits
  <2> QED
    BY <2>3 DEF later, sooner
<1>12. \A i \in a..n : all[n + 1].value - all[i].value \in -Spread..Spread
                       /\ all[i].value - all[n + 1].value \in -Spread..Spread
  <2> SUFFICES ASSUME NEW i \in a..n
               PROVE  all[n + 1].value - all[i].value \in -Spread..Spread
                      /\ all[i].value - all[n + 1].value \in -Spread..Spread
    OBVIOUS
  <2>1. i - a + 1 \in 1..n - a + 1 /\ a + (i - a + 1) - 1 = i /\ i \in DOMAIN all
    BY <1>1 DEF InTime
  <2>2. all[n + 1].value - all[i].value \in -Spread..Spread
    BY <1>10, <2>1
  <2>3. all[i].value \in Int /\ all[n + 1].value \in Int
    BY <1>1, <2>1 DEF IsCourse
  <2>4. Spread \in Nat
    BY ThrottleLimits
  <2>5. \A v, w \in Int : v - w \in -Spread..Spread => w - v \in -Spread..Spread
    BY <2>4
  <2> QED
    BY <2>2, <2>3, <2>5
<1>13. IsRun(all, a, n + 1)
  <2>1. \A i \in a..n + 1 : i \in a..n \/ i = n + 1
    BY <1>1
  <2>2. \A i \in a..n + 1 - 1 : i \in a..n - 1 \/ i = n
    BY <1>1
  <2>3. \A i \in a..n + 1 : ~Throttle!Neutral(all[i])
    BY <1>3, <2>1 DEF IsRun
  <2>4. \A i \in a..n + 1 - 1 : all[i + 1].time - all[i].time <= GapLimit
    BY <1>3, <1>11, <2>2 DEF IsRun
  <2>5. \A i \in a..n + 1 : Throttle!Sign(all[i].value) = Throttle!Sign(all[a].value)
    <3>1. a \in a..n
      BY <1>1
    <3> QED
      BY <1>3, <1>10, <2>1, <3>1 DEF IsRun
  <2>6. all[n + 1].value - all[n + 1].value \in -Spread..Spread
    <3>1. all[n + 1].value \in Int
      BY <1>1 DEF IsCourse
    <3> QED
      BY <3>1, ThrottleLimits
  <2>7. \A i, j \in a..n + 1 : all[i].value - all[j].value \in -Spread..Spread
    BY <1>3, <1>12, <2>1, <2>6 DEF IsRun
  <2>8. \A i, j \in a..n + 1 : Throttle!Sign(all[i].value) = Throttle!Sign(all[j].value)
    BY <2>5
  <2> QED
    BY <2>3, <2>4, <2>7, <2>8 DEF IsRun
<1>14. Reading(all, next, a, n + 1) /\ a \in 1..n + 1
  BY <1>1, <1>3, <1>7, <1>13 DEF Reading
<1>15. IsPass(all, next, n + 1)
  BY <1>7, <1>8, <1>9, <1>14 DEF IsPass
<1> QED
  BY <1>7, <1>15

\* No pass holds anything but what was read, and none loses a segment.
LEMMA SampleStep ==
    ASSUME NEW all, IsCourse(all), NEW n \in 0..Len(all) - 1, NEW pass, IsPass(all, pass, n)
    PROVE  /\ IsPass(all, Throttle!OnSample(pass, all[n + 1]), n + 1)
           /\ Keeps(pass.found, Throttle!OnSample(pass, all[n + 1]).found)
           /\ Throttle!Neutral(all[n + 1]) =>
                 Throttle!OnSample(pass, all[n + 1]).found = Throttle!Closed(pass)
<1> DEFINE next == Throttle!OnSample(pass, all[n + 1])
<1>1. n \in 0..Len(all)
  BY DEF IsCourse, InTime
<1>2. Keeps(pass.found, Throttle!Closed(pass)) /\ Keeps(pass.found, pass.found)
  BY <1>1, ClosedFacts DEF Keeps
<1>3. CASE Throttle!Neutral(all[n + 1])
  <2>1. next = Throttle!OnNeutral(pass, all[n + 1])
    BY <1>3 DEF Throttle!OnSample
  <2> QED
    BY <1>2, <1>3, <2>1, NeutralSample
<1>4. CASE ~Throttle!Neutral(all[n + 1]) /\ pass.run = <<>>
  <2>1. next = Throttle!OnFirst(pass, all[n + 1])
    BY <1>4 DEF Throttle!OnSample
  <2> QED
    BY <1>2, <1>4, <2>1, FirstSample
<1>5. CASE ~Throttle!Neutral(all[n + 1]) /\ pass.run # <<>> /\ Throttle!Breaks(pass.run, all[n + 1])
  <2>1. next = Throttle!OnBreak(pass, all[n + 1])
    BY <1>5 DEF Throttle!OnSample
  <2> QED
    BY <1>2, <1>5, <2>1, BreakingSample
<1>6. CASE ~Throttle!Neutral(all[n + 1]) /\ pass.run # <<>> /\ ~Throttle!Breaks(pass.run, all[n + 1])
  <2>1. next = [pass EXCEPT !.run = Append(@, all[n + 1])]
    BY <1>6 DEF Throttle!OnSample
  <2> HIDE DEF next
  <2>2. IsPass(all, next, n + 1) /\ next.found = pass.found
    BY <1>6, <2>1, SampleOfRun
  <2> QED
    BY <1>2, <1>6, <2>2 DEF next
<1> QED
  BY <1>3, <1>4, <1>5, <1>6

\* The first pass has read nothing.
LEMMA FirstPassFacts ==
    ASSUME NEW all
    PROVE  IsPass(all, Throttle!FirstPass, 0)
<1> DEFINE first == Throttle!FirstPass
<1>1. first = [run |-> <<>>, before |-> None, preceded |-> FALSE, neutral |-> None, found |-> <<>>]
  BY DEF Throttle!FirstPass
<1> HIDE DEF first
<1>2. /\ first.run = <<>> /\ first.neutral = None /\ first.found = <<>>
      /\ first.before = None /\ first.preceded = FALSE
  BY <1>1
<1>3. first = [run |-> first.run, before |-> first.before, preceded |-> first.preceded,
               neutral |-> first.neutral, found |-> first.found]
  BY <1>1, <1>2
<1>4. FoundAreSegments(all, <<>>, 0)
  BY DEF FoundAreSegments
<1> QED
  BY <1>2, <1>3, <1>4 DEF IsPass, first

\* What holds of the pass after every number of samples.
LEMMA PassesAreTrue ==
    ASSUME NEW all, IsCourse(all)
    PROVE  \A n \in 0..Len(all) : IsPass(all, Throttle!Passes(all)[n], n)
<1> DEFINE A == {n \in Nat : n <= Len(all) => IsPass(all, Throttle!Passes(all)[n], n)}
<1>1. Len(all) \in Nat
  BY DEF IsCourse, InTime
<1>2. 0 \in A
  BY <1>1, PassFacts, FirstPassFacts
<1>3. ASSUME NEW n \in A PROVE n + 1 \in A
  <2>1. SUFFICES ASSUME n + 1 <= Len(all) PROVE IsPass(all, Throttle!Passes(all)[n + 1], n + 1)
    OBVIOUS
  <2>2. n \in 0..Len(all) - 1 /\ n + 1 \in 1..Len(all) /\ n + 1 - 1 = n /\ n <= Len(all)
    BY <1>1, <2>1
  <2>3. IsPass(all, Throttle!Passes(all)[n], n)
    BY <2>2
  <2>4. Throttle!Passes(all)[n + 1] = Throttle!OnSample(Throttle!Passes(all)[n + 1 - 1], all[n + 1])
    BY <1>1, <2>2, PassFacts
  <2>5. Throttle!Passes(all)[n + 1 - 1] = Throttle!Passes(all)[n]
    BY <2>2
  <2> QED
    BY <2>2, <2>3, <2>4, <2>5, SampleStep
<1>4. A \in SUBSET Nat
  OBVIOUS
<1> HIDE DEF A
<1>5. A = Nat
  BY <1>2, <1>3, <1>4, Inductive
<1>6. \A n \in 0..Len(all) : n \in Nat /\ n <= Len(all)
  BY <1>1
<1> QED
  BY <1>5, <1>6 DEF A

\* What one pass found the later ones keep.
LEMMA PassesKeep ==
    ASSUME NEW all, IsCourse(all), NEW m \in 0..Len(all)
    PROVE  \A n \in m..Len(all) : Keeps(Throttle!Passes(all)[m].found, Throttle!Passes(all)[n].found)
<1> DEFINE found(n) == Throttle!Passes(all)[n].found
           A == {k \in Nat : m + k <= Len(all) => Keeps(found(m), found(m + k))}
<1>1. Len(all) \in Nat /\ m \in Nat
  BY DEF IsCourse, InTime
<1>2. 0 \in A
  <2>1. m + 0 = m
    BY <1>1
  <2> QED
    BY <2>1 DEF Keeps
<1>3. ASSUME NEW k \in A PROVE k + 1 \in A
  <2>1. SUFFICES ASSUME m + (k + 1) <= Len(all) PROVE Keeps(found(m), found(m + (k + 1)))
    OBVIOUS
  <2> DEFINE n == m + k
  <2>2. n \in 0..Len(all) - 1 /\ n + 1 \in 1..Len(all) /\ n + 1 - 1 = n /\ n \in 0..Len(all)
        /\ m + (k + 1) = n + 1 /\ m + k <= Len(all)
    BY <1>1, <2>1
  <2>3. Keeps(found(m), found(n))
    BY <2>2
  <2>4. Keeps(found(n), found(n + 1))
    <3>1. IsPass(all, Throttle!Passes(all)[n], n)
      BY <2>2, PassesAreTrue
    <3>2. Throttle!Passes(all)[n + 1] = Throttle!OnSample(Throttle!Passes(all)[n + 1 - 1], all[n + 1])
      BY <1>1, <2>2, PassFacts
    <3>3. Throttle!Passes(all)[n + 1 - 1] = Throttle!Passes(all)[n]
      BY <2>2
    <3> HIDE DEF n
    <3> QED
      BY <2>2, <3>1, <3>2, <3>3, SampleStep
  <2> HIDE DEF n, found
  <2> QED
    BY <2>2, <2>3, <2>4 DEF Keeps
<1>4. A \in SUBSET Nat
  OBVIOUS
<1> HIDE DEF A
<1>5. A = Nat
  BY <1>2, <1>3, <1>4, Inductive
<1>6. \A n \in m..Len(all) : n - m \in A /\ m + (n - m) = n /\ n <= Len(all)
  BY <1>1, <1>5
<1> QED
  BY <1>6 DEF A

-----------------------------------------------------------------------------
(* What is said of the segments, whatever the samples.                      *)

\* Deduplicated samples of commands are in the order of their times.
LEMMA CourseFacts ==
    ASSUME NEW S, NEW samples \in Seq(S), \A s \in S : s.time \in Nat /\ s.value \in Int
    PROVE  /\ IsCourse(Throttle!Deduplicated(samples))
           /\ Throttle!Deduplicated(samples) \in Seq(S)
<1>1. \A i \in DOMAIN samples : samples[i] \in S
  OBVIOUS
<1>2. \A i \in DOMAIN samples : samples[i].time \in Nat
  BY <1>1
<1> DEFINE all == Throttle!Deduplicated(samples)
<1>3. all \in Seq(S) /\ InTime(all)
  BY <1>2, DeduplicatedFacts
<1> HIDE DEF all
<1>4. \A i \in DOMAIN all : all[i] \in S
  BY <1>3
<1> QED
  BY <1>3, <1>4 DEF IsCourse, all

\* The segments found, and the pass they come from.
LEMMA SegmentsFound ==
    ASSUME NEW samples, IsCourse(Throttle!Deduplicated(samples))
    PROVE  LET all == Throttle!Deduplicated(samples)
           IN  /\ FoundAreSegments(all, Throttle!SegmentCommands(samples), Len(all))
               /\ \A n \in 0..Len(all) :
                     Keeps(Throttle!Passes(all)[n].found, Throttle!SegmentCommands(samples))
               /\ Throttle!SegmentCommands(samples) = Throttle!Closed(Throttle!Passes(all)[Len(all)])
<1> DEFINE all == Throttle!Deduplicated(samples)
           last == Throttle!Passes(all)[Len(all)]
           segments == Throttle!SegmentCommands(samples)
<1>1. segments = Throttle!Closed(last)
  BY DEF Throttle!SegmentCommands
<1>2. IsCourse(all)
  OBVIOUS
<1> HIDE DEF all, segments
<1>3. Len(all) \in 0..Len(all) /\ Len(all) \in Nat
  BY <1>2 DEF IsCourse, InTime
<1>4. IsPass(all, last, Len(all))
  BY <1>2, <1>3, PassesAreTrue
<1> HIDE DEF last
<1>5. FoundAreSegments(all, segments, Len(all)) /\ Keeps(last.found, segments)
  BY <1>1, <1>2, <1>3, <1>4, ClosedFacts
<1>6. \A n \in 0..Len(all) : Keeps(Throttle!Passes(all)[n].found, segments)
  <2> SUFFICES ASSUME NEW n \in 0..Len(all) PROVE Keeps(Throttle!Passes(all)[n].found, segments)
    OBVIOUS
  <2>1. Len(all) \in n..Len(all)
    BY <1>3
  <2>2. Keeps(Throttle!Passes(all)[n].found, last.found)
    BY <1>2, <2>1, PassesKeep DEF last
  <2> QED
    BY <1>5, <2>2 DEF Keeps
<1> QED
  BY <1>1, <1>5, <1>6 DEF all, segments, last

\* A segment found is a run, and nothing else is between its ends.
LEMMA SegmentIsRun ==
    ASSUME NEW all, IsCourse(all), NEW a \in DOMAIN all, NEW b \in DOMAIN all
    PROVE  \A i \in DOMAIN all : all[a].time <= all[i].time /\ all[i].time <= all[b].time <=> i \in a..b
<1> SUFFICES ASSUME NEW i \in DOMAIN all
             PROVE  all[a].time <= all[i].time /\ all[i].time <= all[b].time <=> i \in a..b
  OBVIOUS
<1>1. /\ a \in Nat /\ b \in Nat /\ i \in Nat
      /\ all[a].time \in Nat /\ all[b].time \in Nat /\ all[i].time \in Nat
  BY DEF IsCourse, InTime
<1>2. /\ i < a => all[i].time < all[a].time
      /\ a < i => all[a].time < all[i].time
      /\ b < i => all[b].time < all[i].time
      /\ i < b => all[i].time < all[b].time
  BY DEF IsCourse, InTime
<1> QED
  BY <1>1, <1>2

\* Segments are steady.
LEMMA SegmentsSteadyHolds ==
    ASSUME NEW samples, IsCourse(Throttle!Deduplicated(samples))
    PROVE  Throttle!SegmentsAreSteady(samples)
<1> DEFINE all == Throttle!Deduplicated(samples)
           segments == Throttle!SegmentCommands(samples)
<1>1. FoundAreSegments(all, segments, Len(all)) /\ IsCourse(all)
  BY SegmentsFound
<1>2. \A segment \in Throttle!ToSet(segments) : \E k \in DOMAIN segments : segment = segments[k]
  BY DEF Throttle!ToSet
<1> HIDE DEF all, segments
<1>3. ASSUME NEW segment \in Throttle!ToSet(segments)
      PROVE  LET inside == {i \in DOMAIN all : segment.start <= all[i].time /\ all[i].time <= segment.end}
             IN  /\ segment.end - segment.start >= MinDuration
                 /\ segment.start < segment.analyzed + 1 /\ segment.analyzed < segment.end
                 /\ \A i, j \in inside :
                       /\ ~Throttle!Neutral(all[i])
                       /\ all[i].value - all[j].value \in -Spread..Spread
                       /\ j = i + 1 => all[j].time - all[i].time <= GapLimit
  <2>1. IsSegment(all, segment, Len(all))
    BY <1>1, <1>2, <1>3 DEF FoundAreSegments
  <2>2. PICK a, b \in 1..Len(all) :
           /\ a <= b /\ IsRun(all, a, b)
           /\ segment.start = all[a].time /\ segment.end = all[b].time
           /\ segment.analyzed = segment.start + Settling
           /\ segment.end - segment.start >= MinDuration
           /\ segment.start + Settling < segment.end
    BY <2>1 DEF IsSegment
  <2>3. a \in DOMAIN all /\ b \in DOMAIN all /\ all[a].time \in Nat
    BY <1>1 DEF IsCourse, InTime
  <2> DEFINE inside == {i \in DOMAIN all : segment.start <= all[i].time /\ all[i].time <= segment.end}
  <2>4. \A i \in inside : i \in a..b
    BY <1>1, <2>2, <2>3, SegmentIsRun
  <2>5. segment.start < segment.analyzed + 1 /\ segment.analyzed < segment.end
    BY <2>2, <2>3, ThrottleLimits
  <2> HIDE DEF inside
  <2>6. \A i, j \in inside :
           /\ ~Throttle!Neutral(all[i])
           /\ all[i].value - all[j].value \in -Spread..Spread
    BY <2>2, <2>4 DEF IsRun
  <2>7. \A i, j \in inside : j = i + 1 => all[j].time - all[i].time <= GapLimit
    <3> SUFFICES ASSUME NEW i \in inside, NEW j \in inside, j = i + 1
                 PROVE  all[j].time - all[i].time <= GapLimit
      OBVIOUS
    <3>1. i \in a..b - 1
      BY <2>4
    <3> QED
      BY <2>2, <3>1 DEF IsRun
  <2> QED
    BY <2>2, <2>5, <2>6, <2>7 DEF inside
<1> QED
  BY <1>3 DEF Throttle!SegmentsAreSteady, all, segments

\* A segment knows the neutral stretch before it, and no other.
LEMMA NeutralHolds ==
    ASSUME NEW samples, IsCourse(Throttle!Deduplicated(samples))
    PROVE  Throttle!NeutralIsTrue(samples)
<1> DEFINE all == Throttle!Deduplicated(samples)
           segments == Throttle!SegmentCommands(samples)
           spans(segment, first, last) ==
                /\ last + 1 \in DOMAIN all /\ all[last + 1].time = segment.start
                /\ first <= last /\ all[last].time - all[first].time >= MinNeutral
                /\ \A i \in first..last : Throttle!Neutral(all[i])
                /\ \A i \in first..last - 1 : all[i + 1].time - all[i].time <= GapLimit
<1>1. FoundAreSegments(all, segments, Len(all)) /\ IsCourse(all)
  BY SegmentsFound
<1>2. \A segment \in Throttle!ToSet(segments) : \E k \in DOMAIN segments : segment = segments[k]
  BY DEF Throttle!ToSet
<1> HIDE DEF all, segments
<1>3. ASSUME NEW segment \in Throttle!ToSet(segments)
      PROVE  segment.preceded <=> \E first, last \in DOMAIN all : spans(segment, first, last)
  <2>1. IsSegment(all, segment, Len(all))
    BY <1>1, <1>2, <1>3 DEF FoundAreSegments
  <2>2. PICK a, b \in 1..Len(all) :
           segment.start = all[a].time /\ IsPreceded(all, a, segment.before, segment.preceded)
    BY <2>1 DEF IsSegment
  <2>3. a \in DOMAIN all /\ a \in Nat /\ Len(all) \in Nat /\ DOMAIN all = 1..Len(all)
    BY <1>1 DEF IsCourse, InTime
  <2>4. \A i \in DOMAIN all : all[i].time = segment.start => i = a
    <3> SUFFICES ASSUME NEW i \in DOMAIN all, all[i].time = segment.start PROVE i = a
      OBVIOUS
    <3>1. all[a].time <= all[i].time /\ all[i].time <= all[a].time
      BY <1>1, <2>2, <2>3 DEF IsCourse, InTime
    <3>2. i \in a..a
      BY <1>1, <2>3, <3>1, SegmentIsRun
    <3> QED
      BY <2>3, <3>2
  <2>5. CASE a # 1 /\ Throttle!Neutral(all[a - 1])
    <3>1. PICK f \in 1..a - 1 :
             /\ IsStretch(all, f, a - 1)
             /\ segment.preceded = (all[a - 1].time - all[f].time >= MinNeutral)
      BY <2>2, <2>5 DEF IsPreceded
    <3>2. a - 1 \in DOMAIN all /\ f \in DOMAIN all /\ f <= a - 1 /\ a - 1 + 1 = a
      BY <2>3
    <3>3. ASSUME segment.preceded PROVE spans(segment, f, a - 1)
      BY <2>2, <2>3, <3>1, <3>2, <3>3 DEF IsStretch
    <3>4. ASSUME NEW first \in DOMAIN all, NEW last \in DOMAIN all, spans(segment, first, last)
          PROVE  segment.preceded
      <4>1. last = a - 1
        <5>1. last + 1 = a
          BY <2>4, <3>4
        <5> QED
          BY <2>3, <5>1
      <4>2. f <= first
        <5> SUFFICES ASSUME first < f PROVE FALSE
          BY <2>3
        <5>1. f - 1 \in first..last /\ f - 1 \in first..last - 1 /\ f - 1 + 1 = f /\ f # 1
          BY <2>3, <3>2, <4>1
        <5>2. Throttle!Neutral(all[f - 1])
          BY <3>4, <5>1
        <5>3. all[f].time - all[f - 1].time <= GapLimit
          <6>1. \A i \in first..last - 1 : all[i + 1].time - all[i].time <= GapLimit
            BY <3>4
          <6>2. all[f - 1 + 1].time - all[f - 1].time <= GapLimit
            BY <5>1, <6>1
          <6> QED
            BY <5>1, <6>2
        <5>4. all[f].time - all[f - 1].time > GapLimit
          BY <3>1, <5>1, <5>2 DEF IsStretch
        <5>5. f - 1 \in DOMAIN all
          BY <2>3, <3>2, <5>1
        <5>6. all[f].time \in Nat /\ all[f - 1].time \in Nat
          BY <1>1, <3>2, <5>5 DEF IsCourse, InTime
        <5> DEFINE gap == all[f].time - all[f - 1].time
        <5>7. gap \in Int /\ gap <= GapLimit /\ gap > GapLimit
          BY <5>3, <5>4, <5>6
        <5> HIDE DEF gap
        <5> QED
          BY <5>7, ThrottleLimits
      <4>3. all[f].time <= all[first].time /\ all[f].time \in Nat /\ all[first].time \in Nat
            /\ all[a - 1].time \in Nat
        <5>1. all[f].time \in Nat /\ all[first].time \in Nat /\ all[a - 1].time \in Nat
          BY <1>1, <3>2 DEF IsCourse, InTime
        <5>2. f < first => all[f].time < all[first].time
          BY <1>1, <3>2 DEF IsCourse, InTime
        <5>3. f = first \/ f < first
          BY <2>3, <4>2
        <5> QED
          BY <5>1, <5>2, <5>3
      <4>4. all[a - 1].time - all[first].time >= MinNeutral
        <5>1. all[last].time - all[first].time >= MinNeutral
          BY <3>4
        <5> QED
          BY <4>1, <5>1
      <4>5. all[a - 1].time - all[f].time >= MinNeutral
        <5> DEFINE end == all[a - 1].time
                   start == all[f].time
                   inside == all[first].time
        <5>1. /\ start <= inside /\ start \in Nat /\ inside \in Nat /\ end \in Nat
              /\ end - inside >= MinNeutral
          BY <4>3, <4>4
        <5> HIDE DEF end, start, inside
        <5>2. end - start >= MinNeutral
          BY <5>1, ThrottleLimits
        <5> QED
          BY <5>2 DEF end, start
      <4> QED
        BY <3>1, <4>5
    <3>5. segment.preceded \in BOOLEAN
      BY <3>1
    <3> HIDE DEF spans
    <3> QED
      BY <3>2, <3>3, <3>4, <3>5
  <2>6. CASE ~(a # 1 /\ Throttle!Neutral(all[a - 1]))
    <3>1. segment.preceded = FALSE
      BY <2>2, <2>6 DEF IsPreceded
    <3>2. ASSUME NEW first \in DOMAIN all, NEW last \in DOMAIN all, spans(segment, first, last)
          PROVE  FALSE
      <4>1. last + 1 = a
        BY <2>4, <3>2
      <4>2. last = a - 1 /\ a # 1 /\ last \in first..last
        BY <2>3, <3>2, <4>1
      <4> QED
        BY <2>6, <3>2, <4>2
    <3> QED
      BY <3>1, <3>2
  <2> QED
    BY <2>5, <2>6
<1> QED
  <2>1. \A segment \in Throttle!ToSet(segments) :
           segment.preceded <=> \E first, last \in DOMAIN all : spans(segment, first, last)
    BY <1>3
  <2> QED
    BY <2>1 DEF Throttle!NeutralIsTrue, all, segments

\* A steady run is found whole: it is begun by its first sample, broken by none, and
\* closed by the neutral sample after it or at the end.
LEMMA OverlookedHolds ==
    ASSUME NEW samples, IsCourse(Throttle!Deduplicated(samples))
    PROVE  Throttle!NothingOverlooked(samples)
<1> DEFINE all == Throttle!Deduplicated(samples)
           segments == Throttle!SegmentCommands(samples)
           ends == DOMAIN all \cup {0, Len(all) + 1}
           window(before, after) ==
             /\ before + 1 < after
             /\ \A i \in {before, after} \cap DOMAIN all : Throttle!Neutral(all[i])
             /\ \A i, j \in before + 1..after - 1 :
                   /\ ~Throttle!Neutral(all[i]) /\ Throttle!Sign(all[i].value) = Throttle!Sign(all[j].value)
                   /\ all[i].value - all[j].value \in -Spread..Spread
                   /\ j = i + 1 => all[j].time - all[i].time <= GapLimit
             /\ all[after - 1].time - all[before + 1].time >= Throttle!Max({MinDuration, Settling + 1})
<1>1. /\ FoundAreSegments(all, segments, Len(all)) /\ IsCourse(all)
      /\ \A n \in 0..Len(all) : Keeps(Throttle!Passes(all)[n].found, segments)
      /\ segments = Throttle!Closed(Throttle!Passes(all)[Len(all)])
  BY SegmentsFound
<1> HIDE DEF all, segments
<1>2. /\ DOMAIN all = 1..Len(all) /\ Len(all) \in Nat
      /\ \A i \in DOMAIN all : all[i].time \in Nat /\ all[i].value \in Int
      /\ InTime(all)
  BY <1>1 DEF IsCourse, InTime
<1>3. ASSUME NEW before \in ends, NEW after \in ends, window(before, after)
      PROVE  \E segment \in Throttle!ToSet(segments) :
                segment.start = all[before + 1].time /\ segment.end = all[after - 1].time
  <2> DEFINE a == before + 1
             b == after - 1
             pass == Throttle!Passes(all)[b]
  <2>1. /\ before \in Nat /\ after \in Nat /\ a \in DOMAIN all /\ b \in DOMAIN all /\ a <= b
        /\ a \in Nat /\ b \in Nat /\ a \in 1..b /\ b \in 0..Len(all)
        /\ a - 1 = before /\ b + 1 = after
    BY <1>2, <1>3
  <2>2. /\ all[b].time - all[a].time >= MinDuration
        /\ all[a].time + Settling < all[b].time
    <3> DEFINE T == {MinDuration, Settling + 1}
    <3>1. T \subseteq Int /\ IsFiniteSet(T) /\ T # {}
      <4>1. T \subseteq Int
        BY ThrottleLimits
      <4>2. IsFiniteSet(T)
        <5>1. IsFiniteSet({MinDuration})
          BY FS_Singleton
        <5>2. IsFiniteSet({MinDuration} \cup {Settling + 1})
          BY <5>1, FS_AddElement
        <5>3. T = {MinDuration} \cup {Settling + 1}
          OBVIOUS
        <5> QED
          BY <5>2, <5>3
      <4> QED
        BY <4>1, <4>2
    <3>2. Throttle!Max(T) = Max(T)
      BY ThrottleOperators
    <3>3. Max(T) \in Int /\ \A t \in T : t <= Max(T)
      BY <3>1, ExtremesOf
    <3>4. all[b].time - all[a].time >= Max(T)
      BY <1>3, <3>2
    <3>5. MinDuration <= Max(T) /\ Settling + 1 <= Max(T)
      BY <3>3
    <3>6. all[b].time \in Nat /\ all[a].time \in Nat
      BY <1>2, <2>1
    <3> HIDE DEF T
    <3> QED
      BY <3>3, <3>4, <3>5, <3>6, ThrottleLimits
  <2>3. IsPass(all, pass, b)
    BY <1>1, <2>1, PassesAreTrue
  <2>4. ~Throttle!Neutral(all[b])
    <3>1. b \in before + 1..after - 1
      BY <2>1
    <3> QED
      BY <1>3, <3>1
  <2>5. PICK c \in 1..b : Reading(all, pass, c, b)
    <3>1. b # 0
      BY <2>1
    <3>2. \A f \in 1..b : ~Standing(all, pass, f, b)
      <4> SUFFICES ASSUME NEW f \in 1..b, Standing(all, pass, f, b) PROVE FALSE
        OBVIOUS
      <4>1. b \in f..b
        BY <2>1
      <4> QED
        BY <2>4, <4>1 DEF Standing, IsStretch
    <3> HIDE DEF pass, b
    <3> QED
      BY <2>3, <3>1, <3>2 DEF IsPass
  <2>6. IsRun(all, c, b) /\ Begins(all, c)
    BY <2>5 DEF Reading
  <2> HIDE DEF pass
  <2>7. \A i \in c..b : ~Throttle!Neutral(all[i])
    BY <2>6 DEF IsRun
  <2>8. \A i, j \in a..b :
           /\ ~Throttle!Neutral(all[i]) /\ Throttle!Sign(all[i].value) = Throttle!Sign(all[j].value)
           /\ all[i].value - all[j].value \in -Spread..Spread
           /\ j = i + 1 => all[j].time - all[i].time <= GapLimit
    BY <1>3
  <2>9. before # 0 => Throttle!Neutral(all[before])
    <3>1. before # 0 => before \in {before, after} \cap DOMAIN all
      BY <1>2, <2>1
    <3> QED
      BY <1>3, <3>1
  <2> HIDE DEF a, b
  <2>10. \A e \in 1..b : (\A i \in e..b : ~Throttle!Neutral(all[i])) => a <= e
    <3> SUFFICES ASSUME NEW e \in 1..b, \A i \in e..b : ~Throttle!Neutral(all[i]), e < a PROVE FALSE
      <4>1. a \in Nat /\ \A e \in 1..b : e \in Nat
        BY <2>1
      <4> QED
        BY <4>1
    <3>1. before \in e..b /\ before # 0
      BY <2>1
    <3> QED
      BY <2>9, <3>1
  <2>11. a <= c
    BY <2>7, <2>10
  <2>12. c = a
    <3> SUFFICES ASSUME a < c PROVE FALSE
      BY <2>1, <2>11
    <3>1. c - 1 \in a..b /\ c # 1
      BY <2>1
    <3>2. ~Throttle!Neutral(all[c - 1])
      BY <2>8, <3>1
    <3>3. PICK e \in 1..c - 1 : (\A i \in e..c - 1 : ~Throttle!Neutral(all[i])) /\ ~IsRun(all, e, c)
      BY <2>6, <3>1, <3>2 DEF Begins
    <3>4. e \in 1..b /\ \A i \in e..b : i \in e..c - 1 \/ i \in c..b
      BY <2>1, <3>1
    <3>5. a <= e
      BY <2>7, <2>10, <3>3, <3>4
    <3>6. /\ \A i \in e..c : i \in a..b
          /\ \A i \in e..c - 1 : i \in a..b /\ i + 1 \in a..b
      BY <2>1, <3>5, <3>1
    <3>7. \A i \in e..c : ~Throttle!Neutral(all[i])
      BY <2>8, <3>6
    <3>8. \A i, j \in e..c : Throttle!Sign(all[i].value) = Throttle!Sign(all[j].value)
      BY <2>8, <3>6
    <3>9. \A i, j \in e..c : all[i].value - all[j].value \in -Spread..Spread
      BY <2>8, <3>6
    <3>10. \A i \in e..c - 1 : all[i + 1].time - all[i].time <= GapLimit
      BY <2>8, <3>6
    <3>11. IsRun(all, e, c)
      BY <3>7, <3>8, <3>9, <3>10 DEF IsRun
    <3> QED
      BY <3>3, <3>11
  <2>13. HasSegment(all, Throttle!Closed(pass), a, b)
    <3>1. Reading(all, pass, a, b) /\ Lasts(all, a, b)
      BY <2>2, <2>5, <2>12 DEF Lasts
    <3> QED
      BY <1>1, <2>1, <2>3, <3>1, ClosedFacts
  <2>14. HasSegment(all, segments, a, b)
    <3>1. CASE after = Len(all) + 1
      <4>1. b = Len(all)
        BY <1>2, <2>1, <3>1
      <4> QED
        BY <1>1, <2>13, <4>1 DEF pass
    <3>2. CASE after # Len(all) + 1
      <4>1. after \in DOMAIN all /\ b \in 0..Len(all) - 1 /\ b + 1 = after
            /\ after \in 0..Len(all) /\ after \in 1..Len(all) /\ after - 1 = b
        <5>1. after \in DOMAIN all
          BY <1>2, <2>1, <3>2
        <5>2. after \in 1..Len(all) /\ Len(all) \in Nat /\ b \in Nat /\ b + 1 = after
          BY <1>2, <2>1, <5>1
        <5> HIDE DEF all
        <5> QED
          BY ONLY <5>1, <5>2
      <4>2. Throttle!Neutral(all[after])
        <5>1. after \in {before, after} \cap DOMAIN all
          BY <4>1
        <5> QED
          BY <1>3, <5>1
      <4>3. Throttle!Passes(all)[after] = Throttle!OnSample(pass, all[after])
        <5>1. Throttle!Passes(all)[after] = Throttle!OnSample(Throttle!Passes(all)[after - 1], all[after])
          BY <1>2, <4>1, PassFacts
        <5> QED
          BY <4>1, <5>1 DEF pass
      <4>4. Throttle!OnSample(pass, all[after]).found = Throttle!Closed(pass)
        BY <1>1, <2>3, <4>1, <4>2, SampleStep
      <4>5. Keeps(Throttle!Closed(pass), segments)
        BY <1>1, <4>1, <4>3, <4>4
      <4> QED
        BY <2>13, <4>5 DEF HasSegment, Keeps
    <3> QED
      BY <3>1, <3>2
  <2>15. PICK k \in DOMAIN segments : segments[k].start = all[a].time /\ segments[k].end = all[b].time
    BY <2>14 DEF HasSegment
  <2>16. segments[k] \in Throttle!ToSet(segments)
    BY DEF Throttle!ToSet
  <2> QED
    BY <2>15, <2>16 DEF a, b
<1> QED
  BY <1>3 DEF Throttle!NothingOverlooked, all, segments

-----------------------------------------------------------------------------
(* The runs that are analyzed began at rest.                                *)

\* Which segments count.
Counts(speeds, states, estimates, segment) ==
    /\ segment.preceded /\ Throttle!AtRest(segment, states)
    /\ Throttle!Recorded(speeds, states, estimates, segment)

\* The starts of the runs that are analyzed.
Starts(commands, speeds, states, estimates) ==
    {run.start : run \in Throttle!ToSet(Throttle!AnalyzeSamples(commands, speeds, states, estimates))}

\* The starts of the runs that are analyzed are those of the segments that count.
LEMMA CountedFacts ==
    ASSUME NEW S, NEW commands, NEW speeds, NEW states, NEW estimates,
           Throttle!SegmentCommands(commands) \in Seq(S)
    PROVE  \A time : time \in Starts(commands, speeds, states, estimates)
                        <=> \E segment \in Throttle!ToSet(Throttle!SegmentCommands(commands)) :
                               Counts(speeds, states, estimates, segment) /\ segment.start = time
<1> DEFINE segments == Throttle!SegmentCommands(commands)
           counts(segment) == /\ segment.preceded /\ Throttle!AtRest(segment, states)
                              /\ Throttle!Recorded(speeds, states, estimates, segment)
           places == {k \in DOMAIN segments : counts(segments[k])}
           counted == Throttle!Chosen(segments, places)
           values(segment) == [i \in DOMAIN Throttle!Analyzed(speeds, segment) |->
                                 Throttle!Analyzed(speeds, segment)[i].value]
           stills(segment) == [i \in DOMAIN Throttle!Analyzed(states, segment) |->
                                 Throttle!Analyzed(states, segment)[i].still]
           runs == Throttle!AnalyzeSamples(commands, speeds, states, estimates)
<1>1. runs = [k \in DOMAIN counted |-> Throttle!Metrics(counted[k], values(counted[k]), stills(counted[k]))]
  BY DEF Throttle!AnalyzeSamples
<1>2. \A segment : counts(segment) <=> Counts(speeds, states, estimates, segment)
  BY DEF Counts
<1>3. counted = Chosen(segments, places)
  BY ThrottleOperators
<1>4. \A k \in DOMAIN runs : runs[k].start = counted[k].start
  <2> HIDE DEF values, stills, counted, runs
  <2>1. \A run, v, s : Throttle!Metrics(run, v, s).start = run.start
    BY DEF Throttle!Metrics
  <2> QED
    BY <1>1, <2>1
<1>5. DOMAIN runs = DOMAIN counted
  <2> HIDE DEF values, stills, counted, runs
  <2> QED
    BY <1>1
<1> HIDE DEF runs, values, stills, counts
<1>6. places \in SUBSET DOMAIN segments
  OBVIOUS
<1>7. \A k \in DOMAIN segments : k \in places <=> Counts(speeds, states, estimates, segments[k])
  BY <1>2
<1> HIDE DEF segments, places, counted
<1>8. PICK order \in [1..Cardinality(places) -> places] :
         /\ DOMAIN counted = 1..Cardinality(places)
         /\ \A k \in 1..Cardinality(places) : counted[k] = segments[order[k]]
         /\ \A p \in places : \E k \in 1..Cardinality(places) : order[k] = p
  <2>1. segments \in Seq(S)
    BY DEF segments
  <2> QED
    BY <1>3, <1>6, <2>1, ChosenFacts
<1>9. ASSUME NEW k \in DOMAIN runs
      PROVE  \E segment \in Throttle!ToSet(segments) :
                Counts(speeds, states, estimates, segment) /\ segment.start = runs[k].start
  <2>1. order[k] \in places /\ counted[k] = segments[order[k]]
    BY <1>5, <1>8
  <2> QED
    BY <1>4, <1>6, <1>7, <2>1 DEF Throttle!ToSet
<1>10. ASSUME NEW segment \in Throttle!ToSet(segments), Counts(speeds, states, estimates, segment)
       PROVE  \E k \in DOMAIN runs : runs[k].start = segment.start
  <2>1. PICK p \in DOMAIN segments : segment = segments[p]
    BY DEF Throttle!ToSet
  <2>2. p \in places
    BY <1>7, <1>10, <2>1
  <2>3. PICK k \in 1..Cardinality(places) : order[k] = p
    BY <1>8, <2>2
  <2> QED
    BY <1>4, <1>5, <1>8, <2>1, <2>3
<1>11. \A time : time \in {run.start : run \in Throttle!ToSet(runs)} <=> \E k \in DOMAIN runs : runs[k].start = time
  BY DEF Throttle!ToSet
<1>12. \A time : (\E k \in DOMAIN runs : runs[k].start = time)
                 <=> \E segment \in Throttle!ToSet(segments) :
                        Counts(speeds, states, estimates, segment) /\ segment.start = time
  BY <1>9, <1>10
<1>13. \A time : time \in {run.start : run \in Throttle!ToSet(runs)}
                 <=> \E segment \in Throttle!ToSet(segments) :
                        Counts(speeds, states, estimates, segment) /\ segment.start = time
  BY <1>11, <1>12
<1> QED
  BY <1>13 DEF runs, segments, Starts

\* What was heard between two times, and the last of it.
LEMMA HeardFacts ==
    ASSUME NEW S, NEW states \in Seq(S), \A s \in S : s.time \in Nat, NEW from, NEW to
    PROVE  LET heard == Throttle!SamplesBetween(states, from, to)
               between(s) == s \in Throttle!ToSet(states) /\ from <= s.time /\ s.time <= to
           IN  /\ \A s : between(s) => heard # <<>>
               /\ heard # <<>> => /\ between(Throttle!Latest(heard))
                                  /\ \A s : between(s) => s.time <= Throttle!Latest(heard).time
<1> DEFINE heard == Throttle!SamplesBetween(states, from, to)
           within(s) == from <= s.time /\ s.time <= to
           places == {i \in DOMAIN states : within(states[i])}
           n == Cardinality(places)
           times == {heard[i].time : i \in DOMAIN heard}
           best == {i \in DOMAIN heard : \A j \in DOMAIN heard : heard[j].time <= heard[i].time}
<1>1. heard = Chosen(states, places)
  BY ThrottleOperators DEF Throttle!SamplesBetween
<1>2. Throttle!Latest(heard) = heard[Min(best)]
  BY ThrottleOperators DEF Throttle!Latest
<1>3. places \in SUBSET DOMAIN states
  OBVIOUS
<1>4. \A i \in DOMAIN states : i \in places <=> within(states[i])
  OBVIOUS
<1> HIDE DEF heard, within, places
<1>5. heard \in Seq(S) /\ DOMAIN heard = 1..n /\ n \in Nat
  BY <1>1, <1>3, ChosenFacts
<1>6. PICK order \in [1..n -> places] :
         /\ \A k \in 1..n : heard[k] = states[order[k]]
         /\ \A p \in places : \E k \in 1..n : order[k] = p
  BY <1>1, <1>3, ChosenFacts
<1> HIDE DEF n
<1>7. \A k \in DOMAIN heard : heard[k] \in Throttle!ToSet(states) /\ within(heard[k]) /\ heard[k].time \in Nat
  <2> SUFFICES ASSUME NEW k \in DOMAIN heard
               PROVE  heard[k] \in Throttle!ToSet(states) /\ within(heard[k]) /\ heard[k].time \in Nat
    OBVIOUS
  <2>1. order[k] \in places /\ heard[k] = states[order[k]]
    BY <1>5, <1>6
  <2>2. heard[k] \in S
    BY <1>5
  <2> QED
    BY <1>3, <1>4, <2>1, <2>2 DEF Throttle!ToSet
<1>8. ASSUME NEW s \in Throttle!ToSet(states), within(s)
      PROVE  \E k \in DOMAIN heard : heard[k] = s
  <2>1. PICK p \in DOMAIN states : s = states[p]
    BY DEF Throttle!ToSet
  <2>2. p \in places
    BY <1>4, <1>8, <2>1
  <2> QED
    BY <1>5, <1>6, <2>1, <2>2
<1>9. ASSUME heard # <<>>
      PROVE  /\ Throttle!Latest(heard) \in Throttle!ToSet(states) /\ within(Throttle!Latest(heard))
             /\ \A k \in DOMAIN heard : heard[k].time <= Throttle!Latest(heard).time
  <2>1. n # 0 /\ 1 \in DOMAIN heard
    BY <1>5, <1>9
  <2>2. IsFiniteSet(1..n) /\ 1..n \in SUBSET Int
    BY <1>5, FS_Interval
  <2>3. IsFiniteSet(times) /\ times # {} /\ times \in SUBSET Int
    <3> DEFINE f == [i \in DOMAIN heard |-> heard[i].time]
    <3>1. f \in Surjection(DOMAIN heard, times)
      BY DEF Surjection
    <3>2. IsFiniteSet(times)
      BY <1>5, <2>2, <3>1, FS_Surjection
    <3>3. times \in SUBSET Int
      BY <1>7
    <3> QED
      BY <2>1, <3>2, <3>3
  <2>4. Max(times) \in times /\ \A t \in times : t <= Max(times)
    BY <2>3, ExtremesOf
  <2>5. PICK i \in DOMAIN heard : heard[i].time = Max(times)
    BY <2>4
  <2>6. i \in best
    BY <2>4, <2>5
  <2>7. IsFiniteSet(best) /\ best # {} /\ best \in SUBSET Int
    <3>1. best \in SUBSET (1..n)
      BY <1>5
    <3>2. IsFiniteSet(best)
      BY <2>2, <3>1, FS_Subset
    <3> QED
      BY <2>2, <2>6, <3>1, <3>2
  <2>8. Min(best) \in best
    BY <2>7, ExtremesOf
  <2> QED
    BY <1>2, <1>7, <2>8
<1>10. \A s : s \in Throttle!ToSet(states) /\ within(s) => heard # <<>>
  <2> SUFFICES ASSUME NEW s \in Throttle!ToSet(states), within(s) PROVE heard # <<>>
    OBVIOUS
  <2>1. DOMAIN heard # {}
    BY <1>8
  <2> QED
    BY <2>1
<1>11. heard # <<>> => \A s : s \in Throttle!ToSet(states) /\ within(s) => s.time <= Throttle!Latest(heard).time
  BY <1>8, <1>9
<1> QED
  BY <1>9, <1>10, <1>11 DEF heard, within

\* The samples of the analysed part of a segment are enough exactly if there are so many.
LEMMA EnoughFacts ==
    ASSUME NEW S, NEW samples \in Seq(S), NEW segment
    PROVE  Throttle!Enough(samples, segment) <=> Throttle!Suffice(samples, segment)
<1> DEFINE places == {i \in DOMAIN samples : segment.analyzed <= samples[i].time /\ samples[i].time <= segment.end}
           analyzed == Throttle!Analyzed(samples, segment)
<1>1. analyzed = Chosen(samples, places) /\ places \in SUBSET DOMAIN samples
  BY ThrottleOperators DEF Throttle!Analyzed, Throttle!SamplesBetween
<1>2. Throttle!Suffice(samples, segment) <=> Cardinality(places) >= MinSamples
  <2>1. Throttle!Cardinality(places) = Cardinality(places)
    BY ThrottleOperators
  <2>2. Throttle!Suffice(samples, segment) <=> Throttle!Cardinality(places) >= MinSamples
    BY DEF Throttle!Suffice
  <2> QED
    BY <2>1, <2>2
<1>3. Throttle!Enough(samples, segment) <=> Len(analyzed) >= MinSamples
  BY DEF Throttle!Enough
<1> HIDE DEF places, analyzed
<1>4. analyzed \in Seq(S) /\ DOMAIN analyzed = 1..Cardinality(places) /\ Cardinality(places) \in Nat
  BY <1>1, ChosenFacts
<1>5. Len(analyzed) = Cardinality(places)
  BY <1>4
<1> QED
  BY <1>2, <1>3, <1>5

\* The runs that are analyzed are those before which the car was seen at rest, and
\* which were recorded often enough.
LEMMA RestHolds ==
    ASSUME NEW commands, NEW S, NEW states \in Seq(S), \A s \in S : s.time \in Nat,
           NEW T, NEW speeds \in Seq(T), NEW estimates \in Seq(T),
           IsCourse(Throttle!Deduplicated(commands))
    PROVE  Throttle!RunsStartAtRest(commands, speeds, states, estimates)
<1> DEFINE all == Throttle!Deduplicated(commands)
           segments == Throttle!SegmentCommands(commands)
           starts == Starts(commands, speeds, states, estimates)
           heard == Throttle!ToSet(states)
           place(segment) == CHOOSE i \in DOMAIN all : all[i].time = segment.start
           recent(segment) == {s \in heard : place(segment) > 1 /\ s.time <= all[place(segment) - 1].time
                                              /\ segment.start - s.time <= GapLimit}
           counts(segment) == Counts(speeds, states, estimates, segment)
           enough(segment) == \A samples \in {speeds, states, estimates} : Throttle!Suffice(samples, segment)
<1>1. FoundAreSegments(all, segments, Len(all)) /\ IsCourse(all)
  BY SegmentsFound
<1>2. segments \in Seq(SegmentsOf(all))
  BY <1>1 DEF FoundAreSegments
<1>3. \A time : time \in starts
                 <=> \E segment \in Throttle!ToSet(segments) : counts(segment) /\ segment.start = time
  BY <1>2, CountedFacts
<1>4. \A segment \in Throttle!ToSet(segments) : \E k \in DOMAIN segments : segment = segments[k]
  BY DEF Throttle!ToSet
<1>5. \A s \in heard : s.time \in Nat
  <2>1. \A i \in DOMAIN states : states[i] \in S
    OBVIOUS
  <2> QED
    BY <2>1 DEF Throttle!ToSet
<1> HIDE DEF all, segments, starts
<1>6. /\ DOMAIN all = 1..Len(all) /\ Len(all) \in Nat
      /\ \A i \in DOMAIN all : all[i].time \in Nat
      /\ \A i, j \in DOMAIN all : i < j => all[i].time < all[j].time
  BY <1>1 DEF IsCourse, InTime
<1>7. \A i, j \in DOMAIN all : all[i].time = all[j].time => i = j
  <2> SUFFICES ASSUME NEW i \in DOMAIN all, NEW j \in DOMAIN all, all[i].time = all[j].time PROVE i = j
    OBVIOUS
  <2>1. i \in Nat /\ j \in Nat /\ all[i].time \in Nat
    BY <1>6
  <2>2. ~(i < j) /\ ~(j < i)
    BY <1>6, <2>1
  <2> QED
    BY <2>1, <2>2
<1>8. ASSUME NEW segment \in Throttle!ToSet(segments)
      PROVE  \E a \in DOMAIN all :
                /\ segment.start = all[a].time /\ place(segment) = a
                /\ IsPreceded(all, a, segment.before, segment.preceded)
  <2>1. IsSegment(all, segment, Len(all))
    BY <1>1, <1>4, <1>8 DEF FoundAreSegments
  <2>2. PICK a \in 1..Len(all) :
           segment.start = all[a].time /\ IsPreceded(all, a, segment.before, segment.preceded)
    BY <2>1 DEF IsSegment
  <2>3. a \in DOMAIN all
    BY <1>6
  <2>4. place(segment) = a
    BY <1>7, <2>2, <2>3
  <2> QED
    BY <2>2, <2>3, <2>4
<1> HIDE DEF place
<1>9. ASSUME NEW segment \in Throttle!ToSet(segments), segment.preceded
      PROVE  LET n == place(segment) IN
             /\ n \in DOMAIN all /\ n > 1 /\ n - 1 \in DOMAIN all /\ segment.start = all[n].time
             /\ Throttle!Neutral(all[n - 1])
             /\ segment.before.to = all[n - 1].time
             /\ segment.before.from \in Nat
             /\ segment.before.to - segment.before.from >= MinNeutral
  <2>1. PICK a \in DOMAIN all :
           /\ segment.start = all[a].time /\ place(segment) = a
           /\ IsPreceded(all, a, segment.before, segment.preceded)
    BY <1>8
  <2>2. a # 1 /\ Throttle!Neutral(all[a - 1])
    BY <1>9, <2>1 DEF IsPreceded
  <2>3. PICK f \in 1..a - 1 :
           /\ segment.before = Stretch(all, f, a - 1)
           /\ segment.preceded = (all[a - 1].time - all[f].time >= MinNeutral)
    BY <2>1, <2>2 DEF IsPreceded
  <2>4. a \in Nat /\ a > 1 /\ a - 1 \in DOMAIN all /\ f \in DOMAIN all
    BY <1>6, <2>2
  <2>5. segment.before.from = all[f].time /\ segment.before.to = all[a - 1].time
    BY <2>3 DEF Stretch
  <2>6. all[a - 1].time - all[f].time >= MinNeutral
    BY <1>9, <2>3
  <2> QED
    BY <1>6, <2>1, <2>2, <2>4, <2>5, <2>6
<1>10. \A segment : Throttle!Recorded(speeds, states, estimates, segment) <=> enough(segment)
  BY EnoughFacts DEF Throttle!Recorded
<1> HIDE DEF enough
<1>11. \A time \in starts : \E segment \in Throttle!ToSet(segments) : segment.start = time /\ enough(segment)
  BY <1>3, <1>10 DEF Counts
<1>12. ASSUME NEW segment
       PROVE  LET between(s) == /\ s \in heard
                                /\ segment.before.from <= s.time /\ s.time <= segment.before.to
                  told == Throttle!SamplesBetween(states, segment.before.from, segment.before.to)
              IN  /\ \A s : between(s) => told # <<>>
                  /\ told # <<>> => /\ between(Throttle!Latest(told))
                                      /\ \A s : between(s) => s.time <= Throttle!Latest(told).time
  BY HeardFacts
<1> HIDE DEF heard
<1>13. ASSUME NEW segment \in Throttle!ToSet(segments), segment.start \in starts
       PROVE  /\ place(segment) > 1 /\ Throttle!Neutral(all[place(segment) - 1])
              /\ segment.start - all[place(segment) - 1].time <= GapLimit
              /\ \E s \in recent(segment) :
                    s.still /\ \A t \in recent(segment) : t.time > s.time => t.still
  <2>1. PICK counted \in Throttle!ToSet(segments) : counts(counted) /\ counted.start = segment.start
    BY <1>3, <1>13
  <2> DEFINE n == place(counted)
             known == Throttle!SamplesBetween(states, counted.before.from, counted.before.to)
             s == Throttle!Latest(known)
             before == counted.before
  <2>2. counted.preceded /\ Throttle!AtRest(counted, states)
    BY <2>1 DEF Counts
  <2>3. known # <<>> /\ s.still /\ counted.start - s.time <= GapLimit
    BY <2>2 DEF Throttle!AtRest
  <2>4. /\ n \in DOMAIN all /\ n > 1 /\ n - 1 \in DOMAIN all /\ counted.start = all[n].time
        /\ Throttle!Neutral(all[n - 1])
        /\ before.to = all[n - 1].time
        /\ before.from \in Nat
        /\ before.to - before.from >= MinNeutral
    BY <1>9, <2>2
  <2>5. place(segment) = n
    BY <2>1 DEF place
  <2>6. /\ s \in heard /\ before.from <= s.time /\ s.time <= before.to
        /\ \A t \in heard : before.from <= t.time /\ t.time <= before.to => t.time <= s.time
    BY <1>12, <2>3
  <2> HIDE DEF n, known, s, before
  <2>7. /\ all[n - 1].time \in Nat /\ all[n].time \in Nat /\ s.time \in Nat
    BY <1>5, <1>6, <2>4, <2>6
  <2>8. segment.start - all[n - 1].time <= GapLimit
    BY <2>1, <2>3, <2>4, <2>6, <2>7, ThrottleLimits
  <2>9. s \in recent(segment)
    BY <2>1, <2>3, <2>4, <2>5, <2>6
  <2>10. \A t \in recent(segment) : ~(t.time > s.time)
    <3> SUFFICES ASSUME NEW t \in heard, t.time <= all[n - 1].time, t.time > s.time PROVE FALSE
      BY <2>5
    <3>1. t.time \in Nat
      BY <1>5
    <3>2. before.from <= t.time /\ t.time <= before.to
      BY <2>4, <2>6, <2>7, <3>1
    <3>3. t.time <= s.time
      BY <2>6, <3>2
    <3> QED
      BY <2>7, <3>1, <3>3
  <2> QED
    BY <2>3, <2>4, <2>5, <2>8, <2>9, <2>10
<1>14. ASSUME NEW segment \in Throttle!ToSet(segments), segment.preceded,
              recent(segment) # {}, \A s \in recent(segment) : s.still, enough(segment)
       PROVE  segment.start \in starts
  <2> DEFINE n == place(segment)
             known == Throttle!SamplesBetween(states, segment.before.from, segment.before.to)
             s == Throttle!Latest(known)
             before == segment.before
  <2>1. /\ n \in DOMAIN all /\ n > 1 /\ n - 1 \in DOMAIN all /\ segment.start = all[n].time
        /\ before.to = all[n - 1].time
        /\ before.from \in Nat
        /\ before.to - before.from >= MinNeutral
    BY <1>9, <1>14
  <2>2. PICK t \in heard : t.time <= all[n - 1].time /\ segment.start - t.time <= GapLimit
    BY <1>14
  <2> HIDE DEF n
  <2>3. all[n - 1].time \in Nat /\ all[n].time \in Nat /\ t.time \in Nat /\ all[n - 1].time < all[n].time
    <3>1. n - 1 < n
      BY <1>6, <2>1
    <3> QED
      BY <1>5, <1>6, <2>1, <3>1
  <2>4. before.from <= t.time /\ t.time <= before.to
    BY <2>1, <2>2, <2>3, ThrottleLimits
  <2>5. known # <<>> /\ s \in heard /\ s.time <= before.to /\ t.time <= s.time
    BY <1>12, <2>4
  <2> HIDE DEF known, s, before
  <2>6. s.time \in Nat
    BY <1>5, <2>5
  <2>7. segment.start - s.time <= GapLimit /\ s.time <= all[n - 1].time
    BY <2>1, <2>2, <2>3, <2>5, <2>6, ThrottleLimits
  <2>8. s \in recent(segment)
    BY <2>1, <2>5, <2>7 DEF n
  <2>9. Throttle!AtRest(segment, states)
    BY <1>14, <2>5, <2>7, <2>8 DEF Throttle!AtRest, known, s
  <2>10. counts(segment)
    BY <1>10, <1>14, <2>9 DEF Counts
  <2> QED
    BY <1>3, <2>10
<1> DEFINE Counted(time) == \E segment \in Throttle!ToSet(segments) : segment.start = time /\ enough(segment)
           Rested(segment) ==
              /\ segment.start \in starts =>
                    /\ place(segment) > 1 /\ Throttle!Neutral(all[place(segment) - 1])
                    /\ segment.start - all[place(segment) - 1].time <= GapLimit
                    /\ \E s \in recent(segment) :
                          s.still /\ \A t \in recent(segment) : t.time > s.time => t.still
              /\ segment.preceded /\ recent(segment) # {} /\ (\A s \in recent(segment) : s.still)
                    /\ enough(segment) => segment.start \in starts
<1>15. (\A time \in starts : Counted(time)) /\ (\A segment \in Throttle!ToSet(segments) : Rested(segment))
  BY <1>11, <1>13, <1>14
<1>16. Throttle!RunsStartAtRest(commands, speeds, states, estimates)
         <=> ((\A time \in starts : Counted(time)) /\ (\A segment \in Throttle!ToSet(segments) : Rested(segment)))
  BY DEF Throttle!RunsStartAtRest, all, segments, starts, heard, place, Starts, enough
<1> QED
  BY <1>15, <1>16

-----------------------------------------------------------------------------
(* Every sequence of commands, and of moments before a run, that is read.   *)

\* Samples of commands, and what is recorded at the moments before a run.
CommandSamples == [time : Nat, value : Int]

Moments == [time : Nat, value : Int \cup {None}, still : BOOLEAN \cup {None}]

\* What is read of commands and moments are samples, and nothing is read before its
\* program is chosen.
SegmentsInput ==
    /\ program = None => input = <<>>
    /\ program = "segments" => input \in Seq(CommandSamples)
    /\ program = "rest" => input \in Seq(Moments)

\* The moments recorded before a run and the run after them are moments.
LEMMA FollowedFacts ==
    ASSUME input \in Seq(Moments), NEW pause \in Nat
    PROVE  Followed(pause) \in Seq(Moments)
<1> DEFINE value == Max(Commands)
           run == [k \in 1..MinDuration + 1 |-> [time |-> LastTime + pause + k - 1, value |-> value, still |-> FALSE]]
<1>1. value \in Int
  <2>1. Commands \in SUBSET Int /\ Commands # {} /\ IsFiniteSet(Commands)
    BY AnalysisAssumption
  <2> QED
    BY <2>1, ExtremesOf
<1>2. LastTime \in Nat
  <2>1. CASE input = <<>>
    BY <2>1 DEF LastTime
  <2>2. CASE input # <<>>
    <3>1. Last(input) \in Moments
      BY <2>2 DEF Last
    <3> QED
      BY <2>2, <3>1 DEF LastTime, Moments
  <2> QED
    BY <2>1, <2>2
<1>3. Followed(pause) = input \o run
  BY DEF Followed
<1> HIDE DEF value
<1>4. MinDuration + 1 \in Nat
  BY ThrottleLimits
<1>5. \A k \in 1..MinDuration + 1 :
         [time |-> LastTime + pause + k - 1, value |-> value, still |-> FALSE] \in Moments
  <2> SUFFICES ASSUME NEW k \in 1..MinDuration + 1
               PROVE  [time |-> LastTime + pause + k - 1, value |-> value, still |-> FALSE] \in Moments
    OBVIOUS
  <2>1. LastTime + pause + k - 1 \in Nat
    BY <1>2, <1>4
  <2> QED
    BY <1>1, <2>1 DEF Moments
<1>6. run \in Seq(Moments)
  <2> DEFINE m == MinDuration + 1
  <2>1. m \in Nat
    BY <1>4
  <2>2. run = [k \in 1..m |-> [time |-> LastTime + pause + k - 1, value |-> value, still |-> FALSE]]
    OBVIOUS
  <2>3. \A k \in 1..m : run[k] \in Moments
    BY <1>5
  <2> HIDE DEF m, run
  <2>4. run = [k \in 1..m |-> run[k]]
    BY <2>2
  <2> QED
    BY <2>1, <2>3, <2>4
<1> HIDE DEF run
<1> QED
  BY <1>3, <1>6

\* The commands among moments are samples of commands; what was heard of the wheel
\* are samples too, and so are its speeds and the estimates of them.
LEMMA MomentFacts ==
    ASSUME NEW moments \in Seq(Moments)
    PROVE  /\ IsCourse(Throttle!Deduplicated(Commanded(moments)))
           /\ Heard(moments) \in Seq(Moments)
           /\ Wheel(moments) \in Seq(CommandSamples)
           /\ \A missing \in Nat : Estimated(moments, missing) \in Seq(CommandSamples)
<1> DEFINE S == {s \in Moments : s.value \in Int}
           places == {i \in DOMAIN moments : moments[i].value # None}
           commanded == Commanded(moments)
           n == Cardinality(places)
<1>1. commanded = Chosen(moments, places) /\ places \in SUBSET DOMAIN moments
  BY DEF Commanded
<1>2. \A i \in places : moments[i] \in S
  <2> SUFFICES ASSUME NEW i \in places PROVE moments[i] \in S
    OBVIOUS
  <2>1. moments[i] \in Moments /\ moments[i].value # None
    OBVIOUS
  <2> QED
    BY <2>1 DEF Moments
<1> HIDE DEF places, commanded, S
<1>3. commanded \in Seq(Moments) /\ DOMAIN commanded = 1..n /\ n \in Nat
  BY <1>1, ChosenFacts
<1>4. PICK order \in [1..n -> places] : \A k \in 1..n : commanded[k] = moments[order[k]]
  BY <1>1, ChosenFacts
<1> HIDE DEF n
<1>5. \A k \in 1..n : commanded[k] \in S
  BY <1>2, <1>4
<1>6. commanded \in Seq(S)
  <2>1. commanded = [k \in 1..n |-> commanded[k]]
    BY <1>3
  <2> QED
    BY <1>3, <1>5, <2>1
<1>7. \A s \in S : s.time \in Nat /\ s.value \in Int
  BY DEF S, Moments
<1>8. IsCourse(Throttle!Deduplicated(commanded))
  BY <1>6, <1>7, CourseFacts
<1>9. Heard(moments) \in Seq(Moments)
  <2> DEFINE heard == {i \in DOMAIN moments : moments[i].still # None}
  <2>1. Heard(moments) = Chosen(moments, heard) /\ heard \in SUBSET DOMAIN moments
    BY DEF Heard
  <2> HIDE DEF heard
  <2> QED
    BY <2>1, ChosenFacts
<1>10. Wheel(moments) \in Seq(CommandSamples)
  <2> DEFINE heard == Heard(moments)
             speed(i) == [time |-> heard[i].time, value |-> IF heard[i].still THEN 0 ELSE 2]
  <2>1. Wheel(moments) = [i \in DOMAIN heard |-> speed(i)]
    BY DEF Wheel
  <2> HIDE DEF heard
  <2>2. heard \in Seq(Moments)
    BY <1>9 DEF heard
  <2>3. DOMAIN heard = 1..Len(heard) /\ Len(heard) \in Nat
    BY <2>2
  <2>4. \A i \in 1..Len(heard) : speed(i) \in CommandSamples
    <3> SUFFICES ASSUME NEW i \in 1..Len(heard) PROVE speed(i) \in CommandSamples
      OBVIOUS
    <3>1. heard[i] \in Moments
      BY <2>2, <2>3
    <3>2. heard[i].time \in Nat /\ (IF heard[i].still THEN 0 ELSE 2) \in Int
      BY <3>1 DEF Moments
    <3> QED
      BY <3>2 DEF CommandSamples
  <2> HIDE DEF speed
  <2>5. Wheel(moments) = [i \in 1..Len(heard) |-> speed(i)]
    BY <2>1, <2>3
  <2> QED
    BY <2>3, <2>4, <2>5
<1>11. ASSUME NEW missing \in Nat
       PROVE  Estimated(moments, missing) \in Seq(CommandSamples)
  <2> DEFINE wheel == Wheel(moments)
             m == Len(wheel) - missing
  <2>1. Estimated(moments, missing) = SubSeq(wheel, 1, m)
    BY DEF Estimated
  <2> HIDE DEF wheel
  <2>2. wheel \in Seq(CommandSamples) /\ Len(wheel) \in Nat /\ m \in Int /\ m <= Len(wheel)
    BY <1>10 DEF wheel
  <2> HIDE DEF m
  <2>3. CASE m >= 0
    <3>1. m \in 0..Len(wheel) /\ 1 \in 1..Len(wheel) + 1
      BY <2>2, <2>3
    <3> QED
      BY <2>1, <2>2, <2>3, <3>1
  <2>4. CASE m < 0
    BY <2>1, <2>2, <2>4
  <2> QED
    BY <2>2, <2>3, <2>4
<1> QED
  BY <1>8, <1>9, <1>10, <1>11 DEF commanded

\* Whatever is read, it remains samples of commands, and moments.
LEMMA SegmentsInputStep == SegmentsInput /\ [Next]_vars => SegmentsInput'
<1> SUFFICES ASSUME SegmentsInput, [Next]_vars PROVE SegmentsInput'
  OBVIOUS
<1> DEFINE names == {"target", "groups", "drives", "pid", "response", "series", "scan"}
<1>1. \A name \in names : name \notin {None, "segments", "rest"}
  BY AnalysisAssumption
<1>2. "segments" # None /\ "rest" # None
  BY AnalysisAssumption
<1>3. CASE UNCHANGED vars
  BY <1>3 DEF vars, SegmentsInput
<1>4. CASE RecordingNext /\ UNCHANGED <<program, input>>
  BY <1>4 DEF SegmentsInput
<1>5. CASE ReadCommand
  <2>1. PICK step \in CommandSteps, value \in Commands :
          Reads("segments", [time |-> LastTime + step, value |-> value])
    BY <1>5 DEF ReadCommand
  <2>2. input \in Seq(CommandSamples)
    <3>1. input = <<>> \/ input \in Seq(CommandSamples)
      BY <1>5 DEF ReadCommand, SegmentsInput, Runs, Idle
    <3>2. <<>> \in Seq(CommandSamples)
      OBVIOUS
    <3> QED
      BY <3>1, <3>2
  <2>3. LastTime \in Nat
    <3>1. CASE input = <<>>
      BY <3>1 DEF LastTime
    <3>2. CASE input # <<>>
      <4>1. Last(input) \in CommandSamples
        BY <2>2, <3>2 DEF Last
      <4> QED
        BY <3>2, <4>1 DEF LastTime, CommandSamples
    <3> QED
      BY <3>1, <3>2
  <2>4. step \in Nat /\ value \in Int
    BY AnalysisAssumption
  <2>5. [time |-> LastTime + step, value |-> value] \in CommandSamples
    BY <2>3, <2>4 DEF CommandSamples
  <2>6. program' = "segments" /\ input' \in Seq(CommandSamples)
    BY <2>1, <2>2, <2>5 DEF Reads
  <2> QED
    BY <1>2, <2>6 DEF SegmentsInput
<1>6. CASE ReadMoment
  <2>1. PICK command \in {0, Max(Commands), None}, still \in {TRUE, FALSE, None} :
          Reads("rest", [time |-> LastTime + 1, value |-> command, still |-> still])
    BY <1>6 DEF ReadMoment
  <2>2. input \in Seq(Moments)
    <3>1. input = <<>> \/ input \in Seq(Moments)
      BY <1>6 DEF ReadMoment, SegmentsInput, Runs, Idle
    <3>2. <<>> \in Seq(Moments)
      OBVIOUS
    <3> QED
      BY <3>1, <3>2
  <2>3. LastTime \in Nat
    <3>1. CASE input = <<>>
      BY <3>1 DEF LastTime
    <3>2. CASE input # <<>>
      <4>1. Last(input) \in Moments
        BY <2>2, <3>2 DEF Last
      <4> QED
        BY <3>2, <4>1 DEF LastTime, Moments
    <3> QED
      BY <3>1, <3>2
  <2>4. command \in Int \cup {None} /\ still \in BOOLEAN \cup {None}
    <3>1. Commands \in SUBSET Int /\ Commands # {} /\ IsFiniteSet(Commands)
      BY AnalysisAssumption
    <3>2. Max(Commands) \in Int
      BY <3>1, ExtremesOf
    <3>3. command \in Int \cup {None}
      BY <3>2
    <3>4. still \in BOOLEAN \cup {None}
      OBVIOUS
    <3> QED
      BY <3>3, <3>4
  <2>5. [time |-> LastTime + 1, value |-> command, still |-> still] \in Moments
    BY <2>3, <2>4 DEF Moments
  <2>6. program' = "rest" /\ input' \in Seq(Moments)
    BY <2>1, <2>2, <2>5 DEF Reads
  <2> QED
    BY <1>2, <2>6 DEF SegmentsInput
<1>7. CASE \E name \in names : \E item : Reads(name, item)
  <2>1. PICK name \in names : \E item : Reads(name, item)
    BY <1>7
  <2> QED
    BY <1>1, <2>1 DEF SegmentsInput, Reads
<1>8. ASSUME \/ ReadPoint \/ ReadRun \/ ReadDrive \/ ReadSample \/ ReadState \/ ReadStatus
             \/ ReadChange \/ ReadRate \/ ReadScan
      PROVE  \E name \in names : \E item : Reads(name, item)
  BY <1>8 DEF ReadPoint, ReadRun, ReadDrive, ReadSample, ReadState, ReadStatus, ReadChange,
     Event, ReadRate, ReadScan
<1> QED
  BY <1>3, <1>4, <1>5, <1>6, <1>7, <1>8 DEF Next

\* The segments of any samples of commands are steady, whole, and know what came before
\* them; and those are analyzed before which the car was seen at rest, with no gap
\* (segment_commands, analyze_samples).
THEOREM SegmentsOfCommandsAreTrue == Spec => []SegmentsAreTrue
<1>1. Init => SegmentsInput
  BY AnalysisAssumption DEF Init, SegmentsInput
<1>2. SegmentsInput /\ [Next]_vars => SegmentsInput'
  BY SegmentsInputStep
<1>3. SegmentsInput => SegmentsAreTrue
  <2> SUFFICES ASSUME SegmentsInput PROVE SegmentsAreTrue
    OBVIOUS
  <2>1. ASSUME program = "segments"
        PROVE  /\ Throttle!SegmentsAreSteady(input)
               /\ Throttle!NothingOverlooked(input)
               /\ Throttle!NeutralIsTrue(input)
    <3>1. input \in Seq(CommandSamples)
      BY <2>1 DEF SegmentsInput
    <3>2. \A s \in CommandSamples : s.time \in Nat /\ s.value \in Int
      BY DEF CommandSamples
    <3>3. IsCourse(Throttle!Deduplicated(input))
      BY <3>1, <3>2, CourseFacts
    <3> QED
      BY <3>3, SegmentsSteadyHolds, OverlookedHolds, NeutralHolds
  <2>2. ASSUME program = "rest", NEW pause \in 1..GapLimit + 1, NEW missing \in 0..MinDuration
        PROVE  Throttle!RunsStartAtRest(Commanded(Followed(pause)), Wheel(Followed(pause)), Heard(Followed(pause)),
                                        Estimated(Followed(pause), missing))
    <3> DEFINE moments == Followed(pause)
    <3>1. moments \in Seq(Moments)
      BY <2>2, FollowedFacts, ThrottleLimits DEF SegmentsInput
    <3> HIDE DEF moments
    <3>2. /\ IsCourse(Throttle!Deduplicated(Commanded(moments))) /\ Heard(moments) \in Seq(Moments)
          /\ Wheel(moments) \in Seq(CommandSamples)
          /\ Estimated(moments, missing) \in Seq(CommandSamples)
      BY <2>2, <3>1, MomentFacts, ThrottleLimits
    <3>3. \A s \in Moments : s.time \in Nat
      BY DEF Moments
    <3>4. Throttle!RunsStartAtRest(Commanded(moments), Wheel(moments), Heard(moments),
                                   Estimated(moments, missing))
      BY ONLY <3>2, <3>3, RestHolds
    <3> QED
      BY <3>4 DEF moments
  <2> QED
    BY <2>1, <2>2 DEF SegmentsAreTrue
<1> QED
  BY <1>1, <1>2, <1>3, PTL DEF Spec
================================================================================
