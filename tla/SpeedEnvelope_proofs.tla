------------------------ MODULE SpeedEnvelope_proofs ------------------------
(***************************************************************************)
(* Proofs about SpeedEnvelope, for every list of keys, every origin, every *)
(* set of values, every period, timeout and number of requests per tick.   *)
(***************************************************************************)
EXTENDS SpeedEnvelope, FiniteSetTheorems, SequenceTheorems, WellFoundedInduction, TLAPS

-----------------------------------------------------------------------------
(* The inductive invariant.                                                *)

Details == {"not_requested", "pending", "timeout", "service_unavailable", "error", "available"}

Readings == Values \cup {Broken}

Entry(o) ==
    /\ o \in [detail : Details, value : Values \cup {None}, left : 0..Timeout]
    /\ o.value \in IF Available(o) THEN Values ELSE {None}

Shapes ==
    /\ offset \in 0..Len(Keys) - 1
    /\ observation = [k \in KeySet |-> observation[k]]
    /\ \A k \in KeySet : Entry(observation[k])
    /\ request \in [KeySet -> Readings \cup {None, Asked}]
    /\ parameter \in [KeySet -> Readings]
    /\ had \in [KeySet -> SUBSET Readings]
    /\ waited \in [KeySet -> Nat]

\* What the node has now, an answer under way and a value shown were all the
\* node's since the key was asked last.
HadIt ==
    \A k \in KeySet :
        /\ parameter[k] \in had[k]
        /\ request[k] \notin {None, Asked} => request[k] \in had[k]
        /\ Available(observation[k]) => observation[k].value \in had[k]

\* A key that waits is carried forward by PerTick places at every tick.
Advancing == \A k \in KeySet : waited[k] * PerTick + Rotated(k) <= Len(Keys)

IInv == Shapes /\ HadIt /\ Advancing

-----------------------------------------------------------------------------
(* The rotation.                                                           *)

LEMMA KeyFacts ==
    /\ Len(Keys) \in Nat \ {0}
    /\ \A k \in KeySet : Place[k] \in 1..Len(Keys) /\ Keys[Place[k]] = k
<1>1. Keys \in Seq(KeySet) /\ Keys # <<>>
  BY EnvelopeAssumption
<1>2. Len(Keys) \in Nat \ {0} /\ DOMAIN Keys = 1..Len(Keys)
  BY <1>1
<1>3. ASSUME NEW k \in KeySet
      PROVE  Place[k] \in 1..Len(Keys) /\ Keys[Place[k]] = k
  <2>1. \E i \in DOMAIN Keys : Keys[i] = k
    BY <1>3 DEF KeySet, ToSet
  <2> QED
    BY <1>2, <2>1 DEF Place
<1> QED
  BY <1>2, <1>3

LEMMA RotatedFacts ==
    ASSUME offset \in 0..Len(Keys) - 1
    PROVE  /\ \A k \in KeySet : Rotated(k) \in 1..Len(Keys)
           /\ \A j, k \in KeySet : Rotated(j) = Rotated(k) => j = k
<1>1. \A k \in KeySet : Rotated(k) \in 1..Len(Keys)
  BY KeyFacts DEF Rotated
<1>2. ASSUME NEW j \in KeySet, NEW k \in KeySet, Rotated(j) = Rotated(k)
      PROVE  j = k
  <2>1. Place[j] \in 1..Len(Keys) /\ Place[k] \in 1..Len(Keys) /\ Len(Keys) \in Nat
    BY KeyFacts
  <2>2. Place[j] = Place[k]
    BY <1>2, <2>1 DEF Rotated
  <2> QED
    BY <2>2, KeyFacts
<1> QED
  BY <1>1, <1>2

\* Keys within the first m places of the rotation are at most m.
LEMMA FewPlaces ==
    ASSUME offset \in 0..Len(Keys) - 1,
           NEW S \in SUBSET KeySet, NEW m \in Nat, \A k \in S : Rotated(k) <= m
    PROVE  IsFiniteSet(S) /\ Cardinality(S) \in Nat /\ Cardinality(S) <= m
<1> DEFINE f == [k \in S |-> Rotated(k)]
<1>1. \A k \in S : Rotated(k) \in 1..m
  <2>1. \A k \in S : Rotated(k) \in 1..Len(Keys) /\ Rotated(k) <= m
    BY RotatedFacts
  <2> QED
    BY <2>1, KeyFacts
<1>2. f \in Injection(S, 1..m)
  <2>1. f \in [S -> 1..m]
    BY <1>1
  <2>2. \A j, k \in S : f[j] = f[k] => j = k
    BY RotatedFacts
  <2>3. IsInjective(f)
    BY <2>1, <2>2 DEF IsInjective
  <2> QED
    BY <2>1, <2>3 DEF Injection
<1>3. IsFiniteSet(1..m) /\ Cardinality(1..m) = m
  BY FS_Interval
<1> HIDE DEF f
<1>4. IsFiniteSet(S) /\ Cardinality(S) <= m
  BY <1>2, <1>3, FS_Injection
<1> QED
  BY <1>4, FS_CardinalityType

\* Of any keys one comes first in the rotation.
LEMMA FirstOf ==
    ASSUME offset \in 0..Len(Keys) - 1,
           NEW S \in SUBSET KeySet, S # {}
    PROVE  \E k \in S : \A j \in S : Rotated(k) <= Rotated(j)
<1> DEFINE T == {Rotated(k) : k \in S}
<1>1. \A k \in S : Rotated(k) \in Nat
  BY RotatedFacts
<1>2. T \subseteq Nat /\ T # {}
  BY <1>1
<1> HIDE DEF T
<1>3. PICK x \in T : \A y \in T : ~(<<y, x>> \in OpToRel(<, Nat))
  BY <1>2, WFMin, NatLessThanWellFounded
<1>4. \A y \in T : ~(y < x)
  BY <1>2, <1>3 DEF OpToRel
<1>5. \A y \in T : x <= y
  BY <1>2, <1>4
<1> QED
  BY <1>5 DEF T

Before(entries, k) == {j \in {i \in KeySet : ~InFlight(entries[i])} : Rotated(j) < Rotated(k)}

\* The keys asked are so many that one that is passed over comes forward by
\* PerTick places at least, and all before it.
LEMMA SelectedFacts ==
    ASSUME offset \in 0..Len(Keys) - 1, NEW entries
    PROVE  /\ Selected(entries) \subseteq KeySet
           /\ Cardinality(Selected(entries)) \in Nat
           /\ \A k \in KeySet : ~InFlight(entries[k]) /\ k \notin Selected(entries) =>
                /\ PerTick <= Cardinality(Selected(entries))
                /\ Cardinality(Selected(entries)) < Rotated(k)
<1> DEFINE idle == {k \in KeySet : ~InFlight(entries[k])}
           sel == Selected(entries)
<1>1. sel = {k \in idle : Cardinality(Before(entries, k)) < PerTick}
  BY DEF Selected, Before
<1>2. sel \in SUBSET KeySet /\ sel \subseteq idle /\ idle \in SUBSET KeySet
  BY <1>1
<1>3. \A k \in KeySet : /\ Before(entries, k) \in SUBSET KeySet
                         /\ Before(entries, k) = {j \in idle : Rotated(j) < Rotated(k)}
  BY DEF Before
<1>4. /\ \A k \in KeySet : Rotated(k) \in Nat /\ Rotated(k) <= Len(Keys)
      /\ Len(Keys) \in Nat /\ PerTick \in Nat
  BY RotatedFacts, KeyFacts, EnvelopeAssumption
<1> HIDE DEF idle, sel
<1>5. \A S \in SUBSET KeySet : IsFiniteSet(S) /\ Cardinality(S) \in Nat
  <2> SUFFICES ASSUME NEW S \in SUBSET KeySet
               PROVE  IsFiniteSet(S) /\ Cardinality(S) \in Nat
    OBVIOUS
  <2> QED
    BY <1>4, FewPlaces
<1>6. ASSUME NEW k \in KeySet, k \in idle, k \notin sel
      PROVE  PerTick <= Cardinality(sel) /\ Cardinality(sel) < Rotated(k)
  <2>1. \A j \in idle : j \notin sel => PerTick <= Cardinality(Before(entries, j))
    BY <1>1, <1>2, <1>3, <1>4, <1>5
  <2>2. ASSUME NEW j \in sel PROVE Rotated(j) <= Rotated(k) - 1
    <3>1. j \in KeySet /\ j \in idle
      BY <1>2
    <3>2. ASSUME Rotated(k) <= Rotated(j) PROVE FALSE
      <4>1. Before(entries, k) \subseteq Before(entries, j)
        BY <1>2, <1>3, <1>4, <3>1, <3>2
      <4>2. Cardinality(Before(entries, k)) <= Cardinality(Before(entries, j))
        BY <1>3, <1>5, <3>1, <4>1, FS_Subset
      <4>3. PerTick <= Cardinality(Before(entries, k))
        BY <1>6, <2>1
      <4>4. Cardinality(Before(entries, j)) < PerTick
        BY <1>1
      <4> QED
        BY <1>3, <1>4, <1>5, <3>1, <4>2, <4>3, <4>4
    <3> QED
      BY <1>4, <3>1, <3>2
  <2>3. Cardinality(sel) <= Rotated(k) - 1
    <3>1. Rotated(k) - 1 \in Nat
      BY RotatedFacts
    <3> QED
      BY <1>2, <2>2, <3>1, FewPlaces
  <2>4. PICK m \in idle \ sel : \A j \in idle \ sel : Rotated(m) <= Rotated(j)
    <3>1. idle \ sel \in SUBSET KeySet /\ idle \ sel # {}
      BY <1>2, <1>6
    <3> QED
      BY <3>1, FirstOf
  <2>5. Before(entries, m) \subseteq sel
    <3> SUFFICES ASSUME NEW j \in idle, Rotated(j) < Rotated(m)
                 PROVE  j \in sel
      BY <1>2, <1>3, <2>4
    <3>1. j \in KeySet /\ m \in KeySet
      BY <1>2, <2>4
    <3> QED
      BY <1>4, <2>4, <3>1
  <2>6. Cardinality(Before(entries, m)) <= Cardinality(sel)
    BY <1>2, <1>5, <2>5, FS_Subset
  <2>7. PerTick <= Cardinality(Before(entries, m))
    BY <2>1, <2>4
  <2>8. m \in KeySet
    BY <1>2, <2>4
  <2> QED
    BY <1>2, <1>3, <1>4, <1>5, <2>3, <2>6, <2>7, <2>8
<1> QED
  BY <1>2, <1>5, <1>6 DEF idle, sel

\* The rotation turns by as many places as keys were asked.
LEMMA RotationTurns ==
    ASSUME offset \in 0..Len(Keys) - 1, NEW asked \in Nat,
           offset' = (offset + asked) % Len(Keys)
    PROVE  /\ offset' \in 0..Len(Keys) - 1
           /\ \A k \in KeySet : asked < Rotated(k) => Rotated(k)' = Rotated(k) - asked
<1>1. Len(Keys) \in Nat \ {0}
  BY KeyFacts
<1>2. offset' \in 0..Len(Keys) - 1
  BY <1>1
<1>3. ASSUME NEW k \in KeySet, asked < Rotated(k)
      PROVE  Rotated(k)' = Rotated(k) - asked
  <2>1. Place[k] \in 1..Len(Keys)
    BY KeyFacts
  <2>2. Rotated(k) \in 1..Len(Keys)
    BY RotatedFacts
  <2>3. Rotated(k)' = IF Place[k] > offset' THEN Place[k] - offset' ELSE Len(Keys) - offset' + Place[k]
    BY DEF Rotated
  <2>4. CASE offset + asked < Len(Keys)
    <3>1. offset' = offset + asked
      BY <1>1, <2>4
    <3> QED
      BY <1>1, <1>3, <2>1, <2>3, <3>1, <2>4 DEF Rotated
  <2>5. CASE offset + asked >= Len(Keys)
    <3>1. offset' = offset + asked - Len(Keys)
      <4>1. offset + asked - Len(Keys) \in 0..Len(Keys) - 1
        BY <1>1, <1>3, <2>2, <2>5
      <4> QED
        BY <1>1, <4>1
    <3> QED
      BY <1>1, <1>3, <2>1, <2>3, <3>1, <2>5 DEF Rotated
  <2> QED
    BY <1>1, <2>4, <2>5
<1> QED
  BY <1>2, <1>3

-----------------------------------------------------------------------------
(* What becomes of an observation.                                         *)

LEMMA Fresh ==
    /\ Entry(Unasked) /\ ~Available(Unasked)
    /\ Entry(Pending) /\ ~Available(Pending)
BY EnvelopeAssumption DEF Entry, Unasked, Pending, Available, Details

LEMMA ExpiredFacts ==
    ASSUME NEW o, Entry(o)
    PROVE  Entry(Expired(o)) /\ (Available(Expired(o)) <=> Available(o))
           /\ (Available(o) => Expired(o) = o)
<1>1. CASE InFlight(o) /\ o.left = 0
  <2>1. Expired(o) = [detail |-> "timeout", value |-> None, left |-> 0]
    BY <1>1 DEF Expired, Unasked
  <2>2. Entry(Expired(o)) /\ ~Available(Expired(o))
    BY <2>1, EnvelopeAssumption DEF Entry, Available, Details
  <2>3. ~Available(o)
    BY <1>1 DEF Available, InFlight
  <2> QED
    BY <2>2, <2>3
<1>2. CASE ~(InFlight(o) /\ o.left = 0)
  BY <1>2 DEF Expired
<1> QED
  BY <1>1, <1>2

LEMMA UnservedFacts ==
    ASSUME NEW o, Entry(o)
    PROVE  Entry(Unserved(o)) /\ ~Available(Unserved(o))
<1> DEFINE u == Unserved(o)
<1>1. o = [detail |-> o.detail, value |-> o.value, left |-> o.left]
  BY DEF Entry
<1>2. u = [o EXCEPT !.detail = "service_unavailable", !.value = None, !.left = 0]
  BY DEF Unserved
<1> HIDE DEF u
<1>3. u = [detail |-> "service_unavailable", value |-> None, left |-> 0]
  <2>1. DOMAIN u = {"detail", "value", "left"}
    BY <1>1, <1>2
  <2>2. /\ u["detail"] = "service_unavailable" /\ u["value"] = None /\ u["left"] = 0
        /\ u = [field \in DOMAIN u |-> u[field]]
    BY <1>1, <1>2
  <2> QED
    BY <2>1, <2>2
<1>4. Entry(u) /\ ~Available(u)
  BY <1>3, EnvelopeAssumption DEF Entry, Available, Details
<1> QED
  BY <1>4 DEF u

LEMMA ResolvedFacts ==
    ASSUME NEW answer \in Readings
    PROVE  /\ Entry(Resolved(answer))
           /\ Available(Resolved(answer)) => Resolved(answer).value = answer
<1>1. CASE answer = Broken
  <2>1. Resolved(answer) = [detail |-> "error", value |-> None, left |-> 0]
    BY <1>1 DEF Resolved, Unasked
  <2> QED
    BY <2>1, EnvelopeAssumption DEF Entry, Available, Details
<1>2. CASE answer # Broken
  <2>1. Resolved(answer) = [detail |-> "available", value |-> answer, left |-> 0]
    BY <1>2 DEF Resolved, Unasked
  <2> QED
    BY <1>2, <2>1, EnvelopeAssumption DEF Entry, Available, Details, Readings
<1> QED
  BY <1>1, <1>2

-----------------------------------------------------------------------------
(* The invariant holds initially and is kept by every step.                *)

LEMMA InvInit == Init => IInv
<1> SUFFICES ASSUME Init PROVE IInv
  OBVIOUS
<1>1. Origin \in [KeySet -> Values] /\ Origin \in [KeySet -> Readings]
  BY EnvelopeAssumption DEF Readings
<1>2. offset \in 0..Len(Keys) - 1
  BY KeyFacts DEF Init
<1>3. Shapes
  BY <1>1, <1>2, Fresh DEF Init, Shapes
<1>4. HadIt
  BY <1>1, Fresh DEF Init, HadIt
<1>5. Advancing
  <2>1. \A k \in KeySet : waited[k] = 0 /\ Rotated(k) \in 1..Len(Keys)
    BY <1>2, RotatedFacts DEF Init
  <2>2. 0 * PerTick = 0 /\ Len(Keys) \in Nat
    BY EnvelopeAssumption, KeyFacts
  <2> QED
    BY <2>1, <2>2 DEF Advancing
<1> QED
  BY <1>3, <1>4, <1>5 DEF IInv

\* A step that leaves the rotation alone.
LEMMA AdvancingStays ==
    ASSUME IInv, UNCHANGED <<offset, waited>>
    PROVE  Advancing'
BY DEF IInv, Advancing, Rotated

LEMMA TickAdvances ==
    ASSUME IInv, NEW ready \in BOOLEAN, Tick(ready)
    PROVE  /\ offset' \in 0..Len(Keys) - 1 /\ waited' \in [KeySet -> Nat]
           /\ Advancing'
<1> DEFINE entries == [k \in KeySet |-> Expired(observation[k])]
           sel == Selected(entries)
           asked == Cardinality(sel)
<1>1. /\ offset \in 0..Len(Keys) - 1 /\ waited \in [KeySet -> Nat]
      /\ Len(Keys) \in Nat \ {0} /\ PerTick \in Nat
  BY KeyFacts, EnvelopeAssumption DEF IInv, Shapes
<1>2. /\ offset' = (offset + asked) % Len(Keys)
      /\ waited' = [k \in KeySet |->
            IF k \in sel \/ InFlight(entries[k]) THEN 0 ELSE waited[k] + 1]
  BY DEF Tick
<1> HIDE DEF entries
<1>3. /\ asked \in Nat
      /\ \A k \in KeySet : ~InFlight(entries[k]) /\ k \notin sel =>
           PerTick <= asked /\ asked < Rotated(k)
  BY <1>1, SelectedFacts
<1> HIDE DEF sel, asked
<1>4. /\ offset' \in 0..Len(Keys) - 1
      /\ \A k \in KeySet : asked < Rotated(k) => Rotated(k)' = Rotated(k) - asked
  BY <1>1, <1>2, <1>3, RotationTurns
<1>5. waited' \in [KeySet -> Nat]
  BY <1>1, <1>2
<1>6. ASSUME NEW k \in KeySet
      PROVE  waited'[k] * PerTick + Rotated(k)' <= Len(Keys)
  <2>1. CASE k \in sel \/ InFlight(entries[k])
    <3>1. waited'[k] = 0 /\ 0 * PerTick = 0
      BY <1>1, <1>2, <2>1
    <3>2. Rotated(k)' \in 1..Len(Keys)
      <4>1. Place[k] \in 1..Len(Keys)
        BY KeyFacts
      <4> QED
        BY <1>1, <1>4, <4>1 DEF Rotated
    <3> QED
      BY <1>1, <3>1, <3>2
  <2>2. CASE ~(k \in sel \/ InFlight(entries[k]))
    <3>1. waited'[k] = waited[k] + 1 /\ waited[k] \in Nat
      BY <1>1, <1>2, <2>2
    <3>2. Rotated(k)' = Rotated(k) - asked /\ PerTick <= asked
      BY <1>3, <1>4, <2>2
    <3>3. waited[k] * PerTick + Rotated(k) <= Len(Keys)
      BY DEF IInv, Advancing
    <3>4. Rotated(k) \in Nat
      BY <1>1, RotatedFacts
    <3>5. (waited[k] + 1) * PerTick = waited[k] * PerTick + PerTick /\ waited[k] * PerTick \in Nat
      BY <1>1, <3>1
    <3> QED
      BY <1>1, <1>3, <3>1, <3>2, <3>3, <3>4, <3>5
  <2> QED
    BY <2>1, <2>2
<1>7. Advancing'
  BY <1>6 DEF Advancing
<1> QED
  BY <1>4, <1>5, <1>7

LEMMA StepTick ==
    ASSUME IInv, NEW ready \in BOOLEAN, Tick(ready)
    PROVE  IInv'
<1> DEFINE entries == [k \in KeySet |-> Expired(observation[k])]
           selected == Selected(entries)
           sent == IF ready THEN selected ELSE {}
<1>1. offset' \in 0..Len(Keys) - 1 /\ waited' \in [KeySet -> Nat] /\ Advancing'
  BY TickAdvances
<1>2. /\ observation' = [k \in KeySet |->
            IF k \in sent THEN Pending
            ELSE IF k \in selected THEN Unserved(entries[k]) ELSE entries[k]]
      /\ request' = [k \in KeySet |->
            IF k \in sent THEN Asked ELSE IF k \in selected THEN None ELSE request[k]]
      /\ had' = [k \in KeySet |-> IF k \in sent THEN {parameter[k]} ELSE had[k]]
      /\ parameter' = parameter
  BY DEF Tick, node
<1>3. /\ \A k \in KeySet : Entry(observation[k])
      /\ request \in [KeySet -> Readings \cup {None, Asked}]
      /\ parameter \in [KeySet -> Readings] /\ had \in [KeySet -> SUBSET Readings]
  BY DEF IInv, Shapes
<1>4. \A k \in KeySet :
        /\ Entry(entries[k])
        /\ Available(entries[k]) => Available(observation[k]) /\ entries[k] = observation[k]
  BY <1>3, ExpiredFacts
<1> HIDE DEF entries, selected, sent
<1>5. Shapes'
  <2>1. \A k \in KeySet : Entry(observation'[k])
    BY <1>2, <1>4, Fresh, UnservedFacts
  <2>2. observation' = [k \in KeySet |-> observation'[k]]
    BY <1>2
  <2>3. request' \in [KeySet -> Readings \cup {None, Asked}]
    BY <1>2, <1>3
  <2>4. had' \in [KeySet -> SUBSET Readings]
    BY <1>2, <1>3
  <2> QED
    BY <1>1, <1>2, <1>3, <2>1, <2>2, <2>3, <2>4 DEF Shapes, Entry
<1>6. HadIt'
  <2> SUFFICES ASSUME NEW k \in KeySet
               PROVE  /\ parameter'[k] \in had'[k]
                      /\ request'[k] \notin {None, Asked} => request'[k] \in had'[k]
                      /\ Available(observation'[k]) => observation'[k].value \in had'[k]
    BY DEF HadIt, Available
  <2>1. CASE k \in sent
    BY <1>2, <2>1, Fresh
  <2>2. CASE k \notin sent /\ k \in selected
    BY <1>2, <1>4, <2>2, UnservedFacts DEF IInv, HadIt
  <2>3. CASE k \notin sent /\ k \notin selected
    BY <1>2, <1>4, <2>3 DEF IInv, HadIt
  <2> QED
    BY <2>1, <2>2, <2>3
<1> QED
  BY <1>1, <1>5, <1>6 DEF IInv

LEMMA StepComplete ==
    ASSUME IInv, NEW k \in KeySet, Complete(k)
    PROVE  IInv'
<1>1. Advancing'
  BY AdvancingStays DEF Complete, history
<1>2. /\ UNCHANGED <<offset, parameter, had, waited>>
      /\ request[k] \notin {None, Asked} /\ request' = [request EXCEPT ![k] = None]
      /\ \/ observation' = [observation EXCEPT ![k] = Resolved(request[k])]
         \/ observation' = observation
  BY DEF Complete, node, history
<1>3. /\ observation = [j \in KeySet |-> observation[j]] /\ \A j \in KeySet : Entry(observation[j])
      /\ request \in [KeySet -> Readings \cup {None, Asked}]
  BY DEF IInv, Shapes
<1>4. request[k] \in Readings /\ request[k] \in had[k]
  BY <1>2, <1>3 DEF IInv, HadIt
<1>5. /\ Entry(Resolved(request[k]))
      /\ Available(Resolved(request[k])) => Resolved(request[k]).value \in had[k]
  BY <1>4, ResolvedFacts
<1>6. \A j \in KeySet : \/ (j = k /\ observation'[j] = Resolved(request[k]))
                         \/ observation'[j] = observation[j]
  BY <1>2, <1>3
<1>7. observation' = [j \in KeySet |-> observation'[j]]
  BY <1>2, <1>3
<1>8. request' \in [KeySet -> Readings \cup {None, Asked}]
  BY <1>2, <1>3
<1>9. \A j \in KeySet : Entry(observation'[j])
  BY <1>3, <1>5, <1>6
<1>10. Shapes'
  BY <1>2, <1>7, <1>8, <1>9 DEF IInv, Shapes, Entry
<1>11. HadIt'
  <2> SUFFICES ASSUME NEW j \in KeySet
               PROVE  /\ parameter'[j] \in had'[j]
                      /\ request'[j] \notin {None, Asked} => request'[j] \in had'[j]
                      /\ Available(observation'[j]) => observation'[j].value \in had'[j]
    BY DEF HadIt, Available
  <2> QED
    BY <1>2, <1>3, <1>5, <1>6 DEF IInv, HadIt
<1> QED
  BY <1>1, <1>10, <1>11 DEF IInv

LEMMA StepAnswer ==
    ASSUME IInv, NEW k \in KeySet, Answer(k)
    PROVE  IInv'
<1>1. Advancing'
  BY AdvancingStays DEF Answer, observer, history
<1>2. /\ UNCHANGED <<observation, offset, parameter, had, waited>>
      /\ request' = [request EXCEPT ![k] = parameter[k]]
  BY DEF Answer, observer, node, history
<1>3. /\ request \in [KeySet -> Readings \cup {None, Asked}] /\ parameter[k] \in Readings
  BY DEF IInv, Shapes
<1>4. Shapes'
  <2>1. request' \in [KeySet -> Readings \cup {None, Asked}]
    BY <1>2, <1>3
  <2> QED
    BY <1>2, <2>1 DEF IInv, Shapes, Entry
<1>5. HadIt'
  BY <1>2, <1>3 DEF IInv, HadIt
<1> QED
  BY <1>1, <1>4, <1>5 DEF IInv

LEMMA StepSetParameter ==
    ASSUME IInv, NEW k \in KeySet, SetParameter(k)
    PROVE  IInv'
<1>1. PICK value \in Readings : parameter' = [parameter EXCEPT ![k] = value]
  BY DEF SetParameter, Readings
<1>2. /\ UNCHANGED <<observation, offset, request, waited>>
      /\ had' = [had EXCEPT ![k] = had[k] \cup {parameter'[k]}]
  BY DEF SetParameter, observer, calls
<1>3. parameter \in [KeySet -> Readings] /\ had \in [KeySet -> SUBSET Readings]
  BY DEF IInv, Shapes
<1>4. Advancing'
  BY <1>2, AdvancingStays
<1>5. parameter' \in [KeySet -> Readings] /\ had' \in [KeySet -> SUBSET Readings]
  BY <1>1, <1>2, <1>3
<1>6. Shapes'
  BY <1>2, <1>5 DEF IInv, Shapes, Entry
<1>7. \A j \in KeySet : had[j] \subseteq had'[j] /\ parameter'[j] \in had'[j]
  BY <1>1, <1>2, <1>3 DEF IInv, HadIt
<1>8. HadIt'
  BY <1>2, <1>7 DEF IInv, HadIt
<1> QED
  BY <1>4, <1>6, <1>8 DEF IInv

LEMMA StepRestart ==
    ASSUME IInv, Restart
    PROVE  IInv'
<1>1. /\ observation' = [k \in KeySet |-> Unasked] /\ offset' = 0
      /\ request' = [k \in KeySet |-> None] /\ waited' = [k \in KeySet |-> 0]
      /\ UNCHANGED <<parameter, had>>
  BY DEF Restart, node
<1>2. Len(Keys) \in Nat \ {0} /\ PerTick \in Nat
  BY KeyFacts, EnvelopeAssumption
<1>3. Shapes'
  <2>1. \A k \in KeySet : Entry(observation'[k])
    BY <1>1, Fresh
  <2> QED
    BY <1>1, <1>2, <2>1 DEF IInv, Shapes, Entry
<1>4. HadIt'
  BY <1>1, Fresh DEF IInv, HadIt, Available
<1>5. Advancing'
  <2>1. \A k \in KeySet : Place[k] \in 1..Len(Keys)
    BY KeyFacts
  <2>2. \A k \in KeySet : Rotated(k)' = Place[k]
    BY <1>1, <2>1 DEF Rotated
  <2> QED
    BY <1>1, <1>2, <2>1, <2>2 DEF Advancing
<1> QED
  BY <1>3, <1>4, <1>5 DEF IInv

LEMMA StepNodeEnds ==
    ASSUME IInv, NodeEnds
    PROVE  IInv'
<1>1. /\ UNCHANGED <<observation, offset, parameter, had, waited>>
      /\ request' = [k \in KeySet |-> IF request[k] = Asked THEN None ELSE request[k]]
  BY DEF NodeEnds, observer, history
<1>2. Advancing'
  BY <1>1, AdvancingStays
<1>3. request' \in [KeySet -> Readings \cup {None, Asked}]
  BY <1>1 DEF IInv, Shapes
<1>4. Shapes'
  BY <1>1, <1>3 DEF IInv, Shapes, Entry
<1>5. HadIt'
  BY <1>1 DEF IInv, HadIt
<1> QED
  BY <1>2, <1>4, <1>5 DEF IInv

LEMMA StepNodeStarts ==
    ASSUME IInv, NodeStarts
    PROVE  IInv'
<1>1. /\ UNCHANGED <<observation, offset, request, waited>>
      /\ parameter' = Origin /\ had' = [k \in KeySet |-> had[k] \cup {Origin[k]}]
  BY DEF NodeStarts, observer, calls
<1>2. Advancing'
  BY <1>1, AdvancingStays
<1>3. parameter' \in [KeySet -> Readings] /\ had' \in [KeySet -> SUBSET Readings]
  BY <1>1, EnvelopeAssumption DEF IInv, Shapes, Readings
<1>4. Shapes'
  BY <1>1, <1>3 DEF IInv, Shapes, Entry
<1>5. HadIt'
  BY <1>1 DEF IInv, HadIt
<1> QED
  BY <1>2, <1>4, <1>5 DEF IInv

LEMMA StepPass ==
    ASSUME IInv, Pass
    PROVE  IInv'
<1>1. /\ UNCHANGED <<offset, request, parameter, had, waited>>
      /\ observation' = [k \in KeySet |->
            [observation[k] EXCEPT !.left = IF observation[k].left = 0 THEN 0 ELSE observation[k].left - 1]]
  BY DEF Pass, calls, node, history
<1>2. Advancing'
  BY <1>1, AdvancingStays
<1>3. \A k \in KeySet :
        /\ Entry(observation'[k])
        /\ Available(observation'[k]) <=> Available(observation[k])
        /\ observation'[k].value = observation[k].value
  <2> SUFFICES ASSUME NEW k \in KeySet
               PROVE  /\ Entry(observation'[k])
                      /\ Available(observation'[k]) <=> Available(observation[k])
                      /\ observation'[k].value = observation[k].value
    OBVIOUS
  <2>1. Entry(observation[k])
    BY DEF IInv, Shapes
  <2> DEFINE o == observation[k]
             o2 == observation'[k]
  <2>2. o2 = [o EXCEPT !.left = IF o.left = 0 THEN 0 ELSE o.left - 1]
    BY <1>1
  <2> HIDE DEF o, o2
  <2>3. /\ o2 = [detail |-> o.detail, value |-> o.value, left |-> IF o.left = 0 THEN 0 ELSE o.left - 1]
        /\ o.left \in 0..Timeout /\ o.detail \in Details /\ o.value \in Values \cup {None}
    BY <2>1, <2>2 DEF Entry, o
  <2>4. (IF o.left = 0 THEN 0 ELSE o.left - 1) \in 0..Timeout
    BY <2>3, EnvelopeAssumption
  <2>5. /\ o2.detail = o.detail /\ o2.value = o.value
        /\ o2 \in [detail : Details, value : Values \cup {None}, left : 0..Timeout]
    BY <2>3, <2>4
  <2> QED
    BY <2>1, <2>5 DEF Entry, Available, o, o2
<1>4. Shapes'
  BY <1>1, <1>3 DEF IInv, Shapes, Entry
<1>5. HadIt'
  BY <1>1, <1>3 DEF IInv, HadIt, Available
<1> QED
  BY <1>2, <1>4, <1>5 DEF IInv

LEMMA StepSuperseded ==
    ASSUME IInv, CompleteSuperseded \/ AnswerSuperseded
    PROVE  IInv'
<1>1. UNCHANGED <<observation, offset, request, parameter, had, waited>>
  BY DEF CompleteSuperseded, AnswerSuperseded, Resolves, observer, node, history
<1>2. Advancing'
  BY <1>1, AdvancingStays
<1>3. Shapes' /\ HadIt'
  BY <1>1 DEF IInv, Shapes, HadIt, Entry, Available
<1> QED
  BY <1>2, <1>3 DEF IInv

LEMMA InvStep == IInv /\ [Next]_vars => IInv'
<1> SUFFICES ASSUME IInv, [Next]_vars PROVE IInv'
  OBVIOUS
<1>1. ASSUME NEW ready \in BOOLEAN, Tick(ready) PROVE IInv'
  BY <1>1, StepTick
<1>2. ASSUME NEW k \in KeySet, Complete(k) \/ Answer(k) PROVE IInv'
  BY <1>2, StepComplete, StepAnswer
<1>3. CASE CompleteSuperseded \/ AnswerSuperseded
  BY <1>3, StepSuperseded
<1>4. ASSUME NEW k \in Drifting, SetParameter(k) PROVE IInv'
  <2>1. k \in KeySet
    BY <1>4, EnvelopeAssumption
  <2> QED
    BY <1>4, <2>1, StepSetParameter
<1>5. CASE Restart
  BY <1>5, StepRestart
<1>6. CASE NodeEnds
  BY <1>6, StepNodeEnds
<1>7. CASE NodeStarts
  BY <1>7, StepNodeStarts
<1>8. CASE Pass
  BY <1>8, StepPass
<1>9. CASE UNCHANGED vars
  <2>1. UNCHANGED <<observation, offset, request, parameter, had, waited>>
    BY <1>9 DEF vars, observer, calls, node, history
  <2>2. Advancing'
    BY <2>1, AdvancingStays
  <2>3. Shapes' /\ HadIt'
    BY <2>1 DEF IInv, Shapes, HadIt, Entry, Available
  <2> QED
    BY <2>2, <2>3 DEF IInv
<1> QED
  BY <1>1, <1>2, <1>3, <1>4, <1>5, <1>6, <1>7, <1>8, <1>9 DEF Next

-----------------------------------------------------------------------------
(* The theorems.                                                           *)

LEMMA InvHolds == Spec => []IInv
<1> QED
  BY InvInit, InvStep, PTL DEF Spec

LEMMA IInvIsTrue == IInv => Inv
<1> SUFFICES ASSUME IInv PROVE Inv
  OBVIOUS
<1>1. \A k \in KeySet : Entry(observation[k])
  BY DEF IInv, Shapes
<1>2. TypeOK
  BY <1>1 DEF IInv, Shapes, TypeOK, Entry, Details
<1>3. \A k \in KeySet : Available(Entries[k]) => Entries[k].value \in had[k]
  <2> SUFFICES ASSUME NEW k \in KeySet, Available(Entries[k])
               PROVE  Entries[k].value \in had[k]
    OBVIOUS
  <2>1. Entries[k] = Expired(observation[k])
    BY DEF Entries
  <2>2. Available(observation[k]) /\ Entries[k] = observation[k]
    BY <1>1, <2>1, ExpiredFacts
  <2> QED
    BY <2>2 DEF IInv, HadIt
<1>4. SummaryIsTrue
  <2> SUFFICES ASSUME AllAvailable(Entries), ~AnyDivergence(Entries), NEW k \in KeySet
               PROVE  Origin[k] \in had[k]
    BY DEF SummaryIsTrue
  <2>1. Available(Entries[k]) /\ Divergence(Entries[k], Origin[k]) # "different"
    BY DEF AllAvailable, AnyDivergence
  <2>2. Entries[k].value = Origin[k]
    BY <2>1 DEF Divergence
  <2> QED
    BY <1>3, <2>1, <2>2
<1> QED
  BY <1>2, <1>3, <1>4 DEF Inv, ReportIsTrue

LEMMA IInvAsksAll == IInv => EveryKeyAsked
<1> SUFFICES ASSUME IInv, NEW k \in KeySet PROVE waited[k] * PerTick < Len(Keys)
  BY DEF EveryKeyAsked
<1>1. Rotated(k) \in 1..Len(Keys) /\ waited[k] \in Nat /\ PerTick \in Nat /\ Len(Keys) \in Nat
  BY RotatedFacts, KeyFacts, EnvelopeAssumption DEF IInv, Shapes
<1>2. waited[k] * PerTick \in Nat
  BY <1>1
<1>3. waited[k] * PerTick + Rotated(k) <= Len(Keys)
  BY DEF IInv, Advancing
<1> QED
  BY <1>1, <1>2, <1>3

\* Every entry of a status message keeps its shape, and what it shows of a key,
\* match or difference, was true of the node since the key was asked last, however
\* answers are delayed, overtaken or lost and whoever is launched anew; a message
\* that says nothing differs says it of values the node had (resolve, _publish).
THEOREM StatusIsTrue == Spec => []Inv
BY InvHolds, IInvIsTrue, PTL

\* Whatever keys are in flight, the rotation reaches each: a key that is neither
\* asked nor in flight has waited less than Len(Keys) / PerTick ticks (_tick).
THEOREM RotationReachesAll == Spec => []EveryKeyAsked
BY InvHolds, IInvAsksAll, PTL
=============================================================================
