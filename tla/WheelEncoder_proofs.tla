------------------------- MODULE WheelEncoder_proofs -------------------------
(***************************************************************************)
(* Proofs about WheelEncoder and its GpioReader, for every value of their  *)
(* constants.                                                              *)
(***************************************************************************)
EXTENDS WheelEncoder, FiniteSetTheorems, SequenceTheorems, TLAPS

-----------------------------------------------------------------------------
(* The inductive invariant of the reader: what each phase has acquired.    *)

Acquired ==
    /\ phase = "opening" => open = matches /\ ~line /\ thread = "none"
    /\ phase = "opened" => open = matches /\ Cardinality(open) = 1 /\ ~line /\ thread = "none"
    /\ phase = "requested" => open = matches /\ Cardinality(open) = 1 /\ line /\ thread = "none"
    /\ phase \in {"running", "closing"} =>
         open = matches /\ Cardinality(open) = 1 /\ line /\ thread # "none"
    /\ phase \in {"failed", "closed"} => ~line /\ thread = "none" /\ open \subseteq {chip}

ReaderInv == ReaderType /\ Acquired

-----------------------------------------------------------------------------
(* The inductive invariant of the state.                                   *)

States ==
    [ edges : Seq(Times), last : Times \union {None}, stationary : BOOLEAN,
      active : Directions, pending : Directions ]

EncoderType ==
    /\ now \in Times /\ clock \in Times \union {None}
    /\ queue \in Seq(Times) /\ Len(queue) <= QueueCapacity
    /\ state \in States /\ Len(state.edges) <= HistoryDepth + 1
    /\ accepted \in Seq(Times)
    /\ sample.stationary \in BOOLEAN

\* Time runs through the edges recorded, those that wait, and the clock.
InOrder ==
    /\ \A i, j \in 1..Len(accepted) : i <= j => accepted[i] <= accepted[j]
    /\ \A i \in 1..Len(accepted), j \in 1..Len(queue) : accepted[i] <= queue[j]
    /\ \A i, j \in 1..Len(queue) : i <= j => queue[i] <= queue[j]
    /\ \A i \in 1..Len(accepted) : accepted[i] <= now
    /\ \A i \in 1..Len(queue) : queue[i] <= now

\* The last edge of the state is the last recorded, unless the clock made the
\* state forget it; the history ends with it.
LastIsLast ==
    /\ state.last # None => Len(accepted) > 0 /\ accepted[Len(accepted)] = state.last
    /\ Len(state.edges) > 0 => state.last # None

\* The state forgets an edge only for a clock behind it.
ForgottenIsOvertaken == overtaken <=> (state.last = None /\ Len(accepted) > 0)

\* An epoch may begin at the next edge only after a measurement said stationary.
RestIsSaid ==
    state.stationary \/ state.last = None => accepted = <<>> \/ sample.stationary

IInv ==
    /\ ReaderInv
    /\ EncoderType /\ InOrder /\ LastIsLast /\ ForgottenIsOvertaken /\ RestIsSaid
    /\ NoStopInHistory

-----------------------------------------------------------------------------
(* The reader. *)

LEMMA ReaderInitially == ReaderInit => ReaderInv
<1> SUFFICES ASSUME ReaderInit PROVE ReaderInv
  OBVIOUS
<1>1. 1 \in 1..ChipCount + 1
  BY ReaderAssumption
<1> QED
  BY <1>1 DEF ReaderInit, ReaderInv, ReaderType, Acquired, Phases

LEMMA ReaderStep ==
    ASSUME ReaderInv, ReaderNext
    PROVE  ReaderInv'
<1> USE DEF ReaderInv, ReaderType, Acquired, Phases
<1>1. CASE ChipOther
  BY <1>1, ReaderAssumption DEF ChipOther
<1>2. CASE ChipMatches
  <2>1. chip \in 1..ChipCount /\ chip + 1 \in 1..ChipCount + 1
    BY <1>2, ReaderAssumption DEF ChipMatches
  <2> QED
    BY <1>2, <2>1 DEF ChipMatches
<1>3. CASE ChipRaises
  <2>1. PICK opened \in {{}, {chip}} : open' = (open \ matches) \union opened
    BY <1>3 DEF ChipRaises, RaisesWithout
  <2>2. chip \in 1..ChipCount /\ open = matches
    BY <1>3, ReaderAssumption DEF ChipRaises
  <2>3. open' \subseteq {chip} /\ open' \subseteq 1..ChipCount
    BY <2>1, <2>2
  <2> QED
    BY <1>3, <2>3 DEF ChipRaises
<1>4. CASE FoundOne
  BY <1>4 DEF FoundOne
<1>5. CASE FoundNotOne
  <2>1. open' = {}
    BY <1>5 DEF FoundNotOne, RaisesWithout
  <2> QED
    BY <1>5, <2>1 DEF FoundNotOne
<1>6. CASE RequestLine
  BY <1>6 DEF RequestLine
<1>7. CASE StartThread
  BY <1>7 DEF StartThread
<1>8. CASE SetupRaises
  BY <1>8 DEF SetupRaises, Released
<1>9. CASE ThreadStops \/ ReadRaises
  BY <1>9 DEF ThreadStops, ReadRaises
<1>10. CASE Close
  BY <1>10 DEF Close, Ready
<1>11. CASE Joined
  BY <1>11 DEF Joined, Released
<1> QED
  BY <1>1, <1>2, <1>3, <1>4, <1>5, <1>6, <1>7, <1>8, <1>9, <1>10, <1>11 DEF ReaderNext

LEMMA ReaderTakesEvent ==
    ASSUME ReaderInv, EventTaken,
           UNCHANGED <<phase, chip, matches, open, line, stop>>
    PROVE  ReaderInv'
BY DEF ReaderInv, ReaderType, Acquired, Phases, EventTaken

LEMMA ReaderSafe ==
    ASSUME ReaderInv
    PROVE  ReaderType /\ ThreadOwnsLine /\ NothingIsKept
BY DEF ReaderInv, ReaderType, Acquired, ThreadOwnsLine, NothingIsKept, Phases

-----------------------------------------------------------------------------
(* The history of edges. *)

\* s is the end of t.
Ends(s, t) ==
    /\ Len(s) <= Len(t)
    /\ \A i \in 1..Len(s) : s[i] = t[Len(t) - Len(s) + i]

\* Pruning keeps an end, never an empty one of a history that is not empty.
LEMMA PrunedEnds ==
    ASSUME NEW S, NEW edges \in Seq(S), NEW reference \in Int
    PROVE  LET p == Pruned(edges, reference) IN
           /\ p \in Seq(S)
           /\ Ends(p, edges)
           /\ Len(edges) > 0 => Len(p) > 0
<1> DEFINE old == { i \in DOMAIN edges : i < Len(edges) /\ edges[i] < reference - MaxLookback }
           k == Cardinality(old)
           p == SubSeq(edges, k + 1, Len(edges))
<1>1. Len(edges) \in Nat /\ DOMAIN edges = 1..Len(edges)
  BY LenProperties
<1>2. CASE Len(edges) = 0
  <2>1. old = {} /\ k = 0
    <3>1. old = {}
      BY <1>1, <1>2
    <3> QED
      BY <3>1, FS_EmptySet
  <2> HIDE DEF old, k
  <2>2. p \in Seq(S) /\ Len(p) = 0
    BY <1>1, <1>2, <2>1, SubSeqProperties
  <2>3. Ends(p, edges)
    BY <1>2, <2>2 DEF Ends
  <2>4. p = Pruned(edges, reference)
    BY DEF Pruned, p, k, old
  <2> QED
    BY <1>2, <2>2, <2>3, <2>4
<1>3. CASE Len(edges) > 0
  <2>1. k \in 0..(Len(edges) - 1)
    <3>1. old \subseteq 1..(Len(edges) - 1)
      BY <1>1
    <3>2. /\ IsFiniteSet(1..(Len(edges) - 1))
          /\ Cardinality(1..(Len(edges) - 1)) = Len(edges) - 1
      BY <1>1, <1>3, FS_Interval
    <3>3. IsFiniteSet(old) /\ k <= Len(edges) - 1
      BY <3>1, <3>2, FS_Subset
    <3>4. k \in Nat
      BY <3>3, FS_CardinalityType
    <3> QED
      BY <1>1, <3>3, <3>4
  <2> HIDE DEF old, k
  <2>2. /\ p \in Seq(S) /\ Len(p) = Len(edges) - k
        /\ \A i \in 1..Len(p) : p[i] = edges[k + i]
    BY <1>1, <1>3, <2>1, SubSeqProperties
  <2>3. Ends(p, edges) /\ Len(p) > 0
    BY <1>1, <1>3, <2>1, <2>2 DEF Ends
  <2>4. p = Pruned(edges, reference)
    BY DEF Pruned, p, k, old
  <2> QED
    BY <2>2, <2>3, <2>4
<1> QED
  BY <1>1, <1>2, <1>3

LEMMA TailEnds ==
    ASSUME NEW S, NEW s \in Seq(S), Len(s) > 0
    PROVE  Tail(s) \in Seq(S) /\ Ends(Tail(s), s) /\ Len(Tail(s)) = Len(s) - 1
<1>1. /\ Tail(s) \in Seq(S) /\ Len(Tail(s)) = Len(s) - 1
      /\ \A i \in 1..Len(Tail(s)) : Tail(s)[i] = s[i + 1]
  BY HeadTailProperties
<1> QED
  BY <1>1 DEF Ends

LEMMA KeptEnds ==
    ASSUME NEW S, NEW edges \in Seq(S), Len(edges) <= HistoryDepth + 2
    PROVE  /\ Kept(edges) \in Seq(S)
           /\ Ends(Kept(edges), edges)
           /\ Len(Kept(edges)) <= HistoryDepth + 1
           /\ Len(edges) > 0 => Len(Kept(edges)) > 0
<1>1. HistoryDepth \in Nat /\ Len(edges) \in Nat
  BY EncoderAssumption DEF ValidHistoryDepth
<1>2. CASE Len(edges) > HistoryDepth + 1
  BY <1>1, <1>2, TailEnds DEF Kept
<1>3. CASE ~(Len(edges) > HistoryDepth + 1)
  BY <1>1, <1>3 DEF Kept, Ends
<1> QED
  BY <1>2, <1>3

LEMMA LastFewEnds ==
    ASSUME NEW S, NEW edges \in Seq(S)
    PROVE  /\ LastFew(edges) \in Seq(S)
           /\ Ends(LastFew(edges), edges)
           /\ Len(LastFew(edges)) >= Len(edges) \/ Len(LastFew(edges)) >= HistoryDepth + 2
           /\ Len(edges) > 0 => Len(LastFew(edges)) > 0
<1>1. HistoryDepth \in Nat /\ Len(edges) \in Nat
  BY EncoderAssumption DEF ValidHistoryDepth
<1>2. CASE Len(edges) > HistoryDepth + 2
  BY <1>1, <1>2, TailEnds DEF LastFew
<1>3. CASE ~(Len(edges) > HistoryDepth + 2)
  BY <1>1, <1>3 DEF LastFew, Ends
<1> QED
  BY <1>2, <1>3

LEMMA EndsTransitive ==
    ASSUME NEW S, NEW s \in Seq(S), NEW t \in Seq(S), NEW u \in Seq(S),
           Ends(s, t), Ends(t, u)
    PROVE  Ends(s, u)
BY DEF Ends

\* Of two ends of one sequence the shorter ends the longer.
LEMMA EndsNested ==
    ASSUME NEW S, NEW s \in Seq(S), NEW t \in Seq(S), NEW u \in Seq(S),
           Ends(s, u), Ends(t, u), Len(s) <= Len(t)
    PROVE  Ends(s, t)
BY DEF Ends

LEMMA EndsAppend ==
    ASSUME NEW S, NEW s \in Seq(S), NEW t \in Seq(S), NEW e \in S, Ends(s, t)
    PROVE  Ends(Append(s, e), Append(t, e))
BY DEF Ends

LEMMA EndsLast ==
    ASSUME NEW S, NEW s \in Seq(S), NEW t \in Seq(S), Ends(s, t), Len(s) > 0
    PROVE  Len(t) > 0 /\ s[Len(s)] = t[Len(t)]
BY DEF Ends

\* No pause in s is as long as the timeout.
Gaps(s) == \A i \in 2..Len(s) : s[i] - s[i - 1] \in MinEdgeInterval..(StationaryTimeout - 1)

LEMMA EndsGaps ==
    ASSUME NEW s \in Seq(Times), NEW t \in Seq(Times), Ends(s, t), Gaps(t)
    PROVE  Gaps(s)
<1> SUFFICES ASSUME NEW i \in 2..Len(s)
             PROVE  s[i] - s[i - 1] \in MinEdgeInterval..(StationaryTimeout - 1)
  BY DEF Gaps
<1>1. /\ i \in 1..Len(s) /\ i - 1 \in 1..Len(s)
      /\ Len(s) \in Nat /\ Len(t) \in Nat /\ Len(s) <= Len(t)
  BY DEF Ends
<1> DEFINE k == Len(t) - Len(s) + i
<1>2. s[i] = t[k] /\ s[i - 1] = t[k - 1] /\ k \in 2..Len(t)
  <2>1. s[i] = t[Len(t) - Len(s) + i] /\ s[i - 1] = t[Len(t) - Len(s) + (i - 1)]
    BY <1>1 DEF Ends
  <2>2. k \in 2..Len(t) /\ Len(t) - Len(s) + (i - 1) = k - 1
    BY <1>1
  <2> QED
    BY <2>1, <2>2
<1> HIDE DEF k
<1> QED
  BY <1>2 DEF Gaps

LEMMA NoStopMeans ==
    ASSUME EncoderType
    PROVE  NoStopInHistory <=> Ends(state.edges, accepted) /\ Gaps(state.edges)
BY DEF NoStopInHistory, Ends, Gaps, EncoderType, States

\* What record_edge leaves of the history, and what the history variable keeps.
LEMMA NextEdge ==
    ASSUME NEW edges \in Seq(Times), NEW acc \in Seq(Times), NEW e \in Times,
           Ends(edges, acc), Gaps(edges), Len(edges) <= HistoryDepth + 1,
           Len(edges) > 0 => e - edges[Len(edges)] \in MinEdgeInterval..(StationaryTimeout - 1)
    PROVE  LET new == Pruned(Kept(Append(edges, e)), e)
               all == LastFew(Append(acc, e)) IN
           /\ new \in Seq(Times) /\ Len(new) <= HistoryDepth + 1 /\ Len(new) > 0
           /\ all \in Seq(Times) /\ Ends(all, Append(acc, e))
           /\ Ends(new, all) /\ Gaps(new)
<1> DEFINE ap == Append(edges, e)
           ac == Append(acc, e)
           kp == Kept(ap)
           new == Pruned(kp, e)
           all == LastFew(ac)
<1>1. HistoryDepth \in Nat /\ Len(edges) \in Nat /\ Len(acc) \in Nat /\ e \in Int
  BY EncoderAssumption DEF ValidHistoryDepth, Times
<1>2. /\ ap \in Seq(Times) /\ Len(ap) = Len(edges) + 1
      /\ ac \in Seq(Times) /\ Len(ac) = Len(acc) + 1
  OBVIOUS
<1>3. Ends(ap, ac)
  BY EndsAppend
<1>4. Gaps(ap)
  <2> SUFFICES ASSUME NEW i \in 2..Len(ap)
               PROVE  ap[i] - ap[i - 1] \in MinEdgeInterval..(StationaryTimeout - 1)
    BY DEF Gaps
  <2>1. CASE i <= Len(edges)
    <3>1. i \in 2..Len(edges) /\ ap[i] = edges[i] /\ ap[i - 1] = edges[i - 1]
      BY <1>1, <1>2, <2>1
    <3> QED
      BY <3>1 DEF Gaps
  <2>2. CASE i = Len(edges) + 1
    <3>1. ap[i] = e /\ ap[i - 1] = edges[Len(edges)] /\ Len(edges) > 0
      BY <1>1, <1>2, <2>2
    <3> QED
      BY <3>1
  <2> QED
    BY <1>1, <1>2, <2>1, <2>2
<1> HIDE DEF ap, ac
<1>5. /\ kp \in Seq(Times) /\ Ends(kp, ap)
      /\ Len(kp) <= HistoryDepth + 1 /\ Len(kp) > 0
  BY <1>1, <1>2, KeptEnds
<1> HIDE DEF kp
<1>6. new \in Seq(Times) /\ Ends(new, kp) /\ Len(new) > 0
  BY <1>1, <1>5, PrunedEnds
<1>7. /\ all \in Seq(Times) /\ Ends(all, ac)
      /\ Len(all) >= Len(ac) \/ Len(all) >= HistoryDepth + 2
  BY <1>2, LastFewEnds
<1> HIDE DEF new, all
<1>8. Len(new) \in Nat /\ Len(kp) \in Nat /\ Len(new) <= Len(kp)
  BY <1>5, <1>6 DEF Ends
<1>9. Ends(new, ap) /\ Ends(new, ac)
  BY <1>2, <1>3, <1>5, <1>6, EndsTransitive
<1>10. Len(new) <= Len(all)
  <2>1. Len(all) \in Nat /\ Len(ac) \in Nat /\ Len(new) <= Len(ac)
    BY <1>2, <1>7, <1>9 DEF Ends
  <2> QED
    BY <1>1, <1>5, <1>7, <1>8, <2>1
<1>11. Ends(new, all)
  BY <1>2, <1>6, <1>7, <1>9, <1>10, EndsNested
<1>12. Gaps(new)
  BY <1>2, <1>4, <1>6, <1>9, EndsGaps
<1>13. Len(new) <= HistoryDepth + 1
  BY <1>1, <1>5, <1>8
<1> QED
  BY <1>6, <1>7, <1>11, <1>12, <1>13 DEF new, all, kp, ap, ac

-----------------------------------------------------------------------------
(* The invariant holds initially and is kept by every step.                *)

LEMMA InvInit == Init => IInv
<1> SUFFICES ASSUME Init PROVE IInv
  OBVIOUS
<1>1. ReaderInv
  BY ReaderInitially DEF Init
<1>2. Len(state.edges) = 0 /\ Len(queue) = 0 /\ Len(accepted) = 0
  BY DEF Init
<1>3. EncoderType
  BY EncoderAssumption DEF Init, EncoderType, States, Times, Directions, ValidHistoryDepth, None
<1>4. InOrder /\ LastIsLast /\ ForgottenIsOvertaken /\ RestIsSaid /\ NoStopInHistory
  BY <1>2 DEF Init, InOrder, LastIsLast, ForgottenIsOvertaken, RestIsSaid, NoStopInHistory
<1> QED
  BY <1>1, <1>3, <1>4 DEF IInv

\* What no step of the reader and no step that leaves the encoder alone touches.
LEMMA EncoderUnchanged ==
    ASSUME IInv, UNCHANGED encoderVars
    PROVE  (EncoderType /\ InOrder /\ LastIsLast /\ ForgottenIsOvertaken /\ RestIsSaid /\ NoStopInHistory)'
BY DEF IInv, encoderVars, EncoderType, InOrder, LastIsLast, ForgottenIsOvertaken, RestIsSaid,
       NoStopInHistory

LEMMA ReaderUnchanged ==
    ASSUME IInv, UNCHANGED readerVars
    PROVE  ReaderInv'
BY DEF IInv, readerVars, ReaderInv, ReaderType, Acquired

LEMMA EdgesAreTimes ==
    ASSUME IInv
    PROVE  /\ now \in Int
           /\ \A i \in 1..Len(accepted) : accepted[i] \in Times /\ accepted[i] \in Int
           /\ \A i \in 1..Len(queue) : queue[i] \in Times /\ queue[i] \in Int
           /\ \A i \in 1..Len(state.edges) : state.edges[i] \in Times /\ state.edges[i] \in Int
<1>1. now \in Times /\ accepted \in Seq(Times) /\ queue \in Seq(Times) /\ state.edges \in Seq(Times)
  BY DEF IInv, EncoderType, States
<1>2. \A t \in Times : t \in Int
  BY DEF Times
<1> QED
  BY <1>1, <1>2

LEMMA StepTick ==
    ASSUME IInv, Tick
    PROVE  IInv'
<1>1. ReaderInv'
  BY ReaderUnchanged DEF Tick
<1>2. now \in Times /\ now' = now + 1 /\ now' \in Times
  BY EncoderAssumption DEF IInv, EncoderType, Tick, Times
<1>3. UNCHANGED <<queue, state, clock, sample, accepted, overtaken>>
  BY DEF Tick
<1>4. EncoderType' /\ LastIsLast' /\ ForgottenIsOvertaken' /\ RestIsSaid' /\ NoStopInHistory'
  BY <1>2, <1>3 DEF IInv, EncoderType, LastIsLast, ForgottenIsOvertaken, RestIsSaid, NoStopInHistory
<1>5. /\ \A i \in 1..Len(accepted) : accepted[i] \in Int
      /\ \A i \in 1..Len(queue) : queue[i] \in Int
  BY EdgesAreTimes
<1>6. InOrder'
  BY <1>2, <1>3, <1>5 DEF IInv, InOrder, Times
<1> QED
  BY <1>1, <1>4, <1>6 DEF IInv

LEMMA StepWheelEdge ==
    ASSUME IInv, WheelEdge
    PROVE  IInv'
<1>1. ReaderInv'
  BY ReaderUnchanged DEF WheelEdge
<1>2. UNCHANGED <<now, state, clock, sample, accepted, overtaken>>
  BY DEF WheelEdge
<1>3. /\ now \in Times /\ queue \in Seq(Times) /\ queue' = Append(queue, now)
      /\ Len(queue) < QueueCapacity
  BY DEF IInv, EncoderType, WheelEdge
<1>4. /\ queue' \in Seq(Times) /\ Len(queue') = Len(queue) + 1
      /\ \A i \in 1..Len(queue) : queue'[i] = queue[i]
      /\ queue'[Len(queue) + 1] = now
      /\ Len(queue) \in Nat
  BY <1>3
<1>5. EncoderType' /\ LastIsLast' /\ ForgottenIsOvertaken' /\ RestIsSaid' /\ NoStopInHistory'
  <2>1. Len(queue') <= QueueCapacity
    BY <1>3, <1>4, EncoderAssumption
  <2> QED
    BY <1>2, <1>4, <2>1 DEF IInv, EncoderType, LastIsLast, ForgottenIsOvertaken, RestIsSaid, NoStopInHistory
<1>6. InOrder'
  <2>1. /\ \A i \in 1..Len(accepted) : accepted[i] \in Int /\ accepted[i] <= now
        /\ \A i \in 1..Len(queue) : queue[i] \in Int /\ queue[i] <= now
        /\ now \in Int
    BY EdgesAreTimes DEF IInv, InOrder
  <2>2. \A i \in 1..Len(queue') : i \in 1..Len(queue) \/ (i = Len(queue) + 1 /\ queue'[i] = now)
    BY <1>4
  <2>3. \A i \in 1..Len(queue') : queue'[i] <= now
    BY <1>4, <2>1, <2>2
  <2>4. \A i \in 1..Len(accepted), j \in 1..Len(queue') : accepted[i] <= queue'[j]
    BY <1>4, <2>1, <2>2 DEF IInv, InOrder
  <2>5. \A i, j \in 1..Len(queue') : i <= j => queue'[i] <= queue'[j]
    <3> SUFFICES ASSUME NEW i \in 1..Len(queue'), NEW j \in 1..Len(queue'), i <= j
                 PROVE  queue'[i] <= queue'[j]
      OBVIOUS
    <3>1. CASE j \in 1..Len(queue)
      <4>1. i \in 1..Len(queue)
        BY <1>4, <3>1
      <4> QED
        BY <1>4, <3>1, <4>1 DEF IInv, InOrder
    <3>2. CASE j = Len(queue) + 1 /\ queue'[j] = now
      BY <2>3, <3>2
    <3> QED
      BY <2>2, <3>1, <3>2
  <2>6. accepted' = accepted /\ now' = now
    BY <1>2
  <2>7. /\ \A i, j \in 1..Len(accepted) : i <= j => accepted[i] <= accepted[j]
        /\ \A i \in 1..Len(accepted) : accepted[i] <= now
    BY DEF IInv, InOrder
  <2> QED
    BY <2>3, <2>4, <2>5, <2>6, <2>7 DEF InOrder
<1> QED
  BY <1>1, <1>5, <1>6 DEF IInv

\* record_edge: what the thread leaves of the state when it takes an edge.
LEMMA TakenEdge ==
    ASSUME IInv, ReadEvents
    PROVE  LET e == Head(queue)
               begins == state.stationary \/ GapConfirmsStop(state, e) IN
           \/ state' = state /\ accepted' = accepted /\ ~overtaken' /\ state.last # None
           \/ /\ ~TooShort(state, e) /\ ~overtaken'
              /\ state' \in States /\ Len(state'.edges) <= HistoryDepth + 1
              /\ state'.last = e /\ state'.last # None /\ ~state'.stationary
              /\ state'.active = IF begins THEN state.pending ELSE state.active
              /\ accepted' \in Seq(Times) /\ Ends(accepted', Append(accepted, e))
              /\ Len(accepted') > 0 /\ accepted'[Len(accepted')] = e
              /\ Ends(state'.edges, accepted') /\ Gaps(state'.edges)
<1> DEFINE e == Head(queue)
           begins == state.stationary \/ GapConfirmsStop(state, e)
           edges == IF begins THEN <<>> ELSE state.edges
           new == Pruned(Kept(Append(edges, e)), e)
<1>1. state' = Recorded(state, e)
  BY DEF ReadEvents
<1>2. CASE TooShort(state, e)
  <2>1. state' = state /\ accepted' = accepted /\ state.last # None
    BY <1>1, <1>2 DEF ReadEvents, Recorded, TooShort
  <2>2. ~overtaken'
    BY <2>1 DEF ReadEvents, IInv, ForgottenIsOvertaken
  <2> QED
    BY <2>1, <2>2
<1>3. CASE ~TooShort(state, e)
  <2>1. /\ queue \in Seq(Times) /\ accepted \in Seq(Times)
        /\ state \in States /\ state.edges \in Seq(Times)
        /\ Len(state.edges) <= HistoryDepth + 1
    BY DEF IInv, EncoderType, States
  <2>2. e \in Times
    BY <2>1 DEF ReadEvents
  <2>3. Ends(state.edges, accepted) /\ Gaps(state.edges)
    BY NoStopMeans DEF IInv
  <2>4. Len(state.edges) > 0 /\ ~begins =>
          e - state.edges[Len(state.edges)] \in MinEdgeInterval..(StationaryTimeout - 1)
    <3> SUFFICES ASSUME Len(state.edges) > 0, ~begins
                 PROVE  e - state.edges[Len(state.edges)] \in MinEdgeInterval..(StationaryTimeout - 1)
      OBVIOUS
    <3>1. state.edges[Len(state.edges)] = state.last
      BY <2>1, <2>3, EndsLast DEF IInv, LastIsLast
    <3>2. state.last # None /\ e - state.last >= MinEdgeInterval
             /\ e - state.last < StationaryTimeout
      <4>1. state.last # None /\ state.last \in Int /\ e \in Int
        BY <2>1, <2>2 DEF GapConfirmsStop, States, Times, None
      <4>2. MinEdgeInterval \in Int /\ StationaryTimeout \in Int
        BY EncoderAssumption DEF ValidStationaryTimeout
      <4> QED
        BY <1>3, <4>1, <4>2 DEF TooShort, GapConfirmsStop
    <3>3. e \in Int /\ state.last \in Int
             /\ MinEdgeInterval \in Int /\ StationaryTimeout \in Int
      BY <2>1, <2>2, EncoderAssumption DEF States, Times, None, ValidStationaryTimeout
    <3> QED
      BY <3>1, <3>2, <3>3
  <2>5. /\ edges \in Seq(Times) /\ Ends(edges, accepted) /\ Gaps(edges)
        /\ Len(edges) <= HistoryDepth + 1
        /\ Len(edges) > 0 => e - edges[Len(edges)] \in MinEdgeInterval..(StationaryTimeout - 1)
    <3>1. CASE begins
      <4>1. edges = <<>> /\ Len(edges) = 0 /\ edges \in Seq(Times)
        BY <3>1
      <4>2. HistoryDepth \in Nat /\ Len(accepted) \in Nat
        BY <2>1, EncoderAssumption DEF ValidHistoryDepth
      <4> HIDE DEF edges
      <4>3. Ends(edges, accepted)
        BY <4>1, <4>2 DEF Ends
      <4>4. Gaps(edges)
        BY <4>1 DEF Gaps
      <4> QED
        BY <4>1, <4>2, <4>3, <4>4
    <3>2. CASE ~begins
      <4>1. edges = state.edges
        BY <3>2
      <4> QED
        BY <2>1, <2>3, <2>4, <3>2, <4>1
    <3> QED
      BY <3>1, <3>2
  <2> HIDE DEF edges
  <2>6. /\ new \in Seq(Times) /\ Len(new) <= HistoryDepth + 1
        /\ LastFew(Append(accepted, e)) \in Seq(Times)
        /\ Ends(LastFew(Append(accepted, e)), Append(accepted, e))
        /\ Len(new) > 0 /\ Ends(new, LastFew(Append(accepted, e))) /\ Gaps(new)
    BY <2>1, <2>2, <2>5, NextEdge
  <2>7. accepted' = LastFew(Append(accepted, e))
    BY <1>3 DEF ReadEvents
  <2>8. state' = [state EXCEPT !.active = IF begins THEN state.pending ELSE state.active,
                               !.stationary = FALSE, !.last = e, !.edges = new]
    BY <1>1, <1>3 DEF Recorded, edges
  <2> HIDE DEF new
  <2>9. Len(accepted') > 0 /\ accepted'[Len(accepted')] = e
    <3>1. /\ Append(accepted, e) \in Seq(Times)
          /\ Append(accepted, e)[Len(Append(accepted, e))] = e
      BY <2>1, <2>2
    <3>2. Len(accepted') > 0
      BY <2>6, <2>7 DEF Ends
    <3> QED
      BY <2>6, <2>7, <3>1, <3>2, EndsLast
  <2>10. (IF begins THEN state.pending ELSE state.active) \in Directions
    BY <2>1 DEF States
  <2> HIDE DEF begins
  <2>11. /\ state'.edges = new /\ state'.last = e /\ state'.stationary = FALSE
         /\ state'.active = IF begins THEN state.pending ELSE state.active
         /\ state' \in States
    BY <2>1, <2>2, <2>6, <2>8, <2>10 DEF States
  <2>12. e # None
    BY <2>2 DEF Times, None
  <2>13. ~overtaken'
    BY <1>3 DEF ReadEvents
  <2> QED
    BY <1>3, <2>6, <2>7, <2>9, <2>11, <2>12, <2>13 DEF begins
<1> QED
  BY <1>2, <1>3

\* An edge that leaves the queue for the history leaves time in order.
LEMMA OrderAfterEdge ==
    ASSUME IInv, ReadEvents,
           \/ accepted' = accepted
           \/ /\ accepted' \in Seq(Times)
              /\ Ends(accepted', Append(accepted, Head(queue)))
    PROVE  InOrder'
<1> DEFINE e == Head(queue)
           ap == Append(accepted, e)
<1>1. /\ queue \in Seq(Times) /\ Len(queue) > 0
      /\ accepted \in Seq(Times) /\ now' = now /\ queue' = Tail(queue)
  BY DEF IInv, EncoderType, ReadEvents
<1>2. /\ e = queue[1] /\ e \in Times /\ e \in Int /\ 1 \in 1..Len(queue)
  BY <1>1, EdgesAreTimes
<1>3. /\ queue' \in Seq(Times) /\ Len(queue') = Len(queue) - 1
      /\ \A i \in 1..Len(queue') : queue'[i] = queue[i + 1] /\ i + 1 \in 1..Len(queue)
  BY <1>1, HeadTailProperties
<1>4. /\ ap \in Seq(Times) /\ Len(ap) = Len(accepted) + 1 /\ Len(accepted) \in Nat
      /\ \A i \in 1..Len(accepted) : ap[i] = accepted[i]
      /\ ap[Len(accepted) + 1] = e
  BY <1>1, <1>2
<1>5. /\ \A i, j \in 1..Len(accepted) : i <= j => accepted[i] <= accepted[j]
      /\ \A i \in 1..Len(accepted), j \in 1..Len(queue) : accepted[i] <= queue[j]
      /\ \A i, j \in 1..Len(queue) : i <= j => queue[i] <= queue[j]
      /\ \A i \in 1..Len(accepted) : accepted[i] <= now
      /\ \A i \in 1..Len(queue) : queue[i] <= now
  BY DEF IInv, InOrder
<1> HIDE DEF ap
<1>6. \A i \in 1..Len(ap) : i \in 1..Len(accepted) \/ (i = Len(accepted) + 1 /\ ap[i] = e)
  BY <1>4
<1>7. \A j \in 1..Len(queue') : e <= queue'[j] /\ queue'[j] <= now
  <2> SUFFICES ASSUME NEW j \in 1..Len(queue')
               PROVE  e <= queue'[j] /\ queue'[j] <= now
    OBVIOUS
  <2>1. j + 1 \in 1..Len(queue) /\ 1 <= j + 1
    BY <1>3
  <2> QED
    BY <1>2, <1>3, <1>5, <2>1
<1>8. \A i \in 1..Len(ap) :
        /\ ap[i] <= now
        /\ \A j \in 1..Len(queue') : ap[i] <= queue'[j]
        /\ \A j \in 1..Len(ap) : i <= j => ap[i] <= ap[j]
  <2> SUFFICES ASSUME NEW i \in 1..Len(ap)
               PROVE  /\ ap[i] <= now
                      /\ \A j \in 1..Len(queue') : ap[i] <= queue'[j]
                      /\ \A j \in 1..Len(ap) : i <= j => ap[i] <= ap[j]
    OBVIOUS
  <2>1. CASE i \in 1..Len(accepted)
    <3>1. \A j \in 1..Len(queue') : ap[i] <= queue'[j]
      BY <1>3, <1>4, <1>5, <2>1
    <3>2. \A j \in 1..Len(ap) : i <= j => ap[i] <= ap[j]
      BY <1>2, <1>4, <1>5, <1>6, <2>1
    <3> QED
      BY <1>4, <1>5, <2>1, <3>1, <3>2
  <2>2. CASE i = Len(accepted) + 1 /\ ap[i] = e
    <3>1. \A j \in 1..Len(ap) : i <= j => ap[i] <= ap[j]
      BY <1>2, <1>4, <1>6, <2>2
    <3> QED
      BY <1>2, <1>5, <1>7, <2>2, <3>1
  <2> QED
    BY <1>6, <2>1, <2>2
<1>9. \A i, j \in 1..Len(queue') : i <= j => queue'[i] <= queue'[j]
  <2> SUFFICES ASSUME NEW i \in 1..Len(queue'), NEW j \in 1..Len(queue'), i <= j
               PROVE  queue'[i] <= queue'[j]
    OBVIOUS
  <2> QED
    BY <1>3, <1>5
<1>10. CASE accepted' = accepted
  <2>1. \A i \in 1..Len(accepted), j \in 1..Len(queue') : accepted[i] <= queue'[j]
    BY <1>3, <1>5
  <2> QED
    BY <1>1, <1>5, <1>7, <1>9, <1>10, <2>1 DEF InOrder
<1>11. CASE accepted' \in Seq(Times) /\ Ends(accepted', ap)
  <2> DEFINE k == Len(ap) - Len(accepted')
  <2>1. /\ Len(accepted') \in Nat /\ Len(ap) \in Nat /\ k \in Nat
        /\ \A i \in 1..Len(accepted') : accepted'[i] = ap[k + i] /\ k + i \in 1..Len(ap)
    BY <1>4, <1>11 DEF Ends
  <2> HIDE DEF k
  <2>2. \A i, j \in 1..Len(accepted') : i <= j => accepted'[i] <= accepted'[j]
    <3> SUFFICES ASSUME NEW i \in 1..Len(accepted'), NEW j \in 1..Len(accepted'), i <= j
                 PROVE  accepted'[i] <= accepted'[j]
      OBVIOUS
    <3>1. k + i <= k + j
      BY <2>1
    <3> QED
      BY <1>8, <2>1, <3>1
  <2>3. \A i \in 1..Len(accepted'), j \in 1..Len(queue') : accepted'[i] <= queue'[j]
    BY <1>8, <2>1
  <2>4. \A i \in 1..Len(accepted') : accepted'[i] <= now
    BY <1>8, <2>1
  <2> QED
    BY <1>1, <1>7, <1>9, <2>2, <2>3, <2>4 DEF InOrder
<1> QED
  BY <1>10, <1>11 DEF ap

LEMMA StepReadEvents ==
    ASSUME IInv, ReadEvents
    PROVE  IInv'
<1>1. ReaderInv'
  BY ReaderTakesEvent DEF IInv, ReadEvents
<1>2. InOrder'
  BY TakenEdge, OrderAfterEdge
<1>3. /\ queue \in Seq(Times) /\ Len(queue) > 0 /\ Len(queue) <= QueueCapacity
      /\ UNCHANGED <<now, clock, sample>> /\ queue' = Tail(queue)
  BY DEF IInv, EncoderType, ReadEvents
<1>4. queue' \in Seq(Times) /\ Len(queue') <= QueueCapacity
  BY <1>3, HeadTailProperties, EncoderAssumption
<1>5. CASE state' = state /\ accepted' = accepted /\ ~overtaken' /\ state.last # None
  BY <1>1, <1>2, <1>3, <1>4, <1>5
     DEF IInv, EncoderType, LastIsLast, ForgottenIsOvertaken, RestIsSaid, NoStopInHistory
<1>6. CASE /\ state' \in States /\ Len(state'.edges) <= HistoryDepth + 1
           /\ ~overtaken'
           /\ state'.last = Head(queue) /\ state'.last # None /\ ~state'.stationary
           /\ accepted' \in Seq(Times)
           /\ Len(accepted') > 0 /\ accepted'[Len(accepted')] = Head(queue)
           /\ Ends(state'.edges, accepted') /\ Gaps(state'.edges)
  <2>1. EncoderType'
    BY <1>3, <1>4, <1>6 DEF IInv, EncoderType
  <2>2. LastIsLast' /\ ForgottenIsOvertaken' /\ RestIsSaid'
    BY <1>6 DEF LastIsLast, ForgottenIsOvertaken, RestIsSaid
  <2>3. NoStopInHistory'
    BY <1>6 DEF NoStopInHistory, Ends, Gaps
  <2> QED
    BY <1>1, <1>2, <2>1, <2>2, <2>3 DEF IInv
<1> QED
  BY <1>5, <1>6, TakenEdge

LEMMA StepOnDirection ==
    ASSUME IInv, NEW direction \in {-1, 1}, OnDirection(direction)
    PROVE  IInv'
<1>1. ReaderInv'
  BY ReaderUnchanged DEF OnDirection
<1>2. UNCHANGED <<now, queue, clock, sample, accepted, overtaken>>
  BY DEF OnDirection
<1>3. state \in States /\ state' = [state EXCEPT !.pending = direction]
  BY DEF IInv, EncoderType, OnDirection
<1>4. /\ state' \in States /\ state'.edges = state.edges /\ state'.last = state.last
      /\ state'.stationary = state.stationary
  BY <1>3 DEF States, Directions
<1> QED
  BY <1>1, <1>2, <1>4 DEF IInv, EncoderType, InOrder, LastIsLast, ForgottenIsOvertaken, RestIsSaid, NoStopInHistory

LEMMA StepPublishWindow ==
    ASSUME IInv, PublishWindow
    PROVE  IInv'
<1>1. ReaderInv'
  BY ReaderUnchanged DEF PublishWindow
<1>2. UNCHANGED <<now, queue, state, sample, accepted, overtaken>> /\ clock' \in Times
  BY DEF IInv, EncoderType, PublishWindow
<1> QED
  BY <1>1, <1>2 DEF IInv, EncoderType, InOrder, LastIsLast, ForgottenIsOvertaken, RestIsSaid, NoStopInHistory

\* take_measurement: what it leaves of the state, and what it says.
LEMMA TakenMeasurement ==
    ASSUME IInv, TakeMeasurement
    PROVE  LET rests == state'.last = None \/ clock - state'.last >= StationaryTimeout IN
           /\ clock \in Times /\ accepted' = accepted
           /\ state' \in States /\ Len(state'.edges) <= HistoryDepth + 1
           /\ state'.active = state.active
           /\ state'.last = None \/ (state'.last = state.last /\ clock >= state.last)
           /\ state'.last = None => state.last = None \/ clock < state.last
           /\ state'.last = None => state'.edges = <<>>
           /\ state'.stationary = rests /\ sample'.stationary = rests
           /\ sample' = [ time |-> clock, rate |-> EdgeRate(state', clock), stationary |-> rests ]
           /\ Ends(state'.edges, accepted) /\ Gaps(state'.edges)
<1> DEFINE t == Forgotten(state, clock)
           rests == t.last = None \/ clock - t.last >= StationaryTimeout
           edges == IF rests THEN <<>> ELSE Pruned(t.edges, clock)
<1>1. /\ state \in States /\ Len(state.edges) <= HistoryDepth + 1
      /\ clock \in Times /\ accepted \in Seq(Times) /\ HistoryDepth \in Nat
  BY EncoderAssumption DEF IInv, EncoderType, TakeMeasurement, ValidHistoryDepth
<1>2. /\ state.last \in Times \union {None} /\ state.edges \in Seq(Times)
      /\ Ends(state.edges, accepted) /\ Gaps(state.edges)
      /\ Len(state.edges) > 0 => state.last # None
  BY <1>1, NoStopMeans DEF States, IInv, LastIsLast
<1>3. Ends(<<>>, accepted) /\ Gaps(<<>>) /\ <<>> \in Seq(Times) /\ Len(<<>>) = 0
  BY <1>1 DEF Ends, Gaps
<1>4. /\ t \in States /\ Len(t.edges) <= HistoryDepth + 1
      /\ t.last = None \/ (t.last = state.last /\ clock >= state.last)
      /\ t.last = None => state.last = None \/ clock < state.last
      /\ t.last = None => t.edges = <<>>
      /\ t.active = state.active
      /\ t.edges \in Seq(Times) /\ Ends(t.edges, accepted) /\ Gaps(t.edges)
  <2>1. CASE state.last # None /\ clock < state.last
    <3>1. t = [state EXCEPT !.last = None, !.edges = <<>>]
      BY <2>1 DEF Forgotten
    <3>2. /\ t \in States /\ t.edges = <<>> /\ t.last = None /\ t.active = state.active
      BY <1>1, <1>3, <3>1 DEF States
    <3>3. Len(t.edges) <= HistoryDepth + 1
      BY <1>1, <3>2
    <3> HIDE DEF t
    <3> QED
      BY <1>1, <1>3, <2>1, <3>2, <3>3
  <2>2. CASE ~(state.last # None /\ clock < state.last)
    <3>1. t = state
      BY <2>2 DEF Forgotten
    <3>2. state.last = None \/ clock >= state.last
      BY <1>1, <1>2, <2>2 DEF Times, None
    <3>3. state.last = None => state.edges = <<>>
      BY <1>2
    <3> QED
      BY <1>1, <1>2, <3>1, <3>2, <3>3
  <2> QED
    BY <2>1, <2>2
<1> HIDE DEF t
<1>5. /\ edges \in Seq(Times) /\ Len(edges) <= HistoryDepth + 1
      /\ Ends(edges, accepted) /\ Gaps(edges) /\ (t.last = None => edges = <<>>)
  <2>1. CASE rests
    BY <1>1, <1>3, <2>1
  <2>2. CASE ~rests
    <3> DEFINE p == Pruned(t.edges, clock)
    <3>1. p \in Seq(Times) /\ Ends(p, t.edges)
      BY <1>1, <1>4, PrunedEnds DEF Times
    <3> HIDE DEF p
    <3>2. Ends(p, accepted) /\ Gaps(p)
      BY <1>1, <1>4, <3>1, EndsTransitive, EndsGaps
    <3>3. Len(p) <= HistoryDepth + 1
      <4>1. Len(p) \in Nat /\ Len(t.edges) \in Nat /\ Len(p) <= Len(t.edges)
        BY <1>4, <3>1 DEF Ends
      <4> QED
        BY <1>1, <1>4, <4>1
    <3>4. edges = p
      BY <2>2 DEF p
    <3> HIDE DEF edges
    <3> QED
      BY <2>2, <3>1, <3>2, <3>3, <3>4
  <2> QED
    BY <2>1, <2>2
<1>6. rests \in BOOLEAN
  BY DEF t
<1>7. state' = [t EXCEPT !.stationary = rests, !.edges = edges]
  BY DEF TakeMeasurement, Measured, t
<1>8. sample' = [ time |-> clock, rate |-> EdgeRate(state', clock), stationary |-> state'.stationary ]
  BY DEF TakeMeasurement
<1>9. accepted' = accepted
  BY DEF TakeMeasurement
<1> HIDE DEF edges
<1>10. /\ state' \in States /\ state'.edges = edges /\ state'.last = t.last
       /\ state'.active = t.active /\ state'.stationary = rests
  <2> HIDE DEF rests
  <2> QED
    BY <1>4, <1>5, <1>6, <1>7 DEF States
<1> QED
  BY <1>1, <1>4, <1>5, <1>8, <1>9, <1>10

\* What a measurement leaves forgotten was overtaken, by this one or before.
LEMMA OvertakenMeans ==
    ASSUME IInv, TakeMeasurement
    PROVE  overtaken' <=> (state'.last = None /\ Len(accepted) > 0)
<1>1. /\ state'.last = None \/ (state'.last = state.last /\ clock >= state.last)
      /\ state'.last = None => state.last = None \/ clock < state.last
  BY TakenMeasurement
<1>2. /\ clock \in Int /\ state.last \in Int
      /\ accepted \in Seq(Times) /\ (accepted # <<>> <=> Len(accepted) > 0)
  BY TakenMeasurement DEF IInv, EncoderType, States, Times, None
<1>3. overtaken <=> (state.last = None /\ Len(accepted) > 0)
  BY DEF IInv, ForgottenIsOvertaken
<1>4. state.last # None => Len(accepted) > 0 /\ accepted[Len(accepted)] = state.last
  BY DEF IInv, LastIsLast
<1>5. overtaken' <=> (overtaken \/ (Len(accepted) > 0 /\ clock < accepted[Len(accepted)]))
  BY <1>2 DEF TakeMeasurement, LastOf
<1> QED
  BY <1>1, <1>2, <1>3, <1>4, <1>5

LEMMA StepTakeMeasurement ==
    ASSUME IInv, TakeMeasurement
    PROVE  IInv'
<1>1. ReaderInv'
  BY ReaderUnchanged DEF TakeMeasurement
<1>2. UNCHANGED <<now, queue, accepted>> /\ clock' = None
  BY DEF TakeMeasurement
<1> DEFINE rests == state'.last = None \/ clock - state'.last >= StationaryTimeout
<1>3. /\ state' \in States /\ Len(state'.edges) <= HistoryDepth + 1
      /\ state'.last = None \/ (state'.last = state.last /\ clock >= state.last)
      /\ state'.last = None => state.last = None \/ clock < state.last
      /\ state'.last = None => state'.edges = <<>>
      /\ state'.stationary = rests /\ sample'.stationary = rests
      /\ Ends(state'.edges, accepted) /\ Gaps(state'.edges)
  BY TakenMeasurement
<1>4. EncoderType'
  BY <1>2, <1>3 DEF IInv, EncoderType
<1>5. InOrder'
  BY <1>2 DEF IInv, InOrder
<1>6. LastIsLast'
  BY <1>2, <1>3 DEF IInv, LastIsLast
<1>7. RestIsSaid'
  BY <1>3 DEF RestIsSaid
<1>8. ForgottenIsOvertaken'
  BY <1>2, OvertakenMeans DEF ForgottenIsOvertaken
<1>9. NoStopInHistory'
  BY <1>2, <1>3 DEF NoStopInHistory, Ends, Gaps
<1> QED
  BY <1>1, <1>4, <1>5, <1>6, <1>7, <1>8, <1>9 DEF IInv

LEMMA InvStep == IInv /\ [Next]_vars => IInv'
<1> SUFFICES ASSUME IInv, [Next]_vars PROVE IInv'
  OBVIOUS
<1>1. CASE Tick
  BY <1>1, StepTick
<1>2. CASE WheelEdge
  BY <1>2, StepWheelEdge
<1>3. CASE ReadEvents
  BY <1>3, StepReadEvents
<1>4. ASSUME NEW direction \in {-1, 1}, OnDirection(direction) PROVE IInv'
  BY <1>4, StepOnDirection
<1>5. CASE PublishWindow
  BY <1>5, StepPublishWindow
<1>6. CASE TakeMeasurement
  BY <1>6, StepTakeMeasurement
<1>7. CASE Reader
  BY <1>7, ReaderStep, EncoderUnchanged DEF Reader, IInv
<1>8. CASE UNCHANGED vars
  <2>1. UNCHANGED encoderVars /\ UNCHANGED readerVars
    BY <1>8 DEF vars
  <2> QED
    BY <2>1, EncoderUnchanged, ReaderUnchanged DEF IInv
<1>9. CASE Ended
  BY <1>8, <1>9 DEF Ended
<1> QED
  BY <1>1, <1>2, <1>3, <1>4, <1>5, <1>6, <1>7, <1>8, <1>9 DEF Next

-----------------------------------------------------------------------------
(* The theorems.                                                           *)

LEMMA InvHolds == Spec => []IInv
<1> QED
  BY InvInit, InvStep, PTL DEF Spec

LEMMA IInvIsSafe == IInv => Inv /\ NoStopInHistory
<1> SUFFICES ASSUME IInv PROVE Inv /\ NoStopInHistory
  OBVIOUS
<1>1. ReaderType /\ ThreadOwnsLine /\ NothingIsKept
  BY ReaderSafe DEF IInv
<1>2. /\ now \in Times /\ clock \in Times \union {None}
      /\ Len(queue) <= QueueCapacity /\ Len(state.edges) <= HistoryDepth + 1
      /\ queue \in Seq(Times) /\ state.edges \in Seq(Times)
      /\ state.last \in Times \union {None}
      /\ state.active \in Directions /\ state.pending \in Directions
  BY DEF IInv, EncoderType, States
<1>3. /\ \A i \in DOMAIN queue : queue[i] \in Times
      /\ \A i \in DOMAIN state.edges : state.edges[i] \in Times
  BY <1>2
<1> QED
  BY <1>1, <1>2, <1>3 DEF Inv, TypeOK, IInv

\* The shared state keeps its shape, and the line belongs to the thread that
\* reads it: whatever chips match, raise or are refused, a line is requested
\* exactly while the thread may read it and nothing stays open after a failure
\* (EncoderNode.__init__, _event_loop, destroy_node).
THEOREM LineAndHistorySafe == Spec => []Inv
BY InvHolds, IInvIsSafe, PTL

\* The history a rate is taken from is the end of the edges recorded, and no
\* pause in it is as long as the timeout (record_edge, take_measurement).
THEOREM RateSpansNoStop == Spec => []NoStopInHistory
BY InvHolds, IInvIsSafe, PTL

\* The active direction changes only at an edge after a pause of the timeout or
\* after a measurement that said stationary (record_edge).
THEOREM EpochsSeparate == Spec => EpochsAreAnnounced
<1> DEFINE A == state'.active # state.active =>
                  \/ accepted = <<>>
                  \/ LastOf(accepted') - LastOf(accepted) >= StationaryTimeout
                  \/ sample.stationary
<1>1. ASSUME IInv, [Next]_vars, state'.active # state.active PROVE A
  <2>1. CASE ReadEvents
    <3> DEFINE e == Head(queue)
               begins == state.stationary \/ GapConfirmsStop(state, e)
    <3>1. /\ state'.active = IF begins THEN state.pending ELSE state.active
          /\ Len(accepted') > 0 /\ accepted'[Len(accepted')] = e
      BY <1>1, <2>1, TakenEdge
    <3>2. begins
      BY <1>1, <3>1
    <3>3. CASE state.stationary \/ state.last = None
      BY <1>1, <3>3 DEF IInv, RestIsSaid
    <3>4. CASE ~(state.stationary \/ state.last = None)
      <4>1. e - state.last >= StationaryTimeout
        BY <3>2, <3>4 DEF GapConfirmsStop
      <4>2. accepted[Len(accepted)] = state.last
        BY <1>1, <3>4 DEF IInv, LastIsLast
      <4> QED
        BY <3>1, <4>1, <4>2 DEF LastOf
    <3> QED
      BY <3>3, <3>4
  <2>2. CASE TakeMeasurement
    BY <1>1, <2>2, TakenMeasurement
  <2>3. ASSUME NEW direction \in {-1, 1}, OnDirection(direction) PROVE FALSE
    <3>1. state'.active = state.active
      BY <1>1, <2>3 DEF OnDirection, IInv, EncoderType, States
    <3> QED
      BY <1>1, <3>1
  <2>4. CASE UNCHANGED state
    BY <1>1, <2>4
  <2> QED
    BY <1>1, <2>1, <2>2, <2>3, <2>4
       DEF Next, Tick, WheelEdge, PublishWindow, Reader, Ended, vars, encoderVars
<1>2. IInv /\ [Next]_vars => [A]_vars
  BY <1>1
<1> QED
  BY <1>2, InvHolds, PTL DEF Spec, EpochsAreAnnounced

LEMMA RateDecaysAfter ==
    ASSUME IInv, TakeMeasurement
    PROVE  RateDecays'
<1> DEFINE n == Len(state'.edges)
<1>1. /\ clock \in Times /\ accepted' = accepted
      /\ state'.edges \in Seq(Times)
      /\ state'.last = None \/ (state'.last = state.last /\ clock >= state.last)
      /\ state'.last = None => state'.edges = <<>>
      /\ sample'.time = clock /\ sample'.rate = EdgeRate(state', clock)
      /\ Ends(state'.edges, accepted)
  BY TakenMeasurement DEF States
<1>2. accepted \in Seq(Times)
  BY DEF IInv, EncoderType
<1> SUFFICES ASSUME sample'.rate.intervals > 0,
                    NEW i \in 2..Len(accepted),
                    accepted[i] <= clock,
                    i < Len(accepted) => accepted[i + 1] > clock,
                    clock - accepted[i] > accepted[i] - accepted[i - 1]
             PROVE  sample'.rate.intervals * (clock - accepted[i]) <= sample'.rate.span
  BY <1>1 DEF RateDecays
<1>3. ~(state'.stationary \/ n < 2)
  BY <1>1 DEF EdgeRate, NoEdges
<1>4. n \in Nat /\ n >= 2 /\ Len(accepted) \in Nat /\ n <= Len(accepted)
  BY <1>1, <1>2, <1>3 DEF Ends
<1>5. /\ accepted[Len(accepted)] = state.last /\ clock >= state.last
      /\ state.last \in Int /\ clock \in Int
  <2>1. state'.last # None
    BY <1>1, <1>4
  <2>2. state.last # None /\ state.last \in Times \union {None}
    BY <1>1, <2>1 DEF IInv, EncoderType, States
  <2> QED
    BY <1>1, <2>1, <2>2 DEF IInv, LastIsLast, Times
<1>6. i = Len(accepted)
  <2>1. ASSUME i < Len(accepted) PROVE FALSE
    <3>1. i + 1 \in 1..Len(accepted) /\ Len(accepted) \in 1..Len(accepted) /\ i + 1 <= Len(accepted)
      BY <1>4, <2>1
    <3>2. accepted[i + 1] <= accepted[Len(accepted)]
      BY <3>1 DEF IInv, InOrder
    <3>3. accepted[i + 1] \in Int
      BY <3>1, EdgesAreTimes
    <3> QED
      BY <1>5, <2>1, <3>2, <3>3
  <2> QED
    BY <1>4, <2>1
<1>7. /\ state'.edges[n] = accepted[i] /\ state'.edges[n - 1] = accepted[i - 1]
      /\ state'.edges[1] \in Int /\ accepted[i] \in Int /\ accepted[i - 1] \in Int
  <2>1. \A j \in 1..n : state'.edges[j] = accepted[Len(accepted) - n + j]
    BY <1>1 DEF Ends
  <2>2. n \in 1..n /\ n - 1 \in 1..n /\ 1 \in 1..n /\ Len(accepted) - n + n = i
        /\ Len(accepted) - n + (n - 1) = i - 1 /\ i - 1 \in 1..Len(accepted)
        /\ Len(accepted) - n + 1 \in 1..Len(accepted) /\ i \in 1..Len(accepted)
    BY <1>4, <1>6
  <2>3. \A j \in 1..Len(accepted) : accepted[j] \in Int
    BY EdgesAreTimes
  <2> HIDE DEF n
  <2>4. /\ state'.edges[n] = accepted[Len(accepted) - n + n]
        /\ state'.edges[n - 1] = accepted[Len(accepted) - n + (n - 1)]
        /\ state'.edges[1] = accepted[Len(accepted) - n + 1]
    BY <2>1, <2>2
  <2> QED
    BY <2>2, <2>3, <2>4
<1> DEFINE since == clock - accepted[i]
           span == state'.edges[n] - state'.edges[1]
<1>8. Head(state'.edges) = state'.edges[1] /\ LastOf(state'.edges) = state'.edges[n]
  BY <1>1, <1>4 DEF LastOf
<1>9. sample'.rate = IF since > accepted[i] - accepted[i - 1] /\ span < (n - 1) * since
                     THEN [intervals |-> 1, span |-> since]
                     ELSE [intervals |-> n - 1, span |-> span]
  <2>1. state'.edges[(n - 1)] = accepted[i - 1]
    BY <1>7
  <2> QED
    BY <1>1, <1>3, <1>7, <1>8, <2>1 DEF EdgeRate
<1>10. since \in Int /\ span \in Int /\ since > accepted[i] - accepted[i - 1]
  BY <1>4, <1>5, <1>7
<1> HIDE DEF since, span
<1>11. CASE span < (n - 1) * since
  <2>1. sample'.rate.intervals = 1 /\ sample'.rate.span = since
    BY <1>9, <1>10, <1>11
  <2>2. 1 * since <= since
    BY <1>10
  <2> QED
    BY <2>1, <2>2 DEF since
<1>12. CASE ~(span < (n - 1) * since)
  <2>1. sample'.rate.intervals = n - 1 /\ sample'.rate.span = span
    BY <1>9, <1>12
  <2>2. (n - 1) * since \in Int
    BY <1>4, <1>10
  <2>3. (n - 1) * since <= span
    BY <1>10, <1>12, <2>2
  <2> QED
    BY <2>1, <2>3 DEF since
<1> QED
  BY <1>11, <1>12

\* A measurement says stationary exactly when no edge was recorded, the last one is
\* as old as the timeout, or an edge overtook a measurement and none has come since;
\* and its rate decays (take_measurement, _estimate_edge_rate).
THEOREM MeasurementsAreTrue == Spec => MeasurementIsTrue
<1> DEFINE Rests == \/ accepted = <<>>
                    \/ clock - LastOf(accepted) >= StationaryTimeout
                    \/ overtaken'
           A == TakeMeasurement => (sample'.stationary <=> Rests) /\ RateDecays'
<1>1. ASSUME IInv, TakeMeasurement PROVE sample'.stationary <=> Rests
  <2>1. /\ state'.last = None \/ (state'.last = state.last /\ clock >= state.last)
        /\ sample'.stationary = (state'.last = None \/ clock - state'.last >= StationaryTimeout)
    BY <1>1, TakenMeasurement
  <2>2. accepted \in Seq(Times) /\ (accepted # <<>> <=> Len(accepted) > 0)
    BY <1>1 DEF IInv, EncoderType
  <2>3. overtaken' <=> (state'.last = None /\ accepted # <<>>)
    BY <1>1, <2>2, OvertakenMeans
  <2>4. CASE state'.last = None
    BY <2>1, <2>3, <2>4
  <2>5. CASE state'.last # None
    <3>1. accepted # <<>> /\ LastOf(accepted) = state'.last
      BY <1>1, <2>1, <2>2, <2>5 DEF IInv, LastIsLast, LastOf
    <3> QED
      BY <2>1, <2>3, <2>5, <3>1
  <2> QED
    BY <2>4, <2>5
<1>2. IInv => [A]_vars
  BY <1>1, RateDecaysAfter
<1> QED
  BY <1>2, InvHolds, PTL DEF Spec, MeasurementIsTrue
=============================================================================
