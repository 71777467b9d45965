------------------------------ MODULE WheelEncoder ------------------------------
(***************************************************************************)
(* The wheel encoder (runner_encoder): a thread that reads the edges of    *)
(* one GPIO line, the executor that takes measurements and direction       *)
(* messages, and the state they share under a lock.                        *)
(*                                                                         *)
(* A handler that holds the lock is one step.  The clock of a measurement  *)
(* is read before the lock is taken (_publish_window calls                 *)
(* take_measurement(time.monotonic_ns())), so that is a step of its own;   *)
(* edges carry the time of the kernel and wait in its queue.  A rate is    *)
(* the fraction intervals / span.  The acquisition and the end of the      *)
(* thread are in GpioReader; the executor spins while the reader is ready. *)
(***************************************************************************)
EXTENDS GpioReader, Sequences

CONSTANTS
    StationaryTimeout,  \* stationary_timeout_sec
    HistoryDepth,       \* history_depth
    MaxLookback,        \* MAX_LOOKBACK_NS
    MinEdgeInterval,    \* MIN_EDGE_INTERVAL_NS
    QueueCapacity,      \* bound: edges the thread has not read yet
    MaxTime             \* bound: the clock

ValidHistoryDepth(depth) == depth \in Nat \ {0}
ValidStationaryTimeout(timeout) == timeout \in Nat \ {0}

ASSUME EncoderAssumption ==
    /\ ValidHistoryDepth(HistoryDepth) /\ ValidStationaryTimeout(StationaryTimeout)
    /\ MinEdgeInterval \in Nat \ {0}
    /\ {MaxLookback, QueueCapacity, MaxTime} \subseteq Nat

None == -1

VARIABLES
    now,       \* CLOCK_MONOTONIC
    queue,     \* edges in the kernel, oldest first
    state,     \* EncoderState
    clock,     \* what _publish_window read from the clock, or None
    sample,    \* the last measurement and its time
    accepted,  \* the edges recorded last (history)
    overtaken  \* an edge was recorded between the clock and the lock of a
               \* measurement, and none since (history)

encoderVars == <<now, queue, state, clock, sample, accepted, overtaken>>

vars == <<encoderVars, readerVars>>

Directions == -1..1
LastOf(s) == s[Len(s)]

\* One more than EncoderState keeps.
LastFew(edges) == IF Len(edges) > HistoryDepth + 2 THEN Tail(edges) ELSE edges

NoEdges == [intervals |-> 0, span |-> 1]

-------------------------------------------------------------------------------
(* EncoderState *)

\* _prune_history: as many leave as are old, the oldest first (the edges are in
\* order); at least the newest timestamp stays.
Pruned(edges, reference) ==
    LET old == { i \in DOMAIN edges : i < Len(edges) /\ edges[i] < reference - MaxLookback }
    IN  SubSeq(edges, Cardinality(old) + 1, Len(edges))

\* Mutant: one timestamp for each interval, and one more.
KeptOneMore(edges) ==
    IF Len(edges) > HistoryDepth + 2 THEN Tail(edges) ELSE edges

\* deque(maxlen): the oldest timestamp falls out.
Kept(edges) ==
    IF Len(edges) > HistoryDepth + 1 THEN Tail(edges) ELSE edges

TooShort(s, edge) == s.last # None /\ edge - s.last < MinEdgeInterval

GapConfirmsStop(s, edge) == s.last = None \/ edge - s.last >= StationaryTimeout

\* Mutant: an epoch begins only after a stationary measurement, the gap between
\* two edges does not count.
RecordedWithoutGap(s, edge) ==
    IF TooShort(s, edge) THEN s
    ELSE LET begins == s.stationary
         IN  [s EXCEPT !.active = IF begins THEN s.pending ELSE @,
                       !.stationary = FALSE, !.last = edge,
                       !.edges = Pruned(Kept(Append(IF begins THEN <<>> ELSE @, edge)), edge)]

\* Mutant: every edge takes the latest direction.
RecordedWithLatest(s, edge) ==
    IF TooShort(s, edge) THEN s
    ELSE LET begins == s.stationary \/ GapConfirmsStop(s, edge)
         IN  [s EXCEPT !.active = s.pending,
                       !.stationary = FALSE, !.last = edge,
                       !.edges = Pruned(Kept(Append(IF begins THEN <<>> ELSE @, edge)), edge)]

\* record_edge
Recorded(s, edge) ==
    IF TooShort(s, edge) THEN s
    ELSE LET begins == s.stationary \/ GapConfirmsStop(s, edge)
         IN  [s EXCEPT !.active = IF begins THEN s.pending ELSE @,
                       !.stationary = FALSE, !.last = edge,
                       !.edges = Pruned(Kept(Append(IF begins THEN <<>> ELSE @, edge)), edge)]

\* Mutant: an edge later than the clock has a negative age.
NeverForgotten(s, time) == s

\* A clock behind the last edge ends the epoch.
Forgotten(s, time) ==
    IF s.last # None /\ time < s.last THEN [s EXCEPT !.last = None, !.edges = <<>>] ELSE s

\* Mutant: stationary when no interval is left, for whatever reason.
MeasuredByHistory(s, time) ==
    LET t == Forgotten(s, time)
        kept == Pruned(t.edges, time)
    IN  [t EXCEPT !.stationary = Len(kept) < 2, !.edges = IF Len(kept) < 2 THEN <<>> ELSE kept]

\* What take_measurement leaves behind.
Measured(s, time) ==
    LET t == Forgotten(s, time)
        rests == t.last = None \/ time - t.last >= StationaryTimeout
    IN  [t EXCEPT !.stationary = rests, !.edges = IF rests THEN <<>> ELSE Pruned(@, time)]

\* Mutant: the rate does not decay while edges stay away.
HeldRate(s, time) ==
    IF s.stationary \/ Len(s.edges) < 2 THEN NoEdges
    ELSE [intervals |-> Len(s.edges) - 1, span |-> LastOf(s.edges) - Head(s.edges)]

\* _estimate_edge_rate: the mean over the history, or one edge in the time since
\* the last one if that is longer than the last interval and less.
EdgeRate(s, time) ==
    IF s.stationary \/ Len(s.edges) < 2 THEN NoEdges
    ELSE LET n == Len(s.edges) - 1
             span == LastOf(s.edges) - Head(s.edges)
             since == time - LastOf(s.edges)
         IN  IF since > LastOf(s.edges) - s.edges[n] /\ span < n * since
             THEN [intervals |-> 1, span |-> since]
             ELSE [intervals |-> n, span |-> span]

-------------------------------------------------------------------------------
(* The wheel and its kernel queue (external), the thread, the executor. *)

\* Bound: the clock runs while the reader does.
Tick ==
    /\ Ready /\ now < MaxTime
    /\ now' = now + 1
    /\ UNCHANGED <<queue, state, clock, sample, accepted, overtaken, readerVars>>

WheelEdge ==
    /\ Ready /\ Len(queue) < QueueCapacity
    /\ queue' = Append(queue, now)
    /\ UNCHANGED <<now, state, clock, sample, accepted, overtaken, readerVars>>

ReadEvents ==
    /\ EventTaken
    /\ UNCHANGED <<phase, chip, matches, open, line, stop>>
    /\ queue # <<>>
    /\ queue' = Tail(queue)
    /\ state' = Recorded(state, Head(queue))
    /\ accepted' = IF TooShort(state, Head(queue)) THEN accepted
                   ELSE LastFew(Append(accepted, Head(queue)))
    /\ overtaken' = (overtaken /\ TooShort(state, Head(queue)))
    /\ UNCHANGED <<now, clock, sample>>

OnDirection(direction) ==
    /\ Ready
    /\ state' = [state EXCEPT !.pending = IF direction = 0 THEN @ ELSE direction]
    /\ UNCHANGED <<now, queue, clock, sample, accepted, overtaken, readerVars>>

PublishWindow ==
    /\ Ready /\ clock = None
    /\ clock' = now
    /\ UNCHANGED <<now, queue, state, sample, accepted, overtaken, readerVars>>

TakeMeasurement ==
    /\ Ready /\ clock # None
    /\ clock' = None
    /\ state' = Measured(state, clock)
    /\ sample' = [ time |-> clock, rate |-> EdgeRate(Measured(state, clock), clock),
                   stationary |-> Measured(state, clock).stationary ]
    /\ overtaken' = (overtaken \/ (accepted # <<>> /\ clock < LastOf(accepted)))
    /\ UNCHANGED <<now, queue, accepted, readerVars>>

\* The node is not closed in the middle of a callback.
Reader == ReaderNext /\ (phase' = "closing" => clock = None) /\ UNCHANGED encoderVars

\* The process ends.
Ended == phase \in {"failed", "closed"} /\ UNCHANGED vars

Init ==
    /\ ReaderInit
    /\ now = 0
    /\ queue = <<>>
    /\ state = [edges |-> <<>>, last |-> None, stationary |-> TRUE, active |-> 0, pending |-> 0]
    /\ clock = None
    /\ sample = [time |-> None, rate |-> NoEdges, stationary |-> TRUE]
    /\ accepted = <<>>
    /\ overtaken = FALSE

Next ==
    \/ Tick \/ WheelEdge
    \/ ReadEvents
    \/ \E direction \in {-1, 1} : OnDirection(direction)
    \/ PublishWindow \/ TakeMeasurement
    \/ Reader \/ Ended

Spec == Init /\ [][Next]_vars

-------------------------------------------------------------------------------
(* The properties. *)

Times == 0..MaxTime

\* The shared state has its shape, and the history never exceeds its depth.
TypeOK ==
    /\ ReaderType
    /\ now \in Times /\ clock \in Times \union {None}
    /\ Len(queue) <= QueueCapacity /\ \A i \in DOMAIN queue : queue[i] \in Times
    /\ state.last \in Times \union {None}
    /\ state.active \in Directions /\ state.pending \in Directions
    /\ Len(state.edges) <= HistoryDepth + 1
    /\ \A i \in DOMAIN state.edges : state.edges[i] \in Times

\* The rate is never taken across a stop: the history is the end of the edges
\* recorded, and no pause in it is as long as the timeout, whatever edges come
\* late and whatever measurement intervenes (record_edge, take_measurement).
NoStopInHistory ==
    LET n == Len(state.edges)  a == Len(accepted)
    IN  /\ n <= a
        /\ \A i \in 1..n : state.edges[i] = accepted[a - n + i]
        /\ \A i \in 2..n : state.edges[i] - state.edges[i - 1] \in MinEdgeInterval..(StationaryTimeout - 1)

\* The rate published does not promise more than one edge in the time that has
\* passed without any, once that is longer than the intervals it averages
\* (_estimate_edge_rate).
RateDecays ==
    LET rate == sample.rate IN
    sample.time # None /\ rate.intervals > 0 =>
        \A i \in 2..Len(accepted) :
            /\ accepted[i] <= sample.time
            /\ i < Len(accepted) => accepted[i + 1] > sample.time
            /\ sample.time - accepted[i] > accepted[i] - accepted[i - 1]
            => rate.intervals * (sample.time - accepted[i]) <= rate.span

\* The active direction changes only at an edge that follows a pause of the
\* timeout or a measurement that said stationary: whoever listens can tell the
\* epochs apart (active_direction of EncoderState.msg).
EpochsAreAnnounced ==
    [][state'.active # state.active =>
          \/ accepted = <<>>
          \/ LastOf(accepted') - LastOf(accepted) >= StationaryTimeout
          \/ sample.stationary]_vars

\* A measurement says stationary exactly when no edge was ever recorded, when the
\* last one is as old as the timeout at the time the clock was read, or when an edge
\* overtook a measurement and none followed it: recorded between the reading of the
\* clock and the lock, it makes the clock look wrong, the epoch is discarded, and a
\* wheel that turns is called stationary until its next edge.  So an edge of the
\* future is never measured and no other history left or late edge stops the wheel.
\* And the rate of every measurement decays (take_measurement, _publish_window,
\* record_edge).
MeasurementIsTrue ==
    [][TakeMeasurement =>
          /\ sample'.stationary <=>
                \/ accepted = <<>>
                \/ clock - LastOf(accepted) >= StationaryTimeout
                \/ overtaken'
          /\ RateDecays']_vars

\* The invariant of the node: its shape, and the line owned by the thread that
\* reads it and by nobody else.
Inv == TypeOK /\ ThreadOwnsLine /\ NothingIsKept
===============================================================================
