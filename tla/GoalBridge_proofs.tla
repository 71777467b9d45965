-------------------------- MODULE GoalBridge_proofs --------------------------
(***************************************************************************)
(* Proofs about the goal bridge.  Every method of the class is an operator *)
(* from bridge records to bridge records, so there is one lemma for each:  *)
(* it keeps the type, and the only thing it does to what is in flight is   *)
(* to ask (Asks).  ClearActive is the one operator that lets go of a goal, *)
(* and it is reached only from a callback whose goal has ended.            *)
(* The second half follows the same operators once more, for the waypoints *)
(* and for what the operator said: a method passes a request on (Passes),  *)
(* or it handles the end of one (Ends, EndsWell).                          *)
(***************************************************************************)
EXTENDS GoalBridge, SequenceTheorems, TLAPS

-----------------------------------------------------------------------------
(* Requests *)

LEMMA RequestFacts ==
    /\ None \notin Requests
    /\ Single \in Requests
    /\ Route \in Requests
    /\ \A p \in Poses : Request("queue", p) \in Requests
<1>1. \A p : Request("queue", p) # None
  BY DEF Request, None
<1>2. Single # None /\ Route # None
  BY DEF Request, None, Single, Route
<1> QED  BY <1>1, <1>2 DEF Requests

\* From s to t a handler asked the server for something, at most: the active
\* goal is the same one, a goal is sent only into a free slot, and a result is
\* asked for only once.
Asks(s, t) ==
    /\ t.active = s.active
    /\ \/ t.send = s.send /\ t.sendFuture = s.sendFuture
       \/ /\ s.active = None /\ s.send = None
          /\ t.send # None /\ t.sendFuture = "asked"
    /\ \/ t.resultFuture = s.resultFuture
       \/ s.active # None /\ s.resultFuture = "none" /\ t.resultFuture = "asked"

\* Asking twice is asking.
LEMMA AsksTransitive ==
    ASSUME NEW s, NEW t, NEW u, Asks(s, t), Asks(t, u)
    PROVE  Asks(s, u)
BY DEF Asks

-----------------------------------------------------------------------------
(* The methods *)

\* Flags are set one at a time.
LEMMA SetFlag ==
    ASSUME NEW s \in Bridge, NEW v \in BOOLEAN
    PROVE  /\ [s EXCEPT !.cancelRequested = v] \in Bridge
           /\ [s EXCEPT !.cancelAccepted = v] \in Bridge
           /\ [s EXCEPT !.cancelWait = v] \in Bridge
           /\ [s EXCEPT !.resultWait = v] \in Bridge
           /\ [s EXCEPT !.run = v] \in Bridge
           /\ [s EXCEPT !.loop = v] \in Bridge
           /\ [s EXCEPT !.shutting = v] \in Bridge
<1>1. [s EXCEPT !.cancelRequested = v] \in Bridge
  BY DEF Bridge
<1>2. [s EXCEPT !.cancelAccepted = v] \in Bridge
  BY DEF Bridge
<1>3. [s EXCEPT !.cancelWait = v] \in Bridge
  BY DEF Bridge
<1>4. [s EXCEPT !.resultWait = v] \in Bridge
  BY DEF Bridge
<1>5. [s EXCEPT !.run = v] \in Bridge
  BY DEF Bridge
<1>6. [s EXCEPT !.loop = v] \in Bridge
  BY DEF Bridge
<1>7. [s EXCEPT !.shutting = v] \in Bridge
  BY DEF Bridge
<1> QED  BY <1>1, <1>2, <1>3, <1>4, <1>5, <1>6, <1>7

LEMMA SetQueueFields ==
    ASSUME NEW s \in Bridge, NEW q \in QueueStates, NEW n \in 0..1
    PROVE  /\ [s EXCEPT !.qstate = q] \in Bridge
           /\ [s EXCEPT !.retry = n] \in Bridge
<1>1. [s EXCEPT !.qstate = q] \in Bridge
  BY DEF Bridge
<1>2. [s EXCEPT !.retry = n] \in Bridge
  BY DEF Bridge
<1> QED  BY <1>1, <1>2

LEMMA SetCollections ==
    ASSUME NEW s \in Bridge, NEW m \in Modes, NEW n \in 0..MaxRoute,
           NEW q \in Seq(Poses), Len(q) <= MaxWaypointQueue
    PROVE  /\ [s EXCEPT !.mode = m] \in Bridge
           /\ [s EXCEPT !.route = n] \in Bridge
           /\ [s EXCEPT !.queue = q] \in Bridge
<1>1. [s EXCEPT !.mode = m] \in Bridge
  BY DEF Bridge
<1>2. [s EXCEPT !.route = n] \in Bridge
  BY DEF Bridge
<1>3. [s EXCEPT !.queue = q] \in Bridge
  BY DEF Bridge
<1> QED  BY <1>1, <1>2, <1>3

LEMMA Empty ==
    /\ 0 \in 0..1 /\ 1 \in 0..1 /\ 0 \in 0..MaxRoute
    /\ <<>> \in Seq(Poses) /\ Len(<<>>) <= MaxWaypointQueue
<1>1. <<>> \in Seq(Poses) /\ Len(<<>>) = 0
  BY EmptySeq
<1> QED  BY <1>1, GoalBridgeAssumption

LEMMA QueueStateNames == "IDLE" \in QueueStates /\ "RUNNING" \in QueueStates /\ "PAUSED" \in QueueStates
BY DEF QueueStates

\* A new generation owns what the old one owned (_advance_generation).
LEMMA AdvanceAsks ==
    ASSUME NEW s \in Bridge
    PROVE  Advance(s) \in Bridge /\ Asks(s, Advance(s)) /\ Advance(s).queue = s.queue
BY DEF Advance, Bridge, Asks, Registrations

LEMMA RequestCancelAsks ==
    ASSUME NEW s \in Bridge, NEW force, NEW o
    PROVE  RequestCancel(s, force, o) \in Bridge /\ Asks(s, RequestCancel(s, force, o))
<1>1. OneMore(s.attempts) \in 0..(MaxCancelAttempts + 1)
  BY GoalBridgeAssumption DEF OneMore, Bridge
<1>2. "cancel" \in Registrations
  BY DEF Registrations
<1> DEFINE asked  == [s EXCEPT !.attempts = OneMore(@), !.cancelFuture = "asked",
                               !.bound = @ \cup {"cancel"}]
           failed == [s EXCEPT !.attempts = OneMore(@), !.cancelWait = TRUE]
<1>3. s.bound \cup {"cancel"} \in SUBSET Registrations
  BY <1>2 DEF Bridge
<1>4. asked \in Bridge
  BY <1>1, <1>3 DEF Bridge
<1>5. failed \in Bridge
  BY <1>1 DEF Bridge
<1>6. Asks(s, asked) /\ Asks(s, failed) /\ Asks(s, s)
  BY DEF Asks, Bridge
<1> HIDE DEF asked, failed
<1>7. RequestCancel(s, force, o) \in {s, asked, failed}
  BY DEF RequestCancel, asked, failed
<1> QED  BY <1>4, <1>5, <1>6, <1>7

LEMMA EnsureResultAsks ==
    ASSUME NEW s \in Bridge, NEW o
    PROVE  EnsureResult(s, o) \in Bridge /\ Asks(s, EnsureResult(s, o))
<1> DEFINE asked  == [s EXCEPT !.resultFuture = "asked", !.bound = @ \cup {"result"}]
           failed == [s EXCEPT !.resultWait = TRUE]
<1>1. asked \in Bridge
  <2>1. s.bound \cup {"result"} \in SUBSET Registrations
    BY DEF Bridge, Registrations
  <2> QED  BY <2>1 DEF Bridge
<1>2. failed \in Bridge
  BY DEF Bridge
<1>3. s.active # None /\ s.resultFuture = "none" => Asks(s, asked)
  BY DEF Asks, Bridge
<1>4. Asks(s, failed) /\ Asks(s, s)
  BY DEF Asks, Bridge
<1> HIDE DEF asked, failed
<1>5. \/ EnsureResult(s, o) \in {s, failed}
      \/ s.active # None /\ s.resultFuture = "none" /\ EnsureResult(s, o) = asked
  BY DEF EnsureResult, asked, failed
<1> QED  BY <1>1, <1>2, <1>3, <1>4, <1>5

\* A goal is sent into a free slot only (_pump).
LEMMA SendPendingAsks ==
    ASSUME NEW s \in Bridge, NEW o, s.active = None, s.send = None, s.pending # None
    PROVE  SendPending(s, o) \in Bridge /\ Asks(s, SendPending(s, o))
<1> DEFINE sent == [s EXCEPT !.pending = None, !.send = s.pending, !.sendFuture = "asked",
                             !.bound = (@ \ {"pending"}) \cup {"send", "feedback"}]
           dropped == [s EXCEPT !.pending = None, !.bound = @ \ {"pending"}]
<1>1. sent \in Bridge
  <2>1. (s.bound \ {"pending"}) \cup {"send", "feedback"} \in SUBSET Registrations
    BY DEF Bridge, Registrations
  <2> QED  BY <2>1 DEF Bridge
<1>2. dropped \in Bridge
  BY DEF Bridge
<1>3. Asks(s, sent) /\ Asks(s, dropped) /\ Asks(s, s)
  BY DEF Asks, Bridge
<1> HIDE DEF sent, dropped
<1>4. SendPending(s, o) \in {s, sent, dropped}
  BY DEF SendPending, sent, dropped
<1> QED  BY <1>1, <1>2, <1>3, <1>4

LEMMA PumpAsks ==
    ASSUME NEW s \in Bridge, NEW o
    PROVE  Pump(s, o) \in Bridge /\ Asks(s, Pump(s, o))
<1>1. CASE s.active # None
  <2> DEFINE t == EnsureResult(s, o)
  <2>1. t \in Bridge /\ Asks(s, t)
    BY EnsureResultAsks
  <2>2. RequestCancel(t, s.shutting, o) \in Bridge /\ Asks(t, RequestCancel(t, s.shutting, o))
    BY <2>1, RequestCancelAsks
  <2>3. Asks(s, RequestCancel(t, s.shutting, o))
    BY <2>1, <2>2, AsksTransitive
  <2>4. Pump(s, o) = IF s.shutting \/ s.pending # None \/ s.cancelRequested
                     THEN RequestCancel(t, s.shutting, o) ELSE t
    BY <1>1 DEF Pump
  <2> QED  BY <2>1, <2>2, <2>3, <2>4
<1>2. CASE s.active = None
  <2>1. CASE s.shutting \/ s.pending = None \/ s.send # None
    BY <1>2, <2>1 DEF Pump, Asks
  <2>2. CASE ~(s.shutting \/ s.pending = None \/ s.send # None)
    <3>1. SendPending(s, o) \in Bridge /\ Asks(s, SendPending(s, o))
      BY <1>2, <2>2, SendPendingAsks
    <3>2. [s EXCEPT !.pending = None] \in Bridge /\ Asks(s, [s EXCEPT !.pending = None])
      BY DEF Bridge, Asks
    <3>3. Asks(s, s)
      BY DEF Asks
    <3> QED  BY <1>2, <2>2, <3>1, <3>2, <3>3 DEF Pump
  <2> QED  BY <2>1, <2>2
<1> QED  BY <1>1, <1>2

LEMMA ReplaceRequestAsks ==
    ASSUME NEW s \in Bridge, NEW o, NEW request \in Requests
    PROVE  ReplaceRequest(s, request, o) \in Bridge /\ Asks(s, ReplaceRequest(s, request, o))
<1> DEFINE a == Advance(s)
           t == [a EXCEPT !.pending = request, !.bound = @ \cup {"pending"},
                          !.cancelRequested = HasInflight(s)]
           c == RequestCancel(t, FALSE, o)
           u == IF HasInflight(s) THEN c ELSE t
<1>1. a \in Bridge /\ Asks(s, a)
  BY AdvanceAsks
<1> HIDE DEF a
<1>2. t \in Bridge
  <2>1. a.bound \cup {"pending"} \in SUBSET Registrations
    BY <1>1 DEF Bridge, Registrations
  <2>2. HasInflight(s) \in BOOLEAN
    BY DEF HasInflight
  <2>3. request \in Requests \cup {None}
    OBVIOUS
  <2> DEFINE v == [a EXCEPT !.pending = request, !.bound = @ \cup {"pending"}]
  <2>4. v \in Bridge
    BY ZenonT(40), <1>1, <2>1, <2>3 DEF Bridge
  <2> HIDE DEF v
  <2>5. [v EXCEPT !.cancelRequested = HasInflight(s)] \in Bridge
    BY <2>2, <2>4, SetFlag
  <2> QED  BY <2>5 DEF v
<1>3. Asks(a, t)
  BY <1>1 DEF Asks, Bridge
<1> HIDE DEF t
<1>4. c \in Bridge /\ Asks(t, c)
  BY <1>2, RequestCancelAsks
<1> HIDE DEF c
<1>5. u \in Bridge /\ Asks(s, u)
  <2>1. Asks(s, t)
    BY <1>1, <1>3, AsksTransitive
  <2>2. Asks(s, c)
    BY <2>1, <1>4, AsksTransitive
  <2> QED  BY <1>2, <1>4, <2>1, <2>2
<1> HIDE DEF u
<1>6. Pump(u, o) \in Bridge /\ Asks(u, Pump(u, o))
  BY <1>5, PumpAsks
<1>7. Asks(s, Pump(u, o))
  BY <1>5, <1>6, AsksTransitive
<1> QED  BY <1>6, <1>7 DEF ReplaceRequest, a, t, c, u

LEMMA RestoreAsks ==
    ASSUME NEW s \in Bridge, NEW request \in Requests
    PROVE  Restore(s, request) \in Bridge /\ Asks(s, Restore(s, request))
<1> DEFINE t == [s EXCEPT !.pending = request, !.bound = @ \cup {"pending"}]
<1>1. t \in Bridge
  <2>1. s.bound \cup {"pending"} \in SUBSET Registrations
    BY DEF Bridge, Registrations
  <2> QED  BY <2>1 DEF Bridge
<1>2. Asks(s, t) /\ Asks(s, s)
  BY DEF Asks, Bridge
<1> HIDE DEF t
<1>3. Restore(s, request) \in {s, t}
  BY DEF Restore, t
<1> QED  BY <1>1, <1>2, <1>3

\* Drop what is pending, cancel what is in flight.
LEMMA HaltAsks ==
    ASSUME NEW s \in Bridge, NEW o
    PROVE  Halt(s, o) \in Bridge /\ Asks(s, Halt(s, o))
<1> DEFINE a == Advance(s)
           t == [a EXCEPT !.pending = None, !.bound = @ \ {"pending"},
                          !.cancelRequested = HasInflight(s)]
<1>1. a \in Bridge /\ Asks(s, a)
  BY AdvanceAsks
<1> HIDE DEF a
<1>2. t \in Bridge /\ Asks(a, t)
  <2>1. HasInflight(s) \in BOOLEAN
    BY DEF HasInflight
  <2>2. t \in Bridge
    <3> DEFINE u == [a EXCEPT !.pending = None, !.bound = @ \ {"pending"}]
    <3>1. a.bound \ {"pending"} \in SUBSET Registrations
      BY <1>1 DEF Bridge
    <3>2. u \in Bridge
      BY ZenonT(40), <1>1, <3>1 DEF Bridge
    <3> HIDE DEF u
    <3>3. [u EXCEPT !.cancelRequested = HasInflight(s)] \in Bridge
      BY <2>1, <3>2, SetFlag
    <3> QED  BY <3>3 DEF u
  <2>3. Asks(a, t)
    BY <1>1 DEF Asks, Bridge
  <2> QED  BY <2>2, <2>3
<1> HIDE DEF t
<1>3. RequestCancel(t, FALSE, o) \in Bridge /\ Asks(t, RequestCancel(t, FALSE, o))
  BY <1>2, RequestCancelAsks
<1>4. Asks(s, RequestCancel(t, FALSE, o))
  BY <1>1, <1>2, <1>3, AsksTransitive
<1> QED  BY <1>3, <1>4 DEF Halt, a, t

\* ClearActive lets go of the goal and leaves the send alone.
LEMMA ClearActiveFrees ==
    ASSUME NEW s \in Bridge
    PROVE  /\ ClearActive(s) \in Bridge
           /\ ClearActive(s).active = None
           /\ ClearActive(s).resultFuture = "none"
           /\ ClearActive(s).send = s.send
           /\ ClearActive(s).sendFuture = s.sendFuture
           /\ ClearActive(s).queue = s.queue
<1> DEFINE u1 == [s EXCEPT !.active = None, !.resultFuture = "none"]
           u2 == [u1 EXCEPT !.resultWait = FALSE]
           u3 == [u2 EXCEPT !.cancelFuture = "none", !.attempts = 0]
           u4 == [u3 EXCEPT !.cancelAccepted = FALSE]
           u5 == [u4 EXCEPT !.cancelRequested = FALSE]
           u6 == [u5 EXCEPT !.cancelWait = FALSE]
<1>1. ClearActive(s) \in Bridge
  <2>1. u1 \in Bridge
    BY DEF Bridge
  <2>2. u2 \in Bridge
    BY <2>1, SetFlag
  <2> HIDE DEF u2
  <2>3. u3 \in Bridge
    <3>1. 0 \in 0..(MaxCancelAttempts + 1)
      BY GoalBridgeAssumption
    <3> QED  BY ZenonT(40), <2>2, <3>1 DEF Bridge
  <2> HIDE DEF u3
  <2>4. u4 \in Bridge
    BY <2>3, SetFlag
  <2> HIDE DEF u4
  <2>5. u5 \in Bridge
    BY <2>4, SetFlag
  <2> HIDE DEF u5
  <2>6. u6 \in Bridge
    BY <2>5, SetFlag
  <2> HIDE DEF u6
  <2>7. u6.bound \ {"result", "cancel"} \in SUBSET Registrations
    BY <2>6 DEF Bridge
  <2>8. [u6 EXCEPT !.bound = @ \ {"result", "cancel"}] \in Bridge
    BY <2>6, <2>7 DEF Bridge
  <2> QED  BY <2>8 DEF ClearActive, u2, u3, u4, u5, u6
<1>2. /\ ClearActive(s).active = None
      /\ ClearActive(s).resultFuture = "none"
      /\ ClearActive(s).send = s.send
      /\ ClearActive(s).sendFuture = s.sendFuture
      /\ ClearActive(s).queue = s.queue
  BY DEF ClearActive, Bridge
<1> QED  BY <1>1, <1>2

-----------------------------------------------------------------------------
(* The waypoint queue *)

\* The poses of a queue
LEMMA QueueFacts ==
    ASSUME NEW s \in Bridge
    PROVE  /\ s.queue # <<>> => Head(s.queue) \in Poses
           /\ s.queue # <<>> => Tail(s.queue) \in Seq(Poses)
                                /\ Len(Tail(s.queue)) <= MaxWaypointQueue
           /\ \A p \in Poses : Len(s.queue) < MaxWaypointQueue =>
                 /\ Append(s.queue, p) \in Seq(Poses)
                 /\ Len(Append(s.queue, p)) <= MaxWaypointQueue
<1>1. s.queue \in Seq(Poses) /\ Len(s.queue) <= MaxWaypointQueue
  BY DEF Bridge
<1>2. s.queue # <<>> => /\ Head(s.queue) \in Poses
                        /\ Tail(s.queue) \in Seq(Poses)
                        /\ Len(Tail(s.queue)) = Len(s.queue) - 1
  BY <1>1, HeadTailProperties
<1>3. Len(s.queue) \in Nat
  BY <1>1, LenProperties
<1>4. \A p \in Poses : /\ Append(s.queue, p) \in Seq(Poses)
                       /\ Len(Append(s.queue, p)) = Len(s.queue) + 1
  BY <1>1, AppendProperties
<1> QED  BY <1>1, <1>2, <1>3, <1>4, GoalBridgeAssumption

LEMMA DispatchFrontAsks ==
    ASSUME NEW s \in Bridge, NEW o
    PROVE  DispatchFront(s, o) \in Bridge /\ Asks(s, DispatchFront(s, o))
<1> DEFINE a == Advance(s)
           t == [a EXCEPT !.qstate = "RUNNING", !.cancelRequested = FALSE,
                          !.pending = Request("queue", Head(s.queue)),
                          !.bound = @ \cup {"pending"}]
<1>1. a \in Bridge /\ Asks(s, a)
  BY AdvanceAsks
<1>2. CASE s.queue = <<>>
  <2>1. DispatchFront(s, o) = s
    BY <1>2 DEF DispatchFront
  <2> QED  BY <2>1 DEF Asks
<1>3. CASE s.queue # <<>>
  <2> HIDE DEF a
  <2>1. Request("queue", Head(s.queue)) \in Requests
    BY <1>3, QueueFacts, RequestFacts
  <2>2. t \in Bridge
    <3>1. a.bound \cup {"pending"} \in SUBSET Registrations
      BY <1>1 DEF Bridge, Registrations
    <3>2. "RUNNING" \in QueueStates
      BY DEF QueueStates
    <3> DEFINE u1 == [a EXCEPT !.qstate = "RUNNING"]
               u2 == [u1 EXCEPT !.cancelRequested = FALSE]
    <3>3. u1 \in Bridge
      BY ZenonT(40), <1>1, <3>2 DEF Bridge
    <3> HIDE DEF u1
    <3>4. u2 \in Bridge /\ u2.bound = a.bound
      <4>1. u2 \in Bridge
        BY <3>3, SetFlag
      <4>2. u2.bound = u1.bound
        BY <3>3 DEF Bridge
      <4>3. u1.bound = a.bound
        BY <1>1 DEF u1, Bridge
      <4> QED  BY <4>1, <4>2, <4>3
    <3> HIDE DEF u2
    <3>5. [u2 EXCEPT !.pending = Request("queue", Head(s.queue)),
                     !.bound = @ \cup {"pending"}] \in Bridge
      BY ZenonT(40), <2>1, <3>1, <3>4 DEF Bridge
    <3> QED  BY <3>5 DEF u1, u2
  <2>3. Asks(a, t)
    BY <1>1 DEF Asks, Bridge
  <2> HIDE DEF t
  <2>4. Pump(t, o) \in Bridge /\ Asks(t, Pump(t, o))
    BY <2>2, PumpAsks
  <2>5. Asks(s, Pump(t, o)) /\ Asks(s, s)
    <3>1. Asks(s, t)
      BY <1>1, <2>3, AsksTransitive
    <3>2. Asks(s, Pump(t, o))
      BY <3>1, <2>4, AsksTransitive
    <3> QED  BY <3>2 DEF Asks
  <2>6. DispatchFront(s, o) \in {s, Pump(t, o)}
    BY DEF DispatchFront, t, a
  <2> QED  BY <2>4, <2>5, <2>6
<1> QED  BY <1>2, <1>3

\* The end of a goal: it is let go, and then the handler may ask again.
Releases(s, t) == Asks(ClearActive(s), t)

LEMMA ClearAndPump ==
    ASSUME NEW s \in Bridge, NEW o
    PROVE  Pump(ClearActive(s), o) \in Bridge /\ Releases(s, Pump(ClearActive(s), o))
BY ClearActiveFrees, PumpAsks DEF Releases

LEMMA QueueSuccessReleases ==
    ASSUME NEW s \in Bridge, NEW request, NEW o
    PROVE  /\ QueueSuccess(s, request, o) \in Bridge
           /\ Releases(s, QueueSuccess(s, request, o))
<1>1. CASE ~IsFront(s, request)
  BY <1>1, ClearAndPump DEF QueueSuccess
<1>2. CASE IsFront(s, request)
  <2> DEFINE c == ClearActive(s)
             a == Advance(c)
             t == [a EXCEPT !.queue = Tail(@), !.retry = 0, !.qstate = "IDLE"]
  <2>1. c \in Bridge /\ c.queue = s.queue
    BY ClearActiveFrees
  <2> HIDE DEF c
  <2>2. a \in Bridge /\ Asks(c, a) /\ a.queue # <<>>
    BY <1>2, <2>1, AdvanceAsks DEF IsFront
  <2> HIDE DEF a
  <2>3. t \in Bridge
    <3>1. Tail(a.queue) \in Seq(Poses) /\ Len(Tail(a.queue)) <= MaxWaypointQueue
      BY <2>2, QueueFacts
    <3> DEFINE u1 == [a EXCEPT !.queue = Tail(@)]
               u2 == [u1 EXCEPT !.retry = 0]
    <3>2. u1 \in Bridge
      BY ZenonT(40), <2>2, <3>1 DEF Bridge
    <3> HIDE DEF u1
    <3>3. 0 \in 0..1
      OBVIOUS
    <3>4. u2 \in Bridge
      BY <3>2, <3>3, SetQueueFields, QueueStateNames
    <3> HIDE DEF u2
    <3>5. [u2 EXCEPT !.qstate = "IDLE"] \in Bridge
      BY <3>3, <3>4, SetQueueFields, QueueStateNames
    <3> QED  BY <3>5 DEF u1, u2
  <2>4. Asks(a, t)
    BY <2>2 DEF Asks, Bridge
  <2> HIDE DEF t
  <2>5. DispatchFront(t, o) \in Bridge /\ Asks(t, DispatchFront(t, o))
    BY <2>3, DispatchFrontAsks
  <2>6. Asks(c, DispatchFront(t, o))
    <3>1. Asks(c, t)
      BY <2>2, <2>4, AsksTransitive
    <3> QED  BY <2>5, <3>1, AsksTransitive
  <2> QED  BY <1>2, <2>5, <2>6 DEF QueueSuccess, Releases, c, a, t
<1> QED  BY <1>1, <1>2

LEMMA QueueFailureReleases ==
    ASSUME NEW s \in Bridge, NEW request, NEW o,
           s.active = None => s.resultFuture = "none"
    PROVE  /\ QueueFailure(s, request, o) \in Bridge
           /\ Releases(s, QueueFailure(s, request, o))
<1> DEFINE c == IF s.active # None THEN ClearActive(s) ELSE s
           a == Advance(c)
           again == [c EXCEPT !.retry = 1, !.qstate = "IDLE"]
           paused == [a EXCEPT !.qstate = "PAUSED"]
<1>1. c \in Bridge /\ Releases(s, c)
  <2>1. ClearActive(s) \in Bridge /\ Releases(s, ClearActive(s))
    BY ClearActiveFrees DEF Releases, Asks
  <2>2. s.active = None => Releases(s, s)
    BY ClearActiveFrees DEF Releases, Asks
  <2> QED  BY <2>1, <2>2
<1> HIDE DEF c
<1>2. a \in Bridge /\ Asks(c, a)
  BY <1>1, AdvanceAsks
<1> HIDE DEF a
<1>3. 0 \in 0..1 /\ 1 \in 0..1
  OBVIOUS
<1>4. paused \in Bridge /\ Releases(s, paused)
  <2>1. paused \in Bridge
    BY <1>2, <1>3, SetQueueFields, QueueStateNames
  <2>2. Asks(a, paused)
    BY <1>2 DEF Asks, Bridge
  <2> HIDE DEF paused
  <2>3. Asks(c, paused)
    BY <1>2, <2>2, AsksTransitive
  <2> QED  BY <1>1, <2>1, <2>3, AsksTransitive DEF Releases
<1>5. DispatchFront(again, o) \in Bridge /\ Releases(s, DispatchFront(again, o))
  <2>1. again \in Bridge
    <3> DEFINE u == [c EXCEPT !.retry = 1]
    <3>1. u \in Bridge
      BY <1>1, <1>3, SetQueueFields, QueueStateNames
    <3> HIDE DEF u
    <3>2. [u EXCEPT !.qstate = "IDLE"] \in Bridge
      BY <1>3, <3>1, SetQueueFields, QueueStateNames
    <3> QED  BY <3>2 DEF u
  <2>2. Asks(c, again)
    BY <1>1 DEF Asks, Bridge
  <2> HIDE DEF again
  <2>3. DispatchFront(again, o) \in Bridge /\ Asks(again, DispatchFront(again, o))
    BY <2>1, DispatchFrontAsks
  <2>4. Asks(c, DispatchFront(again, o))
    BY <2>2, <2>3, AsksTransitive
  <2> QED  BY <1>1, <2>3, <2>4, AsksTransitive DEF Releases
<1>6. Pump(ClearActive(s), o) \in Bridge /\ Releases(s, Pump(ClearActive(s), o))
  BY ClearAndPump
<1> HIDE DEF paused, again
<1>7. QueueFailure(s, request, o) \in
        {Pump(ClearActive(s), o), DispatchFront(again, o), paused}
  BY DEF QueueFailure, c, a, again, paused
<1> QED  BY <1>4, <1>5, <1>6, <1>7

-----------------------------------------------------------------------------
(* Done callbacks *)

LEMMA OtherResultReleases ==
    ASSUME NEW s \in Bridge, NEW request, NEW status, NEW o
    PROVE  /\ OtherResult(s, request, status, o) \in Bridge
           /\ Releases(s, OtherResult(s, request, status, o))
<1> DEFINE loops == /\ request = Route /\ status = "succeeded"
                    /\ s.run /\ s.loop /\ s.route > 0 /\ s.pending = None
           flag == s.run /\ (request = Route => loops)
           r == [s EXCEPT !.run = flag]
           t == ClearActive(r)
           a == Advance(t)
           u == [a EXCEPT !.pending = Route, !.bound = @ \cup {"pending"}]
<1>1. r \in Bridge
  <2>1. flag \in BOOLEAN
    OBVIOUS
  <2> HIDE DEF flag
  <2> QED  BY <2>1, SetFlag
<1>2. t \in Bridge /\ Releases(s, t)
  <2>1. t \in Bridge /\ t.active = None /\ t.resultFuture = "none"
        /\ t.send = r.send /\ t.sendFuture = r.sendFuture
    BY <1>1, ClearActiveFrees
  <2>2. r.send = s.send /\ r.sendFuture = s.sendFuture
    BY DEF Bridge
  <2> HIDE DEF t, r
  <2> QED  BY <2>1, <2>2, ClearActiveFrees DEF Releases, Asks
<1> HIDE DEF t, r
<1>3. a \in Bridge /\ Asks(t, a)
  BY <1>2, AdvanceAsks
<1> HIDE DEF a
<1>4. u \in Bridge /\ Asks(a, u)
  <2>1. a.bound \cup {"pending"} \in SUBSET Registrations
    BY <1>3 DEF Bridge, Registrations
  <2>2. u \in Bridge
    BY ZenonT(40), <1>3, <2>1, RequestFacts DEF Bridge
  <2>3. Asks(a, u)
    BY <1>3 DEF Asks, Bridge
  <2> QED  BY <2>2, <2>3
<1> HIDE DEF u
<1>5. Releases(s, u)
  <2>1. Asks(t, u)
    BY <1>3, <1>4, AsksTransitive
  <2> QED  BY <1>2, <2>1, AsksTransitive DEF Releases
<1>6. \A x \in {t, u} : Pump(x, o) \in Bridge /\ Releases(s, Pump(x, o))
  <2> SUFFICES ASSUME NEW x \in {t, u}
               PROVE  Pump(x, o) \in Bridge /\ Releases(s, Pump(x, o))
    OBVIOUS
  <2>1. x \in Bridge /\ Releases(s, x)
    BY <1>2, <1>4, <1>5
  <2>2. Pump(x, o) \in Bridge /\ Asks(x, Pump(x, o))
    BY <2>1, PumpAsks
  <2> QED  BY <2>1, <2>2, AsksTransitive DEF Releases
<1>7. OtherResult(s, request, status, o) = Pump(IF loops THEN u ELSE t, o)
  BY DEF OtherResult, u, a, t, r
<1> QED  BY <1>6, <1>7

LEMMA QueueResultReleases ==
    ASSUME NEW s \in Bridge, NEW request, NEW status, NEW o, s.active # None
    PROVE  /\ QueueResult(s, request, status, o) \in Bridge
           /\ Releases(s, QueueResult(s, request, status, o))
<1>1. QueueResult(s, request, status, o) \in
        {Pump(ClearActive(s), o), QueueSuccess(s, request, o), QueueFailure(s, request, o)}
  BY DEF QueueResult
<1> QED  BY <1>1, ClearAndPump, QueueSuccessReleases, QueueFailureReleases

\* A refused queue goal may be retried, another one is restored.
LEMMA RejectedAsks ==
    ASSUME NEW s \in Bridge, NEW request \in Requests, NEW o,
           s.active = None, s.resultFuture = "none"
    PROVE  Rejected(s, request, o) \in Bridge /\ Asks(s, Rejected(s, request, o))
<1> DEFINE t == [s EXCEPT !.goalState = "aborted"]
           u == IF request.purpose = "queue" THEN QueueFailure(t, request, o)
                ELSE Restore(t, request)
<1>1. t \in Bridge /\ Asks(s, t) /\ t.active = None /\ t.resultFuture = "none"
  <2>1. "aborted" \in GoalStates
    BY DEF GoalStates, Terminal
  <2>2. t \in Bridge
    BY <2>1 DEF Bridge
  <2>3. Asks(s, t) /\ t.active = None /\ t.resultFuture = "none"
    BY DEF Asks, Bridge
  <2> QED  BY <2>2, <2>3
<1> HIDE DEF t
<1>2. QueueFailure(t, request, o) \in Bridge /\ Asks(t, QueueFailure(t, request, o))
  <2>1. /\ QueueFailure(t, request, o) \in Bridge
        /\ Releases(t, QueueFailure(t, request, o))
    BY <1>1, QueueFailureReleases
  <2> QED  BY <1>1, <2>1, ClearActiveFrees DEF Releases, Asks
<1>3. Restore(t, request) \in Bridge /\ Asks(t, Restore(t, request))
  BY <1>1, RestoreAsks
<1>4. u \in Bridge /\ Asks(s, u)
  <2>1. u \in Bridge /\ Asks(t, u)
    BY <1>2, <1>3
  <2> HIDE DEF u
  <2> QED  BY <1>1, <2>1, AsksTransitive
<1> HIDE DEF u
<1>5. Pump(u, o) \in Bridge /\ Asks(u, Pump(u, o))
  BY <1>4, PumpAsks
<1>6. Asks(s, Pump(u, o))
  BY <1>4, <1>5, AsksTransitive
<1> QED  BY <1>5, <1>6 DEF Rejected, u, t

\* An accepted goal becomes the active one.
LEMMA AcceptedOwns ==
    ASSUME NEW s \in Bridge, NEW request \in Requests, NEW o,
           s.send = None, s.sendFuture = "none", s.resultFuture = "none"
    PROVE  /\ Accepted(s, request, o) \in Bridge
           /\ Accepted(s, request, o).active = request
           /\ Accepted(s, request, o).send = None
           /\ Accepted(s, request, o).sendFuture = "none"
           /\ Accepted(s, request, o).resultFuture \in {"none", "asked"}
<1> DEFINE u1 == [s EXCEPT !.active = request, !.goalState = "accepted",
                           !.cancelFuture = "none", !.attempts = 0]
           u2 == [u1 EXCEPT !.cancelAccepted = FALSE]
           u3 == [u2 EXCEPT !.cancelWait = FALSE]
           t == EnsureResult(u3, o)
           c == RequestCancel(t, s.shutting, o)
<1>1. u1 \in Bridge
  <2>1. "accepted" \in GoalStates
    BY DEF GoalStates
  <2>2. 0 \in 0..(MaxCancelAttempts + 1)
    BY GoalBridgeAssumption
  <2> DEFINE w == [s EXCEPT !.active = request]
             v == [w EXCEPT !.goalState = "accepted"]
  <2>3. w \in Bridge
    BY DEF Bridge
  <2> HIDE DEF w
  <2>4. v \in Bridge
    BY <2>1, <2>3 DEF Bridge
  <2> HIDE DEF v
  <2>5. [v EXCEPT !.cancelFuture = "none", !.attempts = 0] \in Bridge
    BY ZenonT(40), <2>2, <2>4 DEF Bridge
  <2> QED  BY <2>5 DEF v, w
<1>2. /\ u1.active = request /\ u1.send = None
      /\ u1.sendFuture = "none" /\ u1.resultFuture = "none"
  BY DEF Bridge
<1> HIDE DEF u1
<1>3. u2 \in Bridge /\ Asks(u1, u2)
  <2>1. u2 \in Bridge
    BY <1>1, SetFlag
  <2>2. Asks(u1, u2)
    BY <1>1 DEF Asks, Bridge
  <2> QED  BY <2>1, <2>2
<1> HIDE DEF u2
<1>4. u3 \in Bridge /\ Asks(u2, u3)
  <2>1. u3 \in Bridge
    BY <1>3, SetFlag
  <2>2. Asks(u2, u3)
    BY <1>3 DEF Asks, Bridge
  <2> QED  BY <2>1, <2>2
<1> HIDE DEF u3
<1>5. t \in Bridge /\ Asks(u1, t)
  <2>1. t \in Bridge /\ Asks(u3, t)
    BY <1>4, EnsureResultAsks
  <2> HIDE DEF t
  <2> QED  BY <2>1, <1>3, <1>4, AsksTransitive
<1> HIDE DEF t
<1>6. c \in Bridge /\ Asks(u1, c)
  <2>1. c \in Bridge /\ Asks(t, c)
    BY <1>5, RequestCancelAsks
  <2> HIDE DEF c
  <2> QED  BY <2>1, <1>5, AsksTransitive
<1> HIDE DEF c
<1>7. Accepted(s, request, o) \in {c, t}
  BY DEF Accepted, c, t, u3, u2, u1
<1>8. request # None
  BY RequestFacts
<1> QED  BY <1>2, <1>5, <1>6, <1>7, <1>8 DEF Asks

-----------------------------------------------------------------------------
(* What is in flight agrees with the server *)

LEMMA AsksConsistent ==
    ASSUME NEW s, NEW t, NEW g, NEW n, Consistent(s, g, n), Asks(s, t)
    PROVE  /\ Consistent(t, g, n)
           /\ \/ SlotOf(t) = SlotOf(s)
              \/ SlotOf(s) = "free" /\ SlotOf(t) = "asked"
BY DEF Consistent, Asks, SlotOf, Terminal

\* A goal is let go only after its end.
LEMMA ReleasesConsistent ==
    ASSUME NEW s \in Bridge, NEW t, NEW g, NEW n, Consistent(s, g, n),
           s.active # None, n = 0, Releases(s, t)
    PROVE  /\ Consistent(t, g, n)
           /\ SlotOf(s) = "owned" /\ SlotOf(t) \in {"free", "asked"}
<1>1. Consistent(ClearActive(s), g, n) /\ SlotOf(ClearActive(s)) = "free"
  BY ClearActiveFrees DEF Consistent, SlotOf, Terminal
<1>2. /\ Consistent(t, g, n)
      /\ \/ SlotOf(t) = SlotOf(ClearActive(s))
         \/ SlotOf(ClearActive(s)) = "free" /\ SlotOf(t) = "asked"
  BY <1>1, AsksConsistent DEF Releases
<1> QED  BY <1>1, <1>2 DEF SlotOf

-----------------------------------------------------------------------------
(* Commands *)

\* What a handler does to the state outside the bridge
Outside ==
    /\ disk' \in Files
    /\ intent' \in {"none", "drive", "halt"}
    /\ UNCHANGED <<goal, live, restarts>>

LEMMA SavedType ==
    ASSUME NEW s \in Bridge, NEW o, disk \in Files
    PROVE  Saved(s, o) \in Files
BY DEF Saved, Files, Bridge

LEMMA GoalCallbackAsks ==
    ASSUME TypeOK, NEW o, GoalCallback(o)
    PROVE  b' \in Bridge /\ Asks(b, b') /\ Outside
<1> DEFINE q == IF b.qstate = "RUNNING" THEN "PAUSED" ELSE b.qstate
           u == [b EXCEPT !.qstate = q]
           v == [u EXCEPT !.run = FALSE]
<1>1. b \in Bridge
  BY DEF TypeOK
<1>2. u \in Bridge /\ Asks(b, u)
  <2>1. q \in QueueStates
    BY <1>1, QueueStateNames DEF Bridge
  <2> HIDE DEF q
  <2>2. u \in Bridge
    BY <1>1, <2>1, Empty, SetQueueFields
  <2> QED  BY <1>1, <2>2 DEF Asks, Bridge
<1> HIDE DEF u
<1>3. v \in Bridge /\ Asks(u, v)
  <2>1. v \in Bridge
    BY <1>2, SetFlag
  <2> QED  BY <1>2, <2>1 DEF Asks, Bridge
<1> HIDE DEF v
<1>4. b' = ReplaceRequest(v, Single, o)
  BY DEF GoalCallback, v, u
<1>5. b' \in Bridge /\ Asks(v, b')
  BY <1>3, <1>4, ReplaceRequestAsks, RequestFacts
<1>6. Asks(b, b')
  BY <1>2, <1>3, <1>5, AsksTransitive
<1> QED  BY <1>5, <1>6 DEF GoalCallback, Outside, TypeOK

LEMMA WaypointToQueueAsks ==
    ASSUME TypeOK, NEW o, NEW p \in Poses, WaypointToQueue(p, o)
    PROVE  b' \in Bridge /\ Asks(b, b') /\ Outside
<1> DEFINE a == Advance(b)
           u == [a EXCEPT !.queue = Append(@, p)]
<1>1. b \in Bridge
  BY DEF TypeOK
<1>2. a \in Bridge /\ Asks(b, a) /\ a.queue = b.queue
  BY <1>1, AdvanceAsks
<1>3. Len(a.queue) < MaxWaypointQueue
  BY <1>2 DEF WaypointToQueue
<1> HIDE DEF a
<1>4. u \in Bridge /\ Asks(a, u)
  <2>1. Append(a.queue, p) \in Seq(Poses) /\ Len(Append(a.queue, p)) <= MaxWaypointQueue
    BY <1>2, <1>3, QueueFacts
  <2>2. u \in Bridge
    BY <1>2, <2>1 DEF Bridge
  <2> QED  BY <1>2, <2>2 DEF Asks, Bridge
<1> HIDE DEF u
<1>5. DispatchFront(u, o) \in Bridge /\ Asks(u, DispatchFront(u, o))
  BY <1>4, DispatchFrontAsks
<1>6. b' \in {u, DispatchFront(u, o)}
  BY DEF WaypointToQueue, u, a
<1>7. Asks(b, u) /\ Asks(b, DispatchFront(u, o))
  BY <1>2, <1>4, <1>5, AsksTransitive
<1> QED  BY <1>4, <1>5, <1>6, <1>7 DEF WaypointToQueue, Outside, TypeOK

LEMMA WaypointToRouteAsks ==
    ASSUME TypeOK, NEW o, WaypointToRoute(o)
    PROVE  b' \in Bridge /\ Asks(b, b') /\ Outside
<1> DEFINE a == Advance(b)
           u == [a EXCEPT !.route = @ + 1]
<1>1. b \in Bridge
  BY DEF TypeOK
<1>2. a \in Bridge /\ Asks(b, a) /\ a.route = b.route
  BY <1>1, AdvanceAsks DEF Advance, Bridge
<1> HIDE DEF a
<1>3. u \in Bridge /\ Asks(a, u)
  <2>1. a.route + 1 \in 0..MaxRoute
    BY <1>1, <1>2, GoalBridgeAssumption DEF WaypointToRoute, Bridge
  <2>2. u \in Bridge
    BY <1>2, <2>1 DEF Bridge
  <2> QED  BY <1>2, <2>2 DEF Asks, Bridge
<1>4. b' = u
  BY DEF WaypointToRoute, a
<1>5. Asks(b, b')
  BY <1>2, <1>3, <1>4, AsksTransitive
<1>6. disk' \in Files
  BY <1>3, <1>4, SavedType DEF WaypointToRoute, TypeOK
<1> QED  BY <1>3, <1>4, <1>5, <1>6 DEF WaypointToRoute, Outside, TypeOK

\* Every stop, clear and mode change halts a bridge u that differs from b in
\* collections and flags only.
LEMMA HaltStep ==
    ASSUME TypeOK, NEW o, NEW u \in Bridge, Asks(b, u), b' = Halt(u, o)
    PROVE  b' \in Bridge /\ Asks(b, b')
<1>1. b' \in Bridge /\ Asks(u, b')
  BY HaltAsks
<1> QED  BY <1>1, AsksTransitive

LEMMA SetNavigationModeAsks ==
    ASSUME TypeOK, NEW o, NEW m \in Modes, SetNavigationMode(m, o)
    PROVE  b' \in Bridge /\ Asks(b, b') /\ Outside
<1> DEFINE u1 == [b EXCEPT !.run = FALSE]
           u2 == [u1 EXCEPT !.route = 0]
           u3 == [u2 EXCEPT !.queue = <<>>]
           u4 == [u3 EXCEPT !.retry = 0]
           u5 == [u4 EXCEPT !.qstate = "IDLE"]
           u == [u5 EXCEPT !.mode = m]
<1>1. b \in Bridge
  BY DEF TypeOK
<1>2. u \in Bridge
  <2>1. u1 \in Bridge
    BY <1>1, SetFlag
  <2> HIDE DEF u1
  <2>2. u2 \in Bridge
    BY <2>1, Empty, SetCollections
  <2> HIDE DEF u2
  <2>3. u3 \in Bridge
    BY <2>2, Empty, SetCollections
  <2> HIDE DEF u3
  <2>4. u4 \in Bridge
    BY <2>3, Empty, SetQueueFields, QueueStateNames
  <2> HIDE DEF u4
  <2>5. u5 \in Bridge
    BY <2>4, Empty, SetQueueFields, QueueStateNames
  <2> HIDE DEF u5
  <2> QED  BY <2>5, Empty, SetCollections
<1>3. Asks(b, u)
  BY <1>1 DEF Asks, Bridge
<1> HIDE DEF u
<1>4. b' = Halt(u, o)
  BY DEF SetNavigationMode, u
<1>5. b' \in Bridge /\ Asks(b, b')
  BY <1>2, <1>3, <1>4, HaltStep
<1>6. disk' \in Files
  BY <1>5, SavedType DEF SetNavigationMode, TypeOK
<1> QED  BY <1>5, <1>6 DEF SetNavigationMode, Outside, TypeOK

LEMMA WaypointStartAsks ==
    ASSUME TypeOK, NEW o, WaypointStart(o)
    PROVE  b' \in Bridge /\ Asks(b, b') /\ Outside
<1> DEFINE a == Advance(b)
           u1 == [a EXCEPT !.retry = 0]
           u2 == [u1 EXCEPT !.qstate = "IDLE"]
           u == [u2 EXCEPT !.cancelRequested = FALSE]
<1>1. b \in Bridge
  BY DEF TypeOK
<1>2. a \in Bridge /\ Asks(b, a)
  BY <1>1, AdvanceAsks
<1> HIDE DEF a
<1>3. u \in Bridge
  <2>1. u1 \in Bridge
    BY <1>2, Empty, SetQueueFields, QueueStateNames
  <2> HIDE DEF u1
  <2>2. u2 \in Bridge
    BY <2>1, Empty, SetQueueFields, QueueStateNames
  <2> HIDE DEF u2
  <2> QED  BY <2>2, SetFlag
<1>4. Asks(a, u)
  BY <1>2 DEF Asks, Bridge
<1> HIDE DEF u
<1>5. b' = DispatchFront(u, o)
  BY DEF WaypointStart, u, a
<1>6. b' \in Bridge /\ Asks(u, b')
  BY <1>3, <1>5, DispatchFrontAsks
<1>7. Asks(b, b')
  BY <1>2, <1>4, <1>6, AsksTransitive
<1> QED  BY <1>6, <1>7 DEF WaypointStart, Outside, TypeOK

LEMMA WaypointStopAsks ==
    ASSUME TypeOK, NEW o, WaypointStop(o)
    PROVE  b' \in Bridge /\ Asks(b, b') /\ Outside
<1> DEFINE q == IF b.queue = <<>> THEN "IDLE" ELSE "PAUSED"
           u == [b EXCEPT !.qstate = q]
<1>1. b \in Bridge
  BY DEF TypeOK
<1>2. u \in Bridge /\ Asks(b, u)
  <2>1. q \in QueueStates
    BY QueueStateNames
  <2> HIDE DEF q
  <2>2. u \in Bridge
    BY <1>1, <2>1, Empty, SetQueueFields
  <2> QED  BY <1>1, <2>2 DEF Asks, Bridge
<1> HIDE DEF u
<1>3. b' = Halt(u, o)
  BY DEF WaypointStop, u
<1>4. b' \in Bridge /\ Asks(b, b')
  BY <1>2, <1>3, HaltStep
<1> QED  BY <1>4 DEF WaypointStop, Outside, TypeOK

LEMMA WaypointClearAsks ==
    ASSUME TypeOK, NEW o, WaypointClear(o)
    PROVE  b' \in Bridge /\ Asks(b, b') /\ Outside
<1> DEFINE u1 == [b EXCEPT !.queue = <<>>]
           u2 == [u1 EXCEPT !.retry = 0]
           u == [u2 EXCEPT !.qstate = "IDLE"]
<1>1. b \in Bridge
  BY DEF TypeOK
<1>2. u \in Bridge
  <2>1. u1 \in Bridge
    <3>1. b.mode \in Modes
      BY <1>1 DEF Bridge
    <3> QED  BY <1>1, <3>1, Empty, SetCollections
  <2> HIDE DEF u1
  <2>2. u2 \in Bridge
    BY <2>1, Empty, SetQueueFields, QueueStateNames
  <2> HIDE DEF u2
  <2> QED  BY <2>2, Empty, SetQueueFields, QueueStateNames
<1>3. Asks(b, u)
  BY <1>1 DEF Asks, Bridge
<1> HIDE DEF u
<1>4. b' = Halt(u, o)
  BY DEF WaypointClear, u
<1>5. b' \in Bridge /\ Asks(b, b')
  BY <1>2, <1>3, <1>4, HaltStep
<1> QED  BY <1>5 DEF WaypointClear, Outside, TypeOK

LEMMA RouteStartAsks ==
    ASSUME TypeOK, NEW o, RouteStart(o)
    PROVE  b' \in Bridge /\ Asks(b, b') /\ Outside
<1> DEFINE u == [b EXCEPT !.run = TRUE]
<1>1. b \in Bridge
  BY DEF TypeOK
<1>2. u \in Bridge /\ Asks(b, u)
  <2>1. u \in Bridge
    BY <1>1, SetFlag
  <2> QED  BY <1>1, <2>1 DEF Asks, Bridge
<1> HIDE DEF u
<1>3. b' = ReplaceRequest(u, Route, o)
  BY DEF RouteStart, u
<1>4. b' \in Bridge /\ Asks(u, b')
  BY <1>2, <1>3, ReplaceRequestAsks, RequestFacts
<1>5. Asks(b, b')
  BY <1>2, <1>4, AsksTransitive
<1> QED  BY <1>4, <1>5 DEF RouteStart, Outside, TypeOK

LEMMA RouteStopAsks ==
    ASSUME TypeOK, NEW o, RouteStop(o)
    PROVE  b' \in Bridge /\ Asks(b, b') /\ Outside
<1> DEFINE u == [b EXCEPT !.run = FALSE]
<1>1. b \in Bridge
  BY DEF TypeOK
<1>2. u \in Bridge /\ Asks(b, u)
  <2>1. u \in Bridge
    BY <1>1, SetFlag
  <2> QED  BY <1>1, <2>1 DEF Asks, Bridge
<1> HIDE DEF u
<1>3. b' = Halt(u, o)
  BY DEF RouteStop, u
<1>4. b' \in Bridge /\ Asks(b, b')
  BY <1>2, <1>3, HaltStep
<1> QED  BY <1>4 DEF RouteStop, Outside, TypeOK

LEMMA RouteClearAsks ==
    ASSUME TypeOK, NEW o, RouteClear(o)
    PROVE  b' \in Bridge /\ Asks(b, b') /\ Outside
<1> DEFINE u1 == [b EXCEPT !.run = FALSE]
           u == [u1 EXCEPT !.route = 0]
<1>1. b \in Bridge
  BY DEF TypeOK
<1>2. u \in Bridge
  <2>1. u1 \in Bridge
    BY <1>1, SetFlag
  <2>2. b.mode \in Modes
    BY <1>1 DEF Bridge
  <2> HIDE DEF u1
  <2> QED  BY <2>1, <2>2, Empty, SetCollections
<1>3. Asks(b, u)
  BY <1>1 DEF Asks, Bridge
<1> HIDE DEF u
<1>4. b' = Halt(u, o)
  BY DEF RouteClear, u
<1>5. b' \in Bridge /\ Asks(b, b')
  BY <1>2, <1>3, <1>4, HaltStep
<1>6. disk' \in Files
  BY <1>5, SavedType DEF RouteClear, TypeOK
<1> QED  BY <1>5, <1>6 DEF RouteClear, Outside, TypeOK

LEMMA RouteLoopAsks ==
    ASSUME TypeOK, NEW o, NEW l \in BOOLEAN, RouteLoop(l, o)
    PROVE  b' \in Bridge /\ Asks(b, b') /\ Outside
<1> DEFINE a == Advance(b)
           u == [a EXCEPT !.loop = l]
<1>1. a \in Bridge /\ Asks(b, a)
  BY AdvanceAsks DEF TypeOK
<1> HIDE DEF a
<1>2. u \in Bridge /\ Asks(a, u)
  <2>1. u \in Bridge
    BY <1>1, SetFlag
  <2> QED  BY <1>1, <2>1 DEF Asks, Bridge
<1>3. b' = u
  BY DEF RouteLoop, a
<1>4. Asks(b, b')
  BY <1>1, <1>2, <1>3, AsksTransitive
<1>5. disk' \in Files
  BY <1>2, <1>3, SavedType DEF RouteLoop, TypeOK
<1> QED  BY <1>2, <1>3, <1>4, <1>5 DEF RouteLoop, Outside, TypeOK

LEMMA RouteRemoveLastAsks ==
    ASSUME TypeOK, NEW o, RouteRemoveLast(o)
    PROVE  b' \in Bridge /\ Asks(b, b') /\ Outside
<1> DEFINE a == Advance(b)
           u == [a EXCEPT !.route = @ - 1]
<1>1. b \in Bridge
  BY DEF TypeOK
<1>2. a \in Bridge /\ Asks(b, a) /\ a.route = b.route
  BY <1>1, AdvanceAsks DEF Advance, Bridge
<1> HIDE DEF a
<1>3. u \in Bridge /\ Asks(a, u)
  <2>1. a.route - 1 \in 0..MaxRoute
    BY <1>1, <1>2, GoalBridgeAssumption DEF RouteRemoveLast, Bridge
  <2>2. u \in Bridge
    BY <1>2, <2>1 DEF Bridge
  <2> QED  BY <1>2, <2>2 DEF Asks, Bridge
<1>4. b' = u
  BY DEF RouteRemoveLast, a
<1>5. Asks(b, b')
  BY <1>2, <1>3, <1>4, AsksTransitive
<1>6. disk' \in Files
  BY <1>3, <1>4, SavedType DEF RouteRemoveLast, TypeOK
<1> QED  BY <1>3, <1>4, <1>5, <1>6 DEF RouteRemoveLast, Outside, TypeOK

\* No command does more than ask.
LEMMA CommandAsks ==
    ASSUME TypeOK, NEW o, Command(o)
    PROVE  b' \in Bridge /\ Asks(b, b') /\ Outside
BY GoalCallbackAsks, WaypointToQueueAsks, WaypointToRouteAsks, SetNavigationModeAsks,
   WaypointStartAsks, WaypointStopAsks, WaypointClearAsks, RouteStartAsks, RouteStopAsks,
   RouteClearAsks, RouteLoopAsks, RouteRemoveLastAsks, Zenon
   DEF Command

-----------------------------------------------------------------------------
(* Timer, shutdown, and the callbacks that let nothing go *)

LEMMA ShutdownAsks ==
    ASSUME TypeOK, NEW o, Shutdown(o)
    PROVE  b' \in Bridge /\ Asks(b, b') /\ Outside
<1> DEFINE a == Advance(b)
           u1 == [a EXCEPT !.shutting = TRUE]
           u2 == [u1 EXCEPT !.run = FALSE]
           u3 == [u2 EXCEPT !.pending = None, !.bound = @ \ {"pending"}]
           u == [u3 EXCEPT !.cancelRequested = TRUE]
<1>1. a \in Bridge /\ Asks(b, a)
  BY AdvanceAsks DEF TypeOK
<1> HIDE DEF a
<1>2. u \in Bridge
  <2>1. u1 \in Bridge
    BY <1>1, SetFlag
  <2> HIDE DEF u1
  <2>2. u2 \in Bridge
    BY <2>1, SetFlag
  <2> HIDE DEF u2
  <2>3. u3 \in Bridge
    <3>1. u2.bound \ {"pending"} \in SUBSET Registrations
      BY <2>2 DEF Bridge
    <3> QED  BY <2>2, <3>1 DEF Bridge
  <2> HIDE DEF u3
  <2> QED  BY <2>3, SetFlag
<1>3. Asks(a, u)
  BY <1>1 DEF Asks, Bridge
<1> HIDE DEF u
<1>4. b' = RequestCancel(u, TRUE, o)
  BY DEF Shutdown, u, a
<1>5. b' \in Bridge /\ Asks(u, b')
  BY <1>2, <1>4, RequestCancelAsks
<1>6. Asks(b, b')
  BY <1>1, <1>3, <1>5, AsksTransitive
<1> QED  BY <1>5, <1>6 DEF Shutdown, Outside, TypeOK

LEMMA TimerCallbackAsks ==
    ASSUME TypeOK, NEW o, TimerCallback(o)
    PROVE  b' \in Bridge /\ Asks(b, b') /\ Outside
<1>1. b' \in Bridge /\ Asks(b, b')
  BY PumpAsks DEF TimerCallback, TypeOK
<1> QED  BY <1>1 DEF TimerCallback, Outside, TypeOK

LEMMA RetryIntervalOverAsks ==
    ASSUME TypeOK, RetryIntervalOver
    PROVE  b' \in Bridge /\ Asks(b, b') /\ Outside
<1>1. b \in Bridge
  BY DEF TypeOK
<1> DEFINE u == [b EXCEPT !.cancelWait = FALSE]
           v == [b EXCEPT !.resultWait = FALSE]
<1>2. u \in Bridge /\ v \in Bridge
  BY <1>1, SetFlag
<1>3. Asks(b, u) /\ Asks(b, v)
  BY <1>1 DEF Asks, Bridge
<1> HIDE DEF u, v
<1>4. b' \in {u, v}
  BY DEF RetryIntervalOver, u, v
<1> QED  BY <1>2, <1>3, <1>4 DEF RetryIntervalOver, Outside, TypeOK

LEMMA FeedbackCallbackAsks ==
    ASSUME TypeOK, FeedbackCallback
    PROVE  b' \in Bridge /\ Asks(b, b') /\ Outside
<1>1. b \in Bridge
  BY DEF TypeOK
<1> DEFINE u == [b EXCEPT !.goalState = "executing"]
<1>2. u \in Bridge
  <2>1. "executing" \in GoalStates
    BY DEF GoalStates
  <2> QED  BY <1>1, <2>1 DEF Bridge
<1>3. Asks(b, u) /\ Asks(b, b)
  BY <1>1 DEF Asks, Bridge
<1> HIDE DEF u
<1>4. b' \in {u, b}
  BY DEF FeedbackCallback, u
<1> QED  BY <1>1, <1>2, <1>3, <1>4 DEF FeedbackCallback, Outside, TypeOK

LEMMA CancelCallbackAsks ==
    ASSUME TypeOK, CancelCallback
    PROVE  b' \in Bridge /\ Asks(b, b') /\ Outside
<1> DEFINE accepted == b.cancelFuture = "accepted"
           wait == b.cancelFuture # "accepted"
           u1 == [b EXCEPT !.cancelFuture = "none", !.bound = @ \ {"cancel"}]
           u2 == [u1 EXCEPT !.cancelAccepted = accepted]
           u == [u2 EXCEPT !.cancelWait = wait]
<1>1. b \in Bridge
  BY DEF TypeOK
<1>2. u \in Bridge
  <2>1. b.bound \ {"cancel"} \in SUBSET Registrations
    BY <1>1 DEF Bridge
  <2>2. u1 \in Bridge
    BY <1>1, <2>1 DEF Bridge
  <2> HIDE DEF u1
  <2>3. accepted \in BOOLEAN /\ wait \in BOOLEAN
    OBVIOUS
  <2> HIDE DEF accepted, wait
  <2>4. u2 \in Bridge
    BY <2>2, <2>3, SetFlag
  <2> HIDE DEF u2
  <2> QED  BY <2>3, <2>4, SetFlag
<1>3. Asks(b, u)
  BY <1>1 DEF Asks, Bridge
<1> HIDE DEF u
<1>4. b' = u
  BY DEF CancelCallback, u
<1> QED  BY <1>2, <1>3, <1>4 DEF CancelCallback, Outside, TypeOK

-----------------------------------------------------------------------------
(* The answer to a send, the result, the server *)

\* The invariant: the types, and what is in flight agrees with the server.
IInv == TypeOK /\ SlotInv

SlotStep == Slot!Next \/ UNCHANGED <<SlotOf(b), live>>

\* Asking is a step of the one-slot specification, or none.
LEMMA AskingStep ==
    ASSUME IInv, b' \in Bridge, Asks(b, b'), Outside
    PROVE  IInv' /\ SlotStep
<1>1. /\ Consistent(b', goal, live)
      /\ \/ SlotOf(b') = SlotOf(b)
         \/ SlotOf(b) = "free" /\ SlotOf(b') = "asked"
  BY AsksConsistent DEF IInv, SlotInv
<1>2. SlotInv'
  BY <1>1 DEF SlotInv, Outside
<1>3. TypeOK'
  BY DEF IInv, TypeOK, Outside
<1>4. SlotStep
  BY <1>1 DEF SlotStep, Slot!Next, Slot!Ask, Outside
<1> QED  BY <1>2, <1>3, <1>4 DEF IInv

LEMMA GoalResponseStep ==
    ASSUME IInv, NEW o, GoalResponseCallback(o)
    PROVE  IInv' /\ SlotStep
<1> DEFINE s == [b EXCEPT !.send = None, !.sendFuture = "none", !.bound = @ \ {"send"}]
           request == b.send
           accepted == Accepted(s, request, o)
           rejected == Rejected(s, request, o)
           failed == Pump(Restore(s, request), o)
<1>1. b \in Bridge /\ Consistent(b, goal, live) /\ b.sendFuture \in SendAnswers
  BY DEF IInv, TypeOK, SlotInv, GoalResponseCallback
<1>2. b.send # None /\ request \in Requests /\ b.active = None /\ b.resultFuture = "none"
  BY <1>1 DEF Consistent, SendAnswers, Bridge
<1>3. s \in Bridge
  <2>1. b.bound \ {"send"} \in SUBSET Registrations
    BY <1>1 DEF Bridge
  <2> QED  BY <1>1, <2>1 DEF Bridge
<1>4. s.send = None /\ s.sendFuture = "none" /\ s.active = None /\ s.resultFuture = "none"
  BY <1>1, <1>2 DEF Bridge
<1> HIDE DEF s, request
<1>5. CASE b.sendFuture = "accepted"
  <2>1. /\ accepted \in Bridge /\ accepted.active = request
        /\ accepted.send = None /\ accepted.sendFuture = "none"
        /\ accepted.resultFuture \in {"none", "asked"}
    BY <1>2, <1>3, <1>4, AcceptedOwns
  <2> HIDE DEF accepted
  <2>2. b' = accepted
    BY <1>5 DEF GoalResponseCallback, accepted, s, request
  <2>3. request # None
    BY <1>2, RequestFacts
  <2>4. Consistent(b', goal, live) /\ SlotOf(b') = "owned" /\ SlotOf(b) = "begun"
    BY <1>1, <1>2, <1>5, <2>1, <2>2, <2>3 DEF Consistent, SlotOf, Terminal, Bridge
  <2>5. UNCHANGED <<disk, goal, live, intent, restarts>>
    BY DEF GoalResponseCallback
  <2>6. b' \in Bridge
    BY <2>1, <2>2
  <2>7. IInv'
    BY <2>4, <2>5, <2>6 DEF IInv, TypeOK, SlotInv
  <2>8. SlotStep
    BY <2>4, <2>5 DEF SlotStep, Slot!Next, Slot!Learn
  <2> QED  BY <2>7, <2>8
<1>6. CASE b.sendFuture \in {"rejected", "failed"}
  <2>1. rejected \in Bridge /\ Asks(s, rejected)
    BY <1>2, <1>3, <1>4, RejectedAsks
  <2>2. failed \in Bridge /\ Asks(s, failed)
    <3>1. Restore(s, request) \in Bridge /\ Asks(s, Restore(s, request))
      BY <1>2, <1>3, RestoreAsks
    <3>2. failed \in Bridge /\ Asks(Restore(s, request), failed)
      BY <3>1, PumpAsks
    <3> QED  BY <3>1, <3>2, AsksTransitive
  <2> HIDE DEF rejected, failed
  <2>3. b' \in {rejected, failed}
    BY <1>6 DEF GoalResponseCallback, rejected, failed, s, request
  <2>4. Consistent(s, goal, live) /\ SlotOf(s) = "free" /\ SlotOf(b) = "refused"
    BY <1>1, <1>2, <1>4, <1>6 DEF Consistent, SlotOf, Terminal
  <2>5. b' \in Bridge /\ Asks(s, b')
    BY <2>1, <2>2, <2>3
  <2>6. Consistent(b', goal, live) /\ SlotOf(b') \in {"free", "asked"}
    BY <2>4, <2>5, AsksConsistent
  <2>7. UNCHANGED <<disk, goal, live, intent, restarts>>
    BY DEF GoalResponseCallback
  <2>8. IInv'
    BY <2>5, <2>6, <2>7 DEF IInv, TypeOK, SlotInv
  <2>9. SlotStep
    BY <2>4, <2>6, <2>7 DEF SlotStep, Slot!Next, Slot!Forget
  <2> QED  BY <2>8, <2>9
<1> QED  BY <1>1, <1>5, <1>6 DEF SendAnswers

LEMMA ResultStep ==
    ASSUME IInv, NEW o, ResultCallback(o)
    PROVE  IInv' /\ SlotStep
<1> DEFINE status == b.resultFuture
           s == [b EXCEPT !.goalState = status]
           r1 == [b EXCEPT !.resultFuture = "none", !.bound = @ \ {"result"}]
           r == [r1 EXCEPT !.resultWait = TRUE]
<1>1. b \in Bridge /\ Consistent(b, goal, live) /\ b.active # None /\ status \in ResultAnswers
  BY DEF IInv, TypeOK, SlotInv, ResultCallback
<1>2. UNCHANGED <<disk, goal, live, intent, restarts>>
  BY DEF ResultCallback
<1>3. CASE status = "failed"
  <2>1. r \in Bridge
    <3>1. b.bound \ {"result"} \in SUBSET Registrations
      BY <1>1 DEF Bridge
    <3>2. r1 \in Bridge
      BY <1>1, <3>1 DEF Bridge
    <3> HIDE DEF r1
    <3> QED  BY <3>2, SetFlag
  <2>2. /\ r.active = b.active /\ r.send = b.send /\ r.sendFuture = b.sendFuture
        /\ r.resultFuture = "none"
    BY <1>1 DEF Bridge
  <2> DEFINE other == [b EXCEPT !.resultFuture = "none", !.resultWait = TRUE,
                                !.bound = @ \ {"result"}]
  <2>3. other = r
    BY <1>1 DEF Bridge
  <2> HIDE DEF r, other
  <2>4. b' = Pump(r, o)
    BY <1>3, <2>3 DEF ResultCallback, other
  <2>5. b' \in Bridge /\ Asks(r, b')
    BY <2>1, <2>4, PumpAsks
  <2>6. Consistent(r, goal, live) /\ SlotOf(r) = SlotOf(b) /\ SlotOf(b) = "owned"
    BY <1>1, <2>2 DEF Consistent, SlotOf, Terminal
  <2>7. Consistent(b', goal, live) /\ SlotOf(b') = SlotOf(b)
    BY <2>5, <2>6, AsksConsistent
  <2>8. IInv'
    BY <1>2, <2>5, <2>7 DEF IInv, TypeOK, SlotInv
  <2> QED  BY <1>2, <2>7, <2>8 DEF SlotStep
<1>4. CASE status \in Terminal
  <2>1. live = 0
    BY <1>1, <1>4 DEF Consistent
  <2>2. s \in Bridge
    <3>1. status \in GoalStates
      BY <1>4 DEF GoalStates
    <3> HIDE DEF status
    <3> QED  BY <1>1, <3>1 DEF Bridge
  <2>3. /\ s.active = b.active /\ s.send = b.send /\ s.sendFuture = b.sendFuture
        /\ s.resultFuture = b.resultFuture
    BY <1>1 DEF Bridge
  <2> HIDE DEF s
  <2>4. \/ b' = QueueResult(s, b.active, status, o)
        \/ b' = OtherResult(s, b.active, status, o)
    BY <1>4 DEF ResultCallback, s, Terminal
  <2> HIDE DEF status
  <2>5. b' \in Bridge /\ Releases(s, b')
    BY <1>1, <2>2, <2>3, <2>4, QueueResultReleases, OtherResultReleases
  <2>6. Consistent(s, goal, live) /\ SlotOf(s) = SlotOf(b)
    BY <1>1, <2>3 DEF Consistent, SlotOf
  <2>7. /\ Consistent(b', goal, live)
        /\ SlotOf(s) = "owned" /\ SlotOf(b') \in {"free", "asked"}
    BY <1>1, <2>1, <2>2, <2>3, <2>5, <2>6, ReleasesConsistent
  <2>8. IInv'
    BY <1>2, <2>5, <2>7 DEF IInv, TypeOK, SlotInv
  <2>9. SlotStep
    BY <1>2, <2>1, <2>6, <2>7 DEF SlotStep, Slot!Next, Slot!Release
  <2> QED  BY <2>8, <2>9
<1> QED  BY <1>1, <1>3, <1>4 DEF ResultAnswers

\* An answer arrives: its future changes and nothing else of the bridge does.
LEMMA AnswerType ==
    ASSUME NEW s \in Bridge
    PROVE  /\ \A a \in SendAnswers : [s EXCEPT !["sendFuture"] = a] \in Bridge
           /\ \A a \in ResultAnswers : [s EXCEPT !["resultFuture"] = a] \in Bridge
           /\ \A a \in CancelAnswers : [s EXCEPT !["cancelFuture"] = a] \in Bridge
<1>1. \A a \in SendAnswers : [s EXCEPT !["sendFuture"] = a] \in Bridge
  BY DEF Bridge
<1>2. \A a \in ResultAnswers : [s EXCEPT !["resultFuture"] = a] \in Bridge
  BY DEF Bridge
<1>3. \A a \in CancelAnswers : [s EXCEPT !["cancelFuture"] = a] \in Bridge
  BY DEF Bridge
<1> QED  BY <1>1, <1>2, <1>3

LEMMA ServerAcceptsStep ==
    ASSUME IInv, ServerAccepts
    PROVE  IInv' /\ SlotStep
<1>1. b \in Bridge /\ Consistent(b, goal, live) /\ b.sendFuture = "asked"
  BY DEF IInv, TypeOK, SlotInv, ServerAccepts
<1>2. b' = [b EXCEPT !["sendFuture"] = "accepted"]
  BY DEF ServerAccepts, Answer
<1>3. b' \in Bridge
  BY <1>1, <1>2, AnswerType DEF SendAnswers
<1>4. /\ b'.active = b.active /\ b'.send = b.send
      /\ b'.sendFuture = "accepted" /\ b'.resultFuture = b.resultFuture
  BY <1>1, <1>2 DEF Bridge
<1>5. b.send # None /\ b.active = None /\ live = 0
  BY <1>1 DEF Consistent
<1>6. /\ goal' = "executing" /\ live' = live + 1
      /\ UNCHANGED <<disk, intent, restarts>>
  BY DEF ServerAccepts
<1>7. Consistent(b', goal', live')
  BY <1>1, <1>4, <1>5, <1>6 DEF Consistent, Terminal
<1>8. SlotOf(b) = "asked" /\ SlotOf(b') = "begun"
  BY <1>1, <1>4, <1>5 DEF SlotOf
<1>9. goal' \in ServerStates /\ live' \in Nat
  BY <1>5, <1>6 DEF ServerStates
<1> QED  BY <1>3, <1>6, <1>7, <1>8, <1>9
         DEF IInv, TypeOK, SlotInv, SlotStep, Slot!Next, Slot!Begin

LEMMA ServerRefusesStep ==
    ASSUME IInv, ServerRefuses
    PROVE  IInv' /\ SlotStep
<1>1. b \in Bridge /\ Consistent(b, goal, live) /\ b.sendFuture = "asked"
  BY DEF IInv, TypeOK, SlotInv, ServerRefuses
<1>2. PICK a \in {"rejected", "failed"} : b' = [b EXCEPT !["sendFuture"] = a]
  BY DEF ServerRefuses, Answer
<1>3. b' \in Bridge
  BY <1>1, <1>2, AnswerType DEF SendAnswers
<1>4. /\ b'.active = b.active /\ b'.send = b.send
      /\ b'.sendFuture \in {"rejected", "failed"} /\ b'.resultFuture = b.resultFuture
  BY <1>1, <1>2 DEF Bridge
<1>5. b.send # None /\ b.active = None /\ live = 0
  BY <1>1 DEF Consistent
<1>6. UNCHANGED <<disk, goal, live, intent, restarts>>
  BY DEF ServerRefuses
<1>7. Consistent(b', goal, live)
  BY <1>1, <1>4, <1>5 DEF Consistent, Terminal
<1>8. SlotOf(b) = "asked" /\ SlotOf(b') = "refused"
  BY <1>1, <1>4, <1>5 DEF SlotOf
<1> QED  BY <1>3, <1>6, <1>7, <1>8
         DEF IInv, TypeOK, SlotInv, SlotStep, Slot!Next, Slot!Refuse

LEMMA GoalEndsStep ==
    ASSUME IInv, GoalEnds
    PROVE  IInv' /\ SlotStep
<1>1. Consistent(b, goal, live) /\ goal \in {"executing", "canceling"}
  BY DEF IInv, SlotInv, GoalEnds
<1>2. /\ goal' \in Terminal /\ live' = live - 1
      /\ UNCHANGED <<b, disk, intent, restarts>>
  BY DEF GoalEnds
<1>3. live = 1 /\ live' = 0
  BY <1>1, <1>2 DEF Consistent
<1>4. Consistent(b, goal', 0)
  BY <1>1, <1>2 DEF Consistent, Terminal
<1>5. goal' \in ServerStates
  BY <1>2 DEF ServerStates
<1> QED  BY <1>2, <1>3, <1>4, <1>5
         DEF IInv, TypeOK, SlotInv, SlotStep, Slot!Next, Slot!End

LEMMA ServerResultStep ==
    ASSUME IInv, ServerResult \/ ResultFails
    PROVE  IInv' /\ SlotStep
<1>1. b \in Bridge /\ Consistent(b, goal, live) /\ b.resultFuture = "asked"
  BY DEF IInv, TypeOK, SlotInv, ServerResult, ResultFails
<1>2. PICK a \in ResultAnswers : /\ b' = [b EXCEPT !["resultFuture"] = a]
                                 /\ a \in Terminal => goal \in Terminal
  BY DEF ServerResult, ResultFails, Answer, ResultAnswers, Terminal
<1>3. b' \in Bridge
  BY <1>1, <1>2, AnswerType
<1>4. /\ b'.active = b.active /\ b'.send = b.send
      /\ b'.sendFuture = b.sendFuture /\ b'.resultFuture = a
  BY <1>1, <1>2 DEF Bridge
<1>5. UNCHANGED <<disk, goal, live, intent, restarts>>
  BY DEF ServerResult, ResultFails
<1>6. Consistent(b', goal, live)
  BY <1>1, <1>2, <1>4 DEF Consistent, Terminal
<1>7. SlotOf(b') = SlotOf(b)
  BY <1>4 DEF SlotOf
<1> QED  BY <1>3, <1>5, <1>6, <1>7 DEF IInv, TypeOK, SlotInv, SlotStep

LEMMA ServerCancelStep ==
    ASSUME IInv, ServerCancel
    PROVE  IInv' /\ SlotStep
<1>1. b \in Bridge /\ Consistent(b, goal, live) /\ goal \in ServerStates
  BY DEF IInv, TypeOK, SlotInv
<1>2. PICK a \in CancelAnswers : b' = [b EXCEPT !["cancelFuture"] = a]
  BY DEF ServerCancel, Answer, CancelAnswers
<1>3. b' \in Bridge
  BY <1>1, <1>2, AnswerType
<1>4. /\ b'.active = b.active /\ b'.send = b.send
      /\ b'.sendFuture = b.sendFuture /\ b'.resultFuture = b.resultFuture
  BY <1>1, <1>2 DEF Bridge
<1>5. UNCHANGED <<disk, live, intent, restarts>>
  BY DEF ServerCancel
<1>6. \/ goal' = goal
      \/ goal \in {"executing", "canceling"} /\ goal' = "canceling"
  BY Zenon DEF ServerCancel
<1>9. goal' \in ServerStates
  BY <1>1, <1>6 DEF ServerStates
<1>7. Consistent(b', goal', live)
  BY <1>1, <1>4, <1>6 DEF Consistent
<1>8. SlotOf(b') = SlotOf(b)
  BY <1>4 DEF SlotOf
<1> QED  BY <1>3, <1>5, <1>7, <1>8, <1>9 DEF IInv, TypeOK, SlotInv, SlotStep

\* A process that starts owns nothing.
LEMMA BootType ==
    ASSUME NEW file \in Files
    PROVE  /\ Boot(file) \in Bridge
           /\ Boot(file).active = None /\ Boot(file).send = None
           /\ Boot(file).sendFuture = "none" /\ Boot(file).resultFuture = "none"
<1>1. file.route \in 0..MaxRoute /\ file.loop \in BOOLEAN
  BY DEF Files
<1>2. 0 \in 0..(MaxCancelAttempts + 1) /\ 0 \in 0..1
  BY GoalBridgeAssumption
<1>3. <<>> \in {q \in Seq(Poses) : Len(q) <= MaxWaypointQueue}
  BY Empty
<1>4. /\ "WAYPOINT" \in Modes /\ "IDLE" \in QueueStates /\ {} \in SUBSET Registrations
      /\ "none" \in GoalStates /\ None \in Requests \cup {None}
  BY DEF Modes, QueueStates, GoalStates
<1>5. Boot(file) \in Bridge
  BY <1>1, <1>2, <1>3, <1>4, Zenon DEF Boot, Bridge
<1> QED  BY <1>5 DEF Boot

LEMMA BootConsistent ==
    ASSUME NEW file \in Files
    PROVE  Consistent(Boot(file), "none", 0) /\ SlotOf(Boot(file)) = "free"
BY BootType DEF Consistent, SlotOf, Terminal

LEMMA RestartStep ==
    ASSUME IInv, Restart
    PROVE  IInv' /\ SlotStep
<1>1. disk \in Files
  BY DEF IInv, TypeOK
<1>2. /\ b' = Boot(disk) /\ goal' = "none" /\ live' = 0
      /\ intent' = "none" /\ disk' = disk
      /\ restarts' \in 0..MaxRestarts
  BY GoalBridgeAssumption DEF Restart, IInv, TypeOK
<1>3. b' \in Bridge /\ Consistent(b', goal', live') /\ SlotOf(b') = "free"
  BY <1>1, <1>2, BootType, BootConsistent
<1>4. goal' \in ServerStates
  BY <1>2 DEF ServerStates
<1> QED  BY <1>1, <1>2, <1>3, <1>4
         DEF IInv, TypeOK, SlotInv, SlotStep, Slot!Next, Slot!Restart

-----------------------------------------------------------------------------
(* The theorems *)

LEMMA InitIInv == Init => IInv /\ Slot!Init
<1> SUFFICES ASSUME Init PROVE IInv /\ Slot!Init
  OBVIOUS
<1>1. /\ disk \in Files /\ b = Boot(disk) /\ goal = "none" /\ live = 0
      /\ intent = "none" /\ restarts = 0
  BY DEF Init
<1>2. b \in Bridge /\ Consistent(b, goal, live) /\ SlotOf(b) = "free"
  BY <1>1, BootType, BootConsistent
<1>3. goal \in ServerStates /\ restarts \in 0..MaxRestarts
  BY <1>1, GoalBridgeAssumption DEF ServerStates
<1> QED  BY <1>1, <1>2, <1>3 DEF IInv, TypeOK, SlotInv, Slot!Init

\* Every step keeps the invariant and is a step of the one-slot specification,
\* or leaves the slot alone.
LEMMA NextIInv == IInv /\ [Next]_vars => IInv' /\ SlotStep
<1> SUFFICES ASSUME IInv, [Next]_vars PROVE IInv' /\ SlotStep
  OBVIOUS
<1>1. TypeOK
  BY DEF IInv
<1>2. ASSUME NEW o \in Outcomes, Command(o) PROVE IInv' /\ SlotStep
  BY <1>1, <1>2, CommandAsks, AskingStep
<1>3. ASSUME NEW o \in Outcomes, TimerCallback(o) PROVE IInv' /\ SlotStep
  BY <1>1, <1>3, TimerCallbackAsks, AskingStep
<1>4. ASSUME NEW o \in Outcomes, Shutdown(o) PROVE IInv' /\ SlotStep
  BY <1>1, <1>4, ShutdownAsks, AskingStep
<1>5. CASE FeedbackCallback
  BY <1>1, <1>5, FeedbackCallbackAsks, AskingStep
<1>6. CASE CancelCallback
  BY <1>1, <1>6, CancelCallbackAsks, AskingStep
<1>7. ASSUME NEW o \in Outcomes, GoalResponseCallback(o) PROVE IInv' /\ SlotStep
  BY <1>7, GoalResponseStep
<1>8. ASSUME NEW o \in Outcomes, ResultCallback(o) PROVE IInv' /\ SlotStep
  BY <1>8, ResultStep
<1>9. CASE RetryIntervalOver
  BY <1>1, <1>9, RetryIntervalOverAsks, AskingStep
<1>10. CASE Restart
  BY <1>10, RestartStep
<1>11. CASE Server
  BY <1>11, ServerAcceptsStep, ServerRefusesStep, GoalEndsStep, ServerResultStep,
     ServerCancelStep, Zenon DEF Server
<1>12. CASE UNCHANGED vars
  BY <1>12 DEF vars, IInv, TypeOK, SlotInv, Consistent, SlotStep, SlotOf
<1> QED  BY <1>2, <1>3, <1>4, <1>5, <1>6, <1>7, <1>8, <1>9, <1>10, <1>11, <1>12, Zenon
         DEF Next, Callback

LEMMA Invariance == Spec => []IInv
<1>1. Init => IInv
  BY InitIInv
<1>2. IInv /\ [Next]_vars => IInv'
  BY NextIInv
<1> QED  BY <1>1, <1>2, PTL DEF Spec

\* Every variable keeps its type.
THEOREM TypeCorrect == Spec => []TypeOK
<1>1. IInv => TypeOK
  BY DEF IInv
<1> QED  BY <1>1, Invariance, PTL

\* The agreement of what is in flight with the server's state is invariant.
THEOREM InFlightAgrees == Spec => []SlotInv
<1>1. IInv => SlotInv
  BY DEF IInv
<1> QED  BY <1>1, Invariance, PTL

\* The bridge never has two goals at the server and never forgets a live one
\* (_pump, _clear_active_state).
THEOREM GoalsAreExclusive == Spec => []AtMostOneGoal
<1>1. IInv => AtMostOneGoal
  BY DEF IInv, SlotInv, Consistent, AtMostOneGoal
<1> QED  BY <1>1, Invariance, PTL

\* The bridge implements the one-slot specification.
THEOREM ImplementsOneSlot == Spec => OneSlot
<1>1. Init => Slot!Init
  BY InitIInv
<1>2. IInv /\ [Next]_vars => [Slot!Next]_<<SlotOf(b), live>>
  BY NextIInv DEF SlotStep
<1> QED  BY <1>1, <1>2, Invariance, PTL DEF Spec, OneSlot, Slot!Spec

-----------------------------------------------------------------------------
(* What the bridge does with the waypoints and with the operator's word      *)

\* Whatever is owned is registered for the current generation; an answer to a
\* result or cancel request is awaited for an active goal only; the requests to
\* cancel are counted.
Tracked(s) ==
    /\ s.pending # None => "pending" \in s.bound
    /\ s.send # None => "send" \in s.bound
    /\ s.resultFuture # "none" => s.active # None /\ "result" \in s.bound
    /\ s.cancelFuture # "none" => s.active # None /\ "cancel" \in s.bound
    /\ s.shutting \/ s.attempts <= MaxCancelAttempts

\* The request waits, is sent or is active, and nothing else does or is.
Executes(s, request) ==
    \/ s.pending = request /\ s.send = None /\ s.active = None
    \/ s.pending = None /\ s.send = request /\ s.active = None
    \/ s.pending = None /\ s.send = None /\ s.active = request

\* A queue that is RUNNING drives to its front, and nobody wants that cancelled.
Running(s) ==
    s.qstate = "RUNNING" /\ ~s.shutting =>
        /\ s.queue # <<>>
        /\ Executes(s, Request("queue", Head(s.queue)))
        /\ ~s.cancelRequested

\* Nothing will be dispatched, and what is in flight is to be cancelled.
Halted(s) ==
    /\ s.pending = None
    /\ ~s.run
    /\ HasInflight(s) => s.cancelRequested

\* The part of the inductive invariant that is about queue, route and answers.
\* In ROUTE mode there is no queue that a late answer could go on with.
Steered(s, word) ==
    /\ Tracked(s)
    /\ Running(s)
    /\ s.mode = "ROUTE" => s.queue = <<>>
    /\ s.mode = "ROUTE" /\ word = "halt" => Halted(s)

SteeredInv == Steered(b, intent)

\* A method that hands nothing back: the pending request waits on, or it is sent
\* into the free slot, or it is dropped because a cancellation is wanted.
Passes(s, t) ==
    /\ t.mode = s.mode /\ t.queue = s.queue /\ t.qstate = s.qstate /\ t.run = s.run
    /\ t.active = s.active /\ t.cancelRequested = s.cancelRequested
    /\ t.shutting = s.shutting
    /\ \/ t.pending = s.pending /\ t.send = s.send
       \/ /\ ~s.shutting /\ s.active = None /\ s.send = None /\ t.pending = None
          /\ t.send = s.pending \/ (t.send = None /\ s.cancelRequested)

LEMMA PassesTransitive ==
    ASSUME NEW s, NEW t, NEW u, Passes(s, t), Passes(t, u)
    PROVE  Passes(s, u)
BY DEF Passes

\* To pass a request on keeps what the bridge drives to and what it was told.
LEMMA PassesSteers ==
    ASSUME NEW s, NEW t, NEW word, Steered(s, word), Tracked(t), Passes(s, t)
    PROVE  Steered(t, word)
<1>1. Running(t)
  <2> SUFFICES ASSUME t.qstate = "RUNNING", ~t.shutting
               PROVE  /\ t.queue # <<>>
                      /\ Executes(t, Request("queue", Head(t.queue)))
                      /\ ~t.cancelRequested
    BY DEF Running
  <2>1. /\ s.queue # <<>> /\ ~s.cancelRequested
        /\ Executes(s, Request("queue", Head(s.queue)))
    BY DEF Steered, Running, Passes
  <2> QED  BY <2>1 DEF Executes, Passes
<1>2. Halted(s) => Halted(t)
  BY DEF Halted, HasInflight, Passes
<1> QED  BY <1>1, <1>2 DEF Steered, Passes

LEMMA AdvancePasses ==
    ASSUME NEW s \in Bridge, Tracked(s)
    PROVE  /\ Tracked(Advance(s)) /\ Passes(s, Advance(s))
           /\ Advance(s).pending = s.pending /\ Advance(s).send = s.send
<1>1. Tracked(Advance(s)) /\ Passes(s, Advance(s))
  BY DEF Advance, Bridge, Tracked, Passes, Registrations
<1>2. Advance(s).pending = s.pending /\ Advance(s).send = s.send
  BY DEF Advance, Bridge
<1> QED  BY <1>1, <1>2

\* Only shutdown asks beyond the maximum (_request_cancel).
LEMMA RequestCancelPasses ==
    ASSUME NEW s \in Bridge, NEW force \in BOOLEAN, NEW o, Tracked(s), force => s.shutting
    PROVE  Tracked(RequestCancel(s, force, o)) /\ Passes(s, RequestCancel(s, force, o))
<1> DEFINE asked  == [s EXCEPT !.attempts = OneMore(@), !.cancelFuture = "asked",
                               !.bound = @ \cup {"cancel"}]
           failed == [s EXCEPT !.attempts = OneMore(@), !.cancelWait = TRUE]
           asks == s.active # None /\ (s.shutting \/ s.attempts < MaxCancelAttempts)
<1>1. asks => s.shutting \/ OneMore(s.attempts) <= MaxCancelAttempts
  BY GoalBridgeAssumption DEF OneMore, Bridge
<1>2. Passes(s, asked) /\ Passes(s, failed) /\ Passes(s, s)
  BY DEF Passes, Bridge
<1>3. asks => Tracked(asked)
  <2>1. /\ asked.pending = s.pending /\ asked.send = s.send /\ asked.active = s.active
        /\ asked.resultFuture = s.resultFuture /\ asked.shutting = s.shutting
        /\ asked.attempts = OneMore(s.attempts) /\ asked.bound = s.bound \cup {"cancel"}
    BY DEF Bridge
  <2> HIDE DEF asked
  <2> QED  BY <1>1, <2>1 DEF Tracked
<1>4. asks => Tracked(failed)
  <2>1. /\ failed.pending = s.pending /\ failed.send = s.send /\ failed.active = s.active
        /\ failed.resultFuture = s.resultFuture /\ failed.shutting = s.shutting
        /\ failed.cancelFuture = s.cancelFuture
        /\ failed.attempts = OneMore(s.attempts) /\ failed.bound = s.bound
    BY DEF Bridge
  <2> HIDE DEF failed
  <2> QED  BY <1>1, <2>1 DEF Tracked
<1> HIDE DEF asked, failed
<1>5. RequestCancel(s, force, o) = s \/ (asks /\ RequestCancel(s, force, o) \in {asked, failed})
  <2>1. s.attempts \in Int /\ MaxCancelAttempts \in Int
    BY GoalBridgeAssumption DEF Bridge
  <2> QED  BY <2>1 DEF RequestCancel, asked, failed
<1> QED  BY <1>2, <1>3, <1>4, <1>5

LEMMA EnsureResultPasses ==
    ASSUME NEW s \in Bridge, NEW o, Tracked(s)
    PROVE  Tracked(EnsureResult(s, o)) /\ Passes(s, EnsureResult(s, o))
<1> DEFINE asked  == [s EXCEPT !.resultFuture = "asked", !.bound = @ \cup {"result"}]
           failed == [s EXCEPT !.resultWait = TRUE]
<1>1. Passes(s, asked) /\ Passes(s, failed) /\ Passes(s, s)
  BY DEF Passes, Bridge
<1>2. s.active # None => Tracked(asked)
  BY DEF Tracked, Bridge
<1>3. Tracked(failed)
  BY DEF Tracked, Bridge
<1> HIDE DEF asked, failed
<1>4. EnsureResult(s, o) \in {s, failed} \/ (s.active # None /\ EnsureResult(s, o) = asked)
  BY DEF EnsureResult, asked, failed
<1> QED  BY <1>1, <1>2, <1>3, <1>4

LEMMA SendPendingPasses ==
    ASSUME NEW s \in Bridge, NEW o, Tracked(s),
           ~s.shutting, s.active = None, s.send = None, s.pending # None
    PROVE  Tracked(SendPending(s, o)) /\ Passes(s, SendPending(s, o))
<1> DEFINE sent == [s EXCEPT !.pending = None, !.send = s.pending, !.sendFuture = "asked",
                             !.bound = (@ \ {"pending"}) \cup {"send", "feedback"}]
           dropped == [s EXCEPT !.pending = None, !.bound = @ \ {"pending"}]
<1>1. Tracked(sent) /\ Passes(s, sent)
  <2>1. /\ sent.mode = s.mode /\ sent.queue = s.queue /\ sent.qstate = s.qstate
        /\ sent.run = s.run /\ sent.active = s.active /\ sent.shutting = s.shutting
        /\ sent.cancelRequested = s.cancelRequested
    BY DEF Bridge
  <2>2. /\ sent.pending = None /\ sent.send = s.pending /\ "send" \in sent.bound
        /\ sent.resultFuture = s.resultFuture /\ sent.cancelFuture = s.cancelFuture
        /\ sent.attempts = s.attempts
    BY DEF Bridge
  <2> HIDE DEF sent
  <2> QED  BY <2>1, <2>2 DEF Tracked, Passes
<1>2. Tracked(dropped) /\ (s.cancelRequested => Passes(s, dropped))
  BY DEF Tracked, Passes, Bridge
<1>3. Passes(s, s)
  BY DEF Passes
<1> HIDE DEF sent, dropped
<1>4. SendPending(s, o) \in {s, sent} \/ (s.cancelRequested /\ SendPending(s, o) = dropped)
  BY DEF SendPending, sent, dropped
<1> QED  BY <1>1, <1>2, <1>3, <1>4

\* The pump never drops a request that nobody cancels (_pump).
LEMMA PumpPasses ==
    ASSUME NEW s \in Bridge, NEW o, Tracked(s)
    PROVE  Tracked(Pump(s, o)) /\ Passes(s, Pump(s, o))
<1>1. CASE s.active # None
  <2> DEFINE t == EnsureResult(s, o)
             u == RequestCancel(t, s.shutting, o)
  <2>1. t \in Bridge /\ Tracked(t) /\ Passes(s, t)
    BY EnsureResultAsks, EnsureResultPasses
  <2>2. s.shutting \in BOOLEAN /\ t.shutting = s.shutting
    BY <2>1 DEF Bridge, Passes
  <2>3. Pump(s, o) \in {t, u}
    BY <1>1 DEF Pump
  <2> HIDE DEF t
  <2>4. Tracked(u) /\ Passes(t, u)
    BY <2>1, <2>2, RequestCancelPasses
  <2>5. Passes(s, u)
    BY <2>1, <2>4, PassesTransitive
  <2> QED  BY <2>1, <2>3, <2>4, <2>5
<1>2. CASE s.active = None
  <2>1. Passes(s, s)
    BY DEF Passes
  <2>2. CASE s.shutting \/ s.pending = None \/ s.send # None
    BY <1>2, <2>1, <2>2 DEF Pump
  <2>3. CASE ~(s.shutting \/ s.pending = None \/ s.send # None)
    <3>1. Tracked(SendPending(s, o)) /\ Passes(s, SendPending(s, o))
      BY <1>2, <2>3, SendPendingPasses
    <3>2. "pending" \in s.bound
      BY <2>3 DEF Tracked
    <3> QED  BY <1>2, <2>1, <2>3, <3>1, <3>2 DEF Pump
  <2> QED  BY <2>2, <2>3
<1> QED  BY <1>1, <1>2

\* A new request waits, and nothing is wanted any more of what is in flight.
LEMMA ReplaceRequestTracked ==
    ASSUME NEW s \in Bridge, NEW o, NEW request \in Requests, Tracked(s)
    PROVE  LET r == ReplaceRequest(s, request, o)
           IN  Tracked(r) /\ r.mode = s.mode /\ r.queue = s.queue /\ r.qstate = s.qstate
<1> DEFINE a == Advance(s)
           t == [a EXCEPT !.pending = request, !.bound = @ \cup {"pending"},
                          !.cancelRequested = HasInflight(s)]
           c == RequestCancel(t, FALSE, o)
           u == IF HasInflight(s) THEN c ELSE t
           r == ReplaceRequest(s, request, o)
<1>1. a \in Bridge /\ Tracked(a) /\ Passes(s, a)
  BY AdvanceAsks, AdvancePasses
<1> HIDE DEF a
<1>2. t \in Bridge
  <2> DEFINE v == [a EXCEPT !.pending = request, !.bound = @ \cup {"pending"}]
  <2>1. a.bound \cup {"pending"} \in SUBSET Registrations
    BY <1>1 DEF Bridge, Registrations
  <2>2. v \in Bridge
    BY ZenonT(40), <1>1, <2>1 DEF Bridge
  <2> HIDE DEF v
  <2>3. HasInflight(s) \in BOOLEAN
    BY DEF HasInflight
  <2>4. [v EXCEPT !.cancelRequested = HasInflight(s)] \in Bridge
    BY <2>2, <2>3, SetFlag
  <2> QED  BY <2>4 DEF v
<1>3. /\ t.mode = a.mode /\ t.queue = a.queue /\ t.qstate = a.qstate
      /\ t.send = a.send /\ t.active = a.active /\ t.shutting = a.shutting
      /\ t.resultFuture = a.resultFuture /\ t.cancelFuture = a.cancelFuture
      /\ t.attempts = a.attempts /\ t.bound = a.bound \cup {"pending"}
  BY <1>1 DEF Bridge
<1>4. r = Pump(u, o)
  BY DEF ReplaceRequest, a
<1> HIDE DEF t, r
<1>5. Tracked(t)
  BY <1>1, <1>3 DEF Tracked
<1>6. c \in Bridge /\ Tracked(c) /\ Passes(t, c)
  BY <1>2, <1>5, RequestCancelAsks, RequestCancelPasses
<1> HIDE DEF c
<1>7. u \in Bridge /\ Tracked(u) /\ u.mode = t.mode /\ u.queue = t.queue /\ u.qstate = t.qstate
  BY <1>2, <1>5, <1>6 DEF Passes
<1> HIDE DEF u
<1>8. Tracked(r) /\ Passes(u, r)
  BY <1>4, <1>7, PumpPasses
<1>9. r.mode = s.mode /\ r.queue = s.queue /\ r.qstate = s.qstate
  BY <1>1, <1>3, <1>7, <1>8 DEF Passes
<1> QED  BY <1>8, <1>9 DEF r

\* A stop drops what is pending and wants the rest cancelled.
LEMMA HaltHalts ==
    ASSUME NEW s \in Bridge, NEW o, Tracked(s)
    PROVE  LET r == Halt(s, o)
           IN  /\ Tracked(r) /\ r.mode = s.mode /\ r.queue = s.queue /\ r.qstate = s.qstate
               /\ ~s.run => Halted(r)
<1> DEFINE a == Advance(s)
           t == [a EXCEPT !.pending = None, !.bound = @ \ {"pending"},
                          !.cancelRequested = HasInflight(s)]
           r == Halt(s, o)
<1>1. a \in Bridge /\ Tracked(a) /\ Passes(s, a) /\ a.send = s.send
  BY AdvanceAsks, AdvancePasses
<1> HIDE DEF a
<1>2. t \in Bridge
  <2> DEFINE v == [a EXCEPT !.pending = None, !.bound = @ \ {"pending"}]
  <2>1. a.bound \ {"pending"} \in SUBSET Registrations
    BY <1>1 DEF Bridge
  <2>2. v \in Bridge
    BY ZenonT(40), <1>1, <2>1 DEF Bridge
  <2> HIDE DEF v
  <2>3. HasInflight(s) \in BOOLEAN
    BY DEF HasInflight
  <2>4. [v EXCEPT !.cancelRequested = HasInflight(s)] \in Bridge
    BY <2>2, <2>3, SetFlag
  <2> QED  BY <2>4 DEF v
<1>3. /\ t.mode = a.mode /\ t.queue = a.queue /\ t.qstate = a.qstate /\ t.run = a.run
      /\ t.send = a.send /\ t.active = a.active /\ t.shutting = a.shutting
      /\ t.resultFuture = a.resultFuture /\ t.cancelFuture = a.cancelFuture
      /\ t.attempts = a.attempts /\ t.bound = a.bound \ {"pending"}
      /\ t.pending = None /\ t.cancelRequested = HasInflight(s)
  BY <1>1 DEF Bridge
<1>4. r = RequestCancel(t, FALSE, o)
  BY DEF Halt, a
<1> HIDE DEF t, r
<1>5. Tracked(t)
  BY <1>1, <1>3 DEF Tracked
<1>6. Tracked(r) /\ Passes(t, r)
  BY <1>2, <1>4, <1>5, RequestCancelPasses
<1>7. HasInflight(t) = HasInflight(s)
  BY <1>1, <1>3 DEF HasInflight, Passes
<1>8. ~s.run => Halted(t)
  BY <1>1, <1>3, <1>7 DEF Halted, Passes
<1>9. Halted(t) => Halted(r)
  BY <1>6 DEF Halted, HasInflight, Passes
<1>10. r.mode = s.mode /\ r.queue = s.queue /\ r.qstate = s.qstate
  BY <1>1, <1>3, <1>6 DEF Passes
<1> QED  BY <1>6, <1>8, <1>9, <1>10 DEF r

LEMMA RestoreTracked ==
    ASSUME NEW s \in Bridge, NEW request, Tracked(s)
    PROVE  LET r == Restore(s, request)
           IN  /\ Tracked(r) /\ r.mode = s.mode /\ r.queue = s.queue /\ r.qstate = s.qstate
               /\ r.run = s.run /\ r.send = s.send /\ r.active = s.active
               /\ r.cancelRequested = s.cancelRequested /\ r.shutting = s.shutting
               /\ s.cancelRequested => r.pending = s.pending
               /\ ~s.cancelRequested /\ ~s.shutting /\ s.pending = None => r.pending = request
<1> DEFINE t == [s EXCEPT !.pending = request, !.bound = @ \cup {"pending"}]
<1>1. /\ t.mode = s.mode /\ t.queue = s.queue /\ t.qstate = s.qstate
      /\ t.run = s.run /\ t.send = s.send /\ t.active = s.active
      /\ t.cancelRequested = s.cancelRequested /\ t.shutting = s.shutting
  BY DEF Bridge
<1>2. /\ t.pending = request /\ t.bound = s.bound \cup {"pending"}
      /\ t.resultFuture = s.resultFuture /\ t.cancelFuture = s.cancelFuture
      /\ t.attempts = s.attempts
  BY DEF Bridge
<1> HIDE DEF t
<1>3. Tracked(t)
  BY <1>1, <1>2 DEF Tracked
<1>4. Restore(s, request) = IF ~s.shutting /\ s.pending = None /\ ~s.cancelRequested THEN t ELSE s
  BY DEF Restore, t
<1> QED  BY <1>1, <1>2, <1>3, <1>4

LEMMA ClearActiveTracked ==
    ASSUME NEW s \in Bridge, Tracked(s)
    PROVE  LET r == ClearActive(s)
           IN  /\ Tracked(r) /\ r.mode = s.mode /\ r.queue = s.queue /\ r.qstate = s.qstate
               /\ r.run = s.run /\ r.send = s.send /\ r.pending = s.pending
               /\ r.active = None /\ ~r.cancelRequested /\ r.shutting = s.shutting
<1> DEFINE r == ClearActive(s)
<1>1. /\ r.mode = s.mode /\ r.queue = s.queue /\ r.qstate = s.qstate
      /\ r.run = s.run /\ r.send = s.send /\ r.pending = s.pending
      /\ r.active = None /\ ~r.cancelRequested /\ r.shutting = s.shutting
  BY DEF ClearActive, Bridge
<1>2. /\ r.resultFuture = "none" /\ r.cancelFuture = "none" /\ r.attempts = 0
      /\ r.bound = s.bound \ {"result", "cancel"}
  BY DEF ClearActive, Bridge
<1> HIDE DEF r
<1>3. Tracked(r)
  BY <1>1, <1>2, GoalBridgeAssumption DEF Tracked
<1> QED  BY <1>1, <1>3 DEF r

\* A queue that is not running is left as it is or drives to its front, and only
\* in WAYPOINT mode.
LEMMA DispatchFrontRuns ==
    ASSUME NEW s \in Bridge, NEW o, Tracked(s), s.qstate # "RUNNING"
    PROVE  LET r == DispatchFront(s, o)
           IN  /\ Tracked(r) /\ Running(r)
               /\ r.mode = s.mode /\ r.queue = s.queue /\ r.run = s.run
               /\ r.shutting = s.shutting
               /\ s.shutting => r.send = s.send
               /\ s.mode # "WAYPOINT" => r = s
<1> DEFINE a == Advance(s)
           front == Request("queue", Head(s.queue))
           t == [a EXCEPT !.qstate = "RUNNING", !.cancelRequested = FALSE,
                          !.pending = front, !.bound = @ \cup {"pending"}]
           r == DispatchFront(s, o)
<1>1. CASE \/ s.mode # "WAYPOINT" \/ s.queue = <<>> \/ s.qstate = "PAUSED"
           \/ HasInflight(s) \/ s.pending # None
  <2>1. r = s
    BY <1>1 DEF DispatchFront
  <2>2. Running(s)
    BY DEF Running
  <2> QED  BY <2>1, <2>2
<1>2. CASE ~(\/ s.mode # "WAYPOINT" \/ s.queue = <<>> \/ s.qstate = "PAUSED"
             \/ HasInflight(s) \/ s.pending # None)
  <2>1. a \in Bridge /\ Tracked(a) /\ Passes(s, a)
    BY AdvanceAsks, AdvancePasses
  <2>2. a.pending = s.pending /\ a.send = s.send /\ a.active = s.active
    BY AdvancePasses DEF Passes
  <2>3. r = Pump(t, o)
    BY <1>2 DEF DispatchFront
  <2> HIDE DEF a, front, r
  <2>4. front \in Requests
    BY <1>2, QueueFacts, RequestFacts DEF front
  <2>5. t \in Bridge
    <3>1. a.bound \cup {"pending"} \in SUBSET Registrations
      BY <2>1 DEF Bridge, Registrations
    <3> DEFINE u1 == [a EXCEPT !.qstate = "RUNNING"]
               u2 == [u1 EXCEPT !.cancelRequested = FALSE]
    <3>2. u1 \in Bridge /\ u1.bound = a.bound
      <4>1. u1 \in Bridge
        BY <2>1, Empty, QueueStateNames, SetQueueFields
      <4> QED  BY <2>1, <4>1 DEF Bridge
    <3> HIDE DEF u1
    <3>3. u2 \in Bridge /\ u2.bound = u1.bound
      <4>1. u2 \in Bridge
        BY <3>2, SetFlag
      <4> QED  BY <3>2, <4>1 DEF Bridge
    <3> HIDE DEF u2
    <3>4. [u2 EXCEPT !.pending = front, !.bound = @ \cup {"pending"}] \in Bridge
      BY ZenonT(40), <2>4, <3>1, <3>2, <3>3 DEF Bridge
    <3> QED  BY <3>4 DEF u1, u2
  <2>6. /\ t.mode = a.mode /\ t.queue = a.queue /\ t.run = a.run
        /\ t.send = a.send /\ t.active = a.active /\ t.shutting = a.shutting
        /\ t.resultFuture = a.resultFuture /\ t.cancelFuture = a.cancelFuture
        /\ t.attempts = a.attempts /\ t.bound = a.bound \cup {"pending"}
        /\ t.pending = front /\ t.qstate = "RUNNING" /\ ~t.cancelRequested
    BY <2>1 DEF Bridge
  <2> HIDE DEF t
  <2>7. Tracked(t)
    BY <2>1, <2>6 DEF Tracked
  <2>8. Tracked(r) /\ Passes(t, r)
    BY <2>3, <2>5, <2>7, PumpPasses
  <2>9. t.queue = s.queue /\ t.send = None /\ t.active = None
    BY <1>2, <2>1, <2>2, <2>6 DEF Passes, HasInflight
  <2>10. Running(r)
    <3>1. Executes(r, front)
      BY <2>6, <2>8, <2>9 DEF Passes, Executes
    <3> QED  BY <1>2, <2>6, <2>8, <2>9, <3>1 DEF Running, Passes, front
  <2>11. r.mode = s.mode /\ r.queue = s.queue /\ r.run = s.run /\ r.shutting = s.shutting
    BY <2>1, <2>6, <2>8 DEF Passes
  <2>12. s.shutting => r.send = s.send
    BY <2>1, <2>2, <2>6, <2>8 DEF Passes
  <2> QED  BY <1>2, <2>8, <2>10, <2>11, <2>12 DEF r
<1> QED  BY <1>1, <1>2

-----------------------------------------------------------------------------
(* The end of a goal, refused or with a result *)

\* The bridge between the answer that ended the request and what the handler does
\* about it: a running queue has lost its front's goal, a halted bridge wants
\* nothing to be sent.
Ends(s, request, word) ==
    /\ Tracked(s)
    /\ s.send = None
    /\ s.qstate = "RUNNING" /\ ~s.shutting =>
          /\ s.queue # <<>> /\ request = Request("queue", Head(s.queue))
          /\ s.pending = None /\ ~s.cancelRequested
    /\ s.mode = "ROUTE" => s.queue = <<>>
    /\ s.mode = "ROUTE" /\ word = "halt" => s.pending = None /\ ~s.run /\ s.cancelRequested

\* What every way to handle it has in common.
EndsWell(s, r, word) ==
    /\ Steered(r, word)
    /\ r.shutting = s.shutting
    /\ s.shutting => r.send = None

\* A goal that was not the queue's front ends: the next request is served.
LEMMA ClearAndPumpEnds ==
    ASSUME NEW s \in Bridge, NEW request, NEW o, NEW word, Ends(s, request, word),
           s.qstate = "RUNNING" => s.shutting
    PROVE  LET r == Pump(ClearActive(s), o)
           IN  EndsWell(s, r, word) /\ r.queue = s.queue
<1> DEFINE c == ClearActive(s)
           r == Pump(c, o)
<1>1. /\ c \in Bridge /\ Tracked(c)
      /\ c.mode = s.mode /\ c.queue = s.queue /\ c.qstate = s.qstate
      /\ c.run = s.run /\ c.send = s.send /\ c.pending = s.pending
      /\ c.active = None /\ c.shutting = s.shutting
  BY ClearActiveFrees, ClearActiveTracked DEF Ends
<1> HIDE DEF c
<1>2. Tracked(r) /\ Passes(c, r)
  BY <1>1, PumpPasses
<1> HIDE DEF r
<1>3. Steered(c, word)
  BY <1>1 DEF Steered, Running, Halted, HasInflight, Ends
<1>4. Steered(r, word)
  BY <1>2, <1>3, PassesSteers
<1>5. /\ r.shutting = s.shutting /\ r.queue = s.queue
      /\ s.shutting => r.send = None
  BY <1>1, <1>2 DEF Passes, Ends
<1> QED  BY <1>4, <1>5 DEF EndsWell, c, r

\* What a queue that has stopped running and may go on looks like.
LEMMA GoesOn ==
    ASSUME NEW s, NEW t \in Bridge, NEW o, NEW word, Tracked(t),
           t.qstate # "RUNNING", t.send = None, t.shutting = s.shutting,
           t.mode = "ROUTE" => t.queue = <<>>,
           t.mode = "ROUTE" /\ word = "halt" => Halted(t)
    PROVE  LET r == DispatchFront(t, o)
           IN  EndsWell(s, r, word) /\ r.queue = t.queue
<1> DEFINE r == DispatchFront(t, o)
<1>1. /\ Tracked(r) /\ Running(r)
      /\ r.mode = t.mode /\ r.queue = t.queue /\ r.shutting = t.shutting
      /\ t.shutting => r.send = t.send
      /\ t.mode # "WAYPOINT" => r = t
  BY DispatchFrontRuns
<1> HIDE DEF r
<1>2. Steered(r, word)
  BY <1>1 DEF Steered
<1> QED  BY <1>1, <1>2 DEF EndsWell, r

\* Only the front's success consumes it (_handle_queue_success).
LEMMA QueueSuccessEnds ==
    ASSUME NEW s \in Bridge, NEW request, NEW o, NEW word, Ends(s, request, word)
    PROVE  LET r == QueueSuccess(s, request, o)
           IN  /\ EndsWell(s, r, word)
               /\ r.queue # s.queue => IsFront(s, request) /\ r.queue = Tail(s.queue)
<1>1. CASE ~IsFront(s, request)
  <2>1. s.qstate = "RUNNING" => s.shutting
    BY <1>1 DEF Ends, IsFront, Request
  <2> QED  BY <1>1, <2>1, ClearAndPumpEnds DEF QueueSuccess
<1>2. CASE IsFront(s, request)
  <2> DEFINE c == ClearActive(s)
             a == Advance(c)
             t == [a EXCEPT !.queue = Tail(@), !.retry = 0, !.qstate = "IDLE"]
             r == QueueSuccess(s, request, o)
  <2>1. /\ c \in Bridge /\ Tracked(c)
        /\ c.mode = s.mode /\ c.queue = s.queue /\ c.send = s.send /\ c.shutting = s.shutting
    BY ClearActiveFrees, ClearActiveTracked DEF Ends
  <2> HIDE DEF c
  <2>2. a \in Bridge /\ Tracked(a) /\ Passes(c, a) /\ a.send = c.send
    BY <2>1, AdvanceAsks, AdvancePasses
  <2>3. r = DispatchFront(t, o)
    BY <1>2 DEF QueueSuccess, c
  <2> HIDE DEF a, r
  <2>4. a.queue = s.queue /\ a.queue # <<>>
    BY <1>2, <2>1, <2>2 DEF Passes, IsFront
  <2>5. t \in Bridge
    <3> DEFINE u1 == [a EXCEPT !.queue = Tail(@)]
               u2 == [u1 EXCEPT !.retry = 0]
    <3>1. u1 \in Bridge
      <4>1. Tail(a.queue) \in Seq(Poses) /\ Len(Tail(a.queue)) <= MaxWaypointQueue
        BY <2>2, <2>4, QueueFacts
      <4> QED  BY ZenonT(40), <2>2, <4>1 DEF Bridge
    <3> HIDE DEF u1
    <3>2. u2 \in Bridge
      BY <3>1, Empty, QueueStateNames, SetQueueFields
    <3> HIDE DEF u2
    <3>3. [u2 EXCEPT !.qstate = "IDLE"] \in Bridge
      BY <3>2, Empty, QueueStateNames, SetQueueFields
    <3> QED  BY <3>3 DEF u1, u2
  <2>6. /\ t.mode = a.mode /\ t.queue = Tail(a.queue) /\ t.qstate = "IDLE"
        /\ t.send = a.send /\ t.active = a.active /\ t.shutting = a.shutting
        /\ t.pending = a.pending /\ t.bound = a.bound /\ t.attempts = a.attempts
        /\ t.resultFuture = a.resultFuture /\ t.cancelFuture = a.cancelFuture
    BY <2>2 DEF Bridge
  <2> HIDE DEF t
  <2>7. Tracked(t)
    BY <2>2, <2>6 DEF Tracked
  <2>8. t.mode # "ROUTE" /\ t.send = None /\ t.shutting = s.shutting
    BY <2>1, <2>2, <2>4, <2>6 DEF Passes, Ends
  <2>9. EndsWell(s, r, word) /\ r.queue = t.queue
    BY <2>3, <2>5, <2>6, <2>7, <2>8, GoesOn
  <2> QED  BY <1>2, <2>4, <2>6, <2>9 DEF r
<1> QED  BY <1>1, <1>2

\* A failure keeps the front (_handle_queue_failure).
LEMMA QueueFailureEnds ==
    ASSUME NEW s \in Bridge, NEW request, NEW o, NEW word, Ends(s, request, word)
    PROVE  LET r == QueueFailure(s, request, o)
           IN  EndsWell(s, r, word) /\ r.queue = s.queue
<1>1. CASE ~IsFront(s, request)
  <2>1. s.qstate = "RUNNING" => s.shutting
    BY <1>1 DEF Ends, IsFront, Request
  <2> QED  BY <1>1, <2>1, ClearAndPumpEnds DEF QueueFailure
<1>2. CASE IsFront(s, request)
  <2> DEFINE c == IF s.active # None THEN ClearActive(s) ELSE s
             again == [c EXCEPT !.retry = 1, !.qstate = "IDLE"]
             a == Advance(c)
             paused == [a EXCEPT !.qstate = "PAUSED"]
             r == QueueFailure(s, request, o)
  <2>1. /\ c \in Bridge /\ Tracked(c)
        /\ c.mode = s.mode /\ c.queue = s.queue /\ c.send = None /\ c.shutting = s.shutting
    BY ClearActiveFrees, ClearActiveTracked DEF Ends
  <2>2. r = IF s.retry = 0 THEN DispatchFront(again, o) ELSE paused
    BY <1>2 DEF QueueFailure
  <2> HIDE DEF c, r
  <2>3. c.mode # "ROUTE"
    BY <1>2, <2>1 DEF Ends, IsFront
  <2>4. EndsWell(s, DispatchFront(again, o), word) /\ DispatchFront(again, o).queue = s.queue
    <3>1. again \in Bridge
      <4> DEFINE u == [c EXCEPT !.retry = 1]
      <4>1. u \in Bridge
        BY <2>1, Empty, QueueStateNames, SetQueueFields
      <4> HIDE DEF u
      <4>2. [u EXCEPT !.qstate = "IDLE"] \in Bridge
        BY <4>1, Empty, QueueStateNames, SetQueueFields
      <4> QED  BY <4>2 DEF u
    <3>2. /\ again.mode = c.mode /\ again.queue = c.queue /\ again.qstate = "IDLE"
          /\ again.send = c.send /\ again.active = c.active /\ again.shutting = c.shutting
          /\ again.pending = c.pending /\ again.bound = c.bound
          /\ again.attempts = c.attempts
          /\ again.resultFuture = c.resultFuture /\ again.cancelFuture = c.cancelFuture
      BY <2>1 DEF Bridge
    <3> HIDE DEF again
    <3>3. Tracked(again)
      BY <2>1, <3>2 DEF Tracked
    <3> QED  BY <2>1, <2>3, <3>1, <3>2, <3>3, GoesOn
  <2>5. EndsWell(s, paused, word) /\ paused.queue = s.queue
    <3>1. a \in Bridge /\ Tracked(a) /\ Passes(c, a) /\ a.send = c.send
      BY <2>1, AdvanceAsks, AdvancePasses
    <3> HIDE DEF a
    <3>2. /\ paused.mode = a.mode /\ paused.queue = a.queue /\ paused.qstate = "PAUSED"
          /\ paused.send = a.send /\ paused.active = a.active /\ paused.shutting = a.shutting
          /\ paused.pending = a.pending /\ paused.bound = a.bound
          /\ paused.attempts = a.attempts
          /\ paused.resultFuture = a.resultFuture /\ paused.cancelFuture = a.cancelFuture
      BY <3>1 DEF Bridge
    <3> HIDE DEF paused
    <3>3. Tracked(paused)
      BY <3>1, <3>2 DEF Tracked
    <3>4. Steered(paused, word)
      BY <2>3, <3>1, <3>2, <3>3 DEF Steered, Running, Passes
    <3> QED  BY <2>1, <3>1, <3>2, <3>4 DEF EndsWell, Passes
  <2> QED  BY <2>2, <2>4, <2>5 DEF r
<1> QED  BY <1>1, <1>2

LEMMA QueueResultEnds ==
    ASSUME NEW s \in Bridge, NEW request, NEW status, NEW o, NEW word,
           Ends(s, request, word)
    PROVE  LET r == QueueResult(s, request, status, o)
           IN  /\ EndsWell(s, r, word)
               /\ r.queue # s.queue => /\ status = "succeeded" /\ IsFront(s, request)
                                       /\ r.queue = Tail(s.queue)
<1>1. CASE status = "canceled" /\ s.cancelRequested
  <2>1. s.qstate = "RUNNING" => s.shutting
    BY <1>1 DEF Ends
  <2> QED  BY <1>1, <2>1, ClearAndPumpEnds DEF QueueResult
<1>2. CASE ~(status = "canceled" /\ s.cancelRequested) /\ status = "succeeded"
  BY <1>2, QueueSuccessEnds DEF QueueResult
<1>3. CASE ~(status = "canceled" /\ s.cancelRequested) /\ status # "succeeded"
  BY <1>3, QueueFailureEnds DEF QueueResult
<1> QED  BY <1>1, <1>2, <1>3

LEMMA SetSlot ==
    ASSUME NEW s \in Bridge, NEW r \in Requests \cup {None}
    PROVE  [s EXCEPT !.pending = r] \in Bridge /\ [s EXCEPT !.active = r] \in Bridge
<1>1. [s EXCEPT !.pending = r] \in Bridge
  BY DEF Bridge
<1>2. [s EXCEPT !.active = r] \in Bridge
  BY DEF Bridge
<1> QED  BY <1>1, <1>2

LEMMA SetBound ==
    ASSUME NEW s \in Bridge, NEW x \in SUBSET Registrations
    PROVE  [s EXCEPT !.bound = x] \in Bridge
BY DEF Bridge

LEMMA SetGoalState ==
    ASSUME NEW s \in Bridge, NEW v \in GoalStates
    PROVE  LET t == [s EXCEPT !.goalState = v]
           IN  /\ t \in Bridge
               /\ t.mode = s.mode /\ t.queue = s.queue /\ t.qstate = s.qstate /\ t.run = s.run
               /\ t.pending = s.pending /\ t.send = s.send /\ t.active = s.active
               /\ t.resultFuture = s.resultFuture /\ t.cancelFuture = s.cancelFuture
               /\ t.cancelRequested = s.cancelRequested /\ t.shutting = s.shutting
               /\ t.attempts = s.attempts /\ t.bound = s.bound
<1> DEFINE t == [s EXCEPT !.goalState = v]
<1>1. t \in Bridge
  BY DEF Bridge
<1>2. /\ t.mode = s.mode /\ t.queue = s.queue /\ t.qstate = s.qstate /\ t.run = s.run
      /\ t.pending = s.pending /\ t.send = s.send /\ t.active = s.active
  BY DEF Bridge
<1>3. /\ t.resultFuture = s.resultFuture /\ t.cancelFuture = s.cancelFuture
      /\ t.cancelRequested = s.cancelRequested /\ t.shutting = s.shutting
      /\ t.attempts = s.attempts /\ t.bound = s.bound
  BY DEF Bridge
<1> QED  BY <1>1, <1>2, <1>3

\* What the goal's state says is nobody's condition.
LEMMA GoalStateEnds ==
    ASSUME NEW s \in Bridge, NEW v \in GoalStates, NEW request, NEW word,
           Ends(s, request, word)
    PROVE  Ends([s EXCEPT !.goalState = v], request, word)
<1> DEFINE t == [s EXCEPT !.goalState = v]
<1>1. /\ t.mode = s.mode /\ t.queue = s.queue /\ t.qstate = s.qstate /\ t.run = s.run
      /\ t.pending = s.pending /\ t.send = s.send /\ t.active = s.active
      /\ t.resultFuture = s.resultFuture /\ t.cancelFuture = s.cancelFuture
      /\ t.cancelRequested = s.cancelRequested /\ t.shutting = s.shutting
      /\ t.attempts = s.attempts /\ t.bound = s.bound
  BY SetGoalState
<1> HIDE DEF t
<1>2. Ends(t, request, word)
  BY <1>1 DEF Ends, Tracked
<1> QED  BY <1>2 DEF t

\* A handler that has ended well may still pump.
LEMMA PumpEnds ==
    ASSUME NEW s, NEW t \in Bridge, NEW o, NEW word, EndsWell(s, t, word)
    PROVE  EndsWell(s, Pump(t, o), word) /\ Pump(t, o).queue = t.queue
<1>1. Tracked(t) /\ Steered(t, word)
  BY DEF EndsWell, Steered
<1>2. Tracked(Pump(t, o)) /\ Passes(t, Pump(t, o))
  BY <1>1, PumpPasses
<1>3. Steered(Pump(t, o), word)
  BY <1>1, <1>2, PassesSteers
<1> QED  BY <1>2, <1>3 DEF EndsWell, Passes

\* A looping route begins anew only while the operator's run goes on.
LEMMA OtherResultEnds ==
    ASSUME NEW s \in Bridge, NEW request, NEW status, NEW o, NEW word,
           Ends(s, request, word), request.purpose # "queue"
    PROVE  LET r == OtherResult(s, request, status, o)
           IN  EndsWell(s, r, word) /\ r.queue = s.queue
<1> DEFINE loops == /\ request = Route /\ status = "succeeded"
                    /\ s.run /\ s.loop /\ s.route > 0 /\ s.pending = None
           f == [s EXCEPT !.run = @ /\ (request = Route => loops)]
           c == ClearActive(f)
           a == Advance(c)
           u == [a EXCEPT !.pending = Route, !.bound = @ \cup {"pending"}]
           v == IF loops THEN u ELSE c
           r == OtherResult(s, request, status, o)
<1>1. f \in Bridge
  <2>1. (s.run /\ (request = Route => loops)) \in BOOLEAN
    OBVIOUS
  <2> QED  BY <2>1, SetFlag
<1>2. /\ f.mode = s.mode /\ f.queue = s.queue /\ f.qstate = s.qstate
      /\ f.pending = s.pending /\ f.send = s.send /\ f.active = s.active
      /\ f.resultFuture = s.resultFuture /\ f.cancelFuture = s.cancelFuture
      /\ f.shutting = s.shutting /\ f.attempts = s.attempts /\ f.bound = s.bound
  BY DEF Bridge
<1>3. f.run => s.run
  BY DEF Bridge
<1>4. r = Pump(v, o)
  BY DEF OtherResult
<1>5. loops => s.run /\ s.pending = None
  OBVIOUS
<1> HIDE DEF f, loops, r
<1>6. Tracked(f)
  BY <1>2 DEF Ends, Tracked
<1>7. /\ c \in Bridge /\ Tracked(c)
      /\ c.mode = s.mode /\ c.queue = s.queue /\ c.qstate = s.qstate
      /\ c.run = f.run /\ c.send = None /\ c.pending = s.pending
      /\ c.active = None /\ c.shutting = s.shutting
  BY <1>1, <1>2, <1>6, ClearActiveFrees, ClearActiveTracked DEF Ends
<1> HIDE DEF c
<1>8. a \in Bridge /\ Tracked(a) /\ Passes(c, a) /\ a.send = None
  BY <1>7, AdvanceAsks, AdvancePasses
<1> HIDE DEF a
<1>9. u \in Bridge
  <2> DEFINE w == [a EXCEPT !.pending = Route]
  <2>1. w \in Bridge
    BY <1>8, RequestFacts, SetSlot
  <2> HIDE DEF w
  <2>2. w.bound \cup {"pending"} \in SUBSET Registrations
    BY <2>1 DEF Bridge, Registrations
  <2>3. [w EXCEPT !.bound = @ \cup {"pending"}] \in Bridge
    BY <2>1, <2>2, SetBound
  <2> QED  BY <2>3 DEF w
<1>10. /\ u.mode = a.mode /\ u.queue = a.queue /\ u.qstate = a.qstate /\ u.run = a.run
       /\ u.send = a.send /\ u.active = a.active /\ u.shutting = a.shutting
       /\ u.resultFuture = a.resultFuture /\ u.cancelFuture = a.cancelFuture
       /\ u.attempts = a.attempts /\ u.bound = a.bound \cup {"pending"}
  BY <1>8 DEF Bridge
<1> HIDE DEF u
<1>11. Tracked(u)
  BY <1>8, <1>10 DEF Tracked
<1>12. s.qstate = "RUNNING" => s.shutting
  BY DEF Ends, Request
<1>13. EndsWell(s, c, word)
  BY <1>3, <1>7, <1>12 DEF EndsWell, Steered, Running, Halted, HasInflight, Ends
<1>14. loops => EndsWell(s, u, word)
  BY <1>5, <1>7, <1>8, <1>10, <1>11, <1>12
     DEF EndsWell, Steered, Running, Ends, Passes
<1>15. v \in Bridge /\ EndsWell(s, v, word) /\ v.queue = s.queue
  BY <1>7, <1>8, <1>9, <1>10, <1>13, <1>14 DEF Passes
<1> HIDE DEF v
<1>16. EndsWell(s, r, word) /\ r.queue = s.queue
  BY <1>4, <1>15, PumpEnds
<1> QED  BY <1>16 DEF r

\* A request that did not get to the server waits again, unless its cancellation is
\* wanted (_restore_request_if_latest).
LEMMA RestoreEnds ==
    ASSUME NEW s \in Bridge, NEW request, NEW word, Ends(s, request, word), s.active = None
    PROVE  LET r == Restore(s, request)
           IN  EndsWell(s, r, word) /\ r.queue = s.queue
<1> DEFINE r == Restore(s, request)
<1>1. /\ Tracked(r) /\ r.mode = s.mode /\ r.queue = s.queue /\ r.qstate = s.qstate
      /\ r.run = s.run /\ r.send = s.send /\ r.active = s.active
      /\ r.cancelRequested = s.cancelRequested /\ r.shutting = s.shutting
      /\ s.cancelRequested => r.pending = s.pending
      /\ ~s.cancelRequested /\ ~s.shutting /\ s.pending = None => r.pending = request
  BY RestoreTracked DEF Ends
<1> HIDE DEF r
<1>2. Running(r)
  BY <1>1 DEF Running, Executes, Ends
<1>3. r.mode = "ROUTE" /\ word = "halt" => Halted(r)
  BY <1>1 DEF Halted, Ends
<1>4. Steered(r, word)
  BY <1>1, <1>2, <1>3 DEF Steered, Ends
<1> QED  BY <1>1, <1>4 DEF EndsWell, Ends, r

LEMMA RejectedEnds ==
    ASSUME NEW s \in Bridge, NEW request \in Requests, NEW o, NEW word,
           Ends(s, request, word), s.active = None
    PROVE  LET r == Rejected(s, request, o)
           IN  EndsWell(s, r, word) /\ r.queue = s.queue
<1> DEFINE t == [s EXCEPT !.goalState = "aborted"]
           f == QueueFailure(t, request, o)
           e == Restore(t, request)
           r == Rejected(s, request, o)
<1>1. r = Pump(IF request.purpose = "queue" THEN f ELSE e, o)
  BY DEF Rejected
<1>2. "aborted" \in GoalStates
  BY DEF GoalStates, Terminal
<1>3. /\ t \in Bridge /\ Ends(t, request, word)
      /\ t.active = None /\ t.queue = s.queue /\ t.shutting = s.shutting
      /\ t.resultFuture = s.resultFuture
  BY <1>2, SetGoalState, GoalStateEnds
<1> HIDE DEF t, r
<1>4. f \in Bridge /\ EndsWell(t, f, word) /\ f.queue = s.queue
  <2>1. t.resultFuture = "none"
    BY <1>3 DEF Ends, Tracked
  <2> QED  BY <1>3, <2>1, QueueFailureReleases, QueueFailureEnds
<1>5. e \in Bridge /\ EndsWell(t, e, word) /\ e.queue = s.queue
  BY <1>3, RestoreAsks, RestoreEnds
<1> HIDE DEF e, f
<1>6. EndsWell(t, r, word) /\ r.queue = s.queue
  BY <1>1, <1>4, <1>5, PumpEnds
<1> QED  BY <1>3, <1>6 DEF EndsWell, r

\* A goal that is accepted late is asked to cancel, at once during shutdown
\* (_goal_response_callback).
LEMMA AcceptedEnds ==
    ASSUME NEW s \in Bridge, NEW request \in Requests, NEW o, NEW word,
           Ends(s, request, word), s.active = None
    PROVE  LET r == Accepted(s, request, o)
           IN  /\ EndsWell(s, r, word) /\ r.queue = s.queue
               /\ s.shutting => r.attempts > 0
<1> DEFINE u == [s EXCEPT !.active = request, !.goalState = "accepted",
                          !.cancelFuture = "none", !.attempts = 0,
                          !.cancelAccepted = FALSE, !.cancelWait = FALSE]
           t == EnsureResult(u, o)
           c == RequestCancel(t, s.shutting, o)
           r == Accepted(s, request, o)
<1>1. u \in Bridge
  <2> DEFINE u1 == [s EXCEPT !.goalState = "accepted"]
             w == [u1 EXCEPT !.active = request]
             u2 == [w EXCEPT !.cancelFuture = "none", !.attempts = 0]
             u3 == [u2 EXCEPT !.cancelAccepted = FALSE]
  <2>1. u1 \in Bridge
    <3>1. "accepted" \in GoalStates
      BY DEF GoalStates
    <3> QED  BY <3>1, SetGoalState
  <2> HIDE DEF u1
  <2>2. u2 \in Bridge
    <3>1. 0 \in 0..(MaxCancelAttempts + 1)
      BY GoalBridgeAssumption
    <3>2. w \in Bridge
      BY <2>1, SetSlot
    <3> HIDE DEF w
    <3> QED  BY ZenonT(40), <3>1, <3>2 DEF Bridge
  <2> HIDE DEF u2
  <2>3. u3 \in Bridge
    BY <2>2, SetFlag
  <2> HIDE DEF u3
  <2>4. [u3 EXCEPT !.cancelWait = FALSE] \in Bridge
    BY <2>3, SetFlag
  <2> QED  BY <2>4 DEF u1, w, u2, u3
<1>2. /\ u.mode = s.mode /\ u.queue = s.queue /\ u.qstate = s.qstate /\ u.run = s.run
      /\ u.pending = s.pending /\ u.send = s.send /\ u.active = request
      /\ u.cancelRequested = s.cancelRequested /\ u.shutting = s.shutting
  BY DEF Bridge
<1>3. /\ u.resultFuture = s.resultFuture /\ u.cancelFuture = "none" /\ u.attempts = 0
      /\ u.cancelAccepted = FALSE /\ u.bound = s.bound
  BY DEF Bridge
<1>4. r = IF s.shutting \/ s.pending # None \/ s.cancelRequested THEN c ELSE t
  BY DEF Accepted
<1> HIDE DEF u, r
<1>5. request # None
  BY RequestFacts
<1>6. Tracked(u)
  BY <1>2, <1>3, <1>5, GoalBridgeAssumption DEF Ends, Tracked
<1>7. Steered(u, word)
  <2>1. Running(u)
    BY <1>2 DEF Running, Executes, Ends
  <2>2. u.mode = "ROUTE" /\ word = "halt" => Halted(u)
    BY <1>2 DEF Halted, Ends
  <2> QED  BY <1>2, <1>6, <2>1, <2>2 DEF Steered, Ends
<1>8. t \in Bridge /\ Tracked(t) /\ Passes(u, t)
  BY <1>1, <1>6, EnsureResultAsks, EnsureResultPasses
<1>9. t.cancelFuture = "none" /\ t.attempts = 0 /\ t.cancelAccepted = FALSE
  BY <1>1, <1>3 DEF EnsureResult, Bridge
<1>10. c = RequestCancel(t, s.shutting, o)
  OBVIOUS
<1> HIDE DEF t, c
<1>11. s.shutting \in BOOLEAN /\ t.shutting = s.shutting
  BY <1>2, <1>8 DEF Bridge, Passes
<1>12. Tracked(c) /\ Passes(t, c)
  BY <1>8, <1>10, <1>11, RequestCancelPasses
<1>13. s.shutting => c.attempts > 0
  <2> SUFFICES ASSUME s.shutting PROVE c.attempts > 0
    OBVIOUS
  <2>1. t.active # None
    BY <1>2, <1>5, <1>8 DEF Passes
  <2>2. OneMore(t.attempts) > 0
    BY <1>9, GoalBridgeAssumption DEF OneMore
  <2>3. c.attempts = OneMore(t.attempts)
    BY <1>8, <1>9, <1>10, <2>1 DEF RequestCancel, Bridge
  <2> QED  BY <2>2, <2>3
<1>14. Tracked(r) /\ Passes(u, r)
  BY <1>4, <1>8, <1>12, PassesTransitive
<1>15. Steered(r, word)
  BY <1>7, <1>14, PassesSteers
<1>16. /\ r.shutting = s.shutting /\ r.queue = s.queue
       /\ s.shutting => r.send = None
  BY <1>2, <1>14 DEF Passes, Ends
<1> QED  BY <1>4, <1>13, <1>15, <1>16 DEF EndsWell, r

-----------------------------------------------------------------------------
(* Every step is steered *)

\* During shutdown no goal is sent, and one that is accepted is asked to cancel.
SendsNothing ==
    b.shutting /\ b'.shutting =>
        /\ b'.send = None \/ b'.send = b.send
        /\ b.active = None /\ b'.active # None => b'.attempts > 0

\* The queue loses its front to the success of the front's goal alone.
ConsumesFront ==
    b'.queue # b.queue =>
        /\ b.resultFuture = "succeeded"
        /\ b.active = Request("queue", Head(b.queue))
        /\ b'.queue = Tail(b.queue)

\* Whatever passes the request on or leaves it alone.
LEMMA PassingStep ==
    ASSUME SteeredInv, Passes(b, b'), Tracked(b'), intent' = intent
    PROVE  SteeredInv' /\ SendsNothing /\ ConsumesFront
<1>1. Steered(b', intent)
  BY PassesSteers DEF SteeredInv
<1>2. SendsNothing /\ ConsumesFront
  BY DEF Passes, SendsNothing, ConsumesFront
<1> QED  BY <1>1, <1>2 DEF SteeredInv

LEMMA GoalCallbackSteers ==
    ASSUME b \in Bridge, SteeredInv, NEW o, GoalCallback(o)
    PROVE  SteeredInv'
<1> DEFINE q == IF b.qstate = "RUNNING" THEN "PAUSED" ELSE b.qstate
           u == [b EXCEPT !.qstate = q]
           v == [u EXCEPT !.run = FALSE]
<1>1. u \in Bridge
  <2>1. q \in QueueStates
    BY QueueStateNames DEF Bridge
  <2> HIDE DEF q
  <2> QED  BY <2>1, Empty, SetQueueFields
<1>2. v \in Bridge
  <2> HIDE DEF u
  <2> QED  BY <1>1, SetFlag
<1>3. b' = ReplaceRequest(v, Single, o)
  BY DEF GoalCallback
<1>4. /\ v.mode = b.mode /\ v.queue = b.queue /\ v.qstate = q /\ v.shutting = b.shutting
      /\ v.pending = b.pending /\ v.send = b.send /\ v.active = b.active
      /\ v.resultFuture = b.resultFuture /\ v.cancelFuture = b.cancelFuture
      /\ v.attempts = b.attempts /\ v.bound = b.bound
  BY DEF Bridge
<1> HIDE DEF u, v
<1>5. Tracked(v)
  BY <1>4 DEF Tracked, Steered, SteeredInv
<1>6. Tracked(b') /\ b'.mode = v.mode /\ b'.queue = v.queue /\ b'.qstate = v.qstate
  BY <1>2, <1>3, <1>5, ReplaceRequestTracked, RequestFacts
<1>7. intent' = "drive" /\ q # "RUNNING"
  BY DEF GoalCallback
<1> QED  BY <1>4, <1>6, <1>7 DEF SteeredInv, Steered, Running

LEMMA WaypointToQueueSteers ==
    ASSUME b \in Bridge, SteeredInv, NEW o, NEW p \in Poses, WaypointToQueue(p, o)
    PROVE  SteeredInv'
<1> DEFINE a == Advance(b)
           u == [a EXCEPT !.queue = Append(@, p)]
<1>1. a \in Bridge /\ Tracked(a) /\ Passes(b, a) /\ Steered(a, intent)
  BY AdvanceAsks, AdvancePasses, PassesSteers DEF SteeredInv, Steered
<1>2. b' = IF b.qstate = "IDLE" THEN DispatchFront(u, o) ELSE u
  BY DEF WaypointToQueue
<1> HIDE DEF a
<1>3. /\ Append(a.queue, p) \in Seq(Poses)
      /\ Len(Append(a.queue, p)) <= MaxWaypointQueue
      /\ a.queue # <<>> => Append(a.queue, p) # <<>> /\ Head(Append(a.queue, p)) = Head(a.queue)
  <2>1. a.queue \in Seq(Poses) /\ Len(a.queue) < MaxWaypointQueue
    BY <1>1 DEF WaypointToQueue, Passes, Bridge
  <2>2. /\ Append(a.queue, p) \in Seq(Poses) /\ Len(Append(a.queue, p)) <= MaxWaypointQueue
    BY <1>1, <2>1, QueueFacts
  <2>3. a.queue # <<>> => Append(a.queue, p) # <<>> /\ Head(Append(a.queue, p)) = Head(a.queue)
    <3>1. Len(Append(a.queue, p)) = Len(a.queue) + 1
      BY <2>1, AppendProperties
    <3>2. a.queue # <<>> => Len(a.queue) >= 1
      BY <2>1, EmptySeq
    <3>3. a.queue # <<>> => Append(a.queue, p)[1] = a.queue[1]
      BY <2>1, <3>2, AppendProperties
    <3>4. Append(a.queue, p) # <<>>
      BY <2>1, AppendProperties
    <3> QED  BY <2>1, <2>2, <3>3, <3>4, HeadTailProperties
  <2> QED  BY <2>2, <2>3
<1>4. u \in Bridge
  BY <1>1, <1>3 DEF Bridge
<1>5. /\ u.mode = a.mode /\ u.qstate = a.qstate /\ u.shutting = a.shutting
      /\ u.pending = a.pending /\ u.send = a.send /\ u.active = a.active
      /\ u.resultFuture = a.resultFuture /\ u.cancelFuture = a.cancelFuture
      /\ u.cancelRequested = a.cancelRequested
      /\ u.attempts = a.attempts /\ u.bound = a.bound
      /\ u.queue = Append(a.queue, p)
  BY <1>1 DEF Bridge
<1> HIDE DEF u
<1>6. Tracked(u)
  BY <1>1, <1>5 DEF Tracked
<1>7. u.mode = "WAYPOINT"
  BY <1>1, <1>5 DEF WaypointToQueue, Passes
<1>8. CASE b.qstate = "IDLE"
  <2>1. u.qstate # "RUNNING"
    BY <1>1, <1>5, <1>8 DEF Passes
  <2>2. Tracked(b') /\ Running(b') /\ b'.mode = u.mode
    BY <1>2, <1>4, <1>6, <1>8, <2>1, DispatchFrontRuns
  <2> QED  BY <1>7, <2>2 DEF SteeredInv, Steered
<1>9. CASE b.qstate # "IDLE"
  <2>1. Running(u)
    BY <1>1, <1>3, <1>5 DEF Steered, Running, Executes
  <2> QED  BY <1>2, <1>6, <1>7, <1>9, <2>1 DEF SteeredInv, Steered
<1> QED  BY <1>8, <1>9

\* A change of the route touches nothing that is driven.
LEMMA RouteEditSteers ==
    ASSUME b \in Bridge, SteeredInv, intent' = intent, NEW n, NEW l \in BOOLEAN,
           \/ b' = [Advance(b) EXCEPT !.route = n]
           \/ b' = [Advance(b) EXCEPT !.loop = l]
    PROVE  SteeredInv'
<1> DEFINE a == Advance(b)
<1>1. a \in Bridge /\ Tracked(a) /\ Passes(b, a)
  BY AdvanceAsks, AdvancePasses DEF SteeredInv, Steered
<1>2. \/ b' = [a EXCEPT !.route = n]
      \/ b' = [a EXCEPT !.loop = l]
  OBVIOUS
<1> HIDE DEF a
<1>3. /\ b'.mode = a.mode /\ b'.queue = a.queue /\ b'.qstate = a.qstate /\ b'.run = a.run
      /\ b'.pending = a.pending /\ b'.send = a.send /\ b'.active = a.active
      /\ b'.cancelRequested = a.cancelRequested /\ b'.shutting = a.shutting
  BY <1>1, <1>2 DEF Bridge
<1>4. /\ b'.resultFuture = a.resultFuture /\ b'.cancelFuture = a.cancelFuture
      /\ b'.attempts = a.attempts /\ b'.bound = a.bound
  BY <1>1, <1>2 DEF Bridge
<1>5. Tracked(b') /\ Passes(a, b')
  BY <1>1, <1>3, <1>4 DEF Tracked, Passes
<1>6. Passes(b, b')
  BY <1>1, <1>5, PassesTransitive
<1> QED  BY <1>5, <1>6, PassingStep

\* Every stop, clear and mode change halts a bridge whose queue does not run.
LEMMA HaltSteers ==
    ASSUME NEW u \in Bridge, NEW o, Tracked(u), u.qstate # "RUNNING",
           u.mode = "ROUTE" => u.queue = <<>> /\ ~u.run,
           b' = Halt(u, o)
    PROVE  SteeredInv'
<1>1. /\ Tracked(b') /\ b'.mode = u.mode /\ b'.queue = u.queue /\ b'.qstate = u.qstate
      /\ ~u.run => Halted(b')
  BY HaltHalts
<1> QED  BY <1>1 DEF SteeredInv, Steered, Running

LEMMA SetNavigationModeSteers ==
    ASSUME b \in Bridge, SteeredInv, NEW o, NEW m \in Modes, SetNavigationMode(m, o)
    PROVE  SteeredInv'
<1> DEFINE u1 == [b EXCEPT !.run = FALSE]
           u2 == [u1 EXCEPT !.route = 0]
           u3 == [u2 EXCEPT !.queue = <<>>]
           u4 == [u3 EXCEPT !.retry = 0]
           u5 == [u4 EXCEPT !.qstate = "IDLE"]
           u == [u5 EXCEPT !.mode = m]
<1>1. u \in Bridge
  <2>1. u1 \in Bridge
    BY SetFlag
  <2> HIDE DEF u1
  <2>2. u2 \in Bridge
    BY <2>1, Empty, SetCollections
  <2> HIDE DEF u2
  <2>3. u3 \in Bridge
    BY <2>2, Empty, SetCollections
  <2> HIDE DEF u3
  <2>4. u4 \in Bridge
    BY <2>3, Empty, SetQueueFields, QueueStateNames
  <2> HIDE DEF u4
  <2>5. u5 \in Bridge
    BY <2>4, Empty, SetQueueFields, QueueStateNames
  <2> HIDE DEF u5
  <2> QED  BY <2>5, Empty, SetCollections
<1>2. /\ u.run = FALSE /\ u.queue = <<>> /\ u.qstate = "IDLE" /\ u.shutting = b.shutting
      /\ u.pending = b.pending /\ u.send = b.send /\ u.active = b.active
      /\ u.resultFuture = b.resultFuture /\ u.cancelFuture = b.cancelFuture
      /\ u.attempts = b.attempts /\ u.bound = b.bound
  BY DEF Bridge
<1>3. b' = Halt(u, o)
  BY DEF SetNavigationMode
<1> HIDE DEF u
<1>4. Tracked(u)
  BY <1>2 DEF Tracked, Steered, SteeredInv
<1> QED  BY <1>1, <1>2, <1>3, <1>4, HaltSteers

LEMMA WaypointStartSteers ==
    ASSUME b \in Bridge, SteeredInv, NEW o, WaypointStart(o)
    PROVE  SteeredInv'
<1> DEFINE a == Advance(b)
           u1 == [a EXCEPT !.retry = 0]
           u2 == [u1 EXCEPT !.qstate = "IDLE"]
           u == [u2 EXCEPT !.cancelRequested = FALSE]
<1>1. a \in Bridge /\ Tracked(a) /\ Passes(b, a)
  BY AdvanceAsks, AdvancePasses DEF SteeredInv, Steered
<1>2. b' = DispatchFront(u, o)
  BY DEF WaypointStart
<1> HIDE DEF a
<1>3. u \in Bridge
  <2>1. u1 \in Bridge
    BY <1>1, Empty, SetQueueFields, QueueStateNames
  <2> HIDE DEF u1
  <2>2. u2 \in Bridge
    BY <2>1, Empty, SetQueueFields, QueueStateNames
  <2> HIDE DEF u2
  <2> QED  BY <2>2, SetFlag
<1>4. /\ u.mode = a.mode /\ u.qstate = "IDLE" /\ u.shutting = a.shutting
      /\ u.pending = a.pending /\ u.send = a.send /\ u.active = a.active
      /\ u.resultFuture = a.resultFuture /\ u.cancelFuture = a.cancelFuture
      /\ u.attempts = a.attempts /\ u.bound = a.bound
  BY <1>1 DEF Bridge
<1> HIDE DEF u
<1>5. Tracked(u)
  BY <1>1, <1>4 DEF Tracked
<1>6. Tracked(b') /\ Running(b') /\ b'.mode = u.mode
  BY <1>2, <1>3, <1>4, <1>5, DispatchFrontRuns
<1>7. u.mode = "WAYPOINT"
  BY <1>1, <1>4 DEF WaypointStart, Passes
<1> QED  BY <1>6, <1>7 DEF SteeredInv, Steered

LEMMA WaypointStopSteers ==
    ASSUME b \in Bridge, SteeredInv, NEW o, WaypointStop(o)
    PROVE  SteeredInv'
<1> DEFINE q == IF b.queue = <<>> THEN "IDLE" ELSE "PAUSED"
           u == [b EXCEPT !.qstate = q]
<1>1. u \in Bridge
  <2>1. q \in QueueStates
    BY QueueStateNames
  <2> HIDE DEF q
  <2> QED  BY <2>1, Empty, SetQueueFields
<1>2. /\ u.mode = b.mode /\ u.qstate = q /\ u.shutting = b.shutting
      /\ u.pending = b.pending /\ u.send = b.send /\ u.active = b.active
      /\ u.resultFuture = b.resultFuture /\ u.cancelFuture = b.cancelFuture
      /\ u.attempts = b.attempts /\ u.bound = b.bound
  BY DEF Bridge
<1>3. b' = Halt(u, o) /\ b.mode = "WAYPOINT" /\ q # "RUNNING"
  BY DEF WaypointStop
<1> HIDE DEF u, q
<1>4. Tracked(u)
  BY <1>2 DEF Tracked, Steered, SteeredInv
<1> QED  BY <1>1, <1>2, <1>3, <1>4, HaltSteers

LEMMA WaypointClearSteers ==
    ASSUME b \in Bridge, SteeredInv, NEW o, WaypointClear(o)
    PROVE  SteeredInv'
<1> DEFINE u1 == [b EXCEPT !.queue = <<>>]
           u2 == [u1 EXCEPT !.retry = 0]
           u == [u2 EXCEPT !.qstate = "IDLE"]
<1>1. u \in Bridge
  <2>1. u1 \in Bridge
    <3>1. b.mode \in Modes
      BY DEF Bridge
    <3> QED  BY <3>1, Empty, SetCollections
  <2> HIDE DEF u1
  <2>2. u2 \in Bridge
    BY <2>1, Empty, SetQueueFields, QueueStateNames
  <2> HIDE DEF u2
  <2> QED  BY <2>2, Empty, SetQueueFields, QueueStateNames
<1>2. /\ u.mode = b.mode /\ u.qstate = "IDLE" /\ u.shutting = b.shutting
      /\ u.pending = b.pending /\ u.send = b.send /\ u.active = b.active
      /\ u.resultFuture = b.resultFuture /\ u.cancelFuture = b.cancelFuture
      /\ u.attempts = b.attempts /\ u.bound = b.bound
  BY DEF Bridge
<1>3. b' = Halt(u, o) /\ b.mode = "WAYPOINT"
  BY DEF WaypointClear
<1> HIDE DEF u
<1>4. Tracked(u)
  BY <1>2 DEF Tracked, Steered, SteeredInv
<1> QED  BY <1>1, <1>2, <1>3, <1>4, HaltSteers

\* In ROUTE mode the queue does not run.
LEMMA NoQueueInRouteMode ==
    ASSUME SteeredInv, b.mode = "ROUTE", ~b.shutting
    PROVE  b.queue = <<>> /\ b.qstate # "RUNNING"
BY DEF SteeredInv, Steered, Running

LEMMA RouteStartSteers ==
    ASSUME b \in Bridge, SteeredInv, NEW o, RouteStart(o)
    PROVE  SteeredInv'
<1> DEFINE u == [b EXCEPT !.run = TRUE]
<1>1. u \in Bridge
  BY SetFlag
<1>2. /\ u.mode = b.mode /\ u.queue = b.queue /\ u.qstate = b.qstate
      /\ u.pending = b.pending /\ u.send = b.send /\ u.active = b.active
      /\ u.resultFuture = b.resultFuture /\ u.cancelFuture = b.cancelFuture
      /\ u.attempts = b.attempts /\ u.bound = b.bound /\ u.shutting = b.shutting
  BY DEF Bridge
<1>3. b' = ReplaceRequest(u, Route, o) /\ intent' = "drive" /\ b.mode = "ROUTE" /\ ~b.shutting
  BY DEF RouteStart
<1> HIDE DEF u
<1>4. Tracked(u)
  BY <1>2 DEF Tracked, Steered, SteeredInv
<1>5. Tracked(b') /\ b'.mode = u.mode /\ b'.queue = u.queue /\ b'.qstate = u.qstate
  BY <1>1, <1>3, <1>4, ReplaceRequestTracked, RequestFacts
<1>6. b.queue = <<>> /\ b.qstate # "RUNNING"
  BY <1>3, NoQueueInRouteMode
<1> QED  BY <1>2, <1>3, <1>5, <1>6 DEF SteeredInv, Steered, Running

LEMMA RouteStopSteers ==
    ASSUME b \in Bridge, SteeredInv, NEW o, RouteStop(o) \/ RouteClear(o)
    PROVE  SteeredInv'
<1> DEFINE u == [b EXCEPT !.run = FALSE]
           v == [u EXCEPT !.route = 0]
<1>1. u \in Bridge
  BY SetFlag
<1>2. v \in Bridge
  <2>1. b.mode \in Modes
    BY DEF Bridge
  <2> HIDE DEF u
  <2> QED  BY <1>1, <2>1, Empty, SetCollections
<1>3. /\ u.mode = b.mode /\ u.queue = b.queue /\ u.qstate = b.qstate /\ u.run = FALSE
      /\ u.pending = b.pending /\ u.send = b.send /\ u.active = b.active
      /\ u.resultFuture = b.resultFuture /\ u.cancelFuture = b.cancelFuture
      /\ u.attempts = b.attempts /\ u.bound = b.bound /\ u.shutting = b.shutting
  BY DEF Bridge
<1>4. /\ v.mode = b.mode /\ v.queue = b.queue /\ v.qstate = b.qstate /\ v.run = FALSE
      /\ v.pending = b.pending /\ v.send = b.send /\ v.active = b.active
      /\ v.resultFuture = b.resultFuture /\ v.cancelFuture = b.cancelFuture
      /\ v.attempts = b.attempts /\ v.bound = b.bound /\ v.shutting = b.shutting
  BY DEF Bridge
<1>5. /\ b' = Halt(u, o) \/ b' = Halt(v, o)
      /\ b.mode = "ROUTE" /\ ~b.shutting
  BY DEF RouteStop, RouteClear
<1> HIDE DEF u, v
<1>6. Tracked(u) /\ Tracked(v)
  BY <1>3, <1>4 DEF Tracked, Steered, SteeredInv
<1>7. b.queue = <<>> /\ b.qstate # "RUNNING"
  BY <1>5, NoQueueInRouteMode
<1>8. CASE b' = Halt(u, o)
  BY <1>1, <1>3, <1>6, <1>7, <1>8, HaltSteers
<1>9. CASE b' = Halt(v, o)
  BY <1>2, <1>4, <1>6, <1>7, <1>9, HaltSteers
<1> QED  BY <1>5, <1>8, <1>9

\* A command is accepted outside shutdown only, and steers.
LEMMA CommandSteers ==
    ASSUME b \in Bridge, SteeredInv, NEW o, Command(o)
    PROVE  SteeredInv' /\ SendsNothing
<1>1. ASSUME WaypointToRoute(o) PROVE SteeredInv'
  BY <1>1, RouteEditSteers DEF WaypointToRoute
<1>2. ASSUME RouteRemoveLast(o) PROVE SteeredInv'
  BY <1>2, RouteEditSteers DEF RouteRemoveLast
<1>3. ASSUME NEW l \in BOOLEAN, RouteLoop(l, o) PROVE SteeredInv'
  BY <1>3, RouteEditSteers DEF RouteLoop
<1>4. SteeredInv'
  BY <1>1, <1>2, <1>3, GoalCallbackSteers, WaypointToQueueSteers,
     SetNavigationModeSteers, WaypointStartSteers, WaypointStopSteers,
     WaypointClearSteers, RouteStartSteers, RouteStopSteers, Zenon DEF Command
<1>5. ~b.shutting
  BY Zenon DEF Command, GoalCallback, WaypointToQueue, WaypointToRoute, SetNavigationMode,
     WaypointStart, WaypointStop, WaypointClear, RouteStart, RouteStop, RouteClear,
     RouteLoop, RouteRemoveLast
<1> QED  BY <1>4, <1>5 DEF SendsNothing

LEMMA ShutdownSteers ==
    ASSUME b \in Bridge, SteeredInv, NEW o, Shutdown(o)
    PROVE  SteeredInv' /\ SendsNothing
<1> DEFINE a == Advance(b)
           u1 == [a EXCEPT !.shutting = TRUE]
           u2 == [u1 EXCEPT !.run = FALSE]
           u3 == [u2 EXCEPT !.pending = None]
           u4 == [u3 EXCEPT !.bound = @ \ {"pending"}]
           u == [u4 EXCEPT !.cancelRequested = TRUE]
<1>1. a \in Bridge /\ Tracked(a) /\ Passes(b, a)
  BY AdvanceAsks, AdvancePasses DEF SteeredInv, Steered
<1>2. b' = RequestCancel(u, TRUE, o) /\ ~b.shutting
  BY DEF Shutdown
<1> HIDE DEF a
<1>3. u \in Bridge
  <2>1. u1 \in Bridge
    BY <1>1, SetFlag
  <2> HIDE DEF u1
  <2>2. u2 \in Bridge
    BY <2>1, SetFlag
  <2> HIDE DEF u2
  <2>3. u3 \in Bridge
    BY <2>2, SetSlot
  <2> HIDE DEF u3
  <2>4. u4 \in Bridge
    <3>1. u3.bound \ {"pending"} \in SUBSET Registrations
      BY <2>3 DEF Bridge
    <3> QED  BY <2>3, <3>1, SetBound
  <2> HIDE DEF u4
  <2> QED  BY <2>4, SetFlag
<1>4. /\ u.mode = a.mode /\ u.queue = a.queue /\ u.shutting = TRUE /\ u.run = FALSE
      /\ u.pending = None /\ u.send = a.send /\ u.active = a.active
      /\ u.resultFuture = a.resultFuture /\ u.cancelFuture = a.cancelFuture
      /\ u.bound = a.bound \ {"pending"} /\ u.cancelRequested = TRUE
  BY <1>1 DEF Bridge
<1> HIDE DEF u
<1>5. Tracked(u)
  BY <1>1, <1>4 DEF Tracked
<1>6. Tracked(b') /\ Passes(u, b')
  BY <1>2, <1>3, <1>4, <1>5, RequestCancelPasses
<1>7. Steered(u, "halt")
  BY <1>1, <1>4, <1>5 DEF Steered, SteeredInv, Running, Halted, Passes
<1>8. Steered(b', "halt")
  BY <1>6, <1>7, PassesSteers
<1> QED  BY <1>2, <1>8 DEF SteeredInv, SendsNothing, Shutdown

LEMMA TimerSteers ==
    ASSUME b \in Bridge, SteeredInv, NEW o, TimerCallback(o)
    PROVE  SteeredInv' /\ SendsNothing
<1>1. b' = Pump(b, o) /\ intent' = intent
  BY DEF TimerCallback
<1>2. Tracked(b') /\ Passes(b, b')
  BY <1>1, PumpPasses DEF SteeredInv, Steered
<1> QED  BY <1>1, <1>2, PassingStep

\* Flags of a retry, the goal's state and the answer to a send are not tracked.
LEMMA RetryIntervalOverSteers ==
    ASSUME b \in Bridge, SteeredInv, RetryIntervalOver
    PROVE  SteeredInv' /\ SendsNothing
<1>1. \/ b' = [b EXCEPT !.cancelWait = FALSE]
      \/ b' = [b EXCEPT !.resultWait = FALSE]
  BY DEF RetryIntervalOver
<1>2. Passes(b, b')
  BY <1>1 DEF Passes, Bridge
<1>3. Tracked(b')
  BY <1>1 DEF Tracked, SteeredInv, Steered, Bridge
<1> QED  BY <1>2, <1>3, PassingStep DEF RetryIntervalOver

LEMMA FeedbackSteers ==
    ASSUME b \in Bridge, SteeredInv, FeedbackCallback
    PROVE  SteeredInv' /\ SendsNothing /\ ConsumesFront
<1>1. b' = [b EXCEPT !.goalState = "executing"] \/ b' = b
  BY DEF FeedbackCallback
<1>2. Passes(b, b')
  BY <1>1 DEF Passes, Bridge
<1>3. Tracked(b')
  BY <1>1 DEF Tracked, SteeredInv, Steered, Bridge
<1> QED  BY <1>2, <1>3, PassingStep DEF FeedbackCallback

LEMMA CancelSteers ==
    ASSUME b \in Bridge, SteeredInv, CancelCallback
    PROVE  SteeredInv' /\ SendsNothing /\ ConsumesFront
<1>1. b' = [b EXCEPT !.cancelFuture = "none", !.bound = @ \ {"cancel"},
                     !.cancelAccepted = (b.cancelFuture = "accepted"),
                     !.cancelWait = (b.cancelFuture # "accepted")]
  BY DEF CancelCallback
<1>2. Passes(b, b')
  BY <1>1 DEF Passes, Bridge
<1>3. /\ b'.pending = b.pending /\ b'.send = b.send /\ b'.active = b.active
      /\ b'.resultFuture = b.resultFuture /\ b'.cancelFuture = "none"
      /\ b'.attempts = b.attempts /\ b'.shutting = b.shutting
      /\ b'.bound = b.bound \ {"cancel"}
  BY <1>1 DEF Bridge
<1>4. Tracked(b')
  BY <1>3 DEF Tracked, SteeredInv, Steered
<1> QED  BY <1>2, <1>4, PassingStep DEF CancelCallback

\* An answer that arrives at the transport moves nothing in the bridge.
LEMMA ServerSteers ==
    ASSUME b \in Bridge, SteeredInv, Server
    PROVE  SteeredInv' /\ SendsNothing
<1>1. \/ b' = b
      \/ \E x : b' = [b EXCEPT !["sendFuture"] = x]
      \/ b.resultFuture = "asked" /\ \E x : b' = [b EXCEPT !["resultFuture"] = x]
      \/ b.cancelFuture = "asked" /\ \E x : b' = [b EXCEPT !["cancelFuture"] = x]
  BY Zenon DEF Server, ServerAccepts, ServerRefuses, GoalEnds, ServerResult, ResultFails,
     ServerCancel, Answer
<1>2. /\ b'.mode = b.mode /\ b'.queue = b.queue /\ b'.qstate = b.qstate /\ b'.run = b.run
      /\ b'.pending = b.pending /\ b'.send = b.send /\ b'.active = b.active
      /\ b'.cancelRequested = b.cancelRequested /\ b'.shutting = b.shutting
      /\ b'.attempts = b.attempts /\ b'.bound = b.bound
  BY <1>1 DEF Bridge
<1>3. /\ b'.resultFuture # "none" => b.resultFuture # "none"
      /\ b'.cancelFuture # "none" => b.cancelFuture # "none"
  BY <1>1 DEF Bridge
<1>4. Passes(b, b') /\ Tracked(b')
  BY <1>2, <1>3 DEF Passes, Tracked, SteeredInv, Steered
<1>5. intent' = intent
  BY Zenon DEF Server, ServerAccepts, ServerRefuses, GoalEnds, ServerResult, ResultFails,
     ServerCancel
<1> QED  BY <1>4, <1>5, PassingStep

\* A request that has been sent has been answered: the slot is free, and what the
\* answer says decides what becomes of the request.
LEMMA GoalResponseSteers ==
    ASSUME b \in Bridge, SlotInv, SteeredInv, NEW o, GoalResponseCallback(o)
    PROVE  SteeredInv' /\ SendsNothing /\ ConsumesFront
<1> DEFINE s == [b EXCEPT !.send = None, !.sendFuture = "none", !.bound = @ \ {"send"}]
           request == b.send
           accepted == Accepted(s, request, o)
           rejected == Rejected(s, request, o)
           restored == Restore(s, request)
           failed == Pump(restored, o)
<1>1. b.sendFuture \in SendAnswers /\ intent' = intent
  BY DEF GoalResponseCallback
<1>2. request # None /\ request \in Requests /\ b.active = None
  BY <1>1 DEF SlotInv, Consistent, SendAnswers, Bridge
<1>3. s \in Bridge
  <2>1. b.bound \ {"send"} \in SUBSET Registrations
    BY DEF Bridge
  <2> QED  BY <2>1 DEF Bridge
<1>4. /\ s.mode = b.mode /\ s.queue = b.queue /\ s.qstate = b.qstate /\ s.run = b.run
      /\ s.pending = b.pending /\ s.send = None /\ s.active = None
      /\ s.cancelRequested = b.cancelRequested /\ s.shutting = b.shutting
      /\ s.resultFuture = b.resultFuture /\ s.cancelFuture = b.cancelFuture
      /\ s.attempts = b.attempts /\ s.bound = b.bound \ {"send"}
  BY <1>2 DEF Bridge
<1>5. b' \in {accepted, rejected, failed}
  BY <1>1 DEF GoalResponseCallback, SendAnswers
<1> HIDE DEF s, request
<1>6. Ends(s, request, intent)
  <2>1. Tracked(s)
    BY <1>2, <1>4 DEF Tracked, SteeredInv, Steered
  <2>2. s.qstate = "RUNNING" /\ ~s.shutting =>
          /\ s.queue # <<>> /\ request = Request("queue", Head(s.queue))
          /\ s.pending = None /\ ~s.cancelRequested
    BY <1>2, <1>4 DEF SteeredInv, Steered, Running, Executes, request
  <2>3. s.mode = "ROUTE" /\ intent = "halt" => s.pending = None /\ ~s.run /\ s.cancelRequested
    BY <1>2, <1>4 DEF SteeredInv, Steered, Halted, HasInflight, request
  <2> QED  BY <1>4, <2>1, <2>2, <2>3 DEF Ends, SteeredInv, Steered
<1>7. /\ EndsWell(s, accepted, intent) /\ accepted.queue = s.queue
      /\ s.shutting => accepted.attempts > 0
  BY <1>2, <1>3, <1>4, <1>6, AcceptedEnds
<1>8. EndsWell(s, rejected, intent) /\ rejected.queue = s.queue /\ rejected.active = None
  <2>1. Asks(s, rejected)
    BY <1>2, <1>3, <1>4, <1>6, RejectedAsks DEF Ends, Tracked
  <2>2. EndsWell(s, rejected, intent) /\ rejected.queue = s.queue
    BY <1>2, <1>3, <1>4, <1>6, RejectedEnds
  <2> QED  BY <1>4, <2>1, <2>2 DEF Asks
<1>9. EndsWell(s, failed, intent) /\ failed.queue = s.queue /\ failed.active = None
  <2>1. restored \in Bridge /\ restored.active = None
    BY <1>2, <1>3, <1>4, RestoreAsks DEF Asks
  <2>2. EndsWell(s, restored, intent) /\ restored.queue = s.queue
    BY <1>3, <1>4, <1>6, RestoreEnds
  <2> HIDE DEF restored
  <2>3. EndsWell(s, failed, intent) /\ failed.queue = restored.queue
    BY <2>1, <2>2, PumpEnds
  <2>4. Asks(restored, failed)
    BY <2>1, PumpAsks
  <2> QED  BY <2>1, <2>2, <2>3, <2>4 DEF Asks
<1> HIDE DEF accepted, rejected, failed
<1>10. /\ Steered(b', intent) /\ b'.queue = b.queue
       /\ b.shutting => b'.send = None /\ (b'.active # None => b'.attempts > 0)
  BY <1>4, <1>5, <1>7, <1>8, <1>9 DEF EndsWell
<1> QED  BY <1>1, <1>10 DEF SteeredInv, SendsNothing, ConsumesFront

LEMMA ResultSteers ==
    ASSUME b \in Bridge, SlotInv, SteeredInv, NEW o, ResultCallback(o)
    PROVE  SteeredInv' /\ SendsNothing /\ ConsumesFront
<1> DEFINE status == b.resultFuture
           request == b.active
           s == [b EXCEPT !.goalState = status]
<1>1. /\ b.active # None /\ b.send = None /\ request \in Requests
      /\ status \in ResultAnswers /\ intent' = intent
  BY DEF ResultCallback, SlotInv, Consistent, Bridge
<1>2. CASE status = "failed"
  <2> DEFINE r1 == [b EXCEPT !.resultFuture = "none", !.bound = @ \ {"result"}]
             r == [r1 EXCEPT !.resultWait = TRUE]
             other == [b EXCEPT !.resultFuture = "none", !.resultWait = TRUE,
                                !.bound = @ \ {"result"}]
  <2>1. r \in Bridge
    <3>1. b.bound \ {"result"} \in SUBSET Registrations
      BY DEF Bridge
    <3>2. r1 \in Bridge
      BY <3>1 DEF Bridge
    <3> HIDE DEF r1
    <3> QED  BY <3>2, SetFlag
  <2>2. /\ r.mode = b.mode /\ r.queue = b.queue /\ r.qstate = b.qstate /\ r.run = b.run
        /\ r.pending = b.pending /\ r.send = b.send /\ r.active = b.active
        /\ r.cancelRequested = b.cancelRequested /\ r.shutting = b.shutting
        /\ r.resultFuture = "none" /\ r.cancelFuture = b.cancelFuture
        /\ r.attempts = b.attempts /\ r.bound = b.bound \ {"result"}
    BY DEF Bridge
  <2>3. other = r
    BY DEF Bridge
  <2> HIDE DEF r, other
  <2>4. b' = Pump(r, o)
    BY <1>2, <2>3 DEF ResultCallback, other
  <2>5. Tracked(r) /\ Passes(b, r)
    BY <2>2 DEF Tracked, Passes, SteeredInv, Steered
  <2>6. Tracked(b') /\ Passes(r, b')
    BY <2>1, <2>4, <2>5, PumpPasses
  <2>7. Passes(b, b')
    BY <2>5, <2>6, PassesTransitive
  <2> QED  BY <1>1, <2>6, <2>7, PassingStep
<1>3. CASE status \in Terminal
  <2>1. status \in GoalStates
    BY <1>3 DEF GoalStates
  <2>2. Ends(b, request, intent)
    BY <1>1 DEF Ends, SteeredInv, Steered, Running, Executes, Halted, HasInflight
  <2>3. /\ s \in Bridge /\ Ends(s, request, intent)
        /\ s.queue = b.queue /\ s.shutting = b.shutting
    BY <2>1, <2>2, SetGoalState, GoalStateEnds
  <2>4. b' = IF request.purpose = "queue" THEN QueueResult(s, request, status, o)
             ELSE OtherResult(s, request, status, o)
    BY <1>3 DEF ResultCallback, Terminal
  <2> HIDE DEF s, request
  <2>5. CASE request.purpose = "queue"
    <3>1. /\ EndsWell(s, b', intent)
          /\ b'.queue # s.queue => /\ status = "succeeded" /\ IsFront(s, request)
                                   /\ b'.queue = Tail(s.queue)
      BY <2>3, <2>4, <2>5, QueueResultEnds
    <3>2. IsFront(s, request) => request = Request("queue", Head(s.queue))
      BY <1>1, <2>5 DEF IsFront, Requests, Request, Single, Route
    <3> QED  BY <1>1, <2>3, <3>1, <3>2
             DEF SteeredInv, SendsNothing, ConsumesFront, EndsWell, request
  <2>6. CASE request.purpose # "queue"
    <3>1. EndsWell(s, b', intent) /\ b'.queue = s.queue
      BY <2>3, <2>4, <2>6, OtherResultEnds
    <3> QED  BY <1>1, <2>3, <3>1
             DEF SteeredInv, SendsNothing, ConsumesFront, EndsWell, request
  <2> QED  BY <2>5, <2>6
<1> QED  BY <1>1, <1>2, <1>3 DEF ResultAnswers

\* A new process has been told nothing and waits for nothing.
LEMMA BootSteers ==
    ASSUME NEW file
    PROVE  Steered(Boot(file), "none") /\ ~Boot(file).shutting
BY GoalBridgeAssumption DEF Steered, Tracked, Running, Boot

LEMMA InitSteers == Init => SteeredInv
BY BootSteers DEF Init, SteeredInv

LEMMA NextSteers == IInv /\ SteeredInv /\ [Next]_vars => SteeredInv' /\ SendsNothing
<1> SUFFICES ASSUME IInv, SteeredInv, [Next]_vars PROVE SteeredInv' /\ SendsNothing
  OBVIOUS
<1>1. b \in Bridge /\ SlotInv
  BY DEF IInv, TypeOK
<1>2. ASSUME NEW o \in Outcomes, Command(o) PROVE SteeredInv' /\ SendsNothing
  BY <1>1, <1>2, CommandSteers
<1>3. ASSUME NEW o \in Outcomes, TimerCallback(o) PROVE SteeredInv' /\ SendsNothing
  BY <1>1, <1>3, TimerSteers
<1>4. ASSUME NEW o \in Outcomes, Shutdown(o) PROVE SteeredInv' /\ SendsNothing
  BY <1>1, <1>4, ShutdownSteers
<1>5. CASE FeedbackCallback
  BY <1>1, <1>5, FeedbackSteers
<1>6. CASE CancelCallback
  BY <1>1, <1>6, CancelSteers
<1>7. ASSUME NEW o \in Outcomes, GoalResponseCallback(o) PROVE SteeredInv' /\ SendsNothing
  BY <1>1, <1>7, GoalResponseSteers
<1>8. ASSUME NEW o \in Outcomes, ResultCallback(o) PROVE SteeredInv' /\ SendsNothing
  BY <1>1, <1>8, ResultSteers
<1>9. CASE RetryIntervalOver
  BY <1>1, <1>9, RetryIntervalOverSteers
<1>10. CASE Restart
  <2>1. b' = Boot(disk) /\ intent' = "none"
    BY <1>10 DEF Restart
  <2> QED  BY <2>1, BootSteers DEF SteeredInv, SendsNothing
<1>11. CASE Server
  BY <1>1, <1>11, ServerSteers
<1>12. CASE UNCHANGED vars
  BY <1>12 DEF vars, SteeredInv, SendsNothing
<1> QED  BY <1>2, <1>3, <1>4, <1>5, <1>6, <1>7, <1>8, <1>9, <1>10, <1>11, <1>12, Zenon
         DEF Next, Callback

LEMMA CallbackConsumes == IInv /\ SteeredInv /\ Callback => ConsumesFront
<1> SUFFICES ASSUME IInv, SteeredInv, Callback PROVE ConsumesFront
  OBVIOUS
<1>1. b \in Bridge /\ SlotInv
  BY DEF IInv, TypeOK
<1>2. ASSUME NEW o \in Outcomes, GoalResponseCallback(o) PROVE ConsumesFront
  BY <1>1, <1>2, GoalResponseSteers
<1>3. ASSUME NEW o \in Outcomes, ResultCallback(o) PROVE ConsumesFront
  BY <1>1, <1>3, ResultSteers
<1> QED  BY <1>1, <1>2, <1>3, FeedbackSteers, CancelSteers, Zenon DEF Callback

LEMMA SteeredInvariance == Spec => [](IInv /\ SteeredInv)
<1>1. Init => IInv /\ SteeredInv
  BY InitIInv, InitSteers
<1>2. IInv /\ SteeredInv /\ [Next]_vars => IInv' /\ SteeredInv'
  BY NextIInv, NextSteers
<1> QED  BY <1>1, <1>2, PTL DEF Spec

\* Every answer that is awaited is registered for the current generation, RUNNING
\* means that the front is driven to, and outside shutdown the attempts to cancel
\* are bounded (_advance_generation, _dispatch_queue_front, _request_cancel).
THEOREM AnswersAreHeard == Spec => []NothingIsAwaitedInVain
<1>1. IInv /\ SteeredInv => NothingIsAwaitedInVain
  <2> SUFFICES ASSUME IInv, SteeredInv PROVE NothingIsAwaitedInVain
    OBVIOUS
  <2>1. EveryAnswerHeard
    BY DEF EveryAnswerHeard, IInv, SlotInv, Consistent, SteeredInv, Steered, Tracked
  <2>2. RunningIsExecuting
    BY DEF RunningIsExecuting, SteeredInv, Steered, Running, Executes
  <2>3. CancelAttemptsBounded
    BY DEF CancelAttemptsBounded, SteeredInv, Steered, Tracked
  <2> QED  BY <2>1, <2>2, <2>3 DEF NothingIsAwaitedInVain
<1> QED  BY <1>1, SteeredInvariance, PTL

\* In ROUTE mode a stop, a clear or a mode change holds against every answer that
\* was on the way (_route_control, _clear_route, _set_navigation_mode).
THEOREM RouteStopHolds == Spec => []RouteHaltHolds
<1>1. SteeredInv => RouteHaltHolds
  BY DEF RouteHaltHolds, SteeredInv, Steered, Halted
<1> QED  BY <1>1, SteeredInvariance, PTL

\* No failure, rejection or cancellation loses a waypoint: an answer consumes the
\* front only, after the front's goal succeeded (_handle_queue_success).
THEOREM FrontIsConsumed == Spec => ConsumedOnlyOnSuccess
<1>1. IInv /\ SteeredInv => (Callback /\ b'.queue # b.queue =>
          /\ b.resultFuture = "succeeded"
          /\ b.active = Request("queue", Head(b.queue))
          /\ b'.queue = Tail(b.queue))
  BY CallbackConsumes DEF ConsumesFront
<1> QED  BY <1>1, SteeredInvariance, PTL DEF ConsumedOnlyOnSuccess

\* During shutdown no goal is sent, and one whose acceptance comes late is asked to
\* cancel at once (shutdown, _pump, _goal_response_callback).
THEOREM ShutdownSendsNothing == Spec => NoGoalAfterShutdown
<1>1. IInv /\ SteeredInv /\ [Next]_vars => (b.shutting /\ b'.shutting =>
          /\ b'.send = None \/ b'.send = b.send
          /\ b.active = None /\ b'.active # None => b'.attempts > 0)
  BY NextSteers DEF SendsNothing
<1> QED  BY <1>1, SteeredInvariance, PTL DEF Spec, NoGoalAfterShutdown
=============================================================================
