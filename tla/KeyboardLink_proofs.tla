------------------------- MODULE KeyboardLink_proofs -------------------------
(***************************************************************************)
(* Proofs about KeyboardLink with its sender and its bridge, for every     *)
(* size of the sequence space, every timeout and every path.  At the end:  *)
(* proofs about the costmap requests of the same bridge, a specification   *)
(* of its own.                                                             *)
(***************************************************************************)
EXTENDS KeyboardLink, CostmapControl, SequenceTheorems, TLAPS

-----------------------------------------------------------------------------
(* The inductive invariant.                                                *)

Counts ==
    /\ session \in 1..MaxSessions /\ number \in Nat /\ newest \in Int
    /\ presses \in 0..MaxPresses /\ routes \in 0..MaxRoutes
    /\ armedBy \in Nat /\ lastRoute \in Nat
    /\ escape \in [number : Nat, press : Nat, heard : BOOLEAN]
    /\ foremost \in [owner : 1..MaxSessions, number : Int]
    /\ overtaken \in [request : BOOLEAN, release : BOOLEAN]

\* The accepted datagram is capped and keeps the order of its sequence.
Accepted ==
    /\ state \in Datagrams \union {None}
    /\ state # None => state.throttle <= SpeedCap

\* What is under way was sent, once, with a sequence of its number, and what arrived
\* before it was.
Sent ==
    /\ net \subseteq Datagrams
    /\ \A p \in net :
        /\ p.owner <= session /\ p.press <= presses
        /\ p.owner = session => p.number < number
        /\ p.sequence = p.number % Serial
        /\ p.mode \in {{}, {"brake"}, {"suppress"}}
    /\ \A p, q \in net : p # q => Earlier(p, q) \/ Earlier(q, p)
    /\ foremost.owner <= session
    /\ foremost.owner = session => foremost.number < number

\* A request stands only where one was made, since the last Escape, and ends a burst.
Requested ==
    /\ keys.armed => keys.disarming = 0 /\ presses > escape.press
    /\ escape.press <= presses /\ escape.number <= number /\ armedBy <= presses
    /\ \A p \in net : Suppresses(p.mode) => p.press >= 1

\* The sequence numbers compared are less than half of the space apart.
Near ==
    session = 1 =>
        /\ number - newest <= Serial \div 2 /\ newest < number
        /\ FirstNumber - 1 <= newest
        /\ \A p \in net : FirstNumber <= p.number /\ number - p.number <= Serial \div 2
        /\ IF state = None THEN newest = FirstNumber - 1
           ELSE state.owner = 1 /\ state.number = newest /\ state.sequence = newest % Serial

\* The route commands of a sender are ordered, through the queue, the path and the
\* last one forwarded.
RoutesOrdered ==
    session = 1 =>
        /\ lastRoute <= routes
        /\ \A i \in 1..Len(keys.queue) : lastRoute < keys.queue[i] /\ keys.queue[i] <= routes
        /\ \A i, j \in 1..Len(keys.queue) : i < j => keys.queue[i] < keys.queue[j]
        /\ \A p \in net :
            /\ p.route <= routes
            /\ \A i \in 1..Len(keys.queue) : p.route < keys.queue[i]
            /\ p.number > newest /\ p.route # NoRoute => p.route > lastRoute
            /\ \A q \in net : p.number < q.number /\ p.route # NoRoute /\ q.route # NoRoute
                                => p.route < q.route

\* Requests are sent in order, and one that was released is not sent again.  What
\* was not overtaken is of the request that armed the latch or of a later one; of a
\* later one if the latch has seen a release that was not overtaken.
PressesOrdered ==
    /\ \A p, q \in net : Earlier(p, q) =>
        /\ p.press <= q.press
        /\ ~Suppresses(p.mode) /\ Suppresses(q.mode) => p.press < q.press
    /\ \A p \in net : ~Suppresses(p.mode) /\ p.press = presses => ~keys.armed
    /\ \A p \in net : ~Behind(p) => armedBy <= p.press
    /\ ~latch.armed /\ latch.rearmReady /\ ~overtaken.release =>
        /\ \A p \in net : Suppresses(p.mode) /\ ~Behind(p) => armedBy < p.press
        /\ keys.armed => armedBy < presses

\* The datagrams that follow Escape ask for nothing until a request is made again,
\* and once one was heard those before it have been overtaken.
EscapeOrdered ==
    /\ presses = escape.press =>
        \A p \in net : p.owner = session /\ p.number >= escape.number => ~Suppresses(p.mode)
    /\ escape.heard => foremost.owner = session /\ foremost.number >= escape.number
    /\ EscapeHolds

BridgeInv == BridgeType(Datagrams, 1..MaxRoutes) /\ Accepted

IInv ==
    /\ SenderType(1..MaxRoutes) /\ BridgeInv
    /\ Counts /\ Sent /\ Requested
    /\ Near /\ RoutesOrdered
    /\ PressesOrdered /\ EscapeOrdered

-----------------------------------------------------------------------------
(* The sender.                                                             *)

Longest == Larger(SendPeriod, DisarmBurst) + 1

LEMMA LongestFacts ==
    /\ Longest \in Nat
    /\ SendPeriod + 1 \in 0..Longest /\ DisarmBurst + 1 \in 0..Longest
    /\ \A a, b \in 0..Longest : Larger(a, b) \in 0..Longest
BY SenderAssumption DEF Longest, Larger

KeyStates ==
    [ pressed : SUBSET Tokens, queue : Seq(1..MaxRoutes), armed : BOOLEAN,
      age : 0..ArmTimeout, disarming : 0..Longest ]

LEMMA SenderTypeMeans == SenderType(1..MaxRoutes) <=> keys \in KeyStates
BY DEF SenderType, KeyStates, Longest

\* _disarm takes the request away and begins or prolongs a burst.
LEMMA DisarmFacts ==
    ASSUME NEW k \in KeyStates, NEW duration \in Nat, duration + 1 \in 0..Longest
    PROVE  LET d == SenderDisarm(k, duration) IN
           d \in KeyStates /\ ~d.armed /\ d.queue = k.queue /\ d.pressed = k.pressed
<1> DEFINE burst == Larger(k.disarming, duration + 1)
           d == SenderDisarm(k, duration)
<1>1. burst \in 0..Longest
  BY LongestFacts DEF KeyStates
<1>2. d = [k EXCEPT !.armed = FALSE, !.age = 0, !.disarming = burst]
  BY DEF SenderDisarm
<1> HIDE DEF burst, d
<1>3. d \in KeyStates /\ ~d.armed /\ d.queue = k.queue /\ d.pressed = k.pressed
  <2>1. 0 \in 0..ArmTimeout
    BY SenderAssumption
  <2> QED
    BY <1>1, <1>2, <2>1 DEF KeyStates
<1> QED
  BY <1>3 DEF d

LEMMA InitialKeys ==
    KeyboardInput \in KeyStates /\ KeyboardInput.queue = <<>> /\ ~KeyboardInput.armed
BY SenderAssumption, LongestFacts DEF KeyboardInput, KeyStates

LEMMA PressFacts ==
    ASSUME keys \in KeyStates, NEW token, Press(token) \/ Release(token)
    PROVE  keys' \in KeyStates /\ keys'.queue = keys.queue /\ keys'.armed = keys.armed
           /\ keys'.disarming = keys.disarming
BY DEF KeyStates, Press, Release, Fresh, Pressed

LEMMA PressBacktickFacts ==
    ASSUME keys \in KeyStates, PressBacktick
    PROVE  /\ keys' \in KeyStates /\ keys'.queue = keys.queue
           /\ keys'.armed <=> ~keys.armed
           /\ keys'.armed => keys'.disarming = 0
<1> DEFINE k == Pressed("backtick")
<1>1. /\ k \in KeyStates /\ k.queue = keys.queue
  BY DEF KeyStates, Pressed, PressBacktick, Fresh
<1>2. CASE keys.armed
  <2>1. keys' = SenderDisarm(k, SendPeriod)
    BY <1>2 DEF PressBacktick
  <2>2. SendPeriod \in Nat /\ SendPeriod + 1 \in 0..Longest
    BY LongestFacts, SenderAssumption
  <2> HIDE DEF k
  <2> QED
    BY <1>1, <1>2, <2>1, <2>2, DisarmFacts
<1>3. CASE ~keys.armed
  <2>1. keys' = [k EXCEPT !.armed = TRUE, !.age = 0, !.disarming = 0]
    BY <1>3 DEF PressBacktick
  <2>2. 0 \in 0..Longest /\ 0 \in 0..ArmTimeout
    BY LongestFacts, SenderAssumption
  <2> HIDE DEF k
  <2> QED
    BY <1>1, <1>3, <2>1, <2>2 DEF KeyStates
<1> QED
  BY <1>2, <1>3

LEMMA PressRouteFacts ==
    ASSUME keys \in KeyStates, NEW command \in 1..MaxRoutes, PressRoute(command)
    PROVE  /\ keys' \in KeyStates /\ keys'.queue = Append(keys.queue, command)
           /\ keys'.armed = keys.armed /\ keys'.disarming = keys.disarming
<1> DEFINE k == Pressed("route")
           queue == Append(keys.queue, command)
<1>1. /\ k \in KeyStates /\ k.queue = keys.queue /\ k.armed = keys.armed
      /\ k.disarming = keys.disarming
  BY DEF KeyStates, Pressed, PressRoute, Fresh
<1>2. queue \in Seq(1..MaxRoutes)
  BY DEF KeyStates
<1>3. keys' = [k EXCEPT !.queue = queue]
  BY <1>1 DEF PressRoute
<1> HIDE DEF k, queue
<1>4. keys' \in KeyStates /\ keys'.queue = queue /\ keys'.armed = k.armed
      /\ keys'.disarming = k.disarming
  BY <1>1, <1>2, <1>3 DEF KeyStates
<1> QED
  BY <1>1, <1>4 DEF queue

LEMMA ClearFacts ==
    ASSUME keys \in KeyStates, Clear
    PROVE  keys' \in KeyStates /\ keys'.queue = <<>> /\ ~keys'.armed
<1> DEFINE k == [keys EXCEPT !.pressed = {}, !.queue = <<>>]
<1>1. k \in KeyStates /\ k.queue = <<>>
  <2>1. <<>> \in Seq(1..MaxRoutes) /\ {} \in SUBSET Tokens
    OBVIOUS
  <2> DEFINE none == <<>>
  <2> HIDE DEF none
  <2>2. none \in Seq(1..MaxRoutes)
    BY <2>1 DEF none
  <2>3. [keys EXCEPT !.pressed = {}, !.queue = none] \in KeyStates
    BY <2>1, <2>2 DEF KeyStates
  <2>4. [keys EXCEPT !.pressed = {}, !.queue = none].queue = none
    BY DEF KeyStates
  <2> QED
    BY <2>3, <2>4 DEF none
<1>2. DisarmBurst \in Nat /\ DisarmBurst + 1 \in 0..Longest
  BY LongestFacts, SenderAssumption
<1>3. keys' = SenderDisarm(k, DisarmBurst)
  BY DEF Clear
<1> HIDE DEF k
<1> QED
  BY <1>1, <1>2, <1>3, DisarmFacts

LEMMA SettledFacts ==
    ASSUME keys \in KeyStates
    PROVE  /\ Settled \in KeyStates /\ Settled.queue = keys.queue
           /\ Settled.armed => Settled = keys
<1>1. SendPeriod \in Nat /\ SendPeriod + 1 \in 0..Longest
  BY LongestFacts, SenderAssumption
<1>2. CASE keys.armed /\ keys.age >= ArmTimeout
  BY <1>1, <1>2, DisarmFacts DEF Settled
<1>3. CASE ~(keys.armed /\ keys.age >= ArmTimeout)
  BY <1>3 DEF Settled
<1> QED
  BY <1>2, <1>3

\* A turn of the loop takes the first command, and asks for autonomy only while
\* the request stands.
LEMMA SendFacts ==
    ASSUME keys \in KeyStates, Send
    PROVE  /\ keys' \in KeyStates
           /\ keys'.armed => keys.armed /\ keys'.disarming = keys.disarming
           /\ IF keys.queue = <<>> THEN keys'.queue = keys.queue /\ Contents.route = NoRoute
              ELSE keys'.queue = Tail(keys.queue) /\ Contents.route = Head(keys.queue)
           /\ Contents.mode \in {{}, {"brake"}, {"suppress"}}
           /\ Suppresses(Contents.mode) => keys.armed
           /\ keys'.armed /\ (keys.armed => keys.disarming = 0) => Suppresses(Contents.mode)
<1> DEFINE k == Settled
           queue == IF k.queue = <<>> THEN k.queue ELSE Tail(k.queue)
<1>1. /\ k \in KeyStates /\ k.queue = keys.queue /\ (k.armed => k = keys)
  BY SettledFacts
<1>2. queue \in Seq(1..MaxRoutes)
  <2>1. k.queue \in Seq(1..MaxRoutes)
    BY <1>1 DEF KeyStates
  <2> QED
    BY <2>1, HeadTailProperties
<1>3. keys' = [k EXCEPT !.queue = queue]
  BY DEF Send
<1>4. /\ Contents.route = IF k.queue = <<>> THEN NoRoute ELSE Head(k.queue)
      /\ Contents.mode = ModeOf(k)
  BY DEF Contents
<1> HIDE DEF k
<1>5. queue = IF keys.queue = <<>> THEN keys.queue ELSE Tail(keys.queue)
  BY <1>1
<1> HIDE DEF queue
<1>6. keys' \in KeyStates /\ keys'.queue = queue /\ keys'.armed = k.armed
      /\ keys'.disarming = k.disarming
  BY <1>1, <1>2, <1>3 DEF KeyStates
<1>7. /\ ModeOf(k) \in {{}, {"brake"}, {"suppress"}}
      /\ Suppresses(ModeOf(k)) <=> k.armed /\ k.disarming = 0
  <2>1. k.disarming \in Nat
    BY <1>1, LongestFacts DEF KeyStates
  <2>2. CASE k.disarming > 0
    BY <2>1, <2>2 DEF ModeOf, Suppresses
  <2>3. CASE k.disarming = 0 /\ k.armed
    BY <2>1, <2>3 DEF ModeOf, Suppresses
  <2>4. CASE ~(k.disarming > 0) /\ ~(k.disarming = 0 /\ k.armed)
    BY <2>1, <2>4 DEF ModeOf, Suppresses
  <2> QED
    BY <2>2, <2>3, <2>4
<1> QED
  BY <1>1, <1>4, <1>5, <1>6, <1>7

LEMMA TickFacts ==
    ASSUME keys \in KeyStates, Tick
    PROVE  /\ keys' \in KeyStates /\ keys'.queue = keys.queue /\ keys'.armed = keys.armed
           /\ keys.disarming = 0 => keys'.disarming = 0
<1> DEFINE age2 == IF keys.armed /\ keys.age < ArmTimeout THEN keys.age + 1 ELSE keys.age
           burst == IF keys.disarming > 0 THEN keys.disarming - 1 ELSE keys.disarming
<1>1. age2 \in 0..ArmTimeout /\ burst \in 0..Longest /\ (keys.disarming = 0 => burst = 0)
  <2>1. /\ keys.age \in 0..ArmTimeout /\ keys.disarming \in 0..Longest
        /\ ArmTimeout \in Nat /\ Longest \in Nat
    BY SenderAssumption, LongestFacts DEF KeyStates
  <2> QED
    BY <2>1
<1>2. keys' = [keys EXCEPT !.age = age2, !.disarming = burst]
  BY DEF Tick
<1> HIDE DEF age2, burst
<1> QED
  BY <1>1, <1>2 DEF KeyStates

-----------------------------------------------------------------------------
(* The bridge.                                                             *)

Latches ==
    [ armed : BOOLEAN, age : 0..LatchTimeout,
      suppressPrevious : BOOLEAN, rearmReady : BOOLEAN ]

Messages == [ valid : BOOLEAN, mode : Modes, throttle : -SpeedCap..SpeedCap ]

LEMMA BridgeTypeMeans ==
    BridgeType(Datagrams, 1..MaxRoutes) <=>
        /\ latch \in Latches /\ state \in Datagrams \union {None}
        /\ age \in 0..(InputTimeout + 1) /\ shown \in BOOLEAN
        /\ published \in {<<>>} \union { <<message>> : message \in Messages }
        /\ forwarded \in (1..MaxRoutes) \union {NoRoute}
BY DEF BridgeType, Latches, Messages

LEMMA BridgeFacts ==
    /\ SpeedCap \in Nat /\ InputTimeout \in Nat \ {0} /\ LatchTimeout \in Nat \ {0}
    /\ None \notin Datagrams
BY BridgeAssumption, NoneAssumption DEF ValidConfiguration

LEMMA DisarmLatch ==
    ASSUME NEW l \in Latches, NEW requireRelease \in BOOLEAN
    PROVE  LET d == Disarm(l, requireRelease) IN
           d \in Latches /\ ~d.armed /\ d.rearmReady = ~requireRelease
<1>1. 0 \in 0..LatchTimeout
  BY BridgeFacts
<1> QED
  BY <1>1 DEF Disarm, Latches

LEMMA ExpiredLatch ==
    ASSUME NEW l \in Latches
    PROVE  /\ Expired(l) \in Latches
           /\ Expired(l) = l \/ (~Expired(l).armed /\ ~Expired(l).rearmReady)
<1>1. CASE l.armed /\ l.age >= LatchTimeout
  BY <1>1, DisarmLatch DEF Expired
<1>2. CASE ~(l.armed /\ l.age >= LatchTimeout)
  BY <1>2 DEF Expired
<1> QED
  BY <1>1, <1>2

\* process_mode: a brake disarms, a drive leaves the latch as it is and makes it
\* ready, and autonomy arms a ready one.
LEMMA ProcessFacts ==
    ASSUME NEW l \in Latches, NEW mode \in {{}, {"brake"}, {"suppress"}}
    PROVE  LET n == ProcessMode(l, mode) IN
           /\ n \in Latches
           /\ Brakes(mode) => ~n.armed
           /\ ~Brakes(mode) /\ ~Suppresses(mode) => n.armed = l.armed /\ n.age = l.age
           /\ Suppresses(mode) =>
                \/ n.armed /\ ~l.armed /\ l.rearmReady
                \/ n.armed = l.armed /\ n.rearmReady = l.rearmReady /\ n.age = l.age
           /\ Suppresses(mode) => ~Brakes(mode)
<1> DEFINE n == ProcessMode(l, mode)
<1>1. Suppresses(mode) \in BOOLEAN /\ Brakes(mode) \in BOOLEAN /\ 0 \in 0..LatchTimeout
  BY BridgeFacts DEF Suppresses, Brakes
<1>2. CASE mode = {"brake"}
  <2> DEFINE d == Disarm(l, FALSE)
  <2>1. d \in Latches /\ ~d.armed
    BY DisarmLatch
  <2>2. Brakes(mode) /\ Suppresses(mode) = FALSE /\ ~Arms(l, mode)
    BY <1>2 DEF Brakes, Suppresses, Arms
  <2>3. n = [d EXCEPT !.suppressPrevious = FALSE]
    <3>1. n = [d EXCEPT !.suppressPrevious = Suppresses(mode)]
      BY <2>2 DEF ProcessMode
    <3> QED
      BY <2>2, <3>1
  <2> HIDE DEF d, n
  <2>4. n \in Latches /\ ~n.armed
    BY <2>1, <2>3 DEF Latches
  <2> QED
    BY <2>2, <2>4 DEF n
<1>3. CASE mode = {}
  <2>1. ~Brakes(mode) /\ Suppresses(mode) = FALSE /\ ~Arms(l, mode)
    BY <1>3 DEF Brakes, Suppresses, Arms
  <2>2. n = [[l EXCEPT !.rearmReady = l.rearmReady \/ ~Suppresses(mode)]
                EXCEPT !.suppressPrevious = Suppresses(mode)]
    BY <2>1 DEF ProcessMode
  <2>3. n = [[l EXCEPT !.rearmReady = TRUE] EXCEPT !.suppressPrevious = FALSE]
    BY <2>1, <2>2
  <2> HIDE DEF n
  <2>4. n \in Latches /\ n.armed = l.armed /\ n.age = l.age
    BY <2>3 DEF Latches
  <2> QED
    BY <2>1, <2>4 DEF n
<1>4. CASE mode = {"suppress"} /\ Arms(l, mode)
  <2>1. ~Brakes(mode) /\ Suppresses(mode) = TRUE /\ l.rearmReady /\ ~l.armed
    BY <1>4 DEF Brakes, Suppresses, Arms
  <2>2. n = [[l EXCEPT !.armed = TRUE, !.age = 0, !.rearmReady = FALSE]
                EXCEPT !.suppressPrevious = TRUE]
    BY <1>4, <2>1 DEF ProcessMode
  <2> HIDE DEF n
  <2>3. n \in Latches /\ n.armed
    BY <1>1, <2>2 DEF Latches
  <2> QED
    BY <2>1, <2>3 DEF n
<1>5. CASE mode = {"suppress"} /\ ~Arms(l, mode)
  <2>1. ~Brakes(mode) /\ Suppresses(mode) = TRUE
    BY <1>5 DEF Brakes, Suppresses
  <2>2. n = [[l EXCEPT !.rearmReady = l.rearmReady \/ ~Suppresses(mode)]
                EXCEPT !.suppressPrevious = Suppresses(mode)]
    BY <1>5, <2>1 DEF ProcessMode
  <2>3. n = [[l EXCEPT !.rearmReady = l.rearmReady] EXCEPT !.suppressPrevious = TRUE]
    <3>1. l.rearmReady \in BOOLEAN
      BY DEF Latches
    <3>2. (l.rearmReady \/ ~Suppresses(mode)) = l.rearmReady
      BY <2>1, <3>1
    <3> QED
      BY <2>1, <2>2, <3>2
  <2> HIDE DEF n
  <2>4. n \in Latches /\ n.armed = l.armed /\ n.age = l.age /\ n.rearmReady = l.rearmReady
    BY <2>3 DEF Latches
  <2> QED
    BY <2>1, <2>4 DEF n
<1> QED
  BY <1>2, <1>3, <1>4, <1>5

LEMMA LiveFacts ==
    ASSUME BridgeInv, NEW l \in Latches
    PROVE  IsLive \in BOOLEAN /\ Message(l) \in Messages
<1>1. IsLive \in BOOLEAN
  BY DEF IsLive
<1>2. IsLive => state.mode \in Modes /\ state.throttle \in -SpeedCap..SpeedCap
  <2> SUFFICES ASSUME IsLive PROVE state.mode \in Modes /\ state.throttle \in -SpeedCap..SpeedCap
    OBVIOUS
  <2>1. state \in Datagrams /\ state.throttle <= SpeedCap
    BY DEF IsLive, BridgeInv, Accepted
  <2>2. state.throttle \in 0..2 /\ state.mode \in Modes
    BY <2>1 DEF Datagrams
  <2> QED
    BY <2>1, <2>2, BridgeFacts
<1>3. {"suppress"} \in Modes /\ {"brake"} \in Modes
  BY DEF Modes
<1>4. l.armed \in BOOLEAN
  BY DEF Latches
<1>5. MessageMode(l) \in Modes
  <2>1. CASE l.armed
    BY <1>1, <1>3, <1>4, <2>1 DEF MessageMode
  <2>2. CASE ~l.armed /\ IsLive
    BY <1>1, <1>2, <1>3, <1>4, <2>2 DEF MessageMode
  <2>3. CASE ~l.armed /\ ~IsLive
    BY <1>1, <1>3, <1>4, <2>3 DEF MessageMode
  <2> QED
    BY <1>4, <2>1, <2>2, <2>3
<1>6. 0 \in -SpeedCap..SpeedCap
  BY BridgeFacts
<1>7. (IF ~l.armed /\ IsLive THEN state.throttle ELSE 0) \in -SpeedCap..SpeedCap
  BY <1>2, <1>6
<1> QED
  BY <1>1, <1>5, <1>7 DEF Message, Messages

LEMMA EmitFacts ==
    ASSUME BridgeInv, NEW l \in Latches, Emit(l)
    PROVE  /\ latch' \in Latches
           /\ latch' = l \/ (~latch'.armed /\ ~latch'.rearmReady)
           /\ shown' \in BOOLEAN
           /\ published' \in {<<>>} \union { <<message>> : message \in Messages }
<1>1. /\ Expired(l) \in Latches
      /\ Expired(l) = l \/ (~Expired(l).armed /\ ~Expired(l).rearmReady)
  BY ExpiredLatch
<1>2. latch' = Expired(l) /\ published' = <<Message(Expired(l))>> /\ shown' = IsLive
  BY DEF Emit
<1>3. IsLive \in BOOLEAN /\ Message(Expired(l)) \in Messages
  BY <1>1, LiveFacts
<1> QED
  BY <1>1, <1>2, <1>3

\* A step of the bridge that publishes leaves the latch as it was or ends it.
LEMMA PublishFacts ==
    ASSUME BridgeInv, Publish \/ PublishTimeoutTransition \/ ControllerTakesOver
    PROVE  /\ BridgeInv' /\ state' = state /\ forwarded' = NoRoute
           /\ latch' = latch \/ (~latch'.armed /\ ~latch'.rearmReady)
<1>1. latch \in Latches
  BY BridgeTypeMeans DEF BridgeInv
<1>2. /\ forwarded' = NoRoute /\ UNCHANGED <<state, age>>
      /\ Emit(latch) \/ Emit(Disarm(latch, TRUE))
  BY DEF Publish, PublishTimeoutTransition, ControllerTakesOver
<1>3. Disarm(latch, TRUE) \in Latches /\ ~Disarm(latch, TRUE).armed /\ ~Disarm(latch, TRUE).rearmReady
  BY <1>1, DisarmLatch
<1>4. /\ latch' \in Latches /\ shown' \in BOOLEAN
      /\ latch' = latch \/ (~latch'.armed /\ ~latch'.rearmReady)
      /\ published' \in {<<>>} \union { <<message>> : message \in Messages }
  BY <1>1, <1>2, <1>3, EmitFacts
<1>5. Accepted'
  BY <1>2 DEF BridgeInv, Accepted
<1>6. /\ state' \in Datagrams \union {None} /\ age' \in 0..(InputTimeout + 1)
      /\ forwarded' \in (1..MaxRoutes) \union {NoRoute}
  BY <1>2, BridgeTypeMeans DEF BridgeInv
<1>7. BridgeType(Datagrams, 1..MaxRoutes)'
  BY <1>4, <1>6 DEF BridgeType, Latches, Messages
<1> QED
  BY <1>2, <1>4, <1>5, <1>7 DEF BridgeInv

LEMMA RestFacts ==
    ASSUME BridgeInv, BridgeRests
    PROVE  BridgeInv' /\ latch' = latch /\ state' = state /\ forwarded' = NoRoute
BY DEF BridgeInv, BridgeRests, BridgeType, Accepted

LEMMA BridgeTickFacts ==
    ASSUME BridgeInv, BridgeTick
    PROVE  /\ BridgeInv' /\ state' = state /\ forwarded' = NoRoute
           /\ latch'.armed = latch.armed /\ latch'.rearmReady = latch.rearmReady
           /\ latch'.age >= latch.age
<1> DEFINE older == IF latch.armed /\ latch.age < LatchTimeout THEN latch.age + 1 ELSE latch.age
<1>1. latch \in Latches /\ age \in 0..(InputTimeout + 1)
  BY BridgeTypeMeans DEF BridgeInv
<1>2. older \in 0..LatchTimeout /\ older >= latch.age
  <2>1. latch.age \in 0..LatchTimeout /\ LatchTimeout \in Nat
    BY <1>1, BridgeFacts DEF Latches
  <2> QED
    BY <2>1
<1>3. /\ latch' = [latch EXCEPT !.age = older]
      /\ published' = <<>> /\ forwarded' = NoRoute /\ UNCHANGED <<state, shown>>
  BY DEF BridgeTick
<1> HIDE DEF older
<1>4. /\ latch' \in Latches /\ latch'.armed = latch.armed /\ latch'.rearmReady = latch.rearmReady
      /\ latch'.age = older
  BY <1>1, <1>2, <1>3 DEF Latches
<1>5. age' \in 0..(InputTimeout + 1)
  BY <1>1, BridgeFacts DEF BridgeTick
<1>6. BridgeType(Datagrams, 1..MaxRoutes)' /\ Accepted'
  <2>1. /\ state' \in Datagrams \union {None} /\ shown' \in BOOLEAN
        /\ published' \in {<<>>} \union { <<message>> : message \in Messages }
        /\ forwarded' \in (1..MaxRoutes) \union {NoRoute}
    BY <1>3, BridgeTypeMeans DEF BridgeInv
  <2> QED
    BY <1>3, <1>4, <1>5, <2>1 DEF BridgeInv, BridgeType, Latches, Messages, Accepted
<1> QED
  BY <1>2, <1>3, <1>4, <1>6 DEF BridgeInv

LEMMA CappedFacts ==
    ASSUME NEW throttle \in 0..2
    PROVE  Capped(throttle) \in 0..2 /\ Capped(throttle) <= SpeedCap
<1>1. SpeedCap \in Nat
  BY BridgeFacts
<1>2. CASE throttle > SpeedCap
  BY <1>1, <1>2 DEF Capped
<1>3. CASE ~(throttle > SpeedCap) /\ ~(throttle < -SpeedCap)
  BY <1>1, <1>3 DEF Capped
<1> QED
  BY <1>1, <1>2, <1>3

\* One datagram: the latch by its mode, then the state if it is accepted.
LEMMA ReceiveFacts ==
    ASSUME BridgeInv, NEW p \in Datagrams, p.mode \in {{}, {"brake"}, {"suppress"}}, Receive(p)
    PROVE  /\ BridgeInv'
           /\ Brakes(p.mode) => ~latch'.armed
           /\ ~Brakes(p.mode) /\ ~Suppresses(p.mode) =>
                latch'.armed = latch.armed /\ latch'.age = latch.age
           /\ Suppresses(p.mode) =>
                \/ latch'.armed /\ ~latch.armed /\ latch.rearmReady
                \/ /\ latch'.armed = latch.armed /\ latch'.rearmReady = latch.rearmReady
                   /\ latch'.age = latch.age
           /\ Suppresses(p.mode) => ~Brakes(p.mode)
           /\ IF Accepts(p)
                THEN /\ state' # None /\ forwarded' = p.route
                     /\ state'.owner = p.owner /\ state'.number = p.number
                     /\ state'.sequence = p.sequence
                ELSE state' = state /\ forwarded' = NoRoute
<1> DEFINE noted == ProcessMode(latch, p.mode)
<1>1. latch \in Latches /\ age \in 0..(InputTimeout + 1) /\ shown \in BOOLEAN
      /\ state \in Datagrams \union {None}
  BY BridgeTypeMeans DEF BridgeInv
<1>2. /\ noted \in Latches
      /\ Brakes(p.mode) => ~noted.armed
      /\ ~Brakes(p.mode) /\ ~Suppresses(p.mode) => noted.armed = latch.armed /\ noted.age = latch.age
      /\ Suppresses(p.mode) =>
           \/ noted.armed /\ ~latch.armed /\ latch.rearmReady
           \/ /\ noted.armed = latch.armed /\ noted.rearmReady = latch.rearmReady
              /\ noted.age = latch.age
      /\ Suppresses(p.mode) => ~Brakes(p.mode)
  BY <1>1, ProcessFacts
<1>3. /\ IF Brakes(p.mode) THEN Emit(noted) ELSE Quiet(noted)
      /\ IF Accepts(p)
           THEN state' = [p EXCEPT !.throttle = Capped(p.throttle)] /\ age' = 0 /\ forwarded' = p.route
           ELSE forwarded' = NoRoute /\ UNCHANGED <<state, age>>
  BY DEF Receive
<1> HIDE DEF noted
<1>4. Brakes(p.mode) => ~latch'.armed
  BY <1>2, <1>3, EmitFacts
<1>5. ~Brakes(p.mode) => latch' = noted
  BY <1>3 DEF Quiet
<1>6. /\ latch' \in Latches /\ shown' \in BOOLEAN
      /\ published' \in {<<>>} \union { <<message>> : message \in Messages }
  <2>1. CASE Brakes(p.mode)
    BY <1>2, <1>3, <2>1, EmitFacts
  <2>2. CASE ~Brakes(p.mode)
    BY <1>1, <1>2, <1>3, <2>2 DEF Quiet
  <2> QED
    BY <2>1, <2>2
<1>7. /\ age' \in 0..(InputTimeout + 1)
      /\ state' \in Datagrams \union {None} /\ Accepted'
      /\ forwarded' \in (1..MaxRoutes) \union {NoRoute}
      /\ Accepts(p) => /\ state' # None /\ state'.owner = p.owner /\ state'.number = p.number
                       /\ state'.sequence = p.sequence
  <2>1. CASE Accepts(p)
    <3>1. p.throttle \in 0..2 /\ p.route \in 0..MaxRoutes
      BY DEF Datagrams
    <3>2. Capped(p.throttle) \in 0..2 /\ Capped(p.throttle) <= SpeedCap
      BY <3>1, CappedFacts
    <3>3. state' = [p EXCEPT !.throttle = Capped(p.throttle)]
      BY <1>3, <2>1
    <3>4. /\ state' \in Datagrams /\ state'.throttle = Capped(p.throttle)
          /\ state'.owner = p.owner /\ state'.number = p.number /\ state'.sequence = p.sequence
      BY <3>2, <3>3 DEF Datagrams
    <3>5. 0 \in 0..(InputTimeout + 1) /\ p.route \in (1..MaxRoutes) \union {NoRoute}
      BY <3>1, BridgeFacts, LinkAssumption DEF NoRoute
    <3> QED
      BY <1>3, <2>1, <3>2, <3>4, <3>5, BridgeFacts DEF Accepted
  <2>2. CASE ~Accepts(p)
    BY <1>1, <1>3, <2>2 DEF BridgeInv, Accepted
  <2> QED
    BY <2>1, <2>2
<1>8. BridgeInv'
  BY <1>6, <1>7 DEF BridgeInv, BridgeType, Latches, Messages
<1> QED
  BY <1>2, <1>3, <1>4, <1>5, <1>7, <1>8

-----------------------------------------------------------------------------
(* The order of sequence numbers.                                          *)

LEMMA Half ==
    /\ Serial \in Nat \ {0} /\ Serial \div 2 \in Nat
    /\ Serial = 2 * (Serial \div 2)
BY ProtocolAssumption DEF ProtocolAssumption

LEMMA Remainder ==
    ASSUME NEW a \in Nat, NEW n \in Nat, n > 0
    PROVE  /\ a % n \in 0..n - 1 /\ a \div n \in Int
           /\ a = n * (a \div n) + (a % n)
<1>1. a % n \in 0..n - 1
  OBVIOUS
<1>2. a \div n \in Int
  OBVIOUS
<1>3. a = n * (a \div n) + (a % n)
  BY SMTT(30)
<1> QED
  BY <1>1, <1>2, <1>3

\* A multiple of n that is less than two of them is at most one.
LEMMA Multiple ==
    ASSUME NEW n \in Nat \ {0}, NEW q \in Int, n * q < 2 * n, n * q > -2 * n
    PROVE  q \in {-1, 0, 1}
<1>1. ASSUME q >= 2 PROVE FALSE
  <2>1. n * q >= n * 2
    BY <1>1
  <2> QED
    BY <2>1
<1>2. ASSUME q <= -2 PROVE FALSE
  <2>1. n * q <= n * (-2)
    BY <1>2
  <2> QED
    BY <2>1
<1> QED
  BY <1>1, <1>2

\* Numbers less than half of the space apart are told apart by their sequences,
\* though the sequence wraps between them (is_newer_sequence).
LEMMA SerialOrder ==
    ASSUME NEW a \in Nat, NEW b \in Nat,
           a - b < Serial \div 2, b - a < Serial \div 2
    PROVE  IsNewer(a % Serial, b % Serial) <=> a > b
<1> DEFINE h == Serial \div 2
           ra == a % Serial
           rb == b % Serial
           qa == a \div Serial
           qb == b \div Serial
           q == qa - qb
           x == ra - rb
<1>1. h \in Nat /\ Serial \in Nat \ {0} /\ Serial = 2 * h
  BY Half
<1>2. /\ ra \in 0..Serial - 1 /\ qa \in Int /\ a = Serial * qa + ra
      /\ rb \in 0..Serial - 1 /\ qb \in Int /\ b = Serial * qb + rb
  BY <1>1, Remainder
<1> HIDE DEF ra, rb, qa, qb, h
<1>3. /\ Serial * qa \in Int /\ Serial * qb \in Int /\ q \in Int
      /\ Serial * q = Serial * qa - Serial * qb
  BY <1>1, <1>2
<1>4. x \in Int /\ x < Serial /\ x > -Serial /\ a - b = Serial * q + x
  BY <1>1, <1>2, <1>3
<1> HIDE DEF x, q
<1>5. Serial * q \in Int
  BY <1>1, <1>3
<1>6. a - b < h /\ b - a < h
  BY DEF h
<1>7. Serial * q < 2 * Serial /\ Serial * q > -2 * Serial
  BY <1>1, <1>4, <1>5, <1>6
<1>8. q \in {-1, 0, 1}
  BY <1>1, <1>3, <1>7, Multiple
<1>9. Serial * (-1) = -Serial /\ Serial * 0 = 0 /\ Serial * 1 = Serial
  BY <1>1
<1>10. a - b = x \/ a - b = x + Serial \/ a - b = x - Serial
  BY <1>1, <1>4, <1>8, <1>9
<1>11. IF x >= 0 THEN x % Serial = x ELSE x % Serial = x + Serial
  BY <1>1, <1>4
<1>12. x % Serial \in 1..h - 1 <=> a > b
  BY <1>1, <1>4, <1>6, <1>10, <1>11
<1> QED
  BY <1>12 DEF IsNewer, x, ra, rb, h

-----------------------------------------------------------------------------
(* The invariant holds initially and is kept by every step.                *)

LEMMA LinkFacts ==
    /\ {Reorders, Duplicates, Losses} \subseteq BOOLEAN
    /\ MaxSessions \in Nat \ {0} /\ MaxPresses \in Nat /\ MaxRoutes \in Nat
    /\ MaxSent \in Nat /\ FirstNumber \in Nat
BY LinkAssumption

LEMMA InvInit == Init => IInv
<1> SUFFICES ASSUME Init PROVE IInv
  OBVIOUS
<1>1. SenderType(1..MaxRoutes) /\ keys.queue = <<>> /\ ~keys.armed
  BY InitialKeys, SenderTypeMeans DEF Init
<1>2. BridgeInv
  <2>1. Latch \in Latches
    BY BridgeFacts DEF Latch, Latches
  <2>2. BridgeType(Datagrams, 1..MaxRoutes)
    <3>1. 0 \in 0..(InputTimeout + 1)
      BY BridgeFacts
    <3>2. latch = Latch /\ state = None /\ age = 0 /\ shown = FALSE /\ published = <<>> /\ forwarded = NoRoute
      BY DEF Init, BridgeInit
    <3> QED
      BY <2>1, <3>1, <3>2 DEF BridgeType, Latches
  <2>3. Accepted
    BY DEF Init, BridgeInit, Accepted
  <2> QED
    BY <2>2, <2>3 DEF BridgeInv
<1>3. Counts
  BY LinkFacts DEF Init, Counts, NoRoute, NoEscape
<1>4. Sent /\ Requested
  BY <1>1, LinkFacts DEF Init, Sent, Requested, NoEscape
<1>5. Near
  BY Half, LinkFacts DEF Init, Near, BridgeInit
<1>6. RoutesOrdered
  BY <1>1 DEF Init, RoutesOrdered, NoRoute
<1>7. PressesOrdered /\ EscapeOrdered
  BY <1>1 DEF Init, PressesOrdered, EscapeOrdered, EscapeHolds, NoEscape, BridgeInit, Latch
<1> QED
  BY <1>1, <1>2, <1>3, <1>4, <1>5, <1>6, <1>7 DEF IInv

\* Steps that leave the requests, the path and the accepted datagram alone, and
\* the latch as it was or ended.
LEMMA StepElsewhere ==
    ASSUME IInv,
           keys' \in KeyStates, keys'.queue = keys.queue, keys'.armed = keys.armed,
           keys.disarming = 0 => keys'.disarming = 0,
           UNCHANGED <<session, number, net, presses, routes, armedBy, lastRoute, newest, foremost, overtaken, escape>>,
           BridgeInv', state' = state,
           \/ latch'.armed = latch.armed /\ latch'.rearmReady = latch.rearmReady
           \/ ~latch'.armed /\ ~latch'.rearmReady
    PROVE  IInv'
<1>1. SenderType(1..MaxRoutes)'
  BY DEF SenderType, KeyStates, Longest
<1>2. Counts' /\ Sent' /\ Requested'
  BY DEF IInv, Counts, Sent, Requested
<1>3. Near' /\ RoutesOrdered'
  BY DEF IInv, Near, RoutesOrdered
<1>4. PressesOrdered'
  BY DEF IInv, PressesOrdered, Behind, Earlier
<1>5. EscapeOrdered'
  BY DEF IInv, EscapeOrdered, EscapeHolds
<1> QED
  BY <1>1, <1>2, <1>3, <1>4, <1>5 DEF IInv

LEMMA StepKeys ==
    ASSUME IInv, NEW token, KeyPress(token) \/ KeyRelease(token)
    PROVE  IInv'
<1>1. keys \in KeyStates /\ BridgeInv
  BY SenderTypeMeans DEF IInv
<1>2. /\ Press(token) \/ Release(token)
      /\ BridgeRests /\ UNCHANGED linkVars
  BY DEF KeyPress, KeyRelease
<1>3. keys' \in KeyStates /\ keys'.queue = keys.queue /\ keys'.armed = keys.armed
      /\ keys'.disarming = keys.disarming
  BY <1>1, <1>2, PressFacts
<1>4. BridgeInv' /\ latch' = latch /\ state' = state
  BY <1>1, <1>2, RestFacts
<1> QED
  BY <1>2, <1>3, <1>4, StepElsewhere DEF linkVars, arrivals

LEMMA StepBridgeAlone ==
    ASSUME IInv, Takeover \/ Timers
    PROVE  IInv'
<1>1. keys \in KeyStates /\ BridgeInv
  BY SenderTypeMeans DEF IInv
<1>2. /\ ControllerTakesOver \/ Publish \/ PublishTimeoutTransition
      /\ UNCHANGED <<keys, session, number, net, presses, routes, armedBy, lastRoute, newest, foremost, overtaken, escape>>
  BY DEF Takeover, Timers, linkVars, arrivals
<1>3. /\ BridgeInv' /\ state' = state
      /\ latch' = latch \/ (~latch'.armed /\ ~latch'.rearmReady)
  BY <1>1, <1>2, PublishFacts
<1> QED
  BY <1>1, <1>2, <1>3, StepElsewhere

LEMMA StepTime ==
    ASSUME IInv, Time
    PROVE  IInv'
<1>1. keys \in KeyStates /\ BridgeInv
  BY SenderTypeMeans DEF IInv
<1>2. Tick /\ BridgeTick /\ UNCHANGED linkVars
  BY DEF Time
<1>3. /\ keys' \in KeyStates /\ keys'.queue = keys.queue /\ keys'.armed = keys.armed
      /\ keys.disarming = 0 => keys'.disarming = 0
  BY <1>1, <1>2, TickFacts
<1>4. /\ BridgeInv' /\ state' = state
      /\ latch'.armed = latch.armed /\ latch'.rearmReady = latch.rearmReady
  BY <1>1, <1>2, BridgeTickFacts
<1> QED
  BY <1>2, <1>3, <1>4, StepElsewhere DEF linkVars, arrivals

LEMMA StepRequestAutonomy ==
    ASSUME IInv, RequestAutonomy
    PROVE  IInv'
<1>1. keys \in KeyStates /\ BridgeInv
  BY SenderTypeMeans DEF IInv
<1>2. /\ PressBacktick /\ BridgeRests /\ presses < MaxPresses
      /\ presses' = IF keys.armed THEN presses ELSE presses + 1
      /\ UNCHANGED <<session, number, net, routes, armedBy, lastRoute, newest, foremost, overtaken, escape>>
  BY DEF RequestAutonomy, arrivals
<1>3. /\ keys' \in KeyStates /\ keys'.queue = keys.queue
      /\ keys'.armed <=> ~keys.armed
      /\ keys'.armed => keys'.disarming = 0
  BY <1>1, <1>2, PressBacktickFacts
<1>4. BridgeInv' /\ latch' = latch /\ state' = state
  BY <1>1, <1>2, RestFacts
<1>5. SenderType(1..MaxRoutes)'
  BY <1>3 DEF SenderType, KeyStates, Longest
<1>6. /\ presses \in Nat /\ presses' \in 0..MaxPresses /\ presses <= presses'
      /\ armedBy \in Nat /\ escape.press \in Nat
      /\ \A p \in net : p.press \in Nat /\ p.press <= presses
      /\ escape.press <= presses /\ armedBy <= presses
  BY <1>2, LinkFacts DEF IInv, Counts, Sent, Requested, Datagrams
<1>7. keys'.armed => presses' = presses + 1
  BY <1>2, <1>3
<1>8. Counts' /\ Sent'
  BY <1>2, <1>6 DEF IInv, Counts, Sent
<1>9. Requested'
  BY <1>2, <1>3, <1>6, <1>7 DEF IInv, Requested
<1>10. Near' /\ RoutesOrdered'
  BY <1>2, <1>3, <1>4 DEF IInv, Near, RoutesOrdered
<1>11. PressesOrdered'
  <2>1. \A p \in net : p.press = presses' => ~keys'.armed
    BY <1>6, <1>7
  <2>2. keys'.armed => armedBy < presses'
    BY <1>6, <1>7
  <2> QED
    BY <1>2, <1>4, <2>1, <2>2 DEF IInv, PressesOrdered, Behind, Earlier
<1>12. EscapeOrdered'
  <2>1. presses' = escape.press => presses' = presses
    BY <1>2, <1>6
  <2> QED
    BY <1>2, <1>4, <2>1 DEF IInv, EscapeOrdered, EscapeHolds
<1> QED
  BY <1>4, <1>5, <1>8, <1>9, <1>10, <1>11, <1>12 DEF IInv

LEMMA StepQueueRoute ==
    ASSUME IInv, QueueRoute
    PROVE  IInv'
<1>1. keys \in KeyStates /\ BridgeInv /\ keys.queue \in Seq(1..MaxRoutes)
  BY SenderTypeMeans DEF IInv, KeyStates
<1>2. /\ PressRoute(routes + 1) /\ BridgeRests
      /\ routes' = routes + 1 /\ routes < MaxRoutes /\ routes \in 0..MaxRoutes
      /\ UNCHANGED <<session, number, net, presses, armedBy, lastRoute, newest, foremost, overtaken, escape>>
  BY DEF QueueRoute, arrivals, IInv, Counts
<1>3. routes + 1 \in 1..MaxRoutes /\ routes' \in 0..MaxRoutes
  BY <1>2, LinkFacts
<1>4. /\ keys' \in KeyStates /\ keys'.queue = Append(keys.queue, routes + 1)
      /\ keys'.armed = keys.armed /\ keys'.disarming = keys.disarming
  BY <1>1, <1>2, <1>3, PressRouteFacts
<1>5. BridgeInv' /\ latch' = latch /\ state' = state
  BY <1>1, <1>2, RestFacts
<1>6. SenderType(1..MaxRoutes)'
  BY <1>4 DEF SenderType, KeyStates, Longest
<1>7. Counts' /\ Sent' /\ Requested' /\ Near'
  BY <1>2, <1>3, <1>4, <1>5 DEF IInv, Counts, Sent, Requested, Near
<1>8. RoutesOrdered'
  <2> SUFFICES ASSUME session = 1 PROVE RoutesOrdered'
    BY <1>2 DEF RoutesOrdered
  <2> DEFINE n == Len(keys.queue)
  <2>1. /\ n \in Nat /\ Len(keys'.queue) = n + 1
        /\ \A i \in 1..n : keys'.queue[i] = keys.queue[i] /\ keys.queue[i] \in Nat
        /\ keys'.queue[n + 1] = routes + 1
    <3> DEFINE queue == keys.queue
               command == routes + 1
    <3> HIDE DEF queue, command
    <3>1. queue \in Seq(1..MaxRoutes) /\ command \in 1..MaxRoutes
      BY <1>1, <1>3 DEF queue, command
    <3>2. /\ Len(queue) \in Nat /\ Len(Append(queue, command)) = Len(queue) + 1
          /\ Append(queue, command)[Len(queue) + 1] = command
      BY <3>1
    <3>3. \A i \in 1..Len(queue) : Append(queue, command)[i] = queue[i]
      BY <3>1, AppendProperties
    <3>4. \A i \in 1..Len(queue) : queue[i] \in 1..MaxRoutes
      BY <3>1, ElementOfSeq
    <3>5. \A i \in 1..Len(queue) : queue[i] \in Nat
      BY <3>4
    <3> QED
      BY <1>4, <3>2, <3>3, <3>5 DEF queue, command
  <2> HIDE DEF n
  <2>2. /\ lastRoute <= routes
        /\ \A i \in 1..n : lastRoute < keys.queue[i] /\ keys.queue[i] <= routes
        /\ \A i, j \in 1..n : i < j => keys.queue[i] < keys.queue[j]
        /\ \A p \in net : p.route <= routes /\ p.route \in Nat
              /\ \A i \in 1..n : p.route < keys.queue[i]
    BY DEF IInv, RoutesOrdered, Sent, Datagrams, n
  <2>3. lastRoute \in Nat /\ routes \in Nat /\ lastRoute <= routes'
    BY <1>2, <2>2 DEF IInv, Counts
  <2>4. \A i \in 1..Len(keys'.queue) : i \in 1..n \/ (i = n + 1 /\ keys'.queue[i] = routes + 1)
    BY <2>1
  <2>5. \A i \in 1..Len(keys'.queue) : lastRoute < keys'.queue[i] /\ keys'.queue[i] <= routes'
    <3> SUFFICES ASSUME NEW i \in 1..Len(keys'.queue)
                 PROVE  lastRoute < keys'.queue[i] /\ keys'.queue[i] <= routes'
      OBVIOUS
    <3>1. CASE i \in 1..n
      <4>1. /\ keys'.queue[i] = keys.queue[i] /\ keys.queue[i] \in Nat
            /\ lastRoute < keys.queue[i] /\ keys.queue[i] <= routes
        BY <2>1, <2>2, <3>1
      <4> QED
        BY <1>2, <2>3, <4>1
    <3>2. CASE i = n + 1 /\ keys'.queue[i] = routes + 1
      BY <1>2, <2>2, <2>3, <3>2
    <3> QED
      BY <2>4, <3>1, <3>2
  <2>6. \A i, j \in 1..Len(keys'.queue) : i < j => keys'.queue[i] < keys'.queue[j]
    <3> SUFFICES ASSUME NEW i \in 1..Len(keys'.queue), NEW j \in 1..Len(keys'.queue), i < j
                 PROVE  keys'.queue[i] < keys'.queue[j]
      OBVIOUS
    <3>1. i \in 1..n /\ keys'.queue[i] = keys.queue[i] /\ keys.queue[i] \in Nat
          /\ keys.queue[i] <= routes
      BY <2>1, <2>2
    <3>2. CASE j \in 1..n
      BY <2>1, <2>2, <3>1, <3>2
    <3>3. CASE j = n + 1 /\ keys'.queue[j] = routes + 1
      BY <2>3, <3>1, <3>3
    <3> QED
      BY <2>4, <3>2, <3>3
  <2>7. \A p \in net : p.route <= routes' /\ \A i \in 1..Len(keys'.queue) : p.route < keys'.queue[i]
    <3> SUFFICES ASSUME NEW p \in net
                 PROVE  p.route <= routes' /\ \A i \in 1..Len(keys'.queue) : p.route < keys'.queue[i]
      OBVIOUS
    <3>1. p.route \in Nat /\ p.route <= routes /\ p.route < routes + 1
      BY <2>2, <2>3
    <3>2. ASSUME NEW i \in 1..Len(keys'.queue) PROVE p.route < keys'.queue[i]
      <4>1. CASE i \in 1..n
        BY <2>1, <2>2, <4>1
      <4>2. CASE i = n + 1 /\ keys'.queue[i] = routes + 1
        BY <3>1, <4>2
      <4> QED
        BY <2>4, <4>1, <4>2
    <3> QED
      BY <1>2, <2>3, <3>1, <3>2
  <2>8. UNCHANGED <<session, net, lastRoute, newest, foremost, overtaken>>
    BY <1>2
  <2>9. /\ \A p \in net : p.number > newest /\ p.route # NoRoute => p.route > lastRoute
        /\ \A p, q \in net : p.number < q.number /\ p.route # NoRoute /\ q.route # NoRoute
                                => p.route < q.route
    BY DEF IInv, RoutesOrdered
  <2> QED
    BY <2>3, <2>5, <2>6, <2>7, <2>8, <2>9 DEF RoutesOrdered
<1>9. PressesOrdered' /\ EscapeOrdered'
  BY <1>2, <1>4, <1>5 DEF IInv, PressesOrdered, EscapeOrdered, EscapeHolds, Behind, Earlier
<1> QED
  BY <1>5, <1>6, <1>7, <1>8, <1>9 DEF IInv

LEMMA StepEscape ==
    ASSUME IInv, Escape
    PROVE  IInv'
<1>1. keys \in KeyStates /\ BridgeInv
  BY SenderTypeMeans DEF IInv
<1>2. /\ Clear /\ BridgeRests
      /\ escape' = [number |-> number, press |-> presses, heard |-> FALSE]
      /\ UNCHANGED <<session, number, net, presses, routes, armedBy, lastRoute, newest, foremost, overtaken>>
  BY DEF Escape, arrivals
<1>3. keys' \in KeyStates /\ keys'.queue = <<>> /\ ~keys'.armed
  BY <1>1, <1>2, ClearFacts
<1>4. BridgeInv' /\ latch' = latch /\ state' = state
  BY <1>1, <1>2, RestFacts
<1>5. SenderType(1..MaxRoutes)'
  BY <1>3 DEF SenderType, KeyStates, Longest
<1>6. escape'.number = number /\ escape'.press = presses /\ ~escape'.heard
      /\ number \in Nat /\ presses \in Nat
  BY <1>2 DEF IInv, Counts
<1>7. Counts'
  BY <1>2, <1>6 DEF IInv, Counts
<1>8. Sent' /\ Requested' /\ Near'
  BY <1>2, <1>3, <1>4, <1>6 DEF IInv, Sent, Requested, Near
<1>9. RoutesOrdered'
  BY <1>2, <1>3 DEF IInv, RoutesOrdered
<1>10. PressesOrdered'
  BY <1>2, <1>3, <1>4 DEF IInv, PressesOrdered, Behind, Earlier
<1>11. EscapeOrdered'
  <2>1. \A p \in net : p.owner = session => ~(p.number >= number)
    BY <1>6 DEF IInv, Sent, Datagrams
  <2> QED
    BY <1>2, <1>4, <1>6, <2>1 DEF EscapeOrdered, EscapeHolds
<1> QED
  BY <1>4, <1>5, <1>7, <1>8, <1>9, <1>10, <1>11 DEF IInv

LEMMA StepSenderRestart ==
    ASSUME IInv, SenderRestart
    PROVE  IInv'
<1>1. BridgeInv
  BY DEF IInv
<1>2. /\ Restart /\ BridgeRests /\ session < MaxSessions
      /\ session' = session + 1 /\ number' = 0 /\ newest' = 0 - 1 /\ escape' = NoEscape
      /\ UNCHANGED <<net, presses, routes, armedBy, lastRoute, foremost, overtaken>>
  BY DEF SenderRestart
<1>3. keys' \in KeyStates /\ keys'.queue = <<>> /\ ~keys'.armed
  BY <1>2, InitialKeys DEF Restart
<1>4. BridgeInv' /\ latch' = latch /\ state' = state
  BY <1>1, <1>2, RestFacts
<1>5. SenderType(1..MaxRoutes)'
  BY <1>3 DEF SenderType, KeyStates, Longest
<1>6. /\ session \in 1..MaxSessions /\ session' \in 1..MaxSessions /\ session' # 1
      /\ \A p \in net : p.owner \in Nat /\ p.owner <= session /\ p.owner <= session' /\ p.owner # session'
  BY <1>2, LinkFacts DEF IInv, Counts, Sent, Datagrams
<1>7. escape' = [number |-> 0, press |-> 0, heard |-> FALSE] /\ presses \in Nat
  BY <1>2 DEF NoEscape, IInv, Counts
<1>8. Counts' /\ Near' /\ RoutesOrdered'
  BY <1>2, <1>6, <1>7 DEF IInv, Counts, Near, RoutesOrdered
<1>9. Sent' /\ Requested'
  <2>1. foremost.owner <= session' /\ foremost.owner # session'
    BY <1>2, <1>6 DEF IInv, Counts, Sent
  <2>2. /\ net \subseteq Datagrams
        /\ \A p \in net : p.press <= presses /\ p.sequence = p.number % Serial
                            /\ p.mode \in {{}, {"brake"}, {"suppress"}}
        /\ \A p, q \in net : p # q => Earlier(p, q) \/ Earlier(q, p)
    BY DEF IInv, Sent
  <2>3. Sent'
    BY <1>2, <1>6, <2>1, <2>2 DEF Sent, Earlier
  <2>4. Requested'
    BY <1>2, <1>3, <1>7 DEF IInv, Requested
  <2> QED
    BY <2>3, <2>4
<1>10. PressesOrdered'
  BY <1>2, <1>3, <1>4 DEF IInv, PressesOrdered, Behind, Earlier
<1>11. EscapeOrdered'
  BY <1>2, <1>6, <1>7 DEF EscapeOrdered, EscapeHolds
<1> QED
  BY <1>4, <1>5, <1>8, <1>9, <1>10, <1>11 DEF IInv

\* A turn of the loop: what it adds to the path is newer than all of it, takes the
\* next command, and asks for what stands.
LEMMA StepSendLoop ==
    ASSUME IInv, SendLoop
    PROVE  IInv'
<1>1. keys \in KeyStates /\ BridgeInv /\ keys.queue \in Seq(1..MaxRoutes)
  BY SenderTypeMeans DEF IInv, KeyStates
<1>2. /\ Send /\ BridgeRests /\ InWindow /\ number < MaxSent /\ number' = number + 1
      /\ net' = net \/ net' = net \union {Datagram}
      /\ UNCHANGED <<session, presses, routes, armedBy, lastRoute, newest, foremost, overtaken, escape>>
  BY DEF SendLoop, arrivals
<1>3. /\ keys' \in KeyStates
      /\ keys'.armed => keys.armed /\ keys'.disarming = keys.disarming
      /\ IF keys.queue = <<>> THEN keys'.queue = keys.queue /\ Contents.route = NoRoute
         ELSE keys'.queue = Tail(keys.queue) /\ Contents.route = Head(keys.queue)
      /\ Contents.mode \in {{}, {"brake"}, {"suppress"}}
      /\ Suppresses(Contents.mode) => keys.armed
      /\ keys'.armed /\ (keys.armed => keys.disarming = 0) => Suppresses(Contents.mode)
  BY <1>1, <1>2, SendFacts
<1>4. BridgeInv' /\ latch' = latch /\ state' = state
  BY <1>1, <1>2, RestFacts
<1>5. SenderType(1..MaxRoutes)'
  BY <1>3 DEF SenderType, KeyStates, Longest
<1>6. /\ session \in 1..MaxSessions /\ number \in Nat /\ newest \in Int
      /\ presses \in 0..MaxPresses /\ routes \in 0..MaxRoutes /\ lastRoute \in Nat
      /\ armedBy \in Nat /\ escape.number \in Nat /\ escape.press \in Nat
      /\ escape.number <= number /\ escape.press <= presses /\ armedBy <= presses
      /\ keys.armed => keys.disarming = 0 /\ presses > escape.press
  BY DEF IInv, Counts, Requested
<1>7. presses \in Nat /\ session \in Nat /\ number + 1 \in Nat /\ routes \in Nat
  BY <1>6, LinkFacts
<1>8. Contents.route \in 0..MaxRoutes
  <2>1. CASE keys.queue = <<>>
    BY <1>3, <2>1, LinkFacts DEF NoRoute
  <2>2. CASE keys.queue # <<>>
    <3>1. Head(keys.queue) \in 1..MaxRoutes
      BY <1>1, <2>2, HeadTailProperties
    <3> QED
      BY <1>3, <2>2, <3>1
  <2> QED
    BY <2>1, <2>2
<1> DEFINE new == Datagram
<1>9. /\ new \in Datagrams
      /\ new.owner = session /\ new.number = number /\ new.sequence = number % Serial
      /\ new.mode = Contents.mode /\ new.route = Contents.route /\ new.press = presses
  <2>1. number % Serial \in 0..(Serial - 1)
    BY <1>6, Half
  <2>2. Contents.mode \in Modes /\ number \in 0..MaxSent
    BY <1>2, <1>3, <1>6, LinkFacts DEF Modes
  <2>3. (IF Contents.moves THEN 2 ELSE 0) \in 0..2
    OBVIOUS
  <2> QED
    BY <1>6, <1>8, <2>1, <2>2, <2>3 DEF Datagram, Datagrams
<1> HIDE DEF new
<1>10. net' \subseteq net \union {new}
  BY <1>2 DEF new
<1>11. \A p \in net :
         /\ p.owner \in Nat /\ p.number \in Nat /\ p.press \in Nat /\ p.route \in Nat
         /\ p.owner <= session /\ p.press <= presses
         /\ p.owner = session => p.number < number
  BY DEF IInv, Sent, Datagrams
<1>12. Counts'
  BY <1>2, <1>6, <1>7 DEF IInv, Counts
<1>13. Sent'
  <2>1. net' \subseteq Datagrams
    BY <1>9, <1>10 DEF IInv, Sent
  <2>2. ASSUME NEW p \in net'
        PROVE  /\ p.owner <= session /\ p.press <= presses
               /\ p.owner = session => p.number < number + 1
               /\ p.sequence = p.number % Serial
               /\ p.mode \in {{}, {"brake"}, {"suppress"}}
    <3>1. CASE p \in net
      BY <1>6, <1>11, <3>1 DEF IInv, Sent
    <3>2. CASE p = new
      BY <1>3, <1>6, <1>7, <1>9, <3>2
    <3> QED
      BY <1>10, <3>1, <3>2
  <2>3. foremost.owner <= session /\ (foremost.owner = session => foremost.number < number + 1)
    BY <1>6 DEF IInv, Counts, Sent
  <2>4. \A p, q \in net' : p # q => Earlier(p, q) \/ Earlier(q, p)
    <3>1. \A p \in net : Earlier(p, new)
      BY <1>6, <1>7, <1>9, <1>11 DEF Earlier
    <3> QED
      BY <1>10, <3>1 DEF IInv, Sent
  <2> QED
    BY <1>2, <2>1, <2>2, <2>3, <2>4 DEF Sent, Earlier
<1>14. Requested'
  <2>1. Suppresses(new.mode) => new.press >= 1
    BY <1>3, <1>6, <1>7, <1>9
  <2>2. \A p \in net' : Suppresses(p.mode) => p.press >= 1
    BY <1>10, <2>1 DEF IInv, Requested
  <2>3. escape.number <= number + 1
    BY <1>6
  <2> QED
    BY <1>2, <1>3, <1>6, <2>2, <2>3 DEF Requested
<1>15. Near'
  <2> SUFFICES ASSUME session = 1 PROVE Near'
    BY <1>2 DEF Near
  <2>1. /\ newest < number /\ FirstNumber - 1 <= newest
        /\ \A p \in net : FirstNumber <= p.number
        /\ IF state = None THEN newest = FirstNumber - 1
           ELSE state.owner = 1 /\ state.number = newest /\ state.sequence = newest % Serial
    BY DEF IInv, Near
  <2>2. Serial \div 2 \in Nat /\ FirstNumber \in Nat
    BY Half, LinkFacts
  <2>3. number - newest < Serial \div 2 /\ \A p \in net : number - p.number < Serial \div 2
    <3>1. \A p \in net : p.owner = session
      BY <1>6, <1>11 DEF IInv, Sent, Datagrams
    <3> QED
      BY <1>2, <3>1 DEF InWindow
  <2> HIDE DEF new
  <2>4. (number + 1) - newest <= Serial \div 2 /\ newest < number + 1
    BY <1>6, <2>1, <2>2, <2>3
  <2>5. \A p \in net' : FirstNumber <= p.number /\ (number + 1) - p.number <= Serial \div 2
    <3>1. FirstNumber <= new.number /\ (number + 1) - new.number <= Serial \div 2
      BY <1>6, <1>9, <2>1, <2>2, <2>3
    <3>2. \A p \in net : FirstNumber <= p.number /\ (number + 1) - p.number <= Serial \div 2
      BY <1>6, <1>11, <2>1, <2>2, <2>3
    <3> QED
      BY <1>10, <3>1, <3>2
  <2>6. /\ number' - newest' <= Serial \div 2 /\ newest' < number'
        /\ FirstNumber - 1 <= newest'
        /\ \A p \in net' : FirstNumber <= p.number /\ number' - p.number <= Serial \div 2
    <3>1. number' = number + 1 /\ newest' = newest
      BY <1>2
    <3>2. number' - newest' <= Serial \div 2 /\ newest' < number'
      BY <2>4, <3>1
    <3>3. FirstNumber - 1 <= newest'
      BY <2>1, <3>1
    <3>4. \A p \in net' : FirstNumber <= p.number /\ number' - p.number <= Serial \div 2
      BY <2>5, <3>1
    <3> QED
      BY <3>2, <3>3, <3>4
  <2>7. IF state' = None THEN newest' = FirstNumber - 1
        ELSE state'.owner = 1 /\ state'.number = newest' /\ state'.sequence = newest' % Serial
    BY <1>2, <1>4, <2>1
  <2> QED
    BY <2>6, <2>7 DEF Near
<1>16. RoutesOrdered'
  <2> SUFFICES ASSUME session = 1 PROVE RoutesOrdered'
    BY <1>2 DEF RoutesOrdered
  <2>1. /\ lastRoute <= routes
        /\ \A i \in 1..Len(keys.queue) : lastRoute < keys.queue[i] /\ keys.queue[i] <= routes
        /\ \A i, j \in 1..Len(keys.queue) : i < j => keys.queue[i] < keys.queue[j]
        /\ \A p \in net : p.route <= routes /\ \A i \in 1..Len(keys.queue) : p.route < keys.queue[i]
        /\ \A p \in net : p.number > newest /\ p.route # NoRoute => p.route > lastRoute
        /\ \A p, q \in net : p.number < q.number /\ p.route # NoRoute /\ q.route # NoRoute
                                => p.route < q.route
    BY DEF IInv, RoutesOrdered
  <2>2. /\ \A i \in 1..Len(keys'.queue) :
              /\ lastRoute < keys'.queue[i] /\ keys'.queue[i] <= routes
              /\ new.route < keys'.queue[i]
              /\ \A p \in net : p.route < keys'.queue[i]
        /\ \A i, j \in 1..Len(keys'.queue) : i < j => keys'.queue[i] < keys'.queue[j]
        /\ new.route # NoRoute =>
              new.route <= routes /\ new.route > lastRoute /\ \A p \in net : p.route < new.route
    <3>1. CASE keys.queue = <<>>
      <4>1. keys'.queue = <<>> /\ new.route = NoRoute
        BY <1>3, <1>9, <3>1
      <4>2. Len(keys'.queue) = 0
        BY <4>1
      <4> QED
        BY <4>1, <4>2
    <3>2. CASE keys.queue # <<>>
      <4> DEFINE queue == keys.queue
                 rest == keys'.queue
      <4>1. /\ queue \in Seq(1..MaxRoutes) /\ Len(queue) \in Nat /\ Len(queue) >= 1
            /\ rest = Tail(queue) /\ new.route = Head(queue)
        BY <1>1, <1>3, <1>9, <3>2
      <4> HIDE DEF queue
      <4>2. Head(queue) = queue[1] /\ 1 \in 1..Len(queue) /\ Len(Tail(queue)) = Len(queue) - 1
        BY <4>1
      <4>3. \A i \in 1..Len(queue) - 1 : Tail(queue)[i] = queue[i + 1]
        BY <4>1
      <4> HIDE DEF rest
      <4>4. \A i \in 1..Len(rest) : rest[i] = queue[i + 1] /\ i + 1 \in 1..Len(queue) /\ 1 < i + 1
        BY <4>1, <4>2, <4>3
      <4>5. /\ \A i \in 1..Len(rest) :
                  lastRoute < rest[i] /\ rest[i] <= routes /\ new.route < rest[i]
                  /\ \A p \in net : p.route < rest[i]
            /\ new.route <= routes /\ new.route > lastRoute /\ \A p \in net : p.route < new.route
        BY <2>1, <4>1, <4>2, <4>4 DEF queue
      <4>6. \A i, j \in 1..Len(rest) : i < j => rest[i] < rest[j]
        <5> SUFFICES ASSUME NEW i \in 1..Len(rest), NEW j \in 1..Len(rest), i < j
                     PROVE  rest[i] < rest[j]
          OBVIOUS
        <5>1. i + 1 < j + 1 /\ i + 1 \in 1..Len(queue) /\ j + 1 \in 1..Len(queue)
          BY <4>4
        <5>2. queue[i + 1] < queue[j + 1]
          BY <2>1, <5>1 DEF queue
        <5> QED
          BY <4>4, <5>2
      <4> QED
        BY <4>5, <4>6 DEF rest
    <3> QED
      BY <3>1, <3>2
  <2>3. \A p \in net : p.number < number
    <3>1. \A p \in net : p.owner = session
      BY <1>6, <1>11 DEF IInv, Sent, Datagrams
    <3> QED
      BY <1>11, <3>1
  <2>4. new.route <= routes
    BY <1>7, <2>2 DEF NoRoute
  <2>5. \A p \in net' :
          /\ p.route <= routes
          /\ \A i \in 1..Len(keys'.queue) : p.route < keys'.queue[i]
          /\ p.number > newest /\ p.route # NoRoute => p.route > lastRoute
    BY <1>10, <2>1, <2>2, <2>4
  <2>6. \A p, q \in net' : p.number < q.number /\ p.route # NoRoute /\ q.route # NoRoute
                               => p.route < q.route
    <3> SUFFICES ASSUME NEW p \in net', NEW q \in net', p.number < q.number,
                        p.route # NoRoute, q.route # NoRoute
                 PROVE  p.route < q.route
      OBVIOUS
    <3>1. p # new
      <4>1. p = new => ~(q \in net) /\ q # new
        BY <1>6, <1>9, <1>11, <2>3
      <4> QED
        BY <1>10, <4>1
    <3> QED
      BY <1>10, <2>1, <2>2, <3>1
  <2>7. lastRoute <= routes
    BY <2>1
  <2>8. \A i \in 1..Len(keys'.queue) : lastRoute < keys'.queue[i] /\ keys'.queue[i] <= routes
    BY <2>2
  <2>9. \A i, j \in 1..Len(keys'.queue) : i < j => keys'.queue[i] < keys'.queue[j]
    BY <2>2
  <2> QED
    BY <1>2, <2>5, <2>6, <2>7, <2>8, <2>9 DEF RoutesOrdered
<1>17. PressesOrdered'
  <2>1. /\ \A p \in net : ~Behind(p) => armedBy <= p.press
        /\ \A p, q \in net : Earlier(p, q) =>
            /\ p.press <= q.press
            /\ ~Suppresses(p.mode) /\ Suppresses(q.mode) => p.press < q.press
        /\ \A p \in net : ~Suppresses(p.mode) /\ p.press = presses => ~keys.armed
        /\ ~latch.armed /\ latch.rearmReady /\ ~overtaken.release =>
            /\ \A p \in net : Suppresses(p.mode) /\ ~Behind(p) => armedBy < p.press
            /\ keys.armed => armedBy < presses
    BY DEF IInv, PressesOrdered
  <2>2. /\ Suppresses(new.mode) => keys.armed
        /\ keys'.armed => keys.armed /\ Suppresses(new.mode)
    BY <1>3, <1>6, <1>9
  <2>3. \A p \in net' : ~Behind(p) => armedBy <= p.press
    BY <1>6, <1>9, <1>10, <2>1
  <2>4. \A p, q \in net' : Earlier(p, q) =>
            /\ p.press <= q.press
            /\ ~Suppresses(p.mode) /\ Suppresses(q.mode) => p.press < q.press
    <3> SUFFICES ASSUME NEW p \in net', NEW q \in net', Earlier(p, q)
                 PROVE  /\ p.press <= q.press
                        /\ ~Suppresses(p.mode) /\ Suppresses(q.mode) => p.press < q.press
      OBVIOUS
    <3>1. p \in net
      <4>1. ASSUME q \in net PROVE ~Earlier(new, q)
        BY <1>6, <1>7, <1>9, <1>11, <4>1 DEF Earlier
      <4>2. ~Earlier(new, new)
        BY <1>6, <1>7, <1>9 DEF Earlier
      <4> QED
        BY <1>10, <4>1, <4>2
    <3>2. CASE q \in net
      BY <2>1, <3>1, <3>2
    <3>3. CASE q = new
      BY <1>7, <1>9, <1>11, <2>1, <2>2, <3>1, <3>3
    <3> QED
      BY <1>10, <3>2, <3>3
  <2>5. \A p \in net' : ~Suppresses(p.mode) /\ p.press = presses => ~keys'.armed
    BY <1>10, <2>1, <2>2
  <2>6. ~latch.armed /\ latch.rearmReady /\ ~overtaken.release =>
            /\ \A p \in net' : Suppresses(p.mode) /\ ~Behind(p) => armedBy < p.press
            /\ keys'.armed => armedBy < presses
    BY <1>9, <1>10, <2>1, <2>2
  <2> QED
    BY <1>2, <1>4, <2>3, <2>4, <2>5, <2>6 DEF PressesOrdered, Behind, Earlier
<1>18. EscapeOrdered'
  <2>1. /\ presses = escape.press =>
            \A p \in net : p.owner = session /\ p.number >= escape.number => ~Suppresses(p.mode)
        /\ escape.heard => foremost.owner = session /\ foremost.number >= escape.number
        /\ EscapeHolds
    BY DEF IInv, EscapeOrdered
  <2>2. presses = escape.press => ~Suppresses(new.mode)
    BY <1>3, <1>6, <1>7, <1>9
  <2>3. EscapeHolds'
    BY <1>2, <1>4, <2>1 DEF EscapeHolds
  <2> QED
    BY <1>2, <1>10, <2>1, <2>2, <2>3 DEF EscapeOrdered
<1> QED
  BY <1>4, <1>5, <1>12, <1>13, <1>14, <1>15, <1>16, <1>17, <1>18 DEF IInv

\* While there is one sender, a datagram is accepted when it is newer than all that
\* arrived.
LEMMA AcceptsNewer ==
    ASSUME IInv, session = 1, NEW p \in Deliverable
    PROVE  Accepts(p) <=> p.number > newest
<1>1. p \in net
  BY DEF Deliverable
<1>2. /\ number - newest <= Serial \div 2 /\ newest < number
      /\ FirstNumber - 1 <= newest
      /\ FirstNumber <= p.number /\ number - p.number <= Serial \div 2
      /\ IF state = None THEN newest = FirstNumber - 1
         ELSE state.owner = 1 /\ state.number = newest /\ state.sequence = newest % Serial
  BY <1>1 DEF IInv, Near
<1>3. /\ number \in Nat /\ newest \in Int /\ p.number \in Nat
      /\ p.owner = 1 /\ p.number < number /\ p.sequence = p.number % Serial
  <2>1. p.owner \in 1..MaxSessions /\ p.owner <= session
    BY <1>1 DEF IInv, Sent, Datagrams
  <2>2. p.owner = session
    BY <2>1
  <2> QED
    BY <1>1, <2>2 DEF IInv, Sent, Datagrams, Counts
<1>4. CASE state = None
  BY <1>2, <1>3, <1>4, LinkFacts DEF Accepts
<1>5. CASE state # None
  <2>1. newest \in Nat
    <3>1. state \in Datagrams
      BY <1>5 DEF IInv, BridgeInv, Accepted
    <3>2. state.number \in Nat
      BY <3>1 DEF Datagrams
    <3> QED
      BY <1>2, <1>5, <3>2
  <2>2. Serial \div 2 \in Nat
    BY Half
  <2>3. p.number - newest < Serial \div 2 /\ newest - p.number < Serial \div 2
    BY <1>2, <1>3, <2>1, <2>2
  <2>4. IsNewer(p.number % Serial, newest % Serial) <=> p.number > newest
    BY <1>3, <2>1, <2>3, SerialOrder
  <2>5. Accepts(p) <=> IsNewer(p.sequence, state.sequence)
    BY <1>2, <1>3, <1>5 DEF Accepts
  <2> QED
    BY <1>2, <1>3, <1>5, <2>4, <2>5
<1> QED
  BY <1>4, <1>5

\* The delivery of a datagram: what reaches the latch, and what the state is after it.
LEMMA StepDeliver ==
    ASSUME IInv, NEW p \in Deliverable, Deliver(p)
    PROVE  IInv'
<1>1. keys \in KeyStates /\ BridgeInv
  BY SenderTypeMeans DEF IInv
<1>2. p \in net
  BY DEF Deliverable
<1>3. /\ Receive(p) /\ net' \subseteq net
      /\ net' = net \ {p} \/ net' = net
      /\ armedBy' = IF latch'.armed /\ ~latch.armed THEN p.press ELSE armedBy
      /\ lastRoute' = IF forwarded' = NoRoute THEN lastRoute ELSE forwarded'
      /\ newest' = IF p.owner = session THEN Larger(newest, p.number) ELSE newest
      /\ UNCHANGED <<keys, session, number, presses, routes>>
  BY DEF Deliver
<1>4. /\ p \in Datagrams /\ p.mode \in {{}, {"brake"}, {"suppress"}}
      /\ p.owner \in 1..MaxSessions /\ p.number \in Nat /\ p.press \in Nat /\ p.route \in Nat
      /\ p.owner <= session /\ p.press <= presses /\ (p.owner = session => p.number < number)
      /\ p.sequence = p.number % Serial
  BY <1>2 DEF IInv, Sent, Datagrams
<1>5. /\ BridgeInv'
      /\ Brakes(p.mode) => ~latch'.armed
      /\ ~Brakes(p.mode) /\ ~Suppresses(p.mode) =>
           latch'.armed = latch.armed /\ latch'.age = latch.age
      /\ Suppresses(p.mode) =>
           \/ latch'.armed /\ ~latch.armed /\ latch.rearmReady
           \/ /\ latch'.armed = latch.armed /\ latch'.rearmReady = latch.rearmReady
              /\ latch'.age = latch.age
      /\ Suppresses(p.mode) => ~Brakes(p.mode)
      /\ IF Accepts(p)
           THEN /\ state' # None /\ forwarded' = p.route
                /\ state'.owner = p.owner /\ state'.number = p.number
                /\ state'.sequence = p.sequence
           ELSE state' = state /\ forwarded' = NoRoute
  BY <1>1, <1>3, <1>4, ReceiveFacts
<1>6. /\ session \in 1..MaxSessions /\ number \in Nat /\ newest \in Int
      /\ presses \in Nat /\ routes \in Nat /\ lastRoute \in Nat /\ armedBy \in Nat
      /\ escape \in [number : Nat, press : Nat, heard : BOOLEAN]
      /\ armedBy <= presses
  BY LinkFacts DEF IInv, Counts, Requested
<1>7. latch.armed \in BOOLEAN /\ latch'.armed \in BOOLEAN
      /\ latch.rearmReady \in BOOLEAN /\ latch'.rearmReady \in BOOLEAN
  BY <1>1, <1>5, BridgeTypeMeans DEF BridgeInv, BridgeType
<1> DEFINE flagged == p.mode # {} /\ p.owner = session /\ p.number >= escape.number
<1>8. /\ escape'.number = escape.number /\ escape'.press = escape.press
      /\ escape'.heard = (escape.heard \/ flagged)
      /\ escape' \in [number : Nat, press : Nat, heard : BOOLEAN]
  <2>1. (escape.heard \/ flagged) \in BOOLEAN
    OBVIOUS
  <2>2. escape' = [escape EXCEPT !.heard = (escape.heard \/ flagged)]
    BY DEF Deliver
  <2> HIDE DEF flagged
  <2> QED
    BY <1>6, <2>1, <2>2
<1>9. armedBy' \in Nat /\ armedBy' <= presses
  BY <1>3, <1>4, <1>6
<1>10. forwarded' \in Nat /\ forwarded' \in {p.route, NoRoute} /\ NoRoute \in Nat
  BY <1>4, <1>5 DEF NoRoute
<1>11. lastRoute' \in Nat
  BY <1>3, <1>6, <1>10
<1>12. /\ newest' \in Int /\ newest' >= newest
       /\ p.owner = session => newest' >= p.number /\ newest' \in {newest, p.number}
  BY <1>3, <1>4, <1>6 DEF Larger
<1>13. SenderType(1..MaxRoutes)'
  BY <1>3 DEF IInv, SenderType
<1> HIDE DEF flagged
<1>14. /\ foremost \in [owner : 1..MaxSessions, number : Int]
       /\ overtaken \in [request : BOOLEAN, release : BOOLEAN]
       /\ foremost' = IF Behind(p) THEN foremost ELSE [owner |-> p.owner, number |-> p.number]
       /\ overtaken' = IF latch'.armed /\ ~latch.armed
                          THEN [request |-> Behind(p), release |-> FALSE]
                          ELSE [overtaken EXCEPT !.release = overtaken.release
                                   \/ (armedBy > 0 /\ Behind(p) /\ ~Suppresses(p.mode))]
  BY DEF IInv, Counts, Deliver
<1>15. /\ foremost' \in [owner : 1..MaxSessions, number : Int]
       /\ foremost'.owner <= session
       /\ foremost'.owner = session => foremost'.number < number
  BY <1>3, <1>4, <1>6, <1>14 DEF IInv, Sent
\* What arrives is the foremost or behind it, and who was behind stays there.
<1>16. \A q \in net :
         /\ ~Behind(q)' => ~Behind(q)
         /\ ~Behind(q)' => q = p \/ Earlier(p, q)
  <2> SUFFICES ASSUME NEW q \in net, ~Behind(q)'
               PROVE  ~Behind(q) /\ (q = p \/ Earlier(p, q))
    OBVIOUS
  <2>1. q.owner \in Int /\ q.number \in Int /\ p.owner \in Int /\ p.number \in Int
        /\ foremost.owner \in Int /\ foremost.number \in Int
    BY <1>4, <1>14 DEF IInv, Sent, Datagrams
  <2>2. q # p => Earlier(p, q) \/ Earlier(q, p)
    BY <1>2 DEF IInv, Sent
  <2>3. ~Earlier(q, foremost')
    BY DEF Behind, Earlier
  <2>4. CASE Behind(p)
    BY <1>14, <2>1, <2>2, <2>3, <2>4 DEF Behind, Earlier
  <2>5. CASE ~Behind(p)
    <3>1. foremost'.owner = p.owner /\ foremost'.number = p.number
      BY <1>14, <2>5
    <3> QED
      BY <2>1, <2>2, <2>3, <2>5, <3>1 DEF Behind, Earlier
  <2> QED
    BY <2>4, <2>5
<1>17. /\ overtaken' \in [request : BOOLEAN, release : BOOLEAN]
       /\ latch'.armed /\ ~latch.armed => overtaken'.request = Behind(p)
       /\ ~(latch'.armed /\ ~latch.armed) =>
            /\ overtaken'.request = overtaken.request
            /\ ~overtaken'.release =>
                 ~overtaken.release /\ (armedBy = 0 \/ ~Behind(p) \/ Suppresses(p.mode))
  <2> DEFINE since == overtaken.release \/ (armedBy > 0 /\ Behind(p) /\ ~Suppresses(p.mode))
  <2>1. since \in BOOLEAN /\ Behind(p) \in BOOLEAN
    BY DEF Behind, Earlier
  <2>2. ~since => ~overtaken.release /\ (armedBy = 0 \/ ~Behind(p) \/ Suppresses(p.mode))
    BY <1>6
  <2>3. overtaken' = IF latch'.armed /\ ~latch.armed
                       THEN [request |-> Behind(p), release |-> FALSE]
                       ELSE [overtaken EXCEPT !.release = since]
    BY <1>14
  <2> HIDE DEF since
  <2> QED
    BY <1>14, <2>1, <2>2, <2>3
<1>18. Counts'
  <2>1. UNCHANGED <<session, number, presses, routes>>
    BY <1>3
  <2>2. newest' \in Int /\ armedBy' \in Nat
    BY <1>9, <1>12
  <2> QED
    BY <1>8, <1>11, <1>15, <1>17, <2>1, <2>2 DEF IInv, Counts
<1>19. Sent'
  BY <1>3, <1>15 DEF IInv, Sent, Earlier
<1>20. Requested'
  BY <1>3, <1>8, <1>9 DEF IInv, Requested
<1>21. session = 1 => (Accepts(p) <=> p.number > newest)
  BY AcceptsNewer
<1>22. session = 1 => newest' = IF p.number > newest THEN p.number ELSE newest
  <2>1. session = 1 => p.owner = session
    BY <1>4, <1>6
  <2> QED
    BY <1>3, <1>4, <1>6, <2>1 DEF Larger
<1>23. Near'
  <2> SUFFICES ASSUME session = 1 PROVE Near'
    BY <1>3 DEF Near
  <2>1. /\ number - newest <= Serial \div 2 /\ newest < number
        /\ FirstNumber - 1 <= newest
        /\ \A q \in net : FirstNumber <= q.number /\ number - q.number <= Serial \div 2
        /\ IF state = None THEN newest = FirstNumber - 1
           ELSE state.owner = 1 /\ state.number = newest /\ state.sequence = newest % Serial
    BY DEF IInv, Near
  <2>2. p.owner = 1 /\ p.number < number /\ Serial \div 2 \in Nat /\ FirstNumber \in Nat
    BY <1>4, <1>6, Half, LinkFacts
  <2>3. /\ number - newest' <= Serial \div 2 /\ newest' < number
        /\ FirstNumber - 1 <= newest'
    <3>1. CASE p.number > newest
      BY <1>2, <1>4, <1>6, <1>22, <2>1, <2>2, <3>1
    <3>2. CASE ~(p.number > newest)
      BY <1>22, <2>1, <3>2
    <3> QED
      BY <3>1, <3>2
  <2>4. IF state' = None THEN newest' = FirstNumber - 1
        ELSE state'.owner = 1 /\ state'.number = newest' /\ state'.sequence = newest' % Serial
    <3>1. CASE p.number > newest
      BY <1>4, <1>5, <1>21, <1>22, <2>2, <3>1
    <3>2. CASE ~(p.number > newest)
      BY <1>5, <1>21, <1>22, <2>1, <3>2
    <3> QED
      BY <3>1, <3>2
  <2>5. \A q \in net' : FirstNumber <= q.number /\ number - q.number <= Serial \div 2
    BY <1>3, <2>1
  <2>6. session' = 1 /\ number' = number
    BY <1>3
  <2> QED
    BY <2>3, <2>4, <2>5, <2>6 DEF Near
<1>24. RoutesOrdered'
  <2> SUFFICES ASSUME session = 1 PROVE RoutesOrdered'
    BY <1>3 DEF RoutesOrdered
  <2>1. /\ lastRoute <= routes
        /\ \A i \in 1..Len(keys.queue) : lastRoute < keys.queue[i] /\ keys.queue[i] <= routes
        /\ \A i, j \in 1..Len(keys.queue) : i < j => keys.queue[i] < keys.queue[j]
        /\ \A q \in net :
            /\ q.route <= routes
            /\ \A i \in 1..Len(keys.queue) : q.route < keys.queue[i]
            /\ q.number > newest /\ q.route # NoRoute => q.route > lastRoute
            /\ \A r \in net : q.number < r.number /\ q.route # NoRoute /\ r.route # NoRoute
                                => q.route < r.route
    BY DEF IInv, RoutesOrdered
  <2>2. \A q \in net : q.number \in Nat /\ q.route \in Nat
    BY DEF IInv, Sent, Datagrams
  <2>3. CASE lastRoute' = lastRoute
    <3>1. \A q \in net' : q.number > newest' /\ q.route # NoRoute => q.route > lastRoute'
      <4>1. \A q \in net : q.number > newest' => q.number > newest
        BY <1>6, <1>12, <2>2
      <4>2. net' \subseteq net
        BY <1>3
      <4>3. \A q \in net : q.number > newest /\ q.route # NoRoute => q.route > lastRoute
        BY <2>1
      <4> QED
        BY <2>3, <4>1, <4>2, <4>3
    <3> QED
      BY <1>3, <2>1, <2>3, <3>1 DEF RoutesOrdered
  <2>4. CASE lastRoute' # lastRoute
    <3>1. Accepts(p) /\ lastRoute' = p.route /\ p.route # NoRoute
      BY <1>3, <1>5, <2>4
    <3>2. p.number > newest /\ newest' = p.number
      BY <1>21, <1>22, <3>1
    <3>3. \A q \in net' : q.number > newest' /\ q.route # NoRoute => q.route > lastRoute'
      BY <1>2, <1>3, <2>1, <3>1, <3>2
    <3>4. /\ lastRoute' <= routes
          /\ \A i \in 1..Len(keys.queue) : lastRoute' < keys.queue[i]
      BY <1>2, <2>1, <3>1
    <3> QED
      BY <1>3, <2>1, <3>3, <3>4 DEF RoutesOrdered
  <2> QED
    BY <2>3, <2>4
<1>25. /\ \A q \in net : ~Behind(q)' => p.press <= q.press
       /\ ~Suppresses(p.mode) =>
            \A q \in net : Suppresses(q.mode) /\ ~Behind(q)' => p.press < q.press
       /\ latch'.armed /\ ~latch.armed => Suppresses(p.mode)
  <2>1. \A q \in net : Earlier(p, q) =>
            /\ p.press <= q.press
            /\ ~Suppresses(p.mode) /\ Suppresses(q.mode) => p.press < q.press
    BY <1>2 DEF IInv, PressesOrdered
  <2>2. latch'.armed /\ ~latch.armed => Suppresses(p.mode)
    BY <1>5
  <2> QED
    BY <1>4, <1>16, <2>1, <2>2
<1>26. PressesOrdered'
  <2>1. /\ \A q \in net : ~Behind(q) => armedBy <= q.press
        /\ \A q, r \in net : Earlier(q, r) =>
            /\ q.press <= r.press
            /\ ~Suppresses(q.mode) /\ Suppresses(r.mode) => q.press < r.press
        /\ \A q \in net : ~Suppresses(q.mode) /\ q.press = presses => ~keys.armed
        /\ ~latch.armed /\ latch.rearmReady /\ ~overtaken.release =>
            /\ \A q \in net : Suppresses(q.mode) /\ ~Behind(q) => armedBy < q.press
            /\ keys.armed => armedBy < presses
    BY DEF IInv, PressesOrdered
  <2>2. \A q \in net' : ~Behind(q)' => armedBy' <= q.press
    BY <1>3, <1>25, <1>16, <2>1
  <2>3. \A q, r \in net' : Earlier(q, r) =>
            /\ q.press <= r.press
            /\ ~Suppresses(q.mode) /\ Suppresses(r.mode) => q.press < r.press
    BY <1>3, <2>1
  <2>4. \A q \in net' : ~Suppresses(q.mode) /\ q.press = presses => ~keys.armed
    BY <1>3, <2>1
  <2>5. ~latch'.armed /\ latch'.rearmReady /\ ~overtaken'.release =>
            /\ \A q \in net' : Suppresses(q.mode) /\ ~Behind(q)' => armedBy' < q.press
            /\ keys.armed => armedBy' < presses
    <3> SUFFICES ASSUME ~latch'.armed, latch'.rearmReady, ~overtaken'.release
                 PROVE  /\ \A q \in net' : Suppresses(q.mode) /\ ~Behind(q)' => armedBy' < q.press
                        /\ keys.armed => armedBy' < presses
      OBVIOUS
    <3>1. /\ armedBy' = armedBy /\ ~overtaken.release
          /\ armedBy = 0 \/ ~Behind(p) \/ Suppresses(p.mode)
      BY <1>3, <1>17
    <3>2. CASE Suppresses(p.mode)
      <4>1. ~latch.armed /\ latch.rearmReady
        BY <1>5, <1>7, <3>2
      <4> QED
        BY <1>3, <1>16, <2>1, <3>1, <4>1
    <3>3. CASE armedBy = 0
      <4>1. \A q \in net : Suppresses(q.mode) => q.press >= 1
        BY DEF IInv, Requested
      <4>2. keys.armed => presses > 0
        <5>1. keys.armed => presses > escape.press
          BY DEF IInv, Requested
        <5> QED
          BY <1>6, <5>1
      <4>3. \A q \in net : q.press \in Nat
        BY DEF IInv, Sent, Datagrams
      <4> QED
        BY <1>3, <3>1, <3>3, <4>1, <4>2, <4>3
    <3>4. CASE ~Suppresses(p.mode) /\ ~Behind(p)
      <4>1. armedBy <= p.press
        BY <1>2, <2>1, <3>4
      <4>2. \A q \in net : Suppresses(q.mode) /\ ~Behind(q)' => armedBy < q.press
        <5>1. \A q \in net : q.press \in Nat
          BY DEF IInv, Sent, Datagrams
        <5> QED
          BY <1>4, <1>6, <1>25, <3>4, <4>1, <5>1
      <4>3. keys.armed => armedBy < presses
        <5>1. keys.armed => p.press # presses
          BY <1>2, <2>1, <3>4
        <5> QED
          BY <1>4, <1>6, <4>1, <5>1
      <4> QED
        BY <1>3, <3>1, <4>2, <4>3
    <3> QED
      BY <3>1, <3>2, <3>3, <3>4
  <2> QED
    BY <1>3, <2>2, <2>3, <2>4, <2>5 DEF PressesOrdered, Behind, Earlier
<1>27. EscapeOrdered'
  <2>1. /\ presses = escape.press =>
            \A q \in net : q.owner = session /\ q.number >= escape.number => ~Suppresses(q.mode)
        /\ escape.heard => foremost.owner = session /\ foremost.number >= escape.number
        /\ presses = escape.press /\ escape.heard /\ latch.armed => overtaken.request
    BY DEF IInv, EscapeOrdered, EscapeHolds
  <2>2. escape'.heard => foremost'.owner = session /\ foremost'.number >= escape.number
    <3>1. /\ foremost.owner \in Int /\ foremost.number \in Int /\ escape.number \in Int
          /\ foremost.owner <= session /\ session \in Int
      BY <1>6, <1>14 DEF IInv, Sent
    <3>2. CASE Behind(p)
      <4>1. foremost' = foremost
        BY <1>14, <3>2
      <4>2. flagged => foremost.owner = session /\ foremost.number >= escape.number
        BY <1>4, <3>1, <3>2 DEF flagged, Behind, Earlier
      <4> QED
        BY <1>8, <2>1, <4>1, <4>2
    <3>3. CASE ~Behind(p)
      <4>1. foremost'.owner = p.owner /\ foremost'.number = p.number
        BY <1>14, <3>3
      <4>2. foremost.owner = session /\ foremost.number >= escape.number
              => p.owner = session /\ p.number >= escape.number
        BY <1>4, <3>1, <3>3 DEF Behind, Earlier
      <4> QED
        BY <1>8, <2>1, <4>1, <4>2 DEF flagged
    <3> QED
      BY <3>2, <3>3
  <2>3. EscapeHolds'
    <3> SUFFICES ASSUME presses = escape.press, escape'.heard, latch'.armed
                 PROVE  overtaken'.request
      BY <1>3, <1>8 DEF EscapeHolds
    <3>1. CASE ~latch.armed
      <4>1. Suppresses(p.mode) /\ ~(p.owner = session /\ p.number >= escape.number)
        BY <1>2, <1>25, <2>1, <3>1
      <4>2. foremost.owner = session /\ foremost.number >= escape.number
        BY <1>8, <2>1, <4>1 DEF flagged
      <4>3. Behind(p)
        BY <1>4, <1>6, <1>14, <4>1, <4>2 DEF Behind, Earlier
      <4> QED
        BY <1>17, <3>1, <4>3
    <3>2. CASE latch.armed
      <4>1. overtaken'.request = overtaken.request
        BY <1>17, <3>2
      <4>2. CASE escape.heard
        BY <2>1, <3>2, <4>1, <4>2
      <4>3. CASE ~escape.heard
        <5>1. flagged
          BY <1>8, <4>3
        <5>2. ~Suppresses(p.mode) /\ p.mode # {}
          BY <1>2, <2>1, <5>1 DEF flagged
        <5>3. Brakes(p.mode)
          BY <1>4, <5>2 DEF Suppresses, Brakes
        <5> QED
          BY <1>5, <5>3
      <4> QED
        BY <4>2, <4>3
    <3> QED
      BY <3>1, <3>2
  <2> QED
    BY <1>3, <1>8, <2>1, <2>2, <2>3 DEF EscapeOrdered
<1> QED
  BY <1>5, <1>13, <1>18, <1>19, <1>20, <1>23, <1>24, <1>26, <1>27 DEF IInv

LEMMA InvStep == IInv /\ [Next]_vars => IInv'
<1> SUFFICES ASSUME IInv, [Next]_vars PROVE IInv'
  OBVIOUS
<1>1. ASSUME NEW token \in Tokens, KeyPress(token) \/ KeyRelease(token) PROVE IInv'
  BY <1>1, StepKeys
<1>2. CASE RequestAutonomy
  BY <1>2, StepRequestAutonomy
<1>3. CASE QueueRoute
  BY <1>3, StepQueueRoute
<1>4. CASE Escape
  BY <1>4, StepEscape
<1>5. CASE SendLoop
  BY <1>5, StepSendLoop
<1>6. CASE SenderRestart
  BY <1>6, StepSenderRestart
<1>7. ASSUME NEW p \in Deliverable, Deliver(p) PROVE IInv'
  BY <1>7, StepDeliver
<1>8. CASE Takeover \/ Timers
  BY <1>8, StepBridgeAlone
<1>9. CASE Time
  BY <1>9, StepTime
<1>10. CASE UNCHANGED vars
  <2>1. UNCHANGED <<keys, latch, state, age, shown, published, forwarded>>
    BY <1>10 DEF vars, bridgeVars
  <2>2. UNCHANGED <<session, number, net, presses, routes, armedBy, lastRoute, newest, foremost, overtaken, escape>>
    BY <1>10 DEF vars, linkVars, arrivals
  <2>3. SenderType(1..MaxRoutes)' /\ BridgeInv'
    BY <2>1 DEF IInv, SenderType, BridgeInv, BridgeType, Accepted
  <2>4. Counts' /\ Sent' /\ Requested'
    BY <2>1, <2>2 DEF IInv, Counts, Sent, Requested
  <2>5. Near' /\ RoutesOrdered'
    BY <2>1, <2>2 DEF IInv, Near, RoutesOrdered
  <2>6. PressesOrdered' /\ EscapeOrdered'
    BY <2>1, <2>2 DEF IInv, PressesOrdered, EscapeOrdered, EscapeHolds, Behind, Earlier
  <2> QED
    BY <2>3, <2>4, <2>5, <2>6 DEF IInv
<1> QED
  BY <1>1, <1>2, <1>3, <1>4, <1>5, <1>6, <1>7, <1>8, <1>9, <1>10 DEF Next

LEMMA InvHolds == Spec => []IInv
BY InvInit, InvStep, PTL DEF Spec

-----------------------------------------------------------------------------
(* The theorems.                                                           *)

\* The accepted datagram of one sender is the newest that arrived, in whatever
\* order the path delivers and however often the sequence wraps
\* (is_newer_sequence, accept_packet).
THEOREM NewestAccepted == Spec => []Inv
<1>1. IInv => Inv
  <2> SUFFICES ASSUME IInv PROVE TypeOK /\ NewestWins
    BY DEF Inv
  <2>1. TypeOK
    BY DEF IInv, BridgeInv, Sent, TypeOK
  <2>2. NewestWins
    BY DEF IInv, Near, NewestWins
  <2> QED
    BY <2>1, <2>2
<1> QED
  BY <1>1, InvHolds, PTL

\* A route command of one sender is forwarded once and in the order of the keys, on
\* every path (accept_packet before _dispatch_route_command).
THEOREM RoutesOnce == Spec => RouteInOrder
<1>1. IInv /\ [Next]_vars => [session = 1 /\ forwarded' # NoRoute => forwarded' > lastRoute]_vars
  <2> SUFFICES ASSUME IInv, Next, session = 1, forwarded' # NoRoute
               PROVE  forwarded' > lastRoute
    OBVIOUS
  <2>1. BridgeInv
    BY DEF IInv
  <2>2. PICK p \in Deliverable : Deliver(p)
    <3>1. ~BridgeRests
      BY DEF BridgeRests
    <3>2. ~Time
      BY DEF Time, BridgeTick
    <3>3. ~Takeover /\ ~Timers
      BY <2>1, PublishFacts DEF Takeover, Timers
    <3> QED
      BY <3>1, <3>2, <3>3 DEF Next, KeyPress, KeyRelease, RequestAutonomy, QueueRoute, Escape,
                              SendLoop, SenderRestart
  <2>3. p \in net /\ Receive(p)
    BY <2>2 DEF Deliver, Deliverable
  <2>4. /\ p \in Datagrams /\ p.mode \in {{}, {"brake"}, {"suppress"}}
    BY <2>3 DEF IInv, Sent
  <2>5. Accepts(p) /\ forwarded' = p.route
    BY <2>1, <2>3, <2>4, ReceiveFacts
  <2>6. p.number > newest
    BY <2>2, <2>5, AcceptsNewer
  <2> QED
    BY <2>3, <2>5, <2>6 DEF IInv, RoutesOrdered
<1> QED
  BY <1>1, InvHolds, PTL DEF Spec, RouteInOrder

\* On every path one request arms the latch once and for one timeout: the datagrams
\* it leaves behind neither make the latch younger nor arm it again, unless the one
\* that arms it or one without a request that came since has been overtaken
\* (_rearm_ready, armed_at).
THEOREM RequestArmsOnce == Spec => OneArmPerPress
<1>1. IInv /\ [Next]_vars =>
        [latch'.armed =>
           IF latch.armed THEN latch'.age >= latch.age
                          ELSE armedBy' > armedBy \/ overtaken'.request \/ overtaken.release]_vars
  <2> DEFINE once == armedBy' > armedBy \/ overtaken'.request \/ overtaken.release
  <2> SUFFICES ASSUME IInv, Next, latch'.armed
               PROVE  IF latch.armed THEN latch'.age >= latch.age ELSE once
    OBVIOUS
  <2>1. BridgeInv /\ latch \in Latches /\ latch.age \in Nat /\ armedBy \in Nat
    BY BridgeTypeMeans, BridgeFacts DEF IInv, BridgeInv, Latches, Counts
  <2>2. CASE latch' = latch
    BY <2>1, <2>2
  <2>3. CASE Time
    <3>1. latch'.armed = latch.armed /\ latch'.age >= latch.age
      BY <2>1, <2>3, BridgeTickFacts DEF Time
    <3> QED
      BY <3>1
  <2>4. CASE Takeover \/ Timers
    <3>1. latch' = latch
      BY <2>1, <2>4, PublishFacts DEF Takeover, Timers
    <3> QED
      BY <2>1, <3>1
  <2>5. ASSUME NEW p \in Deliverable, Deliver(p)
        PROVE  IF latch.armed THEN latch'.age >= latch.age ELSE once
    <3>1. /\ p \in net /\ Receive(p)
          /\ armedBy' = IF latch'.armed /\ ~latch.armed THEN p.press ELSE armedBy
          /\ latch'.armed /\ ~latch.armed => overtaken' = [request |-> Behind(p), release |-> FALSE]
      BY <2>5 DEF Deliver, Deliverable
    <3>2. p \in Datagrams /\ p.mode \in {{}, {"brake"}, {"suppress"}}
      BY <3>1 DEF IInv, Sent
    <3>3. \/ latch'.armed = latch.armed /\ latch'.age = latch.age
          \/ Suppresses(p.mode) /\ ~latch.armed /\ latch.rearmReady
      BY <2>1, <3>1, <3>2, ReceiveFacts
    <3>4. CASE latch'.armed = latch.armed /\ latch'.age = latch.age
      BY <2>1, <3>4
    <3>5. CASE Suppresses(p.mode) /\ ~latch.armed /\ latch.rearmReady
      <4>1. overtaken'.request \/ overtaken.release \/ armedBy < p.press
        BY <3>1, <3>5 DEF IInv, PressesOrdered
      <4>2. p.press \in Nat
        BY <3>2 DEF Datagrams
      <4> QED
        BY <2>1, <3>1, <3>5, <4>1, <4>2
    <3> QED
      BY <3>3, <3>4, <3>5
  <2> QED
    BY <2>2, <2>3, <2>4, <2>5 DEF Next, KeyPress, KeyRelease, RequestAutonomy, QueueRoute,
                                 Escape, SendLoop, SenderRestart, BridgeRests
<1> QED
  BY <1>1, InvHolds, PTL DEF Spec, OneArmPerPress

\* Once a flag sent after Escape has arrived no earlier request holds the latch, as
\* long as none has been made since, unless the datagram that armed it was overtaken
\* (clear, process_mode).
THEOREM EscapeEnds == Spec => []EscapeHolds
<1>1. IInv => EscapeHolds
  BY DEF IInv, EscapeOrdered
<1> QED
  BY <1>1, InvHolds, PTL

-----------------------------------------------------------------------------
(* The costmap requests of the same bridge.                                *)

\* The record of CostmapTypeOK, with what fits together.
Bridges ==
    [ action : {"none", "refresh"} \union Actions,
      phase : {"none", "waiting", "waiting_set"} \union Calls,
      future : {"none", "asked"} \union Answers, left : 0..ServiceTimeout,
      requested : BOOLEAN, pending : {"none"} \union Actions,
      state : {"unknown", "on", "off"}, refresh : Nat ]

Fits(s) ==
    /\ (s.action = "none") = (s.phase = "none")
    /\ (s.future = "none") = (s.phase \notin Calls)
    /\ s.action = "none" => s.pending = "none"

\* The inductive invariant: an answer belongs to its call, and says what the layer
\* has been in V.
AnswerFits(s, V) ==
    /\ s.phase = "get" => s.future \in {"asked", "error", "on", "off"}
    /\ s.phase = "get" /\ s.future = "on" => TRUE \in V
    /\ s.phase = "get" /\ s.future = "off" => FALSE \in V
    /\ s.phase = "set" /\ s.future \notin {"asked", "error"} => s.requested \in V
    /\ s.phase = "waiting_set" => (~s.requested) \in V

\* What the action has seen includes what the layer is.
LayerIsSeen == layer \in seen

\* A set call that may time out has cost an outage or a fault.
AtRisk == c.phase = "set" /\ c.future = "asked" /\ (~up \/ c.left = 0)

\* So has every call that did.
LateOn  == late[TRUE]
LateOff == late[FALSE]

LateIsPaid ==
    /\ LateOn + LateOff <= faults + others
    /\ AtRisk => LateOn + LateOff < faults + others

CostmapInv == CostmapTypeOK /\ AnswerFits(c, seen) /\ LayerIsSeen /\ LateIsPaid


LEMMA BridgeFields ==
    ASSUME NEW s \in Bridges
    PROVE  /\ s = [ action |-> s.action, phase |-> s.phase, future |-> s.future,
                    left |-> s.left, requested |-> s.requested, pending |-> s.pending,
                    state |-> s.state, refresh |-> s.refresh ]
           /\ s.action \in {"none", "refresh"} \union Actions
           /\ s.phase \in {"none", "waiting", "waiting_set"} \union Calls
           /\ s.future \in {"none", "asked"} \union Answers
           /\ s.left \in 0..ServiceTimeout /\ s.requested \in BOOLEAN
           /\ s.pending \in {"none"} \union Actions
           /\ s.state \in {"unknown", "on", "off"} /\ s.refresh \in Nat
BY DEF Bridges

\* An ended action leaves the bridge idle or with the command that waited.
LEMMA FinishFits ==
    ASSUME NEW s \in Bridges, NEW success \in BOOLEAN
    PROVE  LET f == Finish(s, success) IN
           /\ f \in Bridges /\ Fits(f)
           /\ f.phase \in {"none", "waiting"} /\ f.future = "none"
           /\ f.state = s.state
           /\ s.pending # "none" => f.pending = "none"
<1> DEFINE refresh == NextRefresh(s, success)
           idle == [s EXCEPT !.action = "none", !.phase = "none", !.future = "none",
                             !.left = 0, !.refresh = refresh]
<1>1. refresh \in Nat
  BY CostmapAssumption DEF NextRefresh
<1> HIDE DEF refresh
<1>2. /\ idle \in Bridges /\ idle.phase = "none" /\ idle.future = "none"
      /\ idle.action = "none" /\ idle.state = s.state /\ idle.pending = s.pending
  <2>1. idle = [ action |-> "none", phase |-> "none", future |-> "none", left |-> 0,
                 requested |-> s.requested, pending |-> s.pending,
                 state |-> s.state, refresh |-> refresh ]
    <3>1. DOMAIN s = {"action", "phase", "future", "left", "requested", "pending", "state",
                      "refresh"}
      BY DEF Bridges
    <3>2. /\ idle.action = "none" /\ idle.phase = "none" /\ idle.future = "none"
          /\ idle.left = 0 /\ idle.requested = s.requested /\ idle.pending = s.pending
          /\ idle.state = s.state /\ idle.refresh = refresh /\ DOMAIN idle = DOMAIN s
      BY <3>1
    <3>3. idle = [field \in DOMAIN idle |-> idle[field]]
      OBVIOUS
    <3> HIDE DEF idle
    <3> QED
      BY <3>1, <3>2, <3>3
  <2>2. 0 \in 0..ServiceTimeout
    BY CostmapAssumption
  <2> QED
    BY <1>1, <2>1, <2>2, BridgeFields DEF Bridges
<1>3. Finish(s, success) = IF s.pending = "none" THEN idle
                           ELSE Begin([idle EXCEPT !.pending = "none"], s.pending)
  BY DEF Finish, refresh
<1> HIDE DEF idle
<1>4. CASE s.pending = "none"
  BY <1>2, <1>3, <1>4 DEF Fits, Calls
<1>5. CASE s.pending # "none"
  <2> DEFINE b == Begin([idle EXCEPT !.pending = "none"], s.pending)
  <2>1. s.pending \in Actions
    BY <1>5 DEF Bridges
  <2>2. [idle EXCEPT !.pending = "none"] \in Bridges
    BY <1>2 DEF Bridges
  <2>3. /\ b \in Bridges /\ b.phase = "waiting" /\ b.future = "none"
        /\ b.action = s.pending /\ b.pending = "none" /\ b.state = s.state
    <3>1. b = [ action |-> s.pending, phase |-> "waiting", future |-> "none",
                left |-> ServiceTimeout, requested |-> idle.requested,
                pending |-> "none", state |-> s.state, refresh |-> idle.refresh ]
      <4>1. DOMAIN idle = {"action", "phase", "future", "left", "requested", "pending",
                           "state", "refresh"}
        BY <1>2 DEF Bridges
      <4>2. /\ b.action = s.pending /\ b.phase = "waiting" /\ b.future = "none"
            /\ b.left = ServiceTimeout /\ b.requested = idle.requested
            /\ b.pending = "none" /\ b.state = s.state /\ b.refresh = idle.refresh
            /\ DOMAIN b = DOMAIN idle
        BY <1>2, <4>1 DEF Begin
      <4>3. b = [field \in DOMAIN b |-> b[field]]
        BY DEF Begin
      <4> HIDE DEF b
      <4> QED
        BY <4>1, <4>2, <4>3
    <3>2. ServiceTimeout \in 0..ServiceTimeout
      BY CostmapAssumption
    <3> QED
      BY <1>2, <2>1, <3>1, <3>2, BridgeFields DEF Bridges
  <2>4. Finish(s, success) = b
    BY <1>3, <1>5
  <2> HIDE DEF b
  <2> QED
    BY <2>1, <2>3, <2>4 DEF Fits, Calls, Actions
<1> QED
  BY <1>4, <1>5

\* The step ends the action, with a state it has seen the layer in.
Ended(s, a, V) ==
    /\ a \in Bridges /\ Fits(a)
    /\ a.phase \in {"none", "waiting"} /\ a.future = "none"
    /\ a.state = s.state \/ \E value \in V : a.state = Shown(value)
    /\ s.pending # "none" => a.pending = "none"

LEMMA FinishEnds ==
    ASSUME NEW s, NEW t \in Bridges, NEW success \in BOOLEAN, NEW V, t.pending = s.pending,
           t.state = s.state \/ \E value \in V : t.state = Shown(value)
    PROVE  Ended(s, Finish(t, success), V)
<1> DEFINE f == Finish(t, success)
<1>1. /\ f \in Bridges /\ Fits(f)
      /\ f.phase \in {"none", "waiting"} /\ f.future = "none"
      /\ f.state = t.state
      /\ t.pending # "none" => f.pending = "none"
  BY FinishFits
<1> HIDE DEF f
<1> QED
  BY <1>1 DEF Ended, f

\* It makes the call it waited to make.
Called(s, a, o) ==
    /\ s.left # 0 /\ o = "ready" /\ s.phase \in {"waiting", "waiting_set"}
    /\ \E call \in Calls :
          /\ (call = "set") = (s.phase = "waiting_set")
          /\ a = [s EXCEPT !.phase = call, !.future = "asked"]

\* It has read the layer and asks for the inverse.
ReadLayer(s, a) ==
    /\ s.phase = "get" /\ s.future \in {"on", "off"}
    /\ a = [s EXCEPT !.state = s.future, !.requested = (s.future = "off"),
                     !.phase = "waiting_set", !.future = "none"]

LEMMA CallStep ==
    ASSUME NEW s \in Bridges, NEW call \in Calls, NEW o \in {"ready", "unready", "raises"},
           NEW V, s.left # 0, s.phase \in {"waiting", "waiting_set"},
           (call = "set") = (s.phase = "waiting_set")
    PROVE  LET a == Call(s, call, o) IN
           Ended(s, a, V) \/ a = s \/ Called(s, a, o)
<1>1. CASE o = "ready"
  BY <1>1 DEF Call, Called
<1>2. CASE o = "unready"
  BY <1>2 DEF Call
<1>3. CASE o = "raises"
  <2>1. Call(s, call, o) = Finish(s, FALSE)
    BY <1>3 DEF Call
  <2> QED
    BY <2>1, FinishEnds
<1> QED
  BY <1>1, <1>2, <1>3

LEMMA TakeStep ==
    ASSUME NEW s \in Bridges, NEW V, Fits(s), AnswerFits(s, V),
           s.phase \in Calls, s.future # "asked"
    PROVE  LET a == Take(s) IN Ended(s, a, V) \/ ReadLayer(s, a)
<1>1. CASE s.phase = "clear"
  <2>1. Take(s) = Finish(s, s.future # "error")
    BY <1>1 DEF Take
  <2>2. (s.future # "error") \in BOOLEAN
    OBVIOUS
  <2> QED
    BY <2>1, <2>2, FinishEnds
<1>2. CASE s.phase = "get"
  <2>1. CASE s.future = "error"
    <3>1. Take(s) = Finish(s, FALSE)
      BY <1>2, <2>1 DEF Take
    <3> QED
      BY <3>1, FinishEnds
  <2>2. CASE s.future # "error"
    <3>1. s.future \in {"on", "off"}
      BY <1>2, <2>2 DEF AnswerFits
    <3>2. \E value \in V : s.future = Shown(value)
      BY <1>2, <3>1 DEF AnswerFits, Shown
    <3>3. CASE s.action = "refresh"
      <4> DEFINE t == [s EXCEPT !.state = s.future]
      <4>1. Take(s) = Finish(t, TRUE)
        BY <1>2, <2>2, <3>3 DEF Take
      <4>2. t \in Bridges /\ t.state = s.future /\ t.pending = s.pending
        BY <3>1 DEF Bridges
      <4> HIDE DEF t
      <4> QED
        BY <3>2, <4>1, <4>2, FinishEnds
    <3>4. CASE s.action # "refresh"
      <4>1. Take(s) = [s EXCEPT !.state = s.future, !.requested = (s.future = "off"),
                                !.phase = "waiting_set", !.future = "none"]
        BY <1>2, <2>2, <3>4 DEF Take
      <4> QED
        BY <1>2, <3>1, <4>1 DEF ReadLayer
    <3> QED
      BY <3>3, <3>4
  <2> QED
    BY <2>1, <2>2
<1>3. CASE s.phase = "set"
  <2>1. CASE s.future = "error"
    <3>1. Take(s) = Finish(s, FALSE)
      BY <1>3, <2>1 DEF Take
    <3> QED
      BY <3>1, FinishEnds
  <2>2. CASE s.future # "error"
    <3> DEFINE t == [s EXCEPT !.state = Shown(s.requested)]
    <3>1. Take(s) = Finish(t, TRUE)
      BY <1>3, <2>2 DEF Take
    <3>2. t \in Bridges /\ t.state = Shown(s.requested) /\ t.pending = s.pending
      BY DEF Bridges, Shown
    <3>3. s.requested \in V
      BY <1>3, <2>2 DEF AnswerFits
    <3> HIDE DEF t
    <3> QED
      BY <3>1, <3>2, <3>3, FinishEnds
  <2> QED
    BY <2>1, <2>2
<1> QED
  BY <1>1, <1>2, <1>3 DEF Calls

\* One call of the timer on a running action.
LEMMA AdvanceStep ==
    ASSUME NEW s \in Bridges, NEW V, Fits(s), AnswerFits(s, V), s.action # "none",
           NEW o \in {"ready", "unready", "raises"}
    PROVE  LET a == Advance(s, o) IN
           \/ Ended(s, a, V)
           \/ s.left # 0 /\ (a = s \/ Called(s, a, o) \/ ReadLayer(s, a))
<1>1. CASE s.left = 0
  <2>1. Advance(s, o) = Finish(s, FALSE)
    BY <1>1 DEF Advance
  <2> QED
    BY <2>1, FinishEnds
<1>2. CASE s.left # 0
  <2>1. CASE s.phase = "waiting"
    <3> DEFINE call == IF s.action = "clear" THEN "clear" ELSE "get"
    <3>1. call \in Calls /\ call # "set"
      BY DEF Calls
    <3>2. Advance(s, o) = Call(s, call, o)
      BY <1>2, <2>1 DEF Advance, Calls
    <3> HIDE DEF call
    <3> QED
      BY <1>2, <2>1, <3>1, <3>2, CallStep
  <2>2. CASE s.phase = "waiting_set"
    <3>1. Advance(s, o) = Call(s, "set", o) /\ "set" \in Calls
      BY <1>2, <2>2 DEF Advance, Calls
    <3> QED
      BY <1>2, <2>2, <3>1, CallStep
  <2>3. CASE s.phase \in Calls
    <3>1. Advance(s, o) = IF s.future = "asked" THEN s ELSE Take(s)
      BY <1>2, <2>3 DEF Advance, Calls
    <3> QED
      BY <1>2, <2>3, <3>1, TakeStep
  <2>4. s.phase \in {"waiting", "waiting_set"} \union Calls
    BY DEF Bridges, Fits
  <2> QED
    BY <2>1, <2>2, <2>3, <2>4
<1> QED
  BY <1>1, <1>2

-----------------------------------------------------------------------------
(* The steps. *)

\* CostmapTypeOK in parts.
OthersTyped ==
    /\ layer \in BOOLEAN /\ up \in BOOLEAN /\ seen \subseteq BOOLEAN
    /\ late \in [BOOLEAN -> 0..(MaxFaults + MaxOthers)]
    /\ commands \in 0..MaxCommands /\ faults \in 0..MaxFaults /\ others \in 0..MaxOthers

LEMMA TypeParts == CostmapTypeOK <=> c \in Bridges /\ Fits(c) /\ OthersTyped
BY DEF CostmapTypeOK, Bridges, Fits, OthersTyped

\* Before a call is made nothing has been answered.
LEMMA NothingAnswered ==
    ASSUME NEW s, s.phase \in {"none", "waiting"}, NEW V
    PROVE  AnswerFits(s, V)
BY DEF AnswerFits

\* The record of a step that begins an action.
LEMMA BeginFits ==
    ASSUME NEW s \in Bridges, NEW action \in {"refresh"} \union Actions, s.action = "none",
           Fits(s)
    PROVE  LET b == Begin(s, action) IN
           /\ b \in Bridges /\ Fits(b)
           /\ b.action = action /\ b.phase = "waiting" /\ b.future = "none"
           /\ b.state = s.state /\ b.pending = s.pending /\ b.requested = s.requested
           /\ b.left # 0
<1> DEFINE b == Begin(s, action)
<1>1. DOMAIN s = {"action", "phase", "future", "left", "requested", "pending", "state",
                  "refresh"}
  BY DEF Bridges
<1>2. /\ b.action = action /\ b.phase = "waiting" /\ b.future = "none"
      /\ b.left = ServiceTimeout /\ b.requested = s.requested /\ b.pending = s.pending
      /\ b.state = s.state /\ b.refresh = s.refresh /\ DOMAIN b = DOMAIN s
  BY <1>1 DEF Begin
<1>3. b = [field \in DOMAIN b |-> b[field]]
  BY DEF Begin
<1> HIDE DEF b
<1>4. b = [ action |-> action, phase |-> "waiting", future |-> "none",
            left |-> ServiceTimeout, requested |-> s.requested, pending |-> s.pending,
            state |-> s.state, refresh |-> s.refresh ]
  BY <1>1, <1>2, <1>3
<1>5. ServiceTimeout \in 0..ServiceTimeout /\ ServiceTimeout # 0
  BY CostmapAssumption
<1>6. b \in Bridges
  BY <1>4, <1>5, BridgeFields DEF Bridges
<1>7. Fits(b)
  BY <1>2 DEF Fits, Actions, Calls
<1> QED
  BY <1>2, <1>5, <1>6, <1>7 DEF b

LEMMA Counters ==
    ASSUME OthersTyped
    PROVE  /\ LateOn \in Nat /\ LateOff \in Nat /\ late \in [BOOLEAN -> Nat]
           /\ faults \in Nat /\ others \in Nat /\ faults <= MaxFaults /\ others <= MaxOthers
           /\ MaxFaults \in Nat /\ MaxOthers \in Nat
<1>1. /\ faults \in Nat /\ others \in Nat /\ faults <= MaxFaults /\ others <= MaxOthers
      /\ MaxFaults \in Nat /\ MaxOthers \in Nat
  BY CostmapAssumption DEF OthersTyped
<1>2. 0..(MaxFaults + MaxOthers) \subseteq Nat
  BY <1>1
<1>3. late \in [BOOLEAN -> Nat]
  <2>1. late \in [BOOLEAN -> 0..(MaxFaults + MaxOthers)]
    BY DEF OthersTyped
  <2> QED
    BY Zenon, <1>2, <2>1
<1>4. LateOn \in Nat /\ LateOff \in Nat
  BY Zenon, <1>3 DEF LateOn, LateOff
<1> QED
  BY <1>1, <1>3, <1>4

\* What is paid stays paid while no call is forgotten and the risk does not grow.
LEMMA RiskFalls ==
    ASSUME OthersTyped, LateIsPaid, late' = late, AtRisk' => AtRisk,
           faults' \in Nat, others' \in Nat, faults' >= faults, others' >= others
    PROVE  LateIsPaid'
<1>1. LateOn' = LateOn /\ LateOff' = LateOff
  BY Zenon DEF LateOn, LateOff
<1> QED
  BY <1>1, Counters DEF LateIsPaid

\* Whatever puts a call at risk pays for it.
LEMMA RiskIsPaid ==
    ASSUME OthersTyped, LateIsPaid, late' = late, faults' + others' = faults + others + 1
    PROVE  LateIsPaid'
<1>1. LateOn' = LateOn /\ LateOff' = LateOff
  BY Zenon DEF LateOn, LateOff
<1> QED
  BY <1>1, Counters DEF LateIsPaid

\* A forgotten call was at risk.
LEMMA RiskIsTaken ==
    ASSUME OthersTyped, LateIsPaid, AtRisk, ~AtRisk', NEW value \in BOOLEAN,
           late' = [late EXCEPT ![value] = @ + 1],
           faults' \in Nat, others' \in Nat, faults' >= faults, others' >= others
    PROVE  LateIsPaid' /\ late' \in [BOOLEAN -> Nat]
<1>1. late \in [BOOLEAN -> Nat]
  BY Counters
<1>2. late' \in [BOOLEAN -> Nat]
  BY <1>1
<1>3. \/ LateOn' = LateOn + 1 /\ LateOff' = LateOff
      \/ LateOn' = LateOn /\ LateOff' = LateOff + 1
  <2>1. CASE value = TRUE
    BY <1>1, <2>1 DEF LateOn, LateOff
  <2>2. CASE value = FALSE
    BY <1>1, <2>2 DEF LateOn, LateOff
  <2> QED
    BY <2>1, <2>2
<1>4. LateIsPaid'
  BY <1>3, Counters DEF LateIsPaid
<1> QED
  BY <1>2, <1>4

LEMMA SumBound ==
    ASSUME NEW x \in Nat, NEW y \in Nat,
           NEW f \in 0..MaxFaults, NEW n \in 0..MaxOthers, x + y <= f + n
    PROVE  x \in 0..(MaxFaults + MaxOthers) /\ y \in 0..(MaxFaults + MaxOthers)
BY CostmapAssumption

\* What is paid bounds the late calls.
LEMMA LateRange ==
    ASSUME OthersTyped, LateIsPaid', late' \in [BOOLEAN -> Nat],
           faults' \in 0..MaxFaults, others' \in 0..MaxOthers
    PROVE  late' \in [BOOLEAN -> 0..(MaxFaults + MaxOthers)]
<1>1. LateOn' \in Nat /\ LateOff' \in Nat
  BY Zenon DEF LateOn, LateOff
<1>2. /\ LateOn' \in 0..(MaxFaults + MaxOthers)
      /\ LateOff' \in 0..(MaxFaults + MaxOthers)
  <2>1. LateOn' + LateOff' <= faults' + others'
    BY DEF LateIsPaid
  <2> QED
    BY <1>1, <2>1, SumBound
<1>3. \A value \in BOOLEAN : late'[value] \in 0..(MaxFaults + MaxOthers)
  <2>1. late'[TRUE] = LateOn' /\ late'[FALSE] = LateOff'
    BY Zenon DEF LateOn, LateOff
  <2> TAKE value \in BOOLEAN
  <2>2. CASE value = TRUE
    BY <1>2, <2>1, <2>2
  <2>3. CASE value = FALSE
    BY <1>2, <2>1, <2>3
  <2> QED
    BY <2>2, <2>3
<1> QED
  BY <1>3

LEMMA InvOperator ==
    ASSUME CostmapInv, NEW action \in Actions, Operator(action)
    PROVE  CostmapInv'
<1>1. c \in Bridges /\ Fits(c) /\ OthersTyped /\ AnswerFits(c, seen)
  BY TypeParts DEF CostmapInv
<1>2. /\ c' = RequestAction(c, action)
      /\ seen' = (IF Begins THEN {layer} ELSE seen)
      /\ commands' \in 0..MaxCommands
      /\ UNCHANGED <<layer, up, late, faults, others>>
  BY <1>1, CostmapAssumption DEF Operator, OthersTyped
<1>3. /\ c' \in Bridges /\ Fits(c')
      /\ c'.phase = c.phase \/ c'.phase = "waiting"
      /\ AnswerFits(c', seen')
      /\ c'.phase = "set" => c'.future = c.future /\ c'.left = c.left
  <2>1. CASE c.action = "none"
    <3>1. c' = Begin(c, action)
      BY <1>2, <2>1 DEF RequestAction
    <3>2. c' \in Bridges /\ Fits(c') /\ c'.phase = "waiting"
      BY <1>1, <2>1, <3>1, BeginFits
    <3> QED
      BY <3>2, NothingAnswered
  <2>2. CASE c.action # "none" /\ c.pending = "none"
    <3>1. c' = [c EXCEPT !.pending = action]
      BY <1>2, <2>2 DEF RequestAction
    <3>2. c' \in Bridges
      BY <1>1, <3>1 DEF Bridges
    <3>3. /\ c'.action = c.action /\ c'.phase = c.phase /\ c'.future = c.future
          /\ c'.left = c.left /\ c'.requested = c.requested
      BY <1>1, <3>1 DEF Bridges
    <3>4. Fits(c')
      BY <1>1, <2>2, <3>3 DEF Fits
    <3>5. seen' = seen
      BY <1>2, <2>2, <3>3 DEF Begins
    <3> QED
      BY <1>1, <3>2, <3>3, <3>4, <3>5 DEF AnswerFits
  <2>3. CASE c.action # "none" /\ c.pending # "none"
    <3>1. c' = c
      BY <1>2, <2>3 DEF RequestAction
    <3>2. seen' = seen
      BY <1>2, <3>1 DEF Begins
    <3> QED
      BY <1>1, <3>1, <3>2
  <2> QED
    BY <2>1, <2>2, <2>3
<1>4. layer' \in seen' /\ seen' \subseteq BOOLEAN
  BY <1>1, <1>2 DEF CostmapInv, LayerIsSeen, OthersTyped
<1>5. AtRisk' => AtRisk
  BY <1>2, <1>3 DEF AtRisk
<1>6. LateIsPaid'
  BY <1>1, <1>2, <1>5, Counters, RiskFalls DEF CostmapInv
<1>7. CostmapTypeOK'
  <2>1. OthersTyped'
    BY <1>1, <1>2, <1>4 DEF OthersTyped
  <2> QED
    BY <1>3, <2>1 DEF CostmapTypeOK, Bridges, Fits, OthersTyped
<1> QED
  BY <1>3, <1>4, <1>6, <1>7 DEF CostmapInv, LayerIsSeen

\* What one call of the timer does, in the terms of the properties.
LEMMA PumpStep ==
    ASSUME CostmapInv, NEW o \in {"ready", "unready", "raises"}, Pump(o)
    PROVE  /\ c' \in Bridges /\ Fits(c')
           /\ AnswerFits(c', seen')
           /\ c'.state # c.state => \E value \in seen : c'.state = Shown(value)
           /\ c'.phase = "set" /\ c.phase # "set" =>
                \E value \in seen : c'.requested = ~value
           /\ c'.phase = "set" /\ c'.future = "asked" =>
                /\ c'.left # 0 /\ ~Forgets
                /\ (c.phase = "set" /\ c.future = "asked") \/ o = "ready"
<1>1. c \in Bridges /\ Fits(c) /\ AnswerFits(c, seen) /\ seen \subseteq BOOLEAN
  BY TypeParts DEF CostmapInv, OthersTyped
<1>2. /\ c' = PumpCostmapControls(c, o)
      /\ seen' = (IF Begins THEN {layer} ELSE seen)
  BY DEF Pump
<1>3. CASE c.action = "none" /\ c.refresh > 0
  <2>1. c' = c
    BY <1>2, <1>3 DEF PumpCostmapControls
  <2>2. seen' = seen /\ c.phase = "none"
    BY <1>1, <1>2, <1>3, <2>1 DEF Begins, Fits
  <2> QED
    BY <1>1, <2>1, <2>2
<1>4. CASE c.action = "none" /\ ~(c.refresh > 0)
  <2> DEFINE b == Begin(c, "refresh")
  <2>1. /\ b \in Bridges /\ Fits(b)
        /\ b.action = "refresh" /\ b.phase = "waiting" /\ b.future = "none"
        /\ b.state = c.state /\ b.left # 0
    BY <1>1, <1>4, BeginFits
  <2>2. c' = Advance(b, o)
    BY <1>2, <1>4 DEF PumpCostmapControls
  <2>3. c.phase = "none"
    BY <1>1, <1>4 DEF Fits
  <2> HIDE DEF b
  <2>4. AnswerFits(b, seen)
    BY <2>1, NothingAnswered
  <2>5. \/ Ended(b, c', seen)
        \/ c' = b \/ Called(b, c', o) \/ ReadLayer(b, c')
    BY <2>1, <2>2, <2>4, AdvanceStep
  <2>6. ~ReadLayer(b, c')
    BY <2>1 DEF ReadLayer
  <2>7. CASE Ended(b, c', seen)
    BY <2>1, <2>3, <2>7, NothingAnswered DEF Ended
  <2>8. CASE c' = b
    BY <2>1, <2>3, <2>8, NothingAnswered
  <2>9. CASE Called(b, c', o)
    <3>1. PICK call \in Calls : /\ call # "set"
                                /\ c' = [b EXCEPT !.phase = call, !.future = "asked"]
      BY <2>1, <2>9 DEF Called
    <3>2. c' \in Bridges
      BY <2>1, <3>1 DEF Bridges
    <3>3. /\ c'.phase = call /\ c'.future = "asked" /\ c'.state = c.state
          /\ c'.action = "refresh"
      BY <2>1, <3>1 DEF Bridges
    <3>4. Fits(c')
      BY <3>1, <3>3 DEF Fits, Calls
    <3>5. AnswerFits(c', seen')
      BY <3>1, <3>3 DEF AnswerFits, Calls
    <3> QED
      BY <3>1, <3>2, <3>3, <3>4, <3>5
  <2> QED
    BY <2>5, <2>6, <2>7, <2>8, <2>9
<1>5. CASE c.action # "none"
  <2>1. c' = Advance(c, o)
    BY <1>2, <1>5 DEF PumpCostmapControls
  <2>2. \/ Ended(c, c', seen)
        \/ c.left # 0 /\ (c' = c \/ Called(c, c', o) \/ ReadLayer(c, c'))
    BY <1>1, <1>5, <2>1, AdvanceStep
  <2>3. CASE Ended(c, c', seen)
    BY <2>3, NothingAnswered DEF Ended
  <2>4. CASE c.left # 0 /\ c' = c
    <3>1. seen' = seen
      BY <1>2, <2>4 DEF Begins
    <3> QED
      BY <1>1, <2>4, <3>1 DEF Forgets
  <2>5. CASE c.left # 0 /\ Called(c, c', o)
    <3>1. PICK call \in Calls : /\ (call = "set") = (c.phase = "waiting_set")
                                /\ c' = [c EXCEPT !.phase = call, !.future = "asked"]
      BY <2>5 DEF Called
    <3>2. c' \in Bridges
      BY <1>1, <3>1 DEF Bridges
    <3>3. /\ c'.phase = call /\ c'.future = "asked" /\ c'.state = c.state
          /\ c'.action = c.action /\ c'.pending = c.pending /\ c'.left = c.left
          /\ c'.requested = c.requested
      BY <1>1, <3>1 DEF Bridges
    <3>4. Fits(c')
      BY <1>1, <1>5, <3>1, <3>3 DEF Fits, Calls
    <3>5. AnswerFits(c', seen')
      BY <3>1, <3>3 DEF AnswerFits, Calls
    <3>6. call = "set" => \E value \in seen : c'.requested = ~value
      <4>1. call = "set" => (~c.requested) \in seen
        BY <1>1, <3>1 DEF AnswerFits
      <4>2. c.requested = ~(~c.requested)
        BY <1>1 DEF Bridges
      <4> QED
        BY <3>3, <4>1, <4>2
    <3> QED
      BY <2>5, <3>2, <3>3, <3>4, <3>5, <3>6 DEF Called, Forgets
  <2>6. CASE c.left # 0 /\ ReadLayer(c, c')
    <3>1. /\ c.phase = "get" /\ c.future \in {"on", "off"}
          /\ c' = [c EXCEPT !.state = c.future, !.requested = (c.future = "off"),
                            !.phase = "waiting_set", !.future = "none"]
      BY <2>6 DEF ReadLayer
    <3>2. /\ c'.phase = "waiting_set" /\ c'.future = "none" /\ c'.state = c.future
          /\ c'.action = c.action /\ c'.pending = c.pending /\ c'.left = c.left
          /\ c'.requested = (c.future = "off") /\ c'.refresh = c.refresh
          /\ DOMAIN c' = DOMAIN c
      BY <1>1, <3>1 DEF Bridges
    <3>3. c' \in Bridges
      <4>1. DOMAIN c = {"action", "phase", "future", "left", "requested", "pending", "state",
                        "refresh"}
        BY <1>1 DEF Bridges
      <4>2. c' = [field \in DOMAIN c' |-> c'[field]]
        BY <3>1
      <4>3. c' = [ action |-> c.action, phase |-> "waiting_set", future |-> "none",
                   left |-> c.left, requested |-> (c.future = "off"),
                   pending |-> c.pending, state |-> c.future, refresh |-> c.refresh ]
        BY <3>2, <4>1, <4>2
      <4>4. (c.future = "off") \in BOOLEAN /\ c.future \in {"unknown", "on", "off"}
        BY <3>1
      <4> QED
        BY <1>1, <4>3, <4>4, BridgeFields DEF Bridges
    <3>4. Fits(c')
      BY <1>1, <1>5, <3>2 DEF Fits, Calls
    <3>5. seen' = seen
      BY <1>2, <3>2 DEF Begins
    <3>6. /\ c.future = "on" => TRUE \in seen
          /\ c.future = "off" => FALSE \in seen
      BY <1>1, <3>1 DEF AnswerFits
    <3>7. AnswerFits(c', seen')
      BY <3>1, <3>2, <3>5, <3>6 DEF AnswerFits
    <3>8. \E value \in seen : c'.state = Shown(value)
      BY <3>1, <3>2, <3>6 DEF Shown
    <3> QED
      BY <3>2, <3>3, <3>4, <3>7, <3>8
  <2> QED
    BY <2>2, <2>3, <2>4, <2>5, <2>6
<1> QED
  BY <1>3, <1>4, <1>5

LEMMA InvPump ==
    ASSUME CostmapInv, NEW o \in {"ready", "unready", "raises"}, Pump(o)
    PROVE  CostmapInv'
<1>1. /\ c' \in Bridges /\ Fits(c')
      /\ AnswerFits(c', seen')
      /\ c'.phase = "set" /\ c'.future = "asked" =>
           /\ c'.left # 0 /\ ~Forgets
           /\ (c.phase = "set" /\ c.future = "asked") \/ o = "ready"
  BY PumpStep
<1>2. c \in Bridges /\ Fits(c) /\ OthersTyped /\ layer \in seen /\ LateIsPaid
  BY TypeParts DEF CostmapInv, LayerIsSeen
<1>3. /\ (o = "unready") = ~up
      /\ faults' = (IF o = "raises" THEN faults + 1 ELSE faults)
      /\ late' = (IF Forgets THEN [late EXCEPT ![c.requested] = @ + 1] ELSE late)
      /\ seen' = (IF Begins THEN {layer} ELSE seen)
      /\ UNCHANGED <<layer, up, commands, others>>
      /\ o = "raises" => faults < MaxFaults
  BY DEF Pump
<1>4. faults \in Nat /\ others \in Nat /\ faults <= MaxFaults /\ others <= MaxOthers
  BY <1>2, CostmapAssumption DEF OthersTyped
<1>5. faults' \in 0..MaxFaults /\ faults' >= faults
  BY <1>3, <1>4, CostmapAssumption
<1>6. layer' \in seen' /\ seen' \subseteq BOOLEAN
  BY <1>2, <1>3 DEF OthersTyped
<1>7. late' \in [BOOLEAN -> Nat] /\ LateIsPaid'
  <2>1. CASE Forgets
    <3>1. AtRisk /\ c.requested \in BOOLEAN
      BY <1>2, <2>1 DEF Forgets, AtRisk, Bridges
    <3>2. ~AtRisk'
      BY <1>1, <2>1 DEF AtRisk
    <3>3. late' = [late EXCEPT ![c.requested] = @ + 1]
      BY <1>3, <2>1
    <3> QED
      <4>1. faults' \in Nat /\ others' \in Nat /\ faults' >= faults /\ others' >= others
        BY <1>3, <1>4, <1>5, CostmapAssumption
      <4> QED
        BY <1>2, <3>1, <3>2, <3>3, <4>1, RiskIsTaken
  <2>2. CASE ~Forgets
    <3>1. late' = late /\ late \in [BOOLEAN -> Nat]
      BY <1>2, <1>3, <2>2, Counters
    <3>2. AtRisk' => AtRisk
      BY <1>1, <1>3 DEF AtRisk
    <3>3. faults' \in Nat /\ others' \in Nat /\ faults' >= faults /\ others' >= others
      BY <1>3, <1>4, <1>5, CostmapAssumption
    <3> QED
      BY <1>2, <3>1, <3>2, <3>3, RiskFalls
  <2> QED
    BY <2>1, <2>2
<1>8. OthersTyped'
  <2>1. late' \in [BOOLEAN -> 0..(MaxFaults + MaxOthers)]
    <3>1. others' \in 0..MaxOthers
      BY <1>2, <1>3 DEF OthersTyped
    <3> QED
      BY <1>2, <1>5, <1>7, <3>1, LateRange
  <2> QED
    BY <1>2, <1>3, <1>5, <1>6, <2>1 DEF OthersTyped
<1> QED
  BY <1>1, <1>6, <1>7, <1>8 DEF CostmapInv, LayerIsSeen, CostmapTypeOK, Bridges, Fits, OthersTyped

LEMMA InvTime ==
    ASSUME CostmapInv, CostmapTime
    PROVE  CostmapInv'
<1>1. c \in Bridges /\ Fits(c) /\ OthersTyped /\ LateIsPaid /\ AnswerFits(c, seen)
  BY TypeParts DEF CostmapInv
<1>2. /\ up /\ c.action # "none" => faults < MaxFaults
      /\ faults' = (IF up /\ c.action # "none" THEN faults + 1 ELSE faults)
      /\ c' = [c EXCEPT !.left    = IF @ > 0 THEN @ - 1 ELSE 0,
                        !.refresh = IF @ > 0 THEN @ - 1 ELSE 0]
      /\ UNCHANGED <<layer, up, late, seen, commands, others>>
  BY DEF CostmapTime
<1>3. /\ c' \in Bridges
      /\ c'.phase = c.phase /\ c'.future = c.future /\ c'.action = c.action
      /\ c'.pending = c.pending /\ c'.requested = c.requested
      /\ c.left = 0 => c'.left = 0
  <2> DEFINE left    == IF c.left > 0 THEN c.left - 1 ELSE 0
             refresh == IF c.refresh > 0 THEN c.refresh - 1 ELSE 0
  <2>1. /\ left \in 0..ServiceTimeout /\ refresh \in Nat
        /\ c.left = 0 => left = 0
    BY <1>1, BridgeFields, CostmapAssumption
  <2>2. c' = [c EXCEPT !.left = left, !.refresh = refresh]
    BY <1>2
  <2> HIDE DEF left, refresh
  <2>3. /\ c'.phase = c.phase /\ c'.future = c.future /\ c'.action = c.action
        /\ c'.pending = c.pending /\ c'.requested = c.requested /\ c'.left = left
    BY <1>1, <2>2 DEF Bridges
  <2>4. c' \in Bridges
    BY <1>1, <2>1, <2>2 DEF Bridges
  <2> QED
    BY <2>1, <2>3, <2>4
<1>4. Fits(c') /\ AnswerFits(c', seen')
  <2>1. Fits(c')
    BY <1>1, <1>3 DEF Fits
  <2>2. AnswerFits(c', seen)
    BY <1>1, <1>3 DEF AnswerFits
  <2> QED
    BY <1>2, <2>1, <2>2
<1>5. faults \in Nat /\ others \in Nat /\ faults <= MaxFaults /\ MaxFaults \in Nat
  BY <1>1, CostmapAssumption DEF OthersTyped
<1>6. faults' \in 0..MaxFaults
  BY <1>2, <1>5
<1>7. OthersTyped'
  BY <1>1, <1>2, <1>6 DEF OthersTyped
<1>8. LateIsPaid'
  <2>1. CASE up /\ c.action # "none"
    <3>1. faults' + others' = faults + others + 1
      BY <1>2, <1>5, <2>1
    <3> QED
      BY <1>1, <1>2, <3>1, RiskIsPaid
  <2>2. CASE ~up
    <3>1. AtRisk' => AtRisk
      BY <1>2, <1>3, <2>2 DEF AtRisk
    <3> QED
      BY <1>1, <1>2, <1>5, <2>2, <3>1, RiskFalls
  <2>3. CASE c.action = "none"
    <3>1. c.phase = "none"
      BY <1>1, <2>3 DEF Fits
    <3>2. AtRisk' => AtRisk
      BY <1>3, <3>1 DEF AtRisk
    <3> QED
      BY <1>1, <1>2, <1>5, <2>3, <3>2, RiskFalls
  <2> QED
    BY <2>1, <2>2, <2>3
<1> QED
  BY <1>1, <1>2, <1>3, <1>4, <1>7, <1>8
  DEF CostmapInv, LayerIsSeen, CostmapTypeOK, Bridges, Fits, OthersTyped

\* The server answers a call, or fails it: the answer says what the layer is.
LEMMA InvServer ==
    ASSUME CostmapInv, ServerAnswers \/ ServerFails
    PROVE  CostmapInv'
<1>1. /\ c \in Bridges /\ Fits(c) /\ OthersTyped /\ LateIsPaid /\ AnswerFits(c, seen)
      /\ layer \in seen
  BY TypeParts DEF CostmapInv, LayerIsSeen
<1>2. /\ c.future = "asked" /\ c.phase \in Calls
      /\ UNCHANGED <<up, late, commands, others>>
      /\ faults' \in 0..MaxFaults /\ faults' >= faults
  <2>1. c.future = "asked" /\ UNCHANGED <<up, late, commands, others>>
    BY DEF ServerAnswers, ServerFails
  <2>2. c.phase \in Calls
    BY <1>1, <2>1 DEF Fits
  <2>3. faults \in 0..MaxFaults
    BY <1>1 DEF OthersTyped
  <2>4. faults' = faults \/ (faults < MaxFaults /\ faults' = faults + 1)
    BY DEF ServerAnswers, ServerFails
  <2> QED
    BY <2>1, <2>2, <2>3, <2>4, CostmapAssumption
<1>3. PICK answer \in {"cleared", "on", "off", "set", "error"} :
        /\ c' = [c EXCEPT !.future = answer]
        /\ \/ layer' = layer /\ seen' = seen
           \/ layer' = c.requested /\ seen' = seen \union {c.requested} /\ c.phase = "set"
        /\ c.phase = "get" => /\ answer \in {"error", "on", "off"}
                              /\ answer = "on" => layer = TRUE
                              /\ answer = "off" => layer = FALSE
        /\ c.phase = "set" /\ answer # "error" => c.requested \in seen'
  <2>1. CASE ServerFails
    BY <2>1 DEF ServerFails, Layer
  <2>2. CASE ServerAnswers /\ c.phase = "clear"
    BY <2>2 DEF ServerAnswers
  <2>3. CASE ServerAnswers /\ c.phase = "get"
    <3>1. Shown(layer) \in {"on", "off"} /\ layer \in BOOLEAN
      BY <1>1 DEF Shown, OthersTyped
    <3> QED
      BY <2>3, <3>1 DEF ServerAnswers, Shown
  <2>4. CASE ServerAnswers /\ c.phase = "set"
    BY <2>4 DEF ServerAnswers, Layer
  <2> QED
    BY <1>2, <2>1, <2>2, <2>3, <2>4 DEF Calls
<1>4. /\ c' \in Bridges
      /\ c'.phase = c.phase /\ c'.future = answer /\ c'.action = c.action
      /\ c'.pending = c.pending /\ c'.requested = c.requested
  BY <1>1, <1>3 DEF Bridges, Answers
<1>5. Fits(c')
  BY <1>1, <1>2, <1>4 DEF Fits
<1>6. AnswerFits(c', seen')
  <2>1. seen \subseteq seen' /\ layer \in seen
    BY <1>1, <1>3
  <2> QED
    BY <1>2, <1>3, <1>4, <2>1 DEF AnswerFits, Calls
<1>7. layer' \in seen' /\ layer' \in BOOLEAN /\ seen' \subseteq BOOLEAN
  <2>1. c.requested \in BOOLEAN
    BY <1>1 DEF Bridges
  <2> QED
    BY <1>1, <1>3, <2>1 DEF OthersTyped
<1>8. OthersTyped'
  BY <1>1, <1>2, <1>7 DEF OthersTyped
<1>9. LateIsPaid'
  <2>1. ~AtRisk'
    BY <1>3, <1>4 DEF AtRisk
  <2>2. faults' \in Nat /\ others' \in Nat /\ others' >= others /\ late' = late
    BY <1>1, <1>2, CostmapAssumption DEF OthersTyped
  <2> QED
    BY <1>1, <1>2, <2>1, <2>2, RiskFalls
<1> QED
  BY <1>4, <1>5, <1>6, <1>7, <1>8, <1>9
  DEF CostmapInv, LayerIsSeen, CostmapTypeOK, Bridges, Fits, OthersTyped

LEMMA InvLateSet ==
    ASSUME CostmapInv, NEW value \in BOOLEAN, LateSet(value)
    PROVE  CostmapInv'
<1>1. /\ c \in Bridges /\ Fits(c) /\ OthersTyped /\ LateIsPaid /\ AnswerFits(c, seen)
  BY TypeParts DEF CostmapInv
<1>2. /\ late[value] > 0 /\ late' = [late EXCEPT ![value] = @ - 1]
      /\ layer' = value /\ seen' = seen \union {value}
      /\ UNCHANGED <<c, up, commands, faults, others>>
  BY DEF LateSet, Layer
<1>3. late \in [BOOLEAN -> Nat]
  BY <1>1, Counters
<1>4. late' \in [BOOLEAN -> Nat]
  <2>1. late[value] - 1 \in Nat
    BY <1>2, <1>3
  <2> QED
    BY <1>2, <1>3, <2>1
<1>5. LateIsPaid'
  <2>1. \/ LateOn' = LateOn - 1 /\ LateOff' = LateOff
        \/ LateOn' = LateOn /\ LateOff' = LateOff - 1
    <3>1. CASE value = TRUE
      BY <1>2, <1>3, <3>1 DEF LateOn, LateOff
    <3>2. CASE value = FALSE
      BY <1>2, <1>3, <3>2 DEF LateOn, LateOff
    <3> QED
      BY <3>1, <3>2
  <2>2. AtRisk' => AtRisk
    BY <1>2 DEF AtRisk
  <2>3. faults' = faults /\ others' = others
    BY <1>2
  <2> QED
    BY <1>1, <2>1, <2>2, <2>3, Counters DEF LateIsPaid
<1>6. OthersTyped'
  <2>1. faults' \in 0..MaxFaults /\ others' \in 0..MaxOthers
    BY <1>1, <1>2 DEF OthersTyped
  <2>2. late' \in [BOOLEAN -> 0..(MaxFaults + MaxOthers)]
    BY <1>1, <1>4, <1>5, <2>1, LateRange
  <2> QED
    BY <1>1, <1>2, <2>1, <2>2 DEF OthersTyped
<1>7. AnswerFits(c', seen') /\ layer' \in seen'
  <2>1. AnswerFits(c, seen')
    <3>1. seen \subseteq seen'
      BY <1>2
    <3> QED
      BY <1>1, <3>1 DEF AnswerFits
  <2> QED
    BY <1>2, <2>1
<1> QED
  BY <1>1, <1>2, <1>5, <1>6, <1>7 DEF CostmapInv, LayerIsSeen, CostmapTypeOK, Bridges, Fits, OthersTyped

LEMMA InvOthers ==
    ASSUME CostmapInv, OtherClient \/ Outage
    PROVE  CostmapInv'
<1>1. /\ c \in Bridges /\ Fits(c) /\ OthersTyped /\ LateIsPaid /\ AnswerFits(c, seen)
      /\ layer \in seen
  BY TypeParts DEF CostmapInv, LayerIsSeen
<1>2. /\ others < MaxOthers /\ others' = others + 1
      /\ UNCHANGED <<c, late, commands, faults>>
      /\ up' \in BOOLEAN /\ layer' \in BOOLEAN
      /\ seen' = seen \union {layer'}
  BY <1>1 DEF OtherClient, Outage, Layer, OthersTyped
<1>3. LateIsPaid'
  <2>1. faults' + others' = faults + others + 1
    BY <1>1, <1>2, Counters
  <2> QED
    BY <1>1, <1>2, <2>1, RiskIsPaid
<1>4. OthersTyped'
  <2>1. others' \in 0..MaxOthers
    BY <1>1, <1>2, Counters
  <2> QED
    BY <1>1, <1>2, <2>1 DEF OthersTyped
<1>5. AnswerFits(c', seen') /\ layer' \in seen'
  <2>1. AnswerFits(c, seen')
    <3>1. seen \subseteq seen'
      BY <1>2
    <3> QED
      BY <1>1, <3>1 DEF AnswerFits
  <2> QED
    BY <1>2, <2>1
<1> QED
  BY <1>1, <1>2, <1>3, <1>4, <1>5 DEF CostmapInv, LayerIsSeen, CostmapTypeOK, Bridges, Fits, OthersTyped

LEMMA CostmapInvInit == CostmapInit => CostmapInv
<1> SUFFICES ASSUME CostmapInit PROVE CostmapInv
  OBVIOUS
<1>1. 0 \in 0..ServiceTimeout /\ 0 \in 0..(MaxFaults + MaxOthers) /\ 0 \in 0..MaxCommands
      /\ 0 \in 0..MaxFaults /\ 0 \in 0..MaxOthers
  BY CostmapAssumption
<1>2. c \in Bridges
  BY <1>1 DEF CostmapInit, Bridges
<1>3. Fits(c) /\ AnswerFits(c, seen)
  BY DEF CostmapInit, Fits, AnswerFits, Calls
<1>4. OthersTyped
  BY <1>1 DEF CostmapInit, OthersTyped
<1>5. LateIsPaid
  <2>1. LateOn = 0 /\ LateOff = 0
    BY Zenon DEF CostmapInit, LateOn, LateOff
  <2> QED
    BY <2>1 DEF CostmapInit, LateIsPaid, AtRisk
<1> QED
  BY <1>2, <1>3, <1>4, <1>5, TypeParts DEF CostmapInv, LayerIsSeen, CostmapInit

LEMMA CostmapInvStep == CostmapInv /\ [CostmapNext]_costmapVars => CostmapInv'
<1> SUFFICES ASSUME CostmapInv, [CostmapNext]_costmapVars PROVE CostmapInv'
  OBVIOUS
<1>1. CASE UNCHANGED costmapVars
  <2>1. LateOn' = LateOn /\ LateOff' = LateOff /\ (AtRisk' <=> AtRisk)
    BY Zenon, <1>1 DEF costmapVars, LateOn, LateOff, AtRisk
  <2>2. LateIsPaid'
    BY <1>1, <2>1 DEF costmapVars, CostmapInv, LateIsPaid
  <2>3. CostmapTypeOK' /\ LayerIsSeen' /\ AnswerFits(c', seen')
    <3>1. c \in Bridges /\ Fits(c) /\ OthersTyped
      BY TypeParts DEF CostmapInv
    <3>2. c' = c /\ seen' = seen /\ layer' = layer
      BY <1>1 DEF costmapVars
    <3>3. OthersTyped'
      BY <1>1, <3>1 DEF costmapVars, OthersTyped
    <3>4. CostmapTypeOK'
      BY <3>1, <3>2, <3>3 DEF CostmapTypeOK, Bridges, Fits, OthersTyped
    <3> QED
      BY <3>2, <3>4 DEF CostmapInv, LayerIsSeen
  <2> QED
    BY <2>2, <2>3 DEF CostmapInv
<1>2. CASE \E action \in Actions : Operator(action)
  BY <1>2, InvOperator
<1>3. CASE \E o \in {"ready", "unready", "raises"} : Pump(o)
  BY <1>3, InvPump
<1>4. CASE \E value \in BOOLEAN : LateSet(value)
  BY <1>4, InvLateSet
<1> QED
  BY <1>1, <1>2, <1>3, <1>4, InvTime, InvServer, InvOthers DEF CostmapNext

-----------------------------------------------------------------------------
(* The theorems. *)

LEMMA CostmapInvariance == CostmapSpec => []CostmapInv
<1>1. CostmapInit => CostmapInv
  BY CostmapInvInit
<1>2. CostmapInv /\ [CostmapNext]_costmapVars => CostmapInv'
  BY CostmapInvStep
<1> QED
  BY <1>1, <1>2, PTL DEF CostmapSpec

\* The action, its phase and its answer fit together, and a call that is left to
\* the server has cost a fault or an outage (_finish_costmap_action).
THEOREM TypeCorrect == CostmapSpec => []CostmapTypeOK
<1>1. CostmapInv => CostmapTypeOK
  BY DEF CostmapInv
<1> QED
  BY <1>1, CostmapInvariance, PTL

\* A value is shown only if the layer had it while the action ran, and F11 asks
\* for the inverse of such a value (_set_global_obstacles_state,
\* _costmap_requested).
THEOREM ActionsStandAlone == CostmapSpec => OnlyThisActionCounts
<1> DEFINE Stands == /\ c'.state # c.state => \E value \in seen : c'.state = Shown(value)
                     /\ c'.phase = "set" /\ c.phase # "set" =>
                          \E value \in seen : c'.requested = ~value
<1>1. CostmapInv /\ [CostmapNext]_costmapVars => [Stands]_costmapVars
  <2> SUFFICES ASSUME CostmapInv, CostmapNext PROVE Stands
    OBVIOUS
  <2>1. CASE \E o \in {"ready", "unready", "raises"} : Pump(o)
    BY <2>1, PumpStep
  <2>2. CASE \E action \in Actions : Operator(action)
    <3>1. PICK action \in Actions : c' = RequestAction(c, action)
      BY <2>2 DEF Operator
    <3>2. c \in Bridges
      BY TypeParts DEF CostmapInv
    <3>3. CASE c.action = "none"
      BY <3>1, <3>2, <3>3 DEF RequestAction, Begin, Bridges
    <3>4. CASE c.action # "none"
      BY <3>1, <3>2, <3>4 DEF RequestAction, Bridges
    <3> QED
      BY <3>3, <3>4
  <2>3. CASE CostmapTime \/ ServerAnswers \/ ServerFails
    <3>1. c \in Bridges
      BY TypeParts DEF CostmapInv
    <3>2. c'.state = c.state /\ c'.phase = c.phase
      <4>1. CASE CostmapTime
        BY <3>1, <4>1 DEF CostmapTime, Bridges
      <4>2. CASE ServerFails
        BY <3>1, <4>2 DEF ServerFails, Bridges
      <4>3. CASE ServerAnswers
        <5>1. c.phase \in Calls
          BY <4>3, TypeParts DEF ServerAnswers, CostmapInv, Fits
        <5>2. \/ c' = [c EXCEPT !.future = "cleared"]
              \/ c' = [c EXCEPT !.future = Shown(layer)]
              \/ c' = [c EXCEPT !.future = "set"]
          BY <4>3, <5>1 DEF ServerAnswers, Calls
        <5> QED
          BY <3>1, <5>2 DEF Bridges
      <4> QED
        BY <2>3, <4>1, <4>2, <4>3
    <3> QED
      BY <3>2
  <2>4. CASE (\E value \in BOOLEAN : LateSet(value)) \/ OtherClient \/ Outage
    <3>1. c' = c
      BY <2>4 DEF LateSet, OtherClient, Outage
    <3> QED
      BY <3>1
  <2> QED
    BY <2>1, <2>2, <2>3, <2>4 DEF CostmapNext
<1> QED
  BY <1>1, CostmapInvariance, PTL DEF CostmapSpec, OnlyThisActionCounts
=============================================================================
