----------------------------- MODULE KeyboardLink -----------------------------
(***************************************************************************)
(* The keyboard sender, the UDP path and the keyboard bridge together.     *)
(*                                                                         *)
(* A datagram may be lost when it is sent, delayed for any time and, where *)
(* the constants say so, overtaken or delivered again.  Datagrams carry    *)
(* their number (the sequence is the number in the sequence space) and the *)
(* number of the backtick press that made the autonomy request; the bridge *)
(* sees neither.                                                           *)
(***************************************************************************)
EXTENDS KeyboardSender, KeyboardBridge, FiniteSets

CONSTANTS
    Reorders,     \* the path may deliver a later datagram first
    Duplicates,   \* the path may deliver a datagram again
    Losses,       \* the path may lose datagrams
    Capacity,     \* datagrams under way at once
    FirstNumber,  \* the datagrams the sender had sent when the bridge started
    MaxSent,      \* and the last it sends
    MaxPresses,   \* autonomy requests
    MaxRoutes,    \* route commands
    MaxSessions,  \* sender processes one after another
    MaxTakeovers  \* controller takeovers

ASSUME LinkAssumption ==
    /\ {Reorders, Duplicates, Losses} \subseteq BOOLEAN
    /\ {Capacity, FirstNumber, MaxSent, MaxPresses, MaxRoutes, MaxTakeovers} \subseteq Nat
    /\ MaxSessions \in Nat \ {0}

Datagrams == [ owner : 1..MaxSessions, number : 0..MaxSent, sequence : 0..(Serial - 1),
               mode : Modes, throttle : 0..2, route : 0..MaxRoutes, press : 0..MaxPresses ]

ASSUME NoneAssumption == None \notin Datagrams

VARIABLES
    session,    \* the sender process
    number,     \* the datagrams it has sent
    net,        \* the datagrams under way
    presses,    \* autonomy requests made so far
    routes,     \* route commands queued so far
    armedBy,    \* the request that armed the latch last
    lastRoute,  \* the route command forwarded last
    newest,     \* the newest datagram of the session that arrived
    escape,     \* where the last Escape falls, and whether a flag sent since has arrived
    foremost,   \* of the datagrams that arrived, the one sent last (history)
    overtaken,  \* whether the datagram that armed the latch last was overtaken, and whether
                \* one without a request that came since was (history)
    takeovers   \* the controller's takeovers so far

arrivals == <<newest, foremost, overtaken>>

linkVars == <<session, number, net, presses, routes, armedBy, lastRoute, arrivals, escape, takeovers>>

vars == <<keys, bridgeVars, linkVars>>

Datagram == [ owner |-> session, number |-> number, sequence |-> number % Serial,
              mode |-> Contents.mode, throttle |-> IF Contents.moves THEN 2 ELSE 0,
              route |-> Contents.route, press |-> presses ]

Earlier(p, q) == p.owner < q.owner \/ (p.owner = q.owner /\ p.number < q.number)

\* A datagram that was overtaken by one sent after it.
Behind(p) == Earlier(p, foremost)

Deliverable == IF Reorders THEN net ELSE { p \in net : \A q \in net \ {p} : Earlier(p, q) }

\* A new program has had no Escape.
NoEscape == [number |-> 0, press |-> 0, heard |-> FALSE]

\* The sequence space is far larger than what the path holds back.
InWindow ==
    /\ number - newest < Serial \div 2
    /\ \A p \in net : p.owner = session => number - p.number < Serial \div 2

-------------------------------------------------------------------------------

BridgeRests == UNCHANGED <<latch, state, age, shown>> /\ published' = <<>> /\ forwarded' = NoRoute

KeyPress(token) ==
    /\ Press(token) /\ BridgeRests /\ UNCHANGED linkVars

KeyRelease(token) ==
    /\ Release(token) /\ BridgeRests /\ UNCHANGED linkVars

RequestAutonomy ==
    /\ presses < MaxPresses
    /\ PressBacktick
    /\ presses' = IF keys.armed THEN presses ELSE presses + 1
    /\ BridgeRests
    /\ UNCHANGED <<session, number, net, routes, armedBy, lastRoute, arrivals, escape, takeovers>>

QueueRoute ==
    /\ routes < MaxRoutes
    /\ PressRoute(routes + 1)
    /\ routes' = routes + 1
    /\ BridgeRests
    /\ UNCHANGED <<session, number, net, presses, armedBy, lastRoute, arrivals, escape, takeovers>>

Escape ==
    /\ Clear
    /\ escape' = [number |-> number, press |-> presses, heard |-> FALSE]
    /\ BridgeRests
    /\ UNCHANGED <<session, number, net, presses, routes, armedBy, lastRoute, arrivals, takeovers>>

SendLoop ==
    /\ number < MaxSent /\ InWindow
    /\ Send
    /\ number' = number + 1
    /\ \/ Losses /\ net' = net
       \/ Cardinality(net) < Capacity /\ net' = net \union {Datagram}
    /\ BridgeRests
    /\ UNCHANGED <<session, presses, routes, armedBy, lastRoute, arrivals, escape, takeovers>>

SenderRestart ==
    /\ session < MaxSessions
    /\ Restart
    /\ session' = session + 1
    /\ number' = 0 /\ newest' = 0 - 1
    /\ escape' = NoEscape
    /\ BridgeRests
    /\ UNCHANGED <<net, presses, routes, armedBy, lastRoute, foremost, overtaken, takeovers>>

Deliver(p) ==
    /\ Receive(p)
    /\ \/ net' = net \ {p}
       \/ Duplicates /\ net' = net
    /\ armedBy' = IF latch'.armed /\ ~latch.armed THEN p.press ELSE armedBy
    /\ lastRoute' = IF forwarded' = NoRoute THEN lastRoute ELSE forwarded'
    /\ newest' = IF p.owner = session THEN Larger(newest, p.number) ELSE newest
    /\ foremost' = IF Behind(p) THEN foremost ELSE [owner |-> p.owner, number |-> p.number]
    /\ overtaken' = IF latch'.armed /\ ~latch.armed
                      THEN [request |-> Behind(p), release |-> FALSE]
                      ELSE [overtaken EXCEPT !.release = @ \/ (armedBy > 0 /\ Behind(p) /\ ~Suppresses(p.mode))]
    /\ escape' = [escape EXCEPT !.heard =
           @ \/ (p.mode # {} /\ p.owner = session /\ p.number >= escape.number)]
    /\ UNCHANGED <<keys, session, number, presses, routes, takeovers>>

Takeover ==
    /\ takeovers < MaxTakeovers
    /\ takeovers' = takeovers + 1
    /\ ControllerTakesOver
    /\ UNCHANGED <<keys, session, number, net, presses, routes, armedBy, lastRoute, arrivals, escape>>

Timers == (Publish \/ PublishTimeoutTransition) /\ UNCHANGED <<keys, linkVars>>

Time == Tick /\ BridgeTick /\ UNCHANGED linkVars

Init ==
    /\ keys = KeyboardInput
    /\ BridgeInit
    /\ session = 1 /\ number = FirstNumber /\ newest = FirstNumber - 1
    /\ foremost = [owner |-> 1, number |-> FirstNumber - 1]
    /\ overtaken = [request |-> FALSE, release |-> FALSE]
    /\ net = {}
    /\ presses = 0 /\ routes = 0 /\ takeovers = 0
    /\ armedBy = 0 /\ lastRoute = NoRoute
    /\ escape = NoEscape

Next ==
    \/ \E token \in Tokens : KeyPress(token) \/ KeyRelease(token)
    \/ RequestAutonomy \/ QueueRoute \/ Escape
    \/ SendLoop \/ SenderRestart
    \/ \E p \in Deliverable : Deliver(p)
    \/ Takeover \/ Timers \/ Time

Spec == Init /\ [][Next]_vars

FairSpec == Spec /\ WF_vars(Time) /\ WF_vars(Timers)

-------------------------------------------------------------------------------
(* The properties. *)

\* The state has its shape: sender, path and bridge.
TypeOK ==
    /\ SenderType(1..MaxRoutes)
    /\ BridgeType(Datagrams, 1..MaxRoutes)
    /\ net \subseteq Datagrams

\* The accepted datagram of one sender is the newest that arrived, in whatever
\* order the path delivers and however often the sequence wraps (is_newer_sequence).
NewestWins == session = 1 /\ state # None => state.number = newest

\* The invariant of the link: its shape, and that the newest datagram rules.
Inv == TypeOK /\ NewestWins

\* A route command of one sender is forwarded at most once and in the order of the
\* keys, though every datagram may come twice and late (accept_packet before
\* _dispatch_route_command).
RouteInOrder == [][session = 1 /\ forwarded' # NoRoute => forwarded' > lastRoute]_vars

\* One request arms the latch once and for one timeout: after expiry, a takeover or
\* Escape the datagrams of the same request do not arm it again, however often they
\* come, and before it none makes it younger.  What arms it again has been overtaken:
\* the datagram of the request, or one without a request that came after the latch
\* was armed.  Every valid datagram acts on the latch, accepted or not, so nothing
\* stops those two (process_mode, _rearm_ready, armed_at; _receive).
OneArmPerPress ==
    [][latch'.armed =>
         IF latch.armed THEN latch'.age >= latch.age
                        ELSE armedBy' > armedBy \/ overtaken'.request \/ overtaken.release]_vars

\* Once a datagram sent after Escape has arrived that is more than a drive with
\* Space held, no earlier request holds the latch, as long as none has been made
\* since, unless the datagram that armed it had been overtaken by a later one
\* (clear and its burst, process_mode of a brake; _receive).  A burst that is lost, or
\* that no turn of the loop falls into, ends nothing: the drive that follows it leaves
\* the latch armed.
EscapeHolds ==
    presses = escape.press /\ escape.heard /\ latch.armed => overtaken.request

\* An armed latch ends, whatever the sender sends or does not (expire).
LatchEnds == latch.armed ~> ~latch.armed
===============================================================================
