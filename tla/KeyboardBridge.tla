---------------------------- MODULE KeyboardBridge ----------------------------
(***************************************************************************)
(* The keyboard bridge on the Pi (runner_teleop/keyboard_bridge.py): the   *)
(* receiver that accepts datagrams by owner, sequence and liveness, the    *)
(* autonomy latch every valid datagram acts on, and the keyboard state     *)
(* published from the two.                                                 *)
(*                                                                         *)
(* An owner is a source address with a session.  A datagram that fails the *)
(* inspection (length, magic, ranges, source) changes nothing and is left  *)
(* out.  Steering follows the throttle and is left out.  The executor has  *)
(* one thread: every callback is one step.  Costmap commands leave here as *)
(* forwarded commands.                                                     *)
(***************************************************************************)
EXTENDS KeyboardProtocol, Sequences

CONSTANTS
    SpeedCap,      \* speed_cap
    InputTimeout,  \* input_timeout: how long an accepted datagram is live
    LatchTimeout,  \* autonomy_latch_timeout
    None           \* no datagram accepted yet

\* What the node starts with, ports and addresses left out.
ValidConfiguration(timeout, cap, latchTimeout) ==
    timeout \in Nat \ {0} /\ cap \in Nat /\ latchTimeout \in Nat \ {0}

ASSUME BridgeAssumption == ValidConfiguration(InputTimeout, SpeedCap, LatchTimeout)

VARIABLES
    latch,      \* the KeyboardAutonomyLatch
    state,      \* the accepted datagram, its throttle capped, or None
    age,        \* the time since it was accepted
    shown,      \* _last_published_valid
    published,  \* the keyboard states this step published
    forwarded   \* the route command this step forwarded, or NoRoute

bridgeVars == <<latch, state, age, shown, published, forwarded>>

-------------------------------------------------------------------------------
(* The latch. *)

Latch == [ armed |-> FALSE, age |-> 0, suppressPrevious |-> FALSE, rearmReady |-> TRUE ]

Disarm(l, requireRelease) ==
    [ armed |-> FALSE, age |-> 0,
      suppressPrevious |-> requireRelease /\ l.suppressPrevious,
      rearmReady |-> ~requireRelease ]

\* Mutant: every autonomy datagram arms.
ArmsAgain(l, mode) ==
    /\ Suppresses(mode) /\ ~Brakes(mode)
    /\ l.rearmReady \/ l.armed

Arms(l, mode) ==
    /\ Suppresses(mode) /\ ~Brakes(mode)
    /\ ~l.suppressPrevious /\ l.rearmReady /\ ~l.armed

\* process_mode: what every valid datagram does to the latch, accepted or not.
ProcessMode(l, mode) ==
    LET noted == CASE Brakes(mode)      -> Disarm(l, FALSE)
                   [] Arms(l, mode)     -> [l EXCEPT !.armed = TRUE, !.age = 0, !.rearmReady = FALSE]
                   [] OTHER             -> [l EXCEPT !.rearmReady = @ \/ ~Suppresses(mode)]
    IN [noted EXCEPT !.suppressPrevious = Suppresses(mode)]

Expired(l) == IF l.armed /\ l.age >= LatchTimeout THEN Disarm(l, TRUE) ELSE l

-------------------------------------------------------------------------------
(* The receiver. *)

IsLive == state # None /\ age <= InputTimeout

Accepts(p) ==
    \/ state = None
    \/ state # None /\ IF p.owner = state.owner THEN IsNewer(p.sequence, state.sequence)
                                                ELSE ~IsLive

\* Mutant: the cap forgets one direction.
CappedReverse(throttle) == IF throttle < -SpeedCap THEN -SpeedCap ELSE throttle

Capped(throttle) ==
    CASE throttle > SpeedCap  -> SpeedCap
      [] throttle < -SpeedCap -> -SpeedCap
      [] OTHER                -> throttle

-------------------------------------------------------------------------------
(* The published keyboard state. *)

MessageMode(l) ==
    CASE l.armed            -> {"suppress"}
      [] ~l.armed /\ IsLive -> IF Suppresses(state.mode) THEN {"brake"} ELSE state.mode
      [] OTHER              -> {"brake"}

Message(l) ==
    [ valid |-> IsLive, mode |-> MessageMode(l),
      throttle |-> IF ~l.armed /\ IsLive THEN state.throttle ELSE 0 ]

Moves(message) == ~Brakes(message.mode) /\ message.throttle # 0

\* Mutant: publication does not look at the age of the latch.
EmitUnexpired(l) ==
    /\ latch' = l
    /\ published' = <<Message(l)>>
    /\ shown' = IsLive

\* _publish, with the latch as this step has left it.
Emit(l) ==
    /\ latch' = Expired(l)
    /\ published' = <<Message(Expired(l))>>
    /\ shown' = IsLive

Quiet(l) ==
    /\ latch' = l
    /\ published' = <<>>
    /\ UNCHANGED shown

-------------------------------------------------------------------------------
(* The callbacks. *)

\* One valid datagram.  The latch comes first; a brake is published before the
\* datagram is accepted or rejected.
Receive(p) ==
    LET noted == ProcessMode(latch, p.mode)
    IN /\ IF Brakes(p.mode) THEN Emit(noted) ELSE Quiet(noted)
       /\ IF Accepts(p)
            THEN /\ state' = [p EXCEPT !.throttle = Capped(@)]
                 /\ age' = 0
                 /\ forwarded' = p.route
            ELSE /\ forwarded' = NoRoute
                 /\ UNCHANGED <<state, age>>

\* Mutant: a takeover asks for no release.
TakesOverReady ==
    /\ Emit(Disarm(latch, FALSE))
    /\ forwarded' = NoRoute
    /\ UNCHANGED <<state, age>>

\* X, R1 or L1 is held in a controller message.
ControllerTakesOver ==
    /\ Emit(Disarm(latch, TRUE))
    /\ forwarded' = NoRoute
    /\ UNCHANGED <<state, age>>

\* The publication timer.
Publish ==
    /\ Emit(latch)
    /\ forwarded' = NoRoute
    /\ UNCHANGED <<state, age>>

\* The timer that reports the end of liveness at once.
PublishTimeoutTransition ==
    /\ shown /\ ~IsLive
    /\ Publish

BridgeTick ==
    /\ latch' = [latch EXCEPT !.age = IF latch.armed /\ @ < LatchTimeout THEN @ + 1 ELSE @]
    /\ age' = IF age <= InputTimeout THEN age + 1 ELSE age
    /\ published' = <<>> /\ forwarded' = NoRoute
    /\ UNCHANGED <<state, shown>>

BridgeInit ==
    /\ latch = Latch
    /\ state = None
    /\ age = 0
    /\ shown = FALSE
    /\ published = <<>>
    /\ forwarded = NoRoute

BridgeType(packets, commands) ==
    /\ latch \in [ armed : BOOLEAN, age : 0..LatchTimeout,
                   suppressPrevious : BOOLEAN, rearmReady : BOOLEAN ]
    /\ state \in packets \union {None}
    /\ age \in 0..(InputTimeout + 1)
    /\ shown \in BOOLEAN
    /\ published \in {<<>>} \union
           { <<message>> : message \in [ valid : BOOLEAN, mode : Modes,
                                         throttle : -SpeedCap..SpeedCap ] }
    /\ forwarded \in commands \union {NoRoute}
===============================================================================
