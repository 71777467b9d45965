---------------------------- MODULE KeyboardSender ----------------------------
(***************************************************************************)
(* The laptop program tools/keyboard_sender.py: the pressed keys and the   *)
(* autonomy request behind a lock that the keyboard listener and the 20 Hz *)
(* send loop share, and the datagram each turn of the loop makes of them.  *)
(*                                                                         *)
(* Time is counted in send periods; a turn of the loop may come late or    *)
(* early, the laptop may sleep.  What is data is left out: the throttle    *)
(* setpoint and the steering keys (a datagram asks for motion or not), and *)
(* the navigation-mode key, whose commands are absolute and idempotent.    *)
(***************************************************************************)
EXTENDS KeyboardProtocol, Sequences

CONSTANTS
    Tokens,       \* the keys in use, among "space", "forward", "backtick", "route"
    ArmTimeout,   \* autonomy_latch_timeout
    SendPeriod,   \* SEND_PERIOD: how long a backtick disarms
    DisarmBurst   \* DISARM_BURST_SECONDS: how long Escape disarms

ASSUME SenderAssumption ==
    /\ Tokens \subseteq {"space", "forward", "backtick", "route"}
    /\ ArmTimeout \in Nat \ {0}
    /\ SendPeriod \in Nat \ {0}
    /\ DisarmBurst \in Nat \ {0}

VARIABLES
    keys    \* the KeyboardInput: pressed keys, route_commands, autonomy request

Larger(a, b) == IF a >= b THEN a ELSE b

\* disarming counts the periods up to and including disarm_until.
KeyboardInput == [ pressed |-> {}, queue |-> <<>>, armed |-> FALSE, age |-> 0,
                   disarming |-> 0 ]

SenderDisarm(k, duration) ==
    [k EXCEPT !.armed = FALSE, !.age = 0, !.disarming = Larger(@, duration + 1)]

Fresh(token) == token \in Tokens /\ token \notin keys.pressed

Pressed(token) == [keys EXCEPT !.pressed = @ \union {token}]

\* Space or W: the key counts while it is held.
Press(token) ==
    /\ token \in {"space", "forward"}
    /\ Fresh(token)
    /\ keys' = Pressed(token)

\* The backtick withdraws an autonomy request, or makes one and ends a burst.
PressBacktick ==
    /\ Fresh("backtick")
    /\ keys' = IF keys.armed
                 THEN SenderDisarm(Pressed("backtick"), SendPeriod)
                 ELSE [Pressed("backtick") EXCEPT !.armed = TRUE, !.age = 0, !.disarming = 0]

\* A function key queues one route command.
PressRoute(command) ==
    /\ Fresh("route")
    /\ keys' = [Pressed("route") EXCEPT !.queue = Append(@, command)]

Release(token) ==
    /\ token \in keys.pressed
    /\ keys' = [keys EXCEPT !.pressed = @ \ {token}]

\* Mutant: Escape only forgets the keys.
ClearKeys == keys' = [keys EXCEPT !.pressed = {}, !.queue = <<>>]

\* Escape clears what is held and queued and begins a burst of brake packets.
Clear == keys' = SenderDisarm([keys EXCEPT !.pressed = {}, !.queue = <<>>], DisarmBurst)

\* The first thing a turn of the loop does: an old request ends by itself.
Settled ==
    IF keys.armed /\ keys.age >= ArmTimeout THEN SenderDisarm(keys, SendPeriod) ELSE keys

ModeOf(k) ==
    CASE k.disarming > 0        -> {"brake"}
      [] k.disarming = 0 /\ k.armed -> {"suppress"}
      [] OTHER                  -> IF "space" \in k.pressed THEN {} ELSE {"brake"}

\* What the datagram says: its mode, whether it asks for motion, its command.
Contents ==
    LET k == Settled
    IN [ mode |-> ModeOf(k),
         moves |-> ModeOf(k) = {} /\ "forward" \in k.pressed,
         route |-> IF k.queue = <<>> THEN NoRoute ELSE Head(k.queue) ]

\* A turn of the send loop: one datagram, which takes one route command.
Send == keys' = [Settled EXCEPT !.queue = IF @ = <<>> THEN @ ELSE Tail(@)]

Tick == keys' = [keys EXCEPT !.age = IF keys.armed /\ @ < ArmTimeout THEN @ + 1 ELSE @,
                             !.disarming = IF @ > 0 THEN @ - 1 ELSE @]

\* The program ends without a word; a new one begins with nothing pressed.
Restart == keys' = KeyboardInput

SenderType(commands) ==
    keys \in [ pressed : SUBSET Tokens, queue : Seq(commands), armed : BOOLEAN,
               age : 0..ArmTimeout,
               disarming : 0..(Larger(SendPeriod, DisarmBurst) + 1) ]
===============================================================================
