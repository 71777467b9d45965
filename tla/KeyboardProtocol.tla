--------------------------- MODULE KeyboardProtocol ---------------------------
(***************************************************************************)
(* What sender and bridge share (runner_teleop/keyboard_protocol.py): the  *)
(* mode flags of a datagram and the order of its sequence numbers.         *)
(***************************************************************************)
EXTENDS Integers

CONSTANT Serial   \* the size of the sequence space, 2^32

ASSUME ProtocolAssumption == Serial \in Nat \ {0} /\ Serial % 2 = 0

Modes == SUBSET {"brake", "suppress"}

Brakes(mode)     == "brake" \in mode
Suppresses(mode) == "suppress" \in mode

NoRoute == 0   \* ROUTE_NONE; a command is a positive number

\* Mutants: plain order, and a duplicate counts as newer.
IsNewerPlain(new, previous) == new > previous
IsNewerOrSame(new, previous) == (new - previous) % Serial \in 0..(Serial \div 2 - 1)

\* Serial-number order: newer by less than half of the space.
IsNewer(new, previous) == (new - previous) % Serial \in 1..(Serial \div 2 - 1)
===============================================================================
