---------------------------- MODULE MCSpeedEnvelope ----------------------------
(* Three keys, two asked per tick: the rotation wraps in the middle. *)
EXTENDS SpeedEnvelope

CONSTANTS desired, minimum, bound, committed, changed

MCKeys == <<desired, minimum, bound>>
MCOrigin == [k \in {desired, minimum, bound} |-> committed]
MCValues == {committed, changed}
MCDrifting == {minimum}
================================================================================
