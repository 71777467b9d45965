----------------------------- MODULE MCMotorNode -----------------------------
(* A small instance of MotorNode for TLC. *)
EXTENDS MotorNode

\* A full forward command, a reverse one, one too small for a duty, zero, and
\* one beyond the range.
MCLinearX == {-5, -2, 0, 1, 4}

\* Fresh, running at another period, running at ours, configured but disabled
\* with a duty beyond our period, and the refused polarity.
MCBootChannels == {
    [period |-> 0, duty |-> 0, enabled |-> FALSE, normal |-> TRUE],
    [period |-> 4, duty |-> 3, enabled |-> TRUE,  normal |-> TRUE],
    [period |-> 2, duty |-> 1, enabled |-> TRUE,  normal |-> TRUE],
    [period |-> 4, duty |-> 3, enabled |-> FALSE, normal |-> FALSE],
    [period |-> 4, duty |-> 1, enabled |-> TRUE,  normal |-> FALSE]}
=============================================================================
