---------------------------- MODULE MCCommandChain ----------------------------
(* Nav2 asks for a stop, a speed below the minimum, one above the maximum,   *)
(* backward.                                                                 *)
EXTENDS CommandChain

MCNavSpeeds == {0, 1, -4}
MCDirections == {-1, 1}
===============================================================================
