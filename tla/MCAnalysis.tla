------------------------------ MODULE MCAnalysis ------------------------------
(* A rate is a multiple of 12, so that no interval of 1 to 3 leaves a rest.  *)
EXTENDS Analysis

MCCommands == {0, 2, 3, 4}
MCRates == {-12, 0, 12}

(* Up, down to zero, up by less than the tolerance allows to time, and to reverse. *)
MCStepsTaken == {<<0, 50>>, <<50, 0>>, <<50, 54>>, <<50, -5>>}

(* The median is 1, 1.5 or -1. *)
MCDrives == {<<1, 1>>, <<1, 2>>, <<-1, -1>>}

(* It stood, rolled forth, rolled faster, rolled back, shook, twitched. *)
MCRolls == {[speeds |-> <<0, 0>>, stills |-> <<TRUE, TRUE>>],
            [speeds |-> <<2, 2>>, stills |-> <<FALSE, FALSE>>],
            [speeds |-> <<4, 4>>, stills |-> <<FALSE, FALSE>>],
            [speeds |-> <<-2, -2>>, stills |-> <<FALSE, FALSE>>],
            [speeds |-> <<2, -2>>, stills |-> <<FALSE, FALSE>>],
            [speeds |-> <<2, 2>>, stills |-> <<TRUE, FALSE>>]}

(* Soon and long, late and short. *)
MCSpans == {<<1, 2>>, <<3, 1>>}
===============================================================================
