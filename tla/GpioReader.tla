------------------------------- MODULE GpioReader -------------------------------
(***************************************************************************)
(* The GPIO event reader of runner_encoder/encoder_node.py: the chip is    *)
(* looked for among all chips, its line requested, a thread started; every *)
(* step may raise, and what was acquired before it must be given back.     *)
(* close() ends the thread before it gives the line back.                  *)
(*                                                                         *)
(* Every chip is opened to read its label; the label, and whether a call   *)
(* raises, is up to the environment.                                       *)
(***************************************************************************)
EXTENDS Integers, FiniteSets

CONSTANT ChipCount   \* /dev/gpiochip*, in order

ASSUME ReaderAssumption == ChipCount \in Nat

VARIABLES
    phase,    \* "opening", "opened", "requested", "running", "closing"; "failed", "closed"
    chip,     \* the chip whose label is read next
    matches,  \* the chips with the label
    open,     \* the chips that are open
    line,     \* whether the line is requested
    thread,   \* "none", "reading", "ended"
    stop      \* _stop_event

readerVars == <<phase, chip, matches, open, line, thread, stop>>

Ready == phase = "running"

\* The line is released only if it was requested, and the chip closed.
Released == line' = FALSE /\ open' = {}

-------------------------------------------------------------------------------
(* open_gpio_chip_by_label *)

ChipOther ==
    /\ phase = "opening" /\ chip <= ChipCount
    /\ chip' = chip + 1
    /\ UNCHANGED <<phase, matches, open, line, thread, stop>>

ChipMatches ==
    /\ phase = "opening" /\ chip <= ChipCount
    /\ chip' = chip + 1
    /\ matches' = matches \union {chip} /\ open' = open \union {chip}
    /\ UNCHANGED <<phase, line, thread, stop>>

\* Mutant: the chips found before are forgotten.
RaisesWithMatches(opened) == open' = open \union opened

\* What is closed before the error is passed on: the chips found, but not the one
\* whose label could not be read.
RaisesWithout(opened) == open' = (open \ matches) \union opened

ChipRaises ==
    /\ phase = "opening" /\ chip <= ChipCount
    /\ \E opened \in {{}, {chip}} : RaisesWithout(opened)
    /\ phase' = "failed" /\ stop' = TRUE
    /\ UNCHANGED <<chip, matches, line, thread>>

FoundOne ==
    /\ phase = "opening" /\ chip > ChipCount
    /\ Cardinality(matches) = 1
    /\ phase' = "opened"
    /\ UNCHANGED <<chip, matches, open, line, thread, stop>>

FoundNotOne ==
    /\ phase = "opening" /\ chip > ChipCount
    /\ Cardinality(matches) # 1
    /\ phase' = "failed" /\ stop' = TRUE /\ RaisesWithout({})
    /\ UNCHANGED <<chip, matches, line, thread>>

-------------------------------------------------------------------------------
(* GpioEventReader *)

RequestLine ==
    /\ phase = "opened"
    /\ phase' = "requested" /\ line' = TRUE
    /\ UNCHANGED <<chip, matches, open, thread, stop>>

StartThread ==
    /\ phase = "requested"
    /\ phase' = "running" /\ thread' = "reading"
    /\ UNCHANGED <<chip, matches, open, line, stop>>

\* get_line, request or start raises: close(), and the constructor raises.
SetupRaises ==
    /\ phase \in {"opened", "requested"}
    /\ phase' = "failed" /\ stop' = TRUE /\ Released
    /\ UNCHANGED <<chip, matches, thread>>

\* The thread looks at the stop event between two events only.
EventTaken == thread = "reading" /\ thread' = IF stop THEN "ended" ELSE thread

ThreadStops ==
    /\ thread = "reading" /\ stop
    /\ thread' = "ended"
    /\ UNCHANGED <<phase, chip, matches, open, line, stop>>

\* event_wait or event_read raises: the error is logged and the thread is gone.
ReadRaises ==
    /\ thread = "reading"
    /\ thread' = "ended"
    /\ UNCHANGED <<phase, chip, matches, open, line, stop>>

\* The node has stopped spinning.
Close ==
    /\ Ready
    /\ phase' = "closing" /\ stop' = TRUE
    /\ UNCHANGED <<chip, matches, open, line, thread>>

\* Mutant: the line is given back without waiting for the thread.
JoinedAtOnce ==
    /\ phase = "closing"
    /\ phase' = "closed" /\ Released
    /\ UNCHANGED <<chip, matches, thread, stop>>

\* join() returns.
Joined ==
    /\ phase = "closing" /\ thread = "ended"
    /\ phase' = "closed" /\ thread' = "none" /\ Released
    /\ UNCHANGED <<chip, matches, stop>>

ReaderInit ==
    /\ phase = "opening" /\ chip = 1
    /\ matches = {} /\ open = {}
    /\ line = FALSE /\ thread = "none" /\ stop = FALSE

\* All but the events read.
ReaderNext ==
    \/ ChipOther \/ ChipMatches \/ ChipRaises \/ FoundOne \/ FoundNotOne
    \/ RequestLine \/ StartThread \/ SetupRaises
    \/ ThreadStops \/ ReadRaises \/ Close \/ Joined

-------------------------------------------------------------------------------
(* The properties. *)

Phases == {"opening", "opened", "requested", "running", "closing", "failed", "closed"}

ReaderType ==
    /\ phase \in Phases /\ chip \in 1..ChipCount + 1
    /\ matches \subseteq 1..ChipCount /\ open \subseteq 1..ChipCount
    /\ line \in BOOLEAN /\ stop \in BOOLEAN
    /\ thread \in {"none", "reading", "ended"}

\* The thread never reads a line that was given back: while it lives, the line is
\* requested and exactly the chip it belongs to is open, also while the node is
\* closing (close(): stop, join, release).
ThreadOwnsLine == thread = "reading" => line /\ open = matches /\ Cardinality(open) = 1

\* Whatever step failed, nothing stays acquired: no line, no thread, and no chip
\* but one whose label could not be read, which nobody closes
\* (open_gpio_chip_by_label, __init__ and close of GpioEventReader).
NothingIsKept ==
    phase \in {"failed", "closed"} => ~line /\ thread = "none" /\ open \subseteq {chip}
================================================================================
