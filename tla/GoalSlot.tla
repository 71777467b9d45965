------------------------------ MODULE GoalSlot ------------------------------
(***************************************************************************)
(* What the goal bridge promises about the action server: one slot.  A     *)
(* goal is asked for only when the slot is free; the server may begin it   *)
(* before the bridge knows; and a goal that the bridge owns is released    *)
(* only when it has ended at the server.                                   *)
(***************************************************************************)
EXTENDS Integers

VARIABLES
    slot,   \* free, asked, begun, refused or owned: the bridge's knowledge
    live    \* goals that have begun and not ended at the server

Init == slot = "free" /\ live = 0

\* A goal is sent.
Ask == slot = "free" /\ slot' = "asked" /\ UNCHANGED live

\* The server accepts it, or the request is rejected or lost.
Begin == slot = "asked" /\ slot' = "begun" /\ live' = live + 1

Refuse == slot = "asked" /\ slot' = "refused" /\ UNCHANGED live

\* The bridge learns of it.  A refused goal may be sent again at once.
Learn == slot = "begun" /\ slot' = "owned" /\ UNCHANGED live

Forget == slot = "refused" /\ slot' \in {"free", "asked"} /\ UNCHANGED live

\* The goal ends at the server.
End == live > 0 /\ live' = live - 1 /\ UNCHANGED slot

\* The bridge lets go of a goal that has ended; the next one may be sent at
\* once.
Release ==
    /\ slot = "owned" /\ live = 0
    /\ slot' \in {"free", "asked"}
    /\ UNCHANGED live

\* A new process owns nothing, and what it left at the server is not its own.
Restart == slot' = "free" /\ live' = 0

Next == Ask \/ Begin \/ Refuse \/ Learn \/ Forget \/ End \/ Release \/ Restart

Spec == Init /\ [][Next]_<<slot, live>>
=============================================================================
