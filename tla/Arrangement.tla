------------------------------ MODULE Arrangement ------------------------------
(***************************************************************************)
(* Sorting and filtering, by what they return: the k-th element is the one *)
(* that has k - 1 before it.                                               *)
(***************************************************************************)
EXTENDS Integers, Sequences, FiniteSets

\* The elements of a finite set in their order, as a sequence.
Arranged(S, before(_, _)) ==
    LET place(k) == CHOOSE x \in S : Cardinality({y \in S : before(y, x)}) = k - 1
    IN  SubSeq([k \in 1..Cardinality(S) |-> place(k)], 1, Cardinality(S))

\* What a sequence holds at some places.
Chosen(sequence, places) ==
    LET order == Arranged(places, <)
    IN  [k \in DOMAIN order |-> sequence[order[k]]]
================================================================================
