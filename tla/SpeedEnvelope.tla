----------------------------- MODULE SpeedEnvelope -----------------------------
(***************************************************************************)
(* The speed envelope observer (runner_bringup): once a period it shows    *)
(* how the parameters of a node compare with the committed origin, and     *)
(* asks the node for the next few of them.                                 *)
(*                                                                         *)
(* Its nodes are asked independently of one another; this module has one.  *)
(* The answers come in any order, late or never, and the timer fires late  *)
(* when the executor is busy.                                              *)
(***************************************************************************)
EXTENDS Integers, SequencesExt

CONSTANTS
    None, Asked,
    Keys,        \* the origin of the node, in the order of its file
    Origin,      \* the value it gives to each
    Values,      \* what a parameter may be set to, type included
    Broken,      \* a parameter the node does not declare, or of another type
    Drifting,    \* bound: the keys whose parameter is changed at run time
    Period,      \* PUBLICATION_PERIOD_SEC
    Timeout,     \* request_timeout_sec
    PerTick      \* MAX_REQUESTS_PER_NODE_PER_TICK

KeySet == ToSet(Keys)

\* The constructor requires the timeout to be shorter than the period.
ASSUME EnvelopeAssumption ==
    /\ Keys \in Seq(KeySet) /\ Keys # <<>> /\ IsInjective(Keys)
    /\ Origin \in [KeySet -> Values] /\ Drifting \subseteq KeySet
    /\ {None, Asked, Broken} \cap Values = {} /\ None # Asked /\ Broken \notin {None, Asked}
    /\ Timeout \in Nat \ {0} /\ Period \in Nat /\ Timeout < Period
    /\ PerTick \in Nat \ {0}

VARIABLES
    observation,  \* key -> what is known of it, and the time left to its deadline
    offset,       \* _request_offsets
    request,      \* key -> the call of the current token: None, Asked, or the answer
    superseded,   \* a key and its call of an earlier token, or None
    parameter,    \* key -> the node's own value
    up,           \* the node runs
    clock, due,   \* time within the period; the timer has to fire
    \* history, read by properties only
    had,          \* key -> the values the node had since the key was asked last
    waited        \* key -> ticks at which it was neither asked nor in flight

observer == <<observation, offset>>
calls    == <<request, superseded>>
node     == <<parameter, up>>
time     == <<clock, due>>
history  == <<had, waited>>
vars     == <<observer, calls, node, time, history>>

Unasked == [detail |-> "not_requested", value |-> None, left |-> 0]

Available(o) == o.detail = "available"
InFlight(o)  == o.detail = "pending"

-------------------------------------------------------------------------------
(* The store of observations. *)

\* begin: a token and a deadline; what was known before is forgotten.
Pending == [detail |-> "pending", value |-> None, left |-> Timeout]

\* Mutant: any answer to the key counts.
ResolvesAny(k, current) == InFlight(observation[k])

\* resolve: an answer counts only for the current token, and in time.
Resolves(k, current) == current /\ InFlight(observation[k])

\* Mutant: a parameter that is not set counts as a value.
ResolvedUnchecked(answer) == [Unasked EXCEPT !.detail = "available", !.value = answer]

\* _complete: a call that failed or has no such value leaves an error.
Resolved(answer) ==
    IF answer = Broken THEN [Unasked EXCEPT !.detail = "error"]
    ELSE [Unasked EXCEPT !.detail = "available", !.value = answer]

\* Mutant: a call may be in flight for ever.
NeverExpired(o) == o

\* expire
Expired(o) == IF InFlight(o) /\ o.left = 0 THEN [Unasked EXCEPT !.detail = "timeout"] ELSE o

-------------------------------------------------------------------------------
(* What is published. *)

\* build_entry: values_equal tells the types apart as well.
Divergence(o, origin) ==
    IF ~Available(o) THEN "unknown" ELSE IF o.value = origin THEN "match" ELSE "different"

\* Mutant: every entry that is not a difference is taken for available.
NothingDiffers(entries) == \A k \in KeySet : Divergence(entries[k], Origin[k]) # "different"

AllAvailable(entries) == \A k \in KeySet : Available(entries[k])
AnyDivergence(entries) == \E k \in KeySet : Divergence(entries[k], Origin[k]) = "different"

-------------------------------------------------------------------------------
(* One action per callback. *)

Place == [k \in KeySet |-> CHOOSE i \in DOMAIN Keys : Keys[i] = k]

\* The place of a key in the rotation: the list from the offset, then what is before.
Rotated(k) == IF Place[k] > offset THEN Place[k] - offset ELSE Len(Keys) - offset + Place[k]

\* Mutant: the requests start from the first key every time.
SelectedUnrotated(entries) ==
    LET idle == {k \in KeySet : ~InFlight(entries[k])}
    IN  {k \in idle : Cardinality({j \in idle : Place[j] < Place[k]}) < PerTick}

\* The keys asked at a tick: the first few in the rotation not in flight, those
\* with less than PerTick others before them.
Selected(entries) ==
    LET idle == {k \in KeySet : ~InFlight(entries[k])}
    IN  {k \in idle : Cardinality({j \in idle : Rotated(j) < Rotated(k)}) < PerTick}

\* Mutant: a key whose service is missing keeps what was known of it.
UnservedKept(o) == o

Unserved(o) == [o EXCEPT !.detail = "service_unavailable", !.value = None, !.left = 0]

\* Bound: of the calls that lose their token, one at a time is followed, any one.
Superseded(selected) ==
    {superseded} \cup {[key |-> k, answer |-> request[k]] : k \in {j \in selected : request[j] # None}}

\* _tick: expire, publish, ask.  Discovery may lag, so the services may seem to be
\* ready or not, whether the node runs or not.
Tick(ready) ==
    LET entries == [k \in KeySet |-> Expired(observation[k])]
        selected == Selected(entries)
        sent == IF ready THEN selected ELSE {}
    IN  /\ due /\ due' = FALSE
        /\ offset' = (offset + Cardinality(selected)) % Len(Keys)
        /\ observation' = [k \in KeySet |->
               IF k \in sent THEN Pending
               ELSE IF k \in selected THEN Unserved(entries[k]) ELSE entries[k]]
        /\ \E call \in Superseded(selected) : superseded' = call
        /\ request' = [k \in KeySet |->
               IF k \in sent THEN Asked ELSE IF k \in selected THEN None ELSE request[k]]
        /\ had' = [k \in KeySet |-> IF k \in sent THEN {parameter[k]} ELSE had[k]]
        /\ waited' = [k \in KeySet |->
               IF k \in selected \/ InFlight(entries[k]) THEN 0 ELSE waited[k] + 1]
        /\ UNCHANGED <<node, clock>>

\* _complete
Complete(k) ==
    /\ request[k] \notin {None, Asked}
    /\ request' = [request EXCEPT ![k] = None]
    /\ observation' = IF Resolves(k, TRUE)
                        THEN [observation EXCEPT ![k] = Resolved(request[k])] ELSE observation
    /\ UNCHANGED <<offset, superseded, node, time, history>>

CompleteSuperseded ==
    /\ superseded # None /\ superseded.answer # Asked
    /\ superseded' = None
    /\ observation' = IF Resolves(superseded.key, FALSE)
                        THEN [observation EXCEPT ![superseded.key] = Resolved(superseded.answer)]
                        ELSE observation
    /\ UNCHANGED <<offset, request, node, time, history>>

\* The observer is launched anew; the calls of the old one have no owner.
Restart ==
    /\ observation' = [k \in KeySet |-> Unasked] /\ offset' = 0
    /\ request' = [k \in KeySet |-> None] /\ superseded' = None
    /\ waited' = [k \in KeySet |-> 0]
    /\ clock' = 0 /\ due' = FALSE
    /\ UNCHANGED <<node, had>>

-------------------------------------------------------------------------------
(* The node asked, and time. *)

Answer(k) ==
    /\ up
    /\ request[k] = Asked
    /\ request' = [request EXCEPT ![k] = parameter[k]]
    /\ UNCHANGED <<observer, superseded, node, time, history>>

AnswerSuperseded ==
    /\ up
    /\ superseded # None /\ superseded.answer = Asked
    /\ superseded' = [superseded EXCEPT !.answer = parameter[superseded.key]]
    /\ UNCHANGED <<observer, request, node, time, history>>

SetParameter(k) ==
    /\ up
    /\ \E value \in Values \cup {Broken} : parameter' = [parameter EXCEPT ![k] = value]
    /\ had' = [had EXCEPT ![k] = @ \cup {parameter'[k]}]
    /\ UNCHANGED <<observer, calls, up, time, waited>>

\* It ends with the calls it has not answered, and comes back with the origin.
NodeEnds ==
    /\ up /\ up' = FALSE
    /\ request' = [k \in KeySet |-> IF request[k] = Asked THEN None ELSE request[k]]
    /\ superseded' = IF superseded # None /\ superseded.answer = Asked THEN None ELSE superseded
    /\ UNCHANGED <<observer, parameter, time, history>>

NodeStarts ==
    /\ ~up /\ up' = TRUE
    /\ parameter' = Origin
    /\ had' = [k \in KeySet |-> had[k] \cup {Origin[k]}]
    /\ UNCHANGED <<observer, calls, time, waited>>

\* The timer keeps its phase: a late firing does not delay the next.
Pass ==
    /\ clock' = (clock + 1) % Period
    /\ due' = (due \/ clock' = 0)
    /\ observation' = [k \in KeySet |->
           [observation[k] EXCEPT !.left = IF @ = 0 THEN 0 ELSE @ - 1]]
    /\ UNCHANGED <<offset, calls, node, history>>

Init ==
    /\ observation = [k \in KeySet |-> Unasked] /\ offset = 0
    /\ request = [k \in KeySet |-> None] /\ superseded = None
    /\ parameter = Origin /\ up = TRUE
    /\ clock = 0 /\ due = FALSE
    /\ had = [k \in KeySet |-> {Origin[k]}] /\ waited = [k \in KeySet |-> 0]

Next ==
    \/ \E ready \in BOOLEAN : Tick(ready)
    \/ \E k \in KeySet : Complete(k) \/ Answer(k)
    \/ CompleteSuperseded \/ AnswerSuperseded
    \/ \E k \in Drifting : SetParameter(k)
    \/ Restart \/ NodeEnds \/ NodeStarts
    \/ Pass

\* Time passes and the executor gets to the timer, unless the process is launched
\* anew: of the steps that change the clock or serve the timer only what they do to
\* it is fair, which is no more than the fairness of Pass and of Tick.
Advances == clock' = (clock + 1) % Period
Fires    == due /\ due' = FALSE

Spec == Init /\ [][Next]_vars /\ WF_clock(Advances) /\ WF_due(Fires)

-------------------------------------------------------------------------------
(* The properties. *)

Entries == [k \in KeySet |-> Expired(observation[k])]

\* An entry is in one of the states of build_entry, and a value is shown with
\* "available" only.
TypeOK ==
    /\ offset \in 0..Len(Keys) - 1
    /\ \A k \in KeySet :
          LET o == observation[k]
          IN  /\ o.left \in 0..Timeout
              /\ o.detail \in {"not_requested", "pending", "timeout", "service_unavailable",
                               "error", "available"}
              /\ o.value \in IF Available(o) THEN Values ELSE {None}

\* Whatever is shown of a key, match or difference, was true of the node at some
\* time since the key was asked last: no answer of an earlier call is taken for
\* the current one (resolve, _publish).
ReportIsTrue ==
    \A k \in KeySet : Available(Entries[k]) => Entries[k].value \in had[k]

\* A message that says all is available and nothing differs does so of a node whose
\* every parameter had the value of the origin since it was asked last (_publish).
SummaryIsTrue ==
    AllAvailable(Entries) /\ ~AnyDivergence(Entries) => \A k \in KeySet : Origin[k] \in had[k]

\* The invariant of the observer: its shape, and every message true of the node.
Inv == TypeOK /\ ReportIsTrue /\ SummaryIsTrue

\* A key is asked again within as many ticks as the rotation has rounds, though
\* keys in flight are passed over (_tick).
EveryKeyAsked == \A k \in KeySet : waited[k] * PerTick < Len(Keys)

\* A call never hangs: one whose answer is overdue is given up at last, so that
\* the key can be asked again (expire, Tick).
NoCallHangs ==
    \A k \in KeySet : []<>~(InFlight(observation[k]) /\ observation[k].left = 0)

\* If the node ends for good, every entry is unavailable in the end and the
\* summary with it (_tick, service_unavailable).
SilenceIsShown == <>[]~up => <>[](\A k \in KeySet : ~Available(observation[k]))

\* Neither a lost answer nor the end of the node leaves anything standing.
NothingLingers == NoCallHangs /\ SilenceIsShown
================================================================================
