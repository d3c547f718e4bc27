---------------------------- MODULE RelayService ----------------------------
(***************************************************************************)
(* What a RelayClient is to its caller: one call at a time, publish or     *)
(* query, that returns what RelayPromises allows while the store of the    *)
(* relay grows.  There are no frames, challenges, subscriptions or         *)
(* connections here; RelayClient is shown to implement it.                 *)
(***************************************************************************)
EXTENDS RelayPromises

CONSTANTS
    Events,    \* event ids
    Forged,    \* those that do not verify
    NoId       \* the id in a result that is about no event

VARIABLES
    store,     \* the events the relay holds
    call,      \* the call in progress, or "none"
    event,     \* what is being published
    asked,     \* the store when the query was made
    result     \* what the last call returned; Nothing while a call is in progress

vars == <<store, call, event, asked, result>>

Verdicts == {"accepted", "rejected", "timeout", "no_ok", "error"}
Endings  == {"eose", "closed", "idle"}

Result(op, out, e, ids) == [op |-> op, out |-> out, id |-> e, ids |-> ids]
Nothing == Result("none", "none", NoId, {})

Init ==
    /\ store = {} /\ call = "none" /\ event = NoId /\ asked = {} /\ result = Nothing

\* Events reach the relay from this client and from others; none is ever lost.
Grow ==
    /\ store' # store /\ store \subseteq store' /\ store' \subseteq Events
    /\ UNCHANGED <<call, event, asked, result>>

Publish ==
    /\ call = "none" /\ call' = "publish" /\ result' = Nothing
    /\ event' \in Events
    /\ UNCHANGED <<store, asked>>

PublishReturns ==
    /\ call = "publish" /\ call' = "none"
    /\ \E out \in Verdicts :
         MayReport(out, event, store) /\ result' = Result("publish", out, event, {})
    /\ UNCHANGED <<store, event, asked>>

Query ==
    /\ call = "none" /\ call' = "query" /\ result' = Nothing
    /\ asked' = store
    /\ UNCHANGED <<store, event>>

QueryReturns ==
    /\ call = "query" /\ call' = "none"
    /\ \E out \in Endings, ids \in SUBSET store :
         /\ MayAnswer(out = "eose", ids, asked \ Forged, store \ Forged)
         /\ result' = Result("query", out, NoId, ids)
    /\ UNCHANGED <<store, event, asked>>

\* A call that could not send its first frame, or a query that fails later.
CallFails ==
    /\ call' = "none"
    /\ \/ call = "none" /\ \E e \in Events : result' = Result("publish", "error", e, {})
       \/ call # "publish" /\ result' = Result("query", "error", NoId, {})
    /\ UNCHANGED <<store, event, asked>>

\* A call of another operation.
OtherCall ==
    /\ call = "none" /\ result' = Nothing
    /\ UNCHANGED <<store, call, event, asked>>

Next ==
    \/ Grow \/ Publish \/ PublishReturns \/ Query \/ QueryReturns \/ CallFails \/ OtherCall

Spec == Init /\ [][Next]_vars
=============================================================================
