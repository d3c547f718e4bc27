-------------------------- MODULE OwnerResolution --------------------------
(***************************************************************************)
(* UNIP-01 nametag resolution (src/src/binding.rs): who owns a nametag,    *)
(* given the binding events an untrusted relay answers a query with.       *)
(*                                                                         *)
(* The relay may answer with any binding event of this SDK, bindings of    *)
(* older clients (without the ownership marker), events of another kind    *)
(* and events whose signature does not verify, in any order and any        *)
(* number of times.  resolve_filtered then makes one pass over the answer, *)
(* keeping each author's latest event, and selects among the authors.      *)
(***************************************************************************)
EXTENDS Integers, Sequences

CONSTANTS
    Authors,      \* public keys
    Names,        \* nametags, as hash_nametag tells them apart
    Want,         \* the nametag asked for
    Times,        \* values of created_at: self-asserted by the author
    MaxEvents     \* bound: length of the relay's answer

ASSUME ResolutionAssumption ==
    /\ Want \in Names /\ Times \subseteq Int /\ MaxEvents \in Nat
    /\ "identity" \notin Names /\ "none" \notin Names

VARIABLES
    events,   \* the relay's answer
    mode,     \* "nametag": resolve_nametag_owner; "owner": resolve_owner
    pc,       \* "answer" while the relay answers, "scan", "choose", "done"
    i,        \* scan: index of the next event
    latest,   \* scan: author -> index of its latest included event, 0 if none
    result    \* index of the owner's event, 0 for None

vars == <<events, mode, pc, i, latest, result>>

-----------------------------------------------------------------------------
(* Events.  d is the value of the first "d" tag, "none" without one;       *)
(* content tells whether it parses to an object with a non-empty           *)
(* nametag_hash and address; sig whether id and signature verify.          *)

Event ==
    [pubkey : Authors, created_at : Times, kind : {"app_data", "other"},
     d : Names \cup {"identity", "none"}, marked : BOOLEAN,
     content : {"binding", "incomplete"}, sig : BOOLEAN]

Ev(a, t, k, d, m, c, s) ==
    [pubkey |-> a, created_at |-> t, kind |-> k, d |-> d, marked |-> m,
     content |-> c, sig |-> s]

\* A nametag binding of this SDK; an empty address makes it incomplete.
create_binding_event(a, n, address, t) ==
    Ev(a, t, "app_data", n, TRUE, IF address = "" THEN "incomplete" ELSE "binding", TRUE)

\* The key's one identity binding: no nametag, no marker.
create_identity_binding_event(a, t) ==
    Ev(a, t, "app_data", "identity", FALSE, "incomplete", TRUE)

\* Events that this SDK does not make: a binding without the marker, and events
\* with it that are of another kind, badly signed or without a "d" tag.
legacy(a, n, t) == Ev(a, t, "app_data", n, FALSE, "binding", TRUE)
note(a, t)      == Ev(a, t, "other", Want, TRUE, "binding", TRUE)
forgery(a, t)   == Ev(a, t, "app_data", Want, TRUE, "binding", FALSE)
untagged(a, t)  == Ev(a, t, "app_data", "none", TRUE, "binding", TRUE)

Addresses == {"address", ""}
Created   == {create_binding_event(a, n, x, t) :
                a \in Authors, n \in Names, x \in Addresses, t \in Times}
Identity  == {create_identity_binding_event(a, t) : a \in Authors, t \in Times}
Legacy    == {legacy(a, n, t) : a \in Authors, n \in Names, t \in Times}
Notes     == {note(a, t) : a \in Authors, t \in Times}
Forgery   == {forgery(a, t) : a \in Authors, t \in Times}
Untagged  == {untagged(a, t) : a \in Authors, t \in Times}

Answers == Created \cup Identity \cup Legacy \cup Notes \cup Forgery \cup Untagged

verify(e) == e.sig

has_ownership_marker(e) == e.marked

is_valid_binding_event(e) ==
    e.kind = "app_data" /\ e.d # "none" /\ e.content = "binding" /\ verify(e)

\* Slip: a valid binding of whatever nametag is counted.
AnyName_include(e) ==
    CASE mode = "nametag" -> is_valid_binding_event(e)
      [] mode = "owner"   -> verify(e)

\* The closure each entry point passes to resolve_filtered.
include(e) ==
    CASE mode = "nametag" -> is_valid_binding_event(e) /\ e.d = Want
      [] mode = "owner"   -> verify(e)

-----------------------------------------------------------------------------

TypeOK ==
    /\ events \in Seq(Event)
    /\ mode \in {"nametag", "owner"}
    /\ pc \in {"answer", "scan", "choose", "done"}
    /\ i \in 1..(Len(events) + 1)
    /\ latest \in [Authors -> 0..Len(events)]
    /\ result \in 0..Len(events)

Init ==
    /\ events = <<>> /\ mode = "nametag" /\ pc = "answer" /\ i = 1
    /\ latest = [a \in Authors |-> 0] /\ result = 0

\* The relay's answer grows by one event.
Deliver ==
    /\ pc = "answer" /\ Len(events) < MaxEvents
    /\ \E e \in Answers : events' = Append(events, e)
    /\ UNCHANGED <<mode, pc, i, latest, result>>

\* resolve_nametag_owner or resolve_owner is called on the answer.
Resolve ==
    /\ pc = "answer" /\ pc' = "scan"
    /\ mode' \in {"nametag", "owner"}
    /\ UNCHANGED <<events, i, latest, result>>

\* Slip: the first event of an author stays.
FirstStays_Newer(a) == latest[a] = 0

\* Slip: equal times, too, replace the author's event.
LaterWins_Newer(a) == latest[a] = 0 \/ events[i].created_at >= events[latest[a]].created_at

\* Is event i the first, or strictly newer than, the one kept for author a?
Newer(a) == latest[a] = 0 \/ events[i].created_at > events[latest[a]].created_at

\* Slip: the index kept is that of the next event.
Shifted_Scan ==
    /\ pc = "scan" /\ i <= Len(events)
    /\ LET a == events[i].pubkey IN
         latest' = IF include(events[i]) /\ Newer(a)
                   THEN [latest EXCEPT ![a] = i + 1] ELSE latest
    /\ i' = i + 1
    /\ UNCHANGED <<events, mode, pc, result>>

\* One iteration of the loop over the events.
Scan ==
    /\ pc = "scan" /\ i <= Len(events)
    /\ LET a == events[i].pubkey IN
         latest' = IF include(events[i]) /\ Newer(a)
                   THEN [latest EXCEPT ![a] = i] ELSE latest
    /\ i' = i + 1
    /\ UNCHANGED <<events, mode, pc, result>>

ScanEnds ==
    /\ pc = "scan" /\ i = Len(events) + 1 /\ pc' = "choose"
    /\ UNCHANGED <<events, mode, i, latest, result>>

Kept == {latest[a] : a \in Authors} \ {0}

\* Slip: the marker is not asked for.
NoMarker_Owners == Kept

\* Slip: of several authors, those with the latest event are preferred.
LatestFirst_Owners ==
    {k \in Kept : \A m \in Kept : events[m].created_at <= events[k].created_at}

\* The marked ones if there are any, else all.
Owners ==
    LET marked == {k \in Kept : has_ownership_marker(events[k])}
    IN  IF marked = {} THEN Kept ELSE marked

Choose ==
    /\ pc = "choose" /\ pc' = "done"
    /\ result' = IF \E k \in Owners : Owners = {k} THEN CHOOSE k \in Owners : TRUE ELSE 0
    /\ UNCHANGED <<events, mode, i, latest>>

Done == pc = "done" /\ UNCHANGED vars

Next == Deliver \/ Resolve \/ Scan \/ ScanEnds \/ Choose \/ Done

Spec == Init /\ [][Next]_vars

-----------------------------------------------------------------------------
(* What UNIP-01 promises, stated on any answer q at once.                  *)

Counted(q) == {j \in DOMAIN q : include(q[j])}

\* The event in force for each author: the newest, the first delivered of
\* several equally new ones.
InForce(q) ==
    {j \in Counted(q) : \A k \in Counted(q) :
        q[k].pubkey = q[j].pubkey =>
            \/ q[k].created_at < q[j].created_at
            \/ q[k].created_at = q[j].created_at /\ j <= k}

Claims(q) ==
    LET marked == {j \in InForce(q) : has_ownership_marker(q[j])}
    IN  IF marked = {} THEN InForce(q) ELSE marked

\* The authors left; the nametag is owned if there is exactly one.
Claimants(q) == {q[j].pubkey : j \in Claims(q)}
Owner(q)     == IF \E a \in Authors : Claimants(q) = {a} THEN Claimants(q) ELSE {}

ResultOwner == IF result = 0 THEN {} ELSE {events[result].pubkey}

\* The pass over the answer finds the one event in force that claims the
\* nametag, and nothing if several authors' events or none do.
OwnerCorrect ==
    pc = "done" => IF \E j \in Claims(events) : Claims(events) = {j}
                   THEN Claims(events) = {result} ELSE result = 0

\* created_at is self-asserted, so it never chooses between authors: had an
\* author dated all its events earlier or later, the same key (or none) wins.
ClockNeverChooses ==
    pc = "done" => \A a \in Authors, s \in {-2, 2} :
        ResultOwner = Owner([j \in DOMAIN events |->
            IF events[j].pubkey = a
            THEN [events[j] EXCEPT !.created_at = @ + s] ELSE events[j]])

\* Unless an author has two equally new events of which one is marked, the
\* order in which the relay delivers the events is irrelevant.
NoTies ==
    \A j, k \in Counted(events) :
        /\ events[j].pubkey = events[k].pubkey
        /\ events[j].created_at = events[k].created_at
        => events[j].marked = events[k].marked
Reversed == [j \in DOMAIN events |-> events[Len(events) + 1 - j]]
Rotated  == [j \in DOMAIN events |-> events[1 + (j % Len(events))]]
OrderIrrelevant ==
    pc = "done" /\ NoTies => ResultOwner = Owner(Reversed) /\ ResultOwner = Owner(Rotated)

\* The ways to leave events out of the answer: the indices that stay, in order.
Remainders ==
    UNION {{p \in [1..m -> DOMAIN events] : \A j, k \in 1..m : j < k => p[j] < p[k]} :
           m \in 0..Len(events)}

\* resolve_nametag_owner is not moved by what does not match the query: leave any
\* events of other names, kinds and forgers out of the answer, and the owner stays.
Matches(e) == e.kind = "app_data" /\ e.d = Want /\ e.content = "binding" /\ e.sig
InjectionHarmless ==
    pc = "done" /\ mode = "nametag" =>
        \A p \in Remainders :
            (\A k \in DOMAIN events : Matches(events[k]) => \E j \in DOMAIN p : p[j] = k)
            => ResultOwner = Owner([j \in DOMAIN p |-> events[p[j]]])

\* Bind and resolve: if a key's own latest valid binding of the nametag was made
\* by create_binding_event and no other key ever made one, that key is the
\* owner, however many bindings of older clients there are.
SoleClaimantWins ==
    pc = "done" /\ mode = "nametag" =>
        \A a \in Authors :
            /\ \E j \in InForce(events) : events[j].pubkey = a /\ events[j].marked
            /\ \A j \in Counted(events) : events[j].marked => events[j].pubkey = a
            => ResultOwner = {a}
=============================================================================
