------------------------------- MODULE Filter -------------------------------
(***************************************************************************)
(* NIP-01 filters (src/src/filter.rs): a builder that a caller sets field  *)
(* by field, the JSON form that a REQ carries to the relay, and the local  *)
(* test `matches`.                                                         *)
(*                                                                         *)
(* A filter maps each field to an Option: {} for None, {v} for Some(v).    *)
(* The value of a list field is the set of its members: the code only asks *)
(* whether the list is empty and what it contains.  Ids and public keys    *)
(* are sequences of digits, so that the prefixes ids and authors select by *)
(* are modelled; their length is IdLen instead of 64.                      *)
(***************************************************************************)
EXTENDS Integers, Sequences, FiniteSets

CONSTANTS
    Digits,      \* the digits of ids and public keys
    IdLen,       \* their length
    EventKinds,  \* event kinds
    TagFields,   \* names of the tags a filter can select by ("e", "p", ...)
    TagValues,   \* values of tags
    Times,       \* values of created_at, since and until
    MaxList,     \* bound: members of a list
    MaxSets      \* bound: calls of setters

ASSUME FilterAssumption ==
    /\ IdLen \in Nat /\ MaxList \in Nat \ {0} /\ MaxSets \in Nat
    /\ Times \subseteq Int
    /\ TagFields \cap {"ids", "authors", "kinds", "since", "until", "limit"} = {}

VARIABLES
    f,      \* the filter being built
    built,  \* has build been called?
    sets    \* setters called so far (bounded by MaxSets)

vars == <<f, built, sets>>

None    == {}
Some(v) == {v}

VecFields == {"ids", "authors", "kinds"} \cup TagFields
Fields    == VecFields \cup {"since", "until", "limit"}

Ids      == [1..IdLen -> Digits]
Prefixes == UNION {[1..n -> Digits] : n \in 0..IdLen}

Limits == 0..1

Lists(S) == {vals \in SUBSET S : Cardinality(vals) <= MaxList}

\* What the setter of field k accepts: of lists, the empty one too.
Values(k) ==
    CASE k \in {"ids", "authors"}   -> Lists(Prefixes)
      [] k = "kinds"                -> Lists(EventKinds)
      [] k \in TagFields            -> Lists(TagValues)
      [] k \in {"since", "until"}   -> Times
      [] k = "limit"                -> Limits

\* An event as matches reads it.  A tag is a list of strings: it may be empty or
\* lack a value, and what follows the value is not looked at.
Tags   == {<<>>} \cup {<<n>> : n \in TagFields}
          \cup {<<n, v>> : n \in TagFields, v \in TagValues}
Event(i, p, k, ts, t) == [id |-> i, pubkey |-> p, kind |-> k, tags |-> ts, created_at |-> t]

-----------------------------------------------------------------------------
(* The builder.  Each setter replaces the value of one field.              *)

TypeOK ==
    /\ DOMAIN f = Fields
    /\ \A k \in Fields : f[k] = None \/ \E v \in Values(k) : f[k] = Some(v)
    /\ built \in BOOLEAN
    /\ sets \in 0..MaxSets

Init == f = [k \in Fields |-> None] /\ built = FALSE /\ sets = 0

\* Slip: a second call adds to the first instead of replacing it.
Adding_Set(k, v) == f' = [f EXCEPT ![k] = @ \cup Some(v)]

Set(k, v) == f' = [f EXCEPT ![k] = Some(v)]

setter(k) ==
    /\ ~built /\ sets < MaxSets /\ sets' = sets + 1
    /\ \E v \in Values(k) : Set(k, v)
    /\ UNCHANGED built

\* kind(k), the convenience for a single kind.
kind ==
    /\ ~built /\ sets < MaxSets /\ sets' = sets + 1
    /\ \E k \in EventKinds : Set("kinds", {k})
    /\ UNCHANGED built

build == ~built /\ built' = TRUE /\ UNCHANGED <<f, sets>>

Done == built /\ UNCHANGED vars

Next == kind \/ build \/ Done \/ \E k \in Fields : setter(k)

Spec == Init /\ [][Next]_vars

-----------------------------------------------------------------------------
(* matches.                                                                *)

starts_with(s, p) == Len(p) <= Len(s) /\ SubSeq(s, 1, Len(p)) = p

is_empty(o) == \A v \in o : v = {}

tag_matches(name, wanted, e) ==
    \/ is_empty(wanted)
    \/ \E t \in e.tags : Len(t) >= 2 /\ t[1] = name /\ \E vals \in wanted : t[2] \in vals

prefix_matches(wanted, s) ==
    is_empty(wanted) \/ \E vals \in wanted : \E p \in vals : starts_with(s, p)

\* Slip: it is enough that one of the tag fields is met.
OneTag_matches(g, e) ==
    /\ prefix_matches(g["ids"], e.id)
    /\ prefix_matches(g["authors"], e.pubkey)
    /\ \A vals \in g["kinds"] : e.kind \in vals
    /\ LET asked == {n \in TagFields : ~is_empty(g[n])}
       IN  asked = {} \/ \E n \in asked : tag_matches(n, g[n], e)
    /\ \A t \in g["since"] : e.created_at >= t
    /\ \A t \in g["until"] : e.created_at <= t

matches(g, e) ==
    /\ prefix_matches(g["ids"], e.id)
    /\ prefix_matches(g["authors"], e.pubkey)
    /\ \A vals \in g["kinds"] : e.kind \in vals
    /\ \A n \in TagFields : tag_matches(n, g[n], e)
    /\ \A t \in g["since"] : e.created_at >= t
    /\ \A t \in g["until"] : e.created_at <= t

-----------------------------------------------------------------------------
(* The JSON form: an object whose keys are the fields that are present.    *)

\* Slip: the upper bound on time is not sent.
NoUntil_skipped(g, k) == k = "until" \/ (IF k \in VecFields THEN is_empty(g[k]) ELSE g[k] = None)

skipped(g, k) == IF k \in VecFields THEN is_empty(g[k]) ELSE g[k] = None

to_json(g) == [k \in {j \in Fields : ~skipped(g, j)} |-> CHOOSE v \in g[k] : TRUE]

from_json(w) == [k \in Fields |-> IF k \in DOMAIN w THEN Some(w[k]) ELSE None]
-----------------------------------------------------------------------------

\* Events that differ in all that a filter looks at.
Probes ==
    {Event(i, p, k, ts, t) : i \in Ids, p \in Ids, k \in EventKinds,
                             ts \in {{tag} : tag \in Tags} \cup {{}, Tags}, t \in Times}

Selected(g) == {e \in Probes : matches(g, e)}

\* The filter that the relay reads from a REQ selects the same events as the
\* filter that the client tests with, except when kinds is an empty list.
WireMatches == built /\ f["kinds"] # Some({}) => Selected(from_json(to_json(f))) = Selected(f)

\* Setting a field that was not set never makes a filter select more, whatever
\* the other fields are.
Narrows ==
    [][\A k \in Fields : f[k] = None /\ f'[k] # None => Selected(f') \subseteq Selected(f)]_vars

\* "Absent (None/empty) fields impose no constraint."
EmptyIsNoConstraint ==
    \A k \in VecFields :
        f[k] = Some({}) => Selected(f) = Selected([f EXCEPT ![k] = None])
=============================================================================
