--------------------------- MODULE BindingLookup ---------------------------
(***************************************************************************)
(* Nametag bindings as src/src/binding.rs publishes and looks them up:     *)
(* authors bind names and addresses, a relay keeps the newest event of     *)
(* every author and d tag, and anybody asks it by name, by address or by   *)
(* author, with the filters this module builds, and reads the bindings.    *)
(* Their kind, 30078, is that of application data of all sorts (NIP-78):   *)
(* authors have events of it that other applications publish for them, and *)
(* strangers some that carry the tags of bindings.                         *)
(*                                                                         *)
(* The filter travels in its JSON form and the relay selects by what       *)
(* NIP-01 says, which is what matches computes.  The content of an event   *)
(* is None if it is not JSON; that of a binding is the record of its text  *)
(* fields, in which a field that is left out has no entry.                 *)
(***************************************************************************)
EXTENDS Filter, Nametag

CONSTANTS
    Authors,     \* public keys of those who publish bindings
    Strangers,   \* those of other programs that use the same tags
    Apps,        \* other applications of the authors, by the d tags they use
    Names,       \* names as users type them
    Addresses,   \* addresses, other public keys included
    IdentitySets,\* bound: sets of identity fields that callers give
    AskLimit,    \* events an author lookup asks for (10 in the code)
    MaxInt,      \* largest value of created_at's type
    MaxBinds     \* bound: bindings made, and events of other programs

\* The optional fields of an identity, which the caller may give or leave out.
IdentityFields == {"public_key", "l1_address", "direct_address", "proxy_address"}

ASSUME LookupAssumption ==
    /\ Authors \cup Strangers \subseteq Ids /\ Authors \cap Strangers = {}
    /\ Names \cup Addresses \subseteq Seq(Tokens)
    /\ IdentitySets \subseteq SUBSET IdentityFields
    /\ AskLimit \in Nat \ {0} /\ MaxInt \in Nat /\ MaxBinds \in Nat
    /\ "t" \in TagFields

VARIABLES
    made,      \* the bindings made: what the callers asked for
    others,    \* history: what other applications published for the authors
    book,      \* relay: the events it holds
    reply      \* the last lookup and what it returned

lookupVars == <<made, others, book, reply>>

APP_DATA == 30078

Identities == UNION {[S -> Addresses] : S \in IdentitySets}
NoName     == <<>>

\* What a caller asks for: by whom, for which name (NoName: an identity binding),
\* to which address, with which identity (NoIdentity: none given), and when.
NoIdentity == [none |-> NoName]
Request(p, n, a, i, t) == [by |-> p, name |-> n, to |-> a, identity |-> i, at |-> t]

Nothing == [by |-> "nothing", of |-> NoName, infos |-> {}]

LookupInit == made = {} /\ others = {} /\ book = {} /\ reply = Nothing

-----------------------------------------------------------------------------
(* Making a binding.                                                       *)

Signed(p, tags, content, t) ==
    [id |-> p, pubkey |-> p, kind |-> APP_DATA, tags |-> tags,
     content |-> content, created_at |-> t]

identity_d_tag(p) == <<"unicity:identity:", p>>

\* The t tags of the identity's addresses.
identity_tags(i) == {<<"t", hash_address_for_tag(i[k])>> : k \in DOMAIN i}

\* Slip: the reverse lookup's tag of the address is left out.
NoReverse_binding_tags(h, a) == {<<"d", h>>, <<"L", NAMETAG_MARKER_LABEL>>, <<"nametag", h>>, <<"t", h>>, <<"address", a>>}

binding_tags(h, a) ==
    {<<"d", h>>, <<"L", NAMETAG_MARKER_LABEL>>, <<"nametag", h>>, <<"t", h>>,
     <<"address", a>>, <<"t", hash_address_for_tag(a)>>}

\* With an identity, the name as typed is part of the content, and two of its
\* fields have tags of their own.
create_binding_event(p, n, a, i, t) ==
    LET h      == hash_nametag(n)
        base   == [address |-> a]
        extra  == (IF "public_key" \in DOMAIN i THEN {<<"pubkey", i["public_key"]>>} ELSE {})
                  \cup (IF "l1_address" \in DOMAIN i THEN {<<"l1", i["l1_address"]>>} ELSE {})
    IN  IF i = NoIdentity THEN Signed(p, binding_tags(h, a), Some(base), t)
        ELSE Signed(p, binding_tags(h, a) \cup identity_tags(i) \cup extra,
                    Some([k \in {"address", "nametag"} \cup DOMAIN i |->
                        IF k = "address" THEN a ELSE IF k = "nametag" THEN n ELSE i[k]]), t)

create_identity_binding_event(p, i, t) ==
    Signed(p, {<<"d", identity_d_tag(p)>>} \cup identity_tags(i), Some(i), t)

d_tag(e) == (CHOOSE t \in e.tags : t[1] = "d")[2]

\* The relay keeps, of each author and d tag, the newest event; of two of the
\* same second, either.
Accept(e) ==
    LET rivals == {o \in book : o.pubkey = e.pubkey /\ d_tag(o) = d_tag(e)}
    IN  \/ /\ \A o \in rivals : o.created_at <= e.created_at
           /\ book' = (book \ rivals) \cup {e}
        \/ /\ \E o \in rivals : o.created_at >= e.created_at
           /\ UNCHANGED book

Room == Cardinality(made) + Cardinality(others) + Cardinality({e \in book : e.pubkey \in Strangers}) < MaxBinds

Bind ==
    /\ Room
    /\ \E p \in Authors, n \in Names, a \in Addresses, i \in Identities \cup {NoIdentity}, t \in Times :
         /\ is_valid_nametag(n)
         /\ made' = made \cup {Request(p, n, a, i, t)}
         /\ Accept(create_binding_event(p, n, a, i, t))
    /\ reply' = Nothing /\ UNCHANGED others

BindIdentity ==
    /\ Room
    /\ \E p \in Authors, i \in Identities, t \in Times :
         /\ made' = made \cup {Request(p, NoName, NoName, i, t)}
         /\ Accept(create_identity_binding_event(p, i, t))
    /\ reply' = Nothing /\ UNCHANGED others

\* Another program's event of the same kind and tag, which is no JSON.
OtherEvent ==
    /\ Room
    /\ \E p \in Strangers, n \in Names :
         Accept(Signed(p, {<<"d", NoName>>, <<"t", hash_nametag(n)>>}, None, 1))
    /\ reply' = Nothing /\ UNCHANGED <<made, others>>

\* An author's data of another application: a d tag of its own, no t tag, and no
\* content in which a field of a binding could be read.
app_event(p, x, t) == Signed(p, {<<"d", <<"application:", x>>>>}, None, t)

AppEvent ==
    /\ Room
    /\ \E p \in Authors, x \in Apps, t \in Times :
         /\ others' = others \cup {[by |-> p, app |-> x, at |-> t]}
         /\ Accept(app_event(p, x, t))
    /\ reply' = Nothing /\ UNCHANGED made

-----------------------------------------------------------------------------
(* Looking bindings up.                                                    *)

\* The filter with the fields of w set.
Built(w) == [k \in Fields |-> IF k \in DOMAIN w THEN Some(w[k]) ELSE None]

create_nametag_to_pubkey_filter(n)  == Built([kinds |-> {APP_DATA}, t |-> {hash_nametag(n)}])
create_address_to_binding_filter(a) == Built([kinds |-> {APP_DATA}, t |-> {hash_address_for_tag(a)}])
create_pubkey_to_nametag_filter(p)  == Built([kinds |-> {APP_DATA}, authors |-> {p}, limit |-> AskLimit])

\* The relay's answer: what the filter selects, the newest ones if it has a limit.
Answers(g) ==
    LET r == from_json(to_json(g))
        S == {e \in book : matches(r, e)}
    IN  {T \in SUBSET S :
           /\ \A n \in r["limit"] : Cardinality(T) = IF n < Cardinality(S) THEN n ELSE Cardinality(S)
           /\ r["limit"] = None => T = S
           /\ \A e \in T, o \in S \ T : o.created_at <= e.created_at}

\* Slip: the product wraps round to the negative numbers.
Wrapping_millis(t) == IF t * 1000 <= MaxInt THEN t * 1000 ELSE t * 1000 - 2 * MaxInt

\* created_at.saturating_mul(1000).
millis(t) ==
    CASE t * 1000 > MaxInt        -> MaxInt
      [] t * 1000 < -(MaxInt + 1) -> -(MaxInt + 1)
      [] OTHER                    -> t * 1000

\* The fields of content c that BindingInfo has.
Known(c) == [k \in DOMAIN c \cap (IdentityFields \cup {"nametag"}) |-> c[k]]

\* What can be read of a binding; of an unreadable content, nothing but the
\* author and the time.
parse_binding_info(e) ==
    [transport_pubkey |-> e.pubkey,
     fields    |-> IF e.content = None THEN <<>> ELSE Known(CHOOSE c \in e.content : TRUE),
     timestamp |-> millis(e.created_at)]

Look(g, by, of) ==
    /\ \E T \in Answers(g) :
         reply' = [by |-> by, of |-> of, infos |-> {parse_binding_info(e) : e \in T}]
    /\ UNCHANGED <<made, others, book>>

AskName    == \E n \in Names : Look(create_nametag_to_pubkey_filter(n), "name", n)
AskAddress == \E a \in Addresses : Look(create_address_to_binding_filter(a), "address", a)
AskAuthor  == \E p \in Authors : Look(create_pubkey_to_nametag_filter(p), "author", p)

LookupNext ==
    \/ Bind \/ BindIdentity \/ OtherEvent \/ AppEvent
    \/ AskName \/ AskAddress \/ AskAuthor

LookupSpec == LookupInit /\ [][LookupNext]_lookupVars

-----------------------------------------------------------------------------
(* What a lookup should find, by what was asked for alone.                 *)

SameLetters(s, t) == Len(s) = Len(t) /\ \A k \in DOMAIN s : Lower[s[k]] = Lower[t[k]]

\* What lies between positions i and j of text n is all of it but the white
\* space around.
Core(n, i, j) ==
    /\ i <= j
    /\ \A k \in (1..i) \cup ((j + 1)..Len(n)) : n[k] = Space
    /\ i < j => n[i + 1] # Space /\ n[j] # Space

HasSuffix(s) ==
    /\ Len(s) >= Len(Suffix)
    /\ SameLetters(SubSeq(s, Len(s) - Len(Suffix) + 1, Len(s)), Suffix)

\* Neither case nor one "@unicity" at the end tells names apart.
Alike(s, t) ==
    \/ SameLetters(s, t)
    \/ SameLetters(s, t \o Suffix) /\ ~HasSuffix(t)
    \/ SameLetters(t, s \o Suffix) /\ ~HasSuffix(s)

\* Two texts name the same.
SameName(n, m) ==
    \E i, j \in 0..Len(n) :
        /\ Core(n, i, j)
        /\ \E k, l \in 0..Len(m) :
             Core(m, k, l) /\ Alike(SubSeq(n, i + 1, j), SubSeq(m, k + 1, l))

\* Two requests of one author about the same thing: the newer one replaces the
\* other.
SameThing(c, d) ==
    /\ c.by = d.by
    /\ (c.name = NoName) = (d.name = NoName)
    /\ c.name # NoName => SameName(c.name, d.name)

Current == {c \in made : \A d \in made : SameThing(c, d) => d.at <= c.at}

\* What a binding made by request c should be read as.
Promised(c) ==
    LET given == IF c.identity = NoIdentity THEN <<>> ELSE c.identity
        named == IF c.identity = NoIdentity \/ c.name = NoName THEN {} ELSE {"nametag"}
    IN  [transport_pubkey |-> c.by,
         fields    |-> [k \in DOMAIN given \cup named |-> IF k = "nametag" THEN c.name ELSE given[k]],
         timestamp |-> IF c.at * 1000 \in -(MaxInt + 1)..MaxInt THEN c.at * 1000
                       ELSE IF c.at > 0 THEN MaxInt ELSE -(MaxInt + 1)]

Mentions(c, a) ==
    \/ c.name # NoName /\ c.to = a
    \/ c.identity # NoIdentity /\ \E k \in DOMAIN c.identity : c.identity[k] = a

Infos == {x \in reply.infos : x.transport_pubkey \in Authors}

\* Nothing is found but what a current request in W promises, and something is
\* found of every thing all of whose current requests are in W.
Sound(W) ==
    LET due == W \cap Current IN \A x \in Infos : \E c \in due : x = Promised(c)
Complete(W) ==
    LET due == Current
    IN  \A c \in due :
          LET same == {d \in due : SameThing(c, d)}
          IN  same \subseteq W => \E d \in same : Promised(d) \in Infos

\* A name is found under every spelling of it and under no other, by every author
\* that bound it, with what the author's latest binding of it says.
FoundByName ==
    reply.by = "name" =>
        LET W == {c \in made : c.name # NoName /\ SameName(c.name, reply.of)}
        IN  Sound(W) /\ Complete(W)

\* An address is found as the address of a name and as any field of an identity,
\* never by the name it happens to read like, and no longer once the author has
\* bound the name to another.
FoundByAddress ==
    reply.by = "address" =>
        LET W == {c \in made : Mentions(c, reply.of)} IN Sound(W) /\ Complete(W)

\* What other data of author p, published at t, is read as: a binding of nothing.
Empty(p, t) == [transport_pubkey |-> p, fields |-> <<>>, timestamp |-> millis(t)]

\* What is found of an author is the author's current bindings, and an entry without
\* any field for other application data of the author, which has the same kind.
\* A current binding is left out only if the author has more things of that kind
\* than the lookup asks for, and then nothing older is found in its place: times
\* beyond the range of milliseconds stay the latest and the earliest there are.
FoundByAuthor ==
    reply.by = "author" =>
        LET W      == {c \in made : c.by = reply.of}
            A      == {o \in others : o.by = reply.of}
            things == {{d \in W : SameThing(c, d)} : c \in W}
            apps   == {o.app : o \in A}
            due    == W \cap Current
        IN  /\ \A x \in Infos : \/ \E c \in due : x = Promised(c)
                               \/ \E o \in A : x = Empty(o.by, o.at)
            /\ \A c \in due :
                 \/ \E d \in due : SameThing(c, d) /\ Promised(d) \in Infos
                 \/ /\ Cardinality(things) + Cardinality(apps) > AskLimit
                    /\ \A x \in Infos : Promised(c).timestamp <= x.timestamp
=============================================================================
