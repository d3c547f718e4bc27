------------------------ MODULE BindingLookupProofs ------------------------
(***************************************************************************)
(* Proofs about Filter and BindingLookup: of filters, that the JSON form   *)
(* asks for the events that matches selects, and that setting a further    *)
(* field never widens one; of lookups, that those by name, by address and  *)
(* by author find exactly what the bindings asked for amount to, for every *)
(* set of authors, names, addresses and times.  After filters come the     *)
(* normal form of names, what one event says, what the relay holds         *)
(* (BookInv), what the filters select, and what a lookup has found.        *)
(***************************************************************************)
EXTENDS BindingLookup, FiniteSetTheorems, WellFoundedInduction, TLAPS

-----------------------------------------------------------------------------
(* Filters.                                                                *)

LEMMA FieldNames ==
    /\ Fields = {"ids", "authors", "kinds", "since", "until", "limit"} \cup TagFields
    /\ VecFields = {"ids", "authors", "kinds"} \cup TagFields
    /\ "since" \notin VecFields /\ "until" \notin VecFields
  BY FilterAssumption DEF Fields, VecFields

\* A list of one kind is a list the setter of kinds accepts.
LEMMA OneKind == \A k \in EventKinds : {k} \in Values("kinds")
<1> SUFFICES ASSUME NEW k \in EventKinds PROVE {k} \in Values("kinds")
  OBVIOUS
<1>1. Cardinality({k}) = 1
  BY FS_Singleton
<1>2. {k} \in Lists(EventKinds)
  BY <1>1, FilterAssumption DEF Lists
<1>3. Values("kinds") = Lists(EventKinds)
  BY FilterAssumption DEF Values
<1> QED
  BY <1>2, <1>3

LEMMA SetType ==
    ASSUME TypeOK, NEW k \in Fields, NEW v \in Values(k), Set(k, v)
    PROVE  /\ DOMAIN f' = Fields
           /\ \A j \in Fields : f'[j] = None \/ \E w \in Values(j) : f'[j] = Some(w)
  BY DEF TypeOK, Set

\* Every field of a filter is None or a value that its setter accepts.
THEOREM FiltersTyped == Spec => []TypeOK
<1>1. ASSUME Init PROVE TypeOK
  <2>1. f = [k \in Fields |-> None] /\ sets = 0
    BY <1>1 DEF Init
  <2>2. DOMAIN f = Fields /\ \A k \in Fields : f[k] = None
    BY <2>1
  <2>3. sets \in 0..MaxSets
    BY <2>1, FilterAssumption
  <2>4. built \in BOOLEAN
    BY <1>1, Zenon DEF Init
  <2> QED
    BY <2>2, <2>3, <2>4 DEF TypeOK
<1>2. TypeOK /\ [Next]_vars => TypeOK'
  <2> SUFFICES ASSUME TypeOK, [Next]_vars PROVE TypeOK'
    OBVIOUS
  <2>1. CASE \E k \in Fields : setter(k)
    <3>1. PICK k \in Fields : setter(k)
      BY <2>1
    <3>2. PICK v \in Values(k) : Set(k, v)
      BY <3>1 DEF setter
    <3>3. sets' \in 0..MaxSets /\ built' \in BOOLEAN
      BY <3>1, FilterAssumption DEF setter, TypeOK
    <3> QED
      BY <3>2, <3>3, SetType DEF TypeOK
  <2>2. CASE kind
    <3>1. PICK k \in EventKinds : Set("kinds", {k})
      BY <2>2 DEF kind
    <3>2. sets' \in 0..MaxSets /\ built' \in BOOLEAN
      BY <2>2, FilterAssumption DEF kind, TypeOK
    <3> QED
      BY <3>1, <3>2, OneKind, SetType, FieldNames DEF TypeOK
  <2>3. CASE build
    BY <2>3 DEF build, TypeOK
  <2>4. CASE UNCHANGED vars
    BY <2>4 DEF vars, TypeOK
  <2> QED
    BY <2>1, <2>2, <2>3, <2>4 DEF Next, Done
<1> QED
  BY <1>1, <1>2, PTL DEF Spec

-----------------------------------------------------------------------------
(* A field that is not set constrains nothing.                             *)

\* Filters that agree with g except that some field of g is None select no more
\* than g: each conjunct of matches reads one field, and None satisfies it.
LEMMA UnsetSelectsMore ==
    ASSUME NEW g, NEW h, NEW e, matches(h, e),
           \A j \in Fields : g[j] = None \/ g[j] = h[j]
    PROVE  matches(g, e)
<1>1. prefix_matches(g["ids"], e.id)
  BY FieldNames DEF matches, prefix_matches, is_empty, None
<1>2. prefix_matches(g["authors"], e.pubkey)
  BY FieldNames DEF matches, prefix_matches, is_empty, None
<1>3. \A vals \in g["kinds"] : e.kind \in vals
  BY FieldNames DEF matches, None
<1>4. \A n \in TagFields : tag_matches(n, g[n], e)
  BY FieldNames DEF matches, tag_matches, is_empty, None
<1>5. /\ \A t \in g["since"] : e.created_at >= t
      /\ \A t \in g["until"] : e.created_at <= t
  BY FieldNames DEF matches, None
<1> QED
  BY <1>1, <1>2, <1>3, <1>4, <1>5 DEF matches

\* Setting a field that was not set never makes the filter select more.
THEOREM SettersNarrow == Spec => Narrows
<1> DEFINE A == \A k \in Fields : f[k] = None /\ f'[k] # None => Selected(f') \subseteq Selected(f)
<1>1. ASSUME TypeOK, NEW k \in Fields, NEW v, Set(k, v)
      PROVE  A
  <2> SUFFICES ASSUME NEW j \in Fields, f[j] = None, f'[j] # None
               PROVE  Selected(f') \subseteq Selected(f)
    OBVIOUS
  <2>1. k = j /\ \A i \in Fields : f[i] = None \/ f[i] = f'[i]
    BY <1>1 DEF Set, TypeOK
  <2>2. \A e : matches(f', e) => matches(f, e)
    BY <2>1, UnsetSelectsMore
  <2> QED
    BY <2>2 DEF Selected
<1>2. TypeOK /\ [Next]_vars => [A]_vars
  <2> SUFFICES ASSUME TypeOK, Next PROVE A
    OBVIOUS
  <2>1. CASE \E k \in Fields : setter(k)
    BY <2>1, <1>1 DEF setter
  <2>2. CASE kind
    BY <2>2, <1>1, FieldNames DEF kind
  <2>3. CASE build \/ Done
    BY <2>3 DEF build, Done, vars
  <2> QED
    BY <2>1, <2>2, <2>3 DEF Next
<1> QED
  BY <1>2, FiltersTyped, PTL DEF Spec, Narrows

-----------------------------------------------------------------------------
(* The JSON form.                                                          *)

\* A field survives the JSON form, except that an empty list becomes None.
LEMMA FieldsSurvive ==
    ASSUME TypeOK, NEW k \in Fields
    PROVE  \/ from_json(to_json(f))[k] = f[k]
           \/ /\ k \in VecFields /\ is_empty(f[k])
              /\ from_json(to_json(f))[k] = None
<1>1. k \in DOMAIN to_json(f) <=> ~skipped(f, k)
  BY DEF to_json
<1>2. CASE skipped(f, k)
  <2>1. from_json(to_json(f))[k] = None
    BY <1>1, <1>2 DEF from_json
  <2> QED
    BY <2>1, <1>2 DEF skipped
<1>3. CASE ~skipped(f, k)
  <2>1. f[k] # None
    BY <1>3 DEF skipped, is_empty, None
  <2>2. PICK v \in Values(k) : f[k] = {v}
    BY <2>1 DEF TypeOK, Some
  <2>3. to_json(f)[k] = CHOOSE w \in f[k] : TRUE
    BY <1>3 DEF to_json
  <2>4. to_json(f)[k] = v
    BY <2>2, <2>3
  <2>5. from_json(to_json(f))[k] = Some(to_json(f)[k])
    BY <1>1, <1>3 DEF from_json
  <2> QED
    BY <2>2, <2>4, <2>5 DEF Some
<1> QED
  BY <1>2, <1>3

\* What the relay reads from the REQ selects what matches selects, for every
\* filter whose kinds are not an empty list.
THEOREM WireIsFaithful == Spec => []WireMatches
<1>1. TypeOK => WireMatches
  <2> SUFFICES ASSUME TypeOK, f["kinds"] # Some({})
               PROVE  Selected(from_json(to_json(f))) = Selected(f)
    BY DEF WireMatches
  <2> DEFINE g == from_json(to_json(f))
  <2>1. \A k \in Fields : g[k] = f[k] \/ (k \in VecFields /\ is_empty(f[k]) /\ g[k] = None)
    BY FieldsSurvive
  <2> HIDE DEF g
  <2>2. ASSUME NEW e, matches(f, e) PROVE matches(g, e)
    BY <2>1, <2>2, UnsetSelectsMore
  <2>3. g["kinds"] = f["kinds"]
    <3>1. CASE is_empty(f["kinds"])
      <4>1. f["kinds"] = None \/ \E v : f["kinds"] = {v}
        BY FieldNames DEF TypeOK, Some
      <4> QED
        BY <2>1, <3>1, <4>1, FieldNames DEF is_empty, Some, None
    <3>2. CASE ~is_empty(f["kinds"])
      BY <2>1, <3>2, FieldNames
    <3> QED
      BY <3>1, <3>2
  <2>4. ASSUME NEW e, matches(g, e) PROVE matches(f, e)
    <3>1. prefix_matches(f["ids"], e.id) /\ prefix_matches(f["authors"], e.pubkey)
      BY <2>1, <2>4, FieldNames DEF matches, prefix_matches
    <3>2. \A vals \in f["kinds"] : e.kind \in vals
      BY <2>3, <2>4 DEF matches
    <3>3. \A n \in TagFields : tag_matches(n, f[n], e)
      BY <2>1, <2>4, FieldNames DEF matches, tag_matches
    <3>4. g["since"] = f["since"] /\ g["until"] = f["until"]
      BY <2>1, FieldNames
    <3> QED
      BY <2>4, <3>1, <3>2, <3>3, <3>4 DEF matches
  <2> QED
    BY <2>2, <2>4 DEF Selected, g
<1> QED
  BY <1>1, FiltersTyped, PTL

-----------------------------------------------------------------------------
(* Normalization says of two texts what SameName says.                     *)

LEMMA SuffixTokens ==
    /\ Suffix \in Seq(Tokens) /\ Len(Suffix) = 2
    /\ Suffix[1] = "@" /\ Suffix[2] = "unicity"
    /\ Lower["@"] = "@" /\ Lower["unicity"] = "unicity"
BY NametagAssumption DEF Suffix

LEMMA LowerType ==
    ASSUME NEW s \in Seq(Tokens)
    PROVE  /\ to_lowercase(s) \in Seq(Tokens) /\ Len(to_lowercase(s)) = Len(s)
           /\ \A i \in 1..Len(s) : to_lowercase(s)[i] = Lower[s[i]]
<1>1. DOMAIN s = 1..Len(s) /\ Len(s) \in Nat
  OBVIOUS
<1>2. \A i \in 1..Len(s) : Lower[s[i]] \in Tokens
  BY NametagAssumption
<1> QED  BY <1>1, <1>2 DEF to_lowercase

LEMMA PartType ==
    ASSUME NEW n \in Seq(Tokens), NEW i \in 0..Len(n), NEW j \in 0..Len(n), i <= j
    PROVE  /\ SubSeq(n, i + 1, j) \in Seq(Tokens) /\ Len(SubSeq(n, i + 1, j)) = j - i
           /\ \A k \in 1..(j - i) : SubSeq(n, i + 1, j)[k] = n[i + k]
OBVIOUS

LEMMA Concatenated ==
    ASSUME NEW S, NEW s \in Seq(S), NEW t \in Seq(S)
    PROVE  /\ s \o t \in Seq(S) /\ Len(s \o t) = Len(s) + Len(t)
           /\ \A i \in 1..(Len(s) + Len(t)) :
                (s \o t)[i] = IF i <= Len(s) THEN s[i] ELSE t[i - Len(s)]
OBVIOUS

LEMMA Suffixed ==
    ASSUME NEW s \in Seq(Tokens)
    PROVE  /\ s \o Suffix \in Seq(Tokens) /\ Len(s \o Suffix) = Len(s) + 2 /\ Len(s) \in Nat
           /\ \A i \in 1..(Len(s) + 2) :
                (s \o Suffix)[i] = IF i <= Len(s) THEN s[i] ELSE Suffix[i - Len(s)]
<1>1. PICK t \in Seq(Tokens) : t = Suffix /\ Len(t) = 2
  BY SuffixTokens
<1>2. /\ s \o t \in Seq(Tokens) /\ Len(s \o t) = Len(s) + Len(t) /\ Len(s) \in Nat
      /\ \A i \in 1..(Len(s) + Len(t)) : (s \o t)[i] = IF i <= Len(s) THEN s[i] ELSE t[i - Len(s)]
  BY Concatenated
<1>3. Len(s) + Len(t) = Len(s) + 2
  BY <1>1
<1> QED  BY <1>1, <1>2, <1>3

\* Two texts of tokens with the same letters have the same lower-case form.
LEMMA LettersLower ==
    ASSUME NEW s \in Seq(Tokens), NEW t \in Seq(Tokens)
    PROVE  SameLetters(s, t) <=> to_lowercase(s) = to_lowercase(t)
<1>1. DOMAIN s = 1..Len(s)
  OBVIOUS
<1>2. ASSUME SameLetters(s, t) PROVE to_lowercase(s) = to_lowercase(t)
  BY <1>1, <1>2, LowerType DEF SameLetters
<1>3. ASSUME to_lowercase(s) = to_lowercase(t) PROVE SameLetters(s, t)
  BY <1>1, <1>3, LowerType DEF SameLetters
<1> QED  BY <1>2, <1>3

LEMMA LowerSuffixed ==
    ASSUME NEW s \in Seq(Tokens)
    PROVE  s \o Suffix \in Seq(Tokens) /\ to_lowercase(s \o Suffix) = to_lowercase(s) \o Suffix
<1> DEFINE t == s \o Suffix
           l == to_lowercase(s) \o Suffix
<1>1. /\ t \in Seq(Tokens) /\ Len(t) = Len(s) + 2
      /\ \A i \in 1..Len(t) : t[i] = IF i <= Len(s) THEN s[i] ELSE Suffix[i - Len(s)]
  BY Suffixed
<1>2. /\ l \in Seq(Tokens) /\ Len(l) = Len(s) + 2
      /\ \A i \in 1..Len(l) : l[i] = IF i <= Len(s) THEN to_lowercase(s)[i] ELSE Suffix[i - Len(s)]
  BY Suffixed, LowerType
<1> HIDE DEF t, l
<1>3. /\ to_lowercase(t) \in Seq(Tokens) /\ Len(to_lowercase(t)) = Len(t)
      /\ \A i \in 1..Len(t) : to_lowercase(t)[i] = Lower[t[i]]
  BY <1>1, LowerType
<1>4. ASSUME NEW i \in 1..Len(l) PROVE to_lowercase(t)[i] = l[i]
  <2>1. CASE i <= Len(s)
    BY <1>1, <1>2, <1>3, <2>1, LowerType
  <2>2. CASE i > Len(s)
    <3>1. i - Len(s) = 1 \/ i - Len(s) = 2
      BY <1>2, <2>2
    <3>2. t[i] = Suffix[i - Len(s)] /\ l[i] = Suffix[i - Len(s)] /\ to_lowercase(t)[i] = Lower[t[i]]
      BY <1>1, <1>2, <1>3, <2>2
    <3> QED  BY <3>1, <3>2, SuffixTokens
  <2> QED  BY <1>2, <2>1, <2>2
<1>5. to_lowercase(t) = l
  BY <1>1, <1>2, <1>3, <1>4
<1> QED  BY <1>1, <1>5 DEF t, l

\* Ending in the suffix in any case is ending in it in lower case.
LEMMA SuffixLower ==
    ASSUME NEW s \in Seq(Tokens)
    PROVE  HasSuffix(s) <=> EndsWith(to_lowercase(s), Suffix)
<1> DEFINE l == to_lowercase(s)
           n == Len(s)
<1>1. l \in Seq(Tokens) /\ Len(l) = n /\ n \in Nat /\ \A i \in 1..n : l[i] = Lower[s[i]]
  BY LowerType
<1> HIDE DEF l
<1>2. CASE n < 2
  BY <1>1, <1>2, SuffixTokens DEF HasSuffix, EndsWith, l
<1>3. CASE n >= 2
  <2>1. /\ SubSeq(s, n - 1, n) \in Seq(Tokens) /\ Len(SubSeq(s, n - 1, n)) = 2
        /\ SubSeq(s, n - 1, n)[1] = s[n - 1] /\ SubSeq(s, n - 1, n)[2] = s[n]
    BY <1>3
  <2>2. /\ SubSeq(l, n - 1, n) \in Seq(Tokens) /\ Len(SubSeq(l, n - 1, n)) = 2
        /\ SubSeq(l, n - 1, n)[1] = l[n - 1] /\ SubSeq(l, n - 1, n)[2] = l[n]
    BY <1>1, <1>3
  <2>3. HasSuffix(s) <=> Lower[s[n - 1]] = "@" /\ Lower[s[n]] = "unicity"
    <3>1. n - Len(Suffix) + 1 = n - 1
      BY <1>1, SuffixTokens
    <3>2. DOMAIN SubSeq(s, n - 1, n) = 1..2
      BY <2>1
    <3> QED  BY <1>3, <2>1, <3>1, <3>2, SuffixTokens DEF HasSuffix, SameLetters
  <2>4. EndsWith(l, Suffix) <=> l[n - 1] = "@" /\ l[n] = "unicity"
    <3>1. n - Len(Suffix) + 1 = n - 1
      BY <1>1, SuffixTokens
    <3>2. SubSeq(l, n - 1, n) = Suffix <=> l[n - 1] = "@" /\ l[n] = "unicity"
      BY <2>2, SuffixTokens
    <3> QED  BY <1>1, <1>3, <3>1, <3>2, SuffixTokens DEF EndsWith
  <2>5. n - 1 \in 1..n /\ n \in 1..n
    BY <1>1, <1>3
  <2> QED  BY <1>1, <2>3, <2>4, <2>5 DEF l
<1> QED  BY <1>1, <1>2, <1>3

LEMMA StripSuffixed ==
    ASSUME NEW b \in Seq(Tokens)
    PROVE  /\ b \o Suffix \in Seq(Tokens) /\ EndsWith(b \o Suffix, Suffix)
           /\ strip_suffix(b \o Suffix) = b
<1> DEFINE l == b \o Suffix
<1>1. /\ l \in Seq(Tokens) /\ Len(l) = Len(b) + 2 /\ Len(b) \in Nat
      /\ \A i \in 1..Len(l) : l[i] = IF i <= Len(b) THEN b[i] ELSE Suffix[i - Len(b)]
  BY Suffixed
<1> HIDE DEF l
<1>2. EndsWith(l, Suffix)
  <2> DEFINE e == SubSeq(l, Len(l) - Len(Suffix) + 1, Len(l))
  <2>1. Len(l) - Len(Suffix) + 1 = Len(b) + 1
    BY <1>1, SuffixTokens
  <2>2. /\ SubSeq(l, Len(b) + 1, Len(l)) \in Seq(Tokens) /\ Len(SubSeq(l, Len(b) + 1, Len(l))) = 2
        /\ SubSeq(l, Len(b) + 1, Len(l))[1] = l[Len(b) + 1]
        /\ SubSeq(l, Len(b) + 1, Len(l))[2] = l[Len(b) + 2]
    BY <1>1
  <2>3. l[Len(b) + 1] = Suffix[1] /\ l[Len(b) + 2] = Suffix[2]
    BY <1>1
  <2>4. SubSeq(l, Len(b) + 1, Len(l)) = Suffix
    BY <2>2, <2>3, SuffixTokens
  <2> QED  BY <1>1, <2>1, <2>4, SuffixTokens DEF EndsWith
<1>3. SubSeq(l, 1, Len(l) - Len(Suffix)) = b
  <2>1. Len(l) - Len(Suffix) = Len(b)
    BY <1>1, SuffixTokens
  <2>2. /\ SubSeq(l, 1, Len(b)) \in Seq(Tokens) /\ Len(SubSeq(l, 1, Len(b))) = Len(b)
        /\ \A i \in 1..Len(b) : SubSeq(l, 1, Len(b))[i] = b[i]
    BY <1>1
  <2> QED  BY <2>1, <2>2
<1> QED  BY <1>1, <1>2, <1>3 DEF l, strip_suffix

LEMMA SuffixedStrip ==
    ASSUME NEW l \in Seq(Tokens), EndsWith(l, Suffix)
    PROVE  strip_suffix(l) \in Seq(Tokens) /\ l = strip_suffix(l) \o Suffix
<1> DEFINE b == SubSeq(l, 1, Len(l) - Len(Suffix))
           r == b \o Suffix
<1>1. /\ Len(l) \in Nat /\ 2 <= Len(l) /\ Len(Suffix) = 2
      /\ SubSeq(l, Len(l) - 1, Len(l)) = Suffix
  <2>1. Len(l) - Len(Suffix) + 1 = Len(l) - 1
    BY SuffixTokens
  <2> QED  BY <2>1, SuffixTokens DEF EndsWith
<1>2. SubSeq(l, Len(l) - 1, Len(l))[1] = l[Len(l) - 1] /\ SubSeq(l, Len(l) - 1, Len(l))[2] = l[Len(l)]
  BY <1>1
<1>3. b \in Seq(Tokens) /\ Len(b) = Len(l) - 2 /\ \A i \in 1..Len(b) : b[i] = l[i]
  BY <1>1
<1> HIDE DEF b
<1>4. /\ r \in Seq(Tokens) /\ Len(r) = Len(b) + 2
      /\ \A i \in 1..Len(r) : r[i] = IF i <= Len(b) THEN b[i] ELSE Suffix[i - Len(b)]
  BY <1>3, Suffixed
<1> HIDE DEF r
<1>5. ASSUME NEW i \in 1..Len(l) PROVE l[i] = r[i]
  <2>1. CASE i <= Len(b)
    BY <1>3, <1>4, <2>1
  <2>2. CASE i > Len(b)
    <3>1. i = Len(l) - 1 \/ i = Len(l)
      BY <1>3, <2>2
    <3>2. r[i] = Suffix[i - Len(b)]
      BY <1>3, <1>4, <2>2
    <3>3. CASE i = Len(l) - 1
      <4>1. i - Len(b) = 1
        BY <1>1, <1>3, <3>3
      <4> QED  BY <1>1, <1>2, <3>2, <3>3, <4>1
    <3>4. CASE i = Len(l)
      <4>1. i - Len(b) = 2
        BY <1>1, <1>3, <3>4
      <4> QED  BY <1>1, <1>2, <3>2, <3>4, <4>1
    <3> QED  BY <3>1, <3>3, <3>4
  <2> QED  BY <1>3, <2>1, <2>2
<1>6. l = r
  BY <1>3, <1>4, <1>5
<1>7. strip_suffix(l) = b
  BY DEF strip_suffix, b
<1> QED  BY <1>3, <1>6, <1>7 DEF r

\* Stripping one suffix from the lower-case form tells apart what Alike does.
LEMMA AlikeStripped ==
    ASSUME NEW s \in Seq(Tokens), NEW t \in Seq(Tokens)
    PROVE  Alike(s, t) <=> strip_suffix(to_lowercase(s)) = strip_suffix(to_lowercase(t))
<1> DEFINE l == to_lowercase(s)
           m == to_lowercase(t)
<1>1. l \in Seq(Tokens) /\ m \in Seq(Tokens)
  BY LowerType
<1>2. /\ SameLetters(s, t) <=> l = m
      /\ SameLetters(s, t \o Suffix) <=> l = m \o Suffix
      /\ SameLetters(t, s \o Suffix) <=> m = l \o Suffix
  BY LettersLower, LowerSuffixed
<1>3. /\ HasSuffix(s) <=> EndsWith(l, Suffix)
      /\ HasSuffix(t) <=> EndsWith(m, Suffix)
  BY SuffixLower
<1> HIDE DEF l, m
<1>4. Alike(s, t) <=> \/ l = m
                      \/ l = m \o Suffix /\ ~EndsWith(m, Suffix)
                      \/ m = l \o Suffix /\ ~EndsWith(l, Suffix)
  BY <1>2, <1>3 DEF Alike
<1>5. /\ EndsWith(l, Suffix) => l = strip_suffix(l) \o Suffix
      /\ EndsWith(m, Suffix) => m = strip_suffix(m) \o Suffix
  BY <1>1, SuffixedStrip
<1>6. /\ ~EndsWith(l, Suffix) => l = strip_suffix(l)
      /\ ~EndsWith(m, Suffix) => m = strip_suffix(m)
  BY DEF strip_suffix
<1>7. /\ strip_suffix(m \o Suffix) = m /\ strip_suffix(l \o Suffix) = l
      /\ EndsWith(m \o Suffix, Suffix) /\ EndsWith(l \o Suffix, Suffix)
  BY <1>1, StripSuffixed
<1>8. ASSUME Alike(s, t) PROVE strip_suffix(l) = strip_suffix(m)
  BY <1>4, <1>6, <1>7, <1>8
<1>9. ASSUME strip_suffix(l) = strip_suffix(m) PROVE Alike(s, t)
  BY <1>4, <1>5, <1>6, <1>9
<1> QED  BY <1>8, <1>9 DEF l, m

\* What lies between the white space is what trim leaves.
LEMMA CoreIsTrimmed ==
    ASSUME NEW n \in Seq(Tokens), NEW i \in 0..Len(n), NEW j \in 0..Len(n), Core(n, i, j)
    PROVE  trim(n) = SubSeq(n, i + 1, j)
<1> DEFINE kept == {k \in DOMAIN n : n[k] # Space}
           lo   == CHOOSE k \in kept : \A m \in kept : k <= m
           hi   == CHOOSE k \in kept : \A m \in kept : m <= k
<1>0. DOMAIN n = 1..Len(n) /\ Len(n) \in Nat /\ i <= j
  BY DEF Core
<1>1. \A k \in kept : k \in (i + 1)..j
  BY <1>0 DEF Core
<1>2. CASE i = j
  <2>1. kept = {}
    BY <1>0, <1>1, <1>2
  <2>2. SubSeq(n, i + 1, j) = <<>>
    BY <1>0, <1>2
  <2> QED  BY <2>1, <2>2 DEF trim
<1>3. CASE i < j
  <2>1. i + 1 \in kept /\ j \in kept
    BY <1>0, <1>3 DEF Core
  <2>2. lo \in kept /\ \A m \in kept : lo <= m
    <3>1. \A m \in kept : i + 1 <= m
      BY <1>0, <1>1
    <3> QED  BY <2>1, <3>1
  <2>3. hi \in kept /\ \A m \in kept : m <= hi
    <3>1. \A m \in kept : m <= j
      BY <1>0, <1>1
    <3> QED  BY <2>1, <3>1
  <2>4. lo = i + 1 /\ hi = j
    <3> HIDE DEF lo, hi
    <3>1. lo \in (i + 1)..j /\ hi \in (i + 1)..j /\ lo <= i + 1 /\ j <= hi
      BY <1>1, <2>1, <2>2, <2>3
    <3> QED  BY <1>0, <3>1
  <2>5. trim(n) = SubSeq(n, lo, hi)
    BY <2>1 DEF trim
  <2> QED  BY <2>4, <2>5
<1> QED  BY <1>0, <1>2, <1>3

LEMMA CoreTrimmed ==
    ASSUME NEW n \in Seq(Tokens)
    PROVE  \A i, j \in 0..Len(n) :
             Core(n, i, j) => SubSeq(n, i + 1, j) = trim(n) /\ trim(n) \in Seq(Tokens)
<1> SUFFICES ASSUME NEW i \in 0..Len(n), NEW j \in 0..Len(n), Core(n, i, j)
             PROVE  SubSeq(n, i + 1, j) = trim(n) /\ trim(n) \in Seq(Tokens)
  OBVIOUS
<1>1. i <= j
  BY DEF Core
<1>2. SubSeq(n, i + 1, j) \in Seq(Tokens)
  BY <1>1, PartType
<1> QED  BY <1>2, CoreIsTrimmed

\* Of finitely many indices, one is the least.
LEMMA Least ==
    ASSUME NEW n \in Nat, NEW T, T \subseteq 1..n, T # {}
    PROVE  \E j \in T : \A k \in T : j <= k
<1> DEFINE Heads == {1..j : j \in T}
<1>1. IsWellFoundedOn(StrictSubsetOrdering(1..n), FiniteSubsetsOf(1..n))
  BY FS_StrictSubsetOrderingWellFounded
<1>2. FiniteSubsetsOf(1..n) = SUBSET (1..n)
  <2>1. IsFiniteSet(1..n)
    BY FS_Interval
  <2> QED  BY <2>1, FS_FiniteSubsetsOfFinite
<1>3. Heads \subseteq SUBSET (1..n) /\ Heads # {}
  <2>1. \A j \in T : 1..j \subseteq 1..n
    OBVIOUS
  <2> QED  BY <2>1, Zenon
<1> HIDE DEF Heads
<1>4. PICK x \in Heads : \A y \in Heads : <<y, x>> \notin StrictSubsetOrdering(1..n)
  BY <1>1, <1>2, <1>3, WFMin
<1>5. \A y \in Heads : y \subseteq x => y = x
  BY <1>3, <1>4 DEF StrictSubsetOrdering
<1>6. PICK j \in T : x = 1..j
  BY <1>4 DEF Heads
<1>7. ASSUME NEW k \in T, k < j PROVE FALSE
  <2>1. 1..k \in Heads
    BY DEF Heads
  <2>2. j \in 1..j /\ j \notin 1..k /\ 1..k \subseteq 1..j
    BY <1>7
  <2> QED  BY <1>5, <1>6, <2>1, <2>2
<1> QED  BY <1>7

LEMMA CoreExists ==
    ASSUME NEW n \in Seq(Tokens)
    PROVE  \E i, j \in 0..Len(n) : Core(n, i, j)
<1> DEFINE kept == {k \in 1..Len(n) : n[k] # Space}
           back == {Len(n) + 1 - k : k \in kept}
<1>0. Len(n) \in Nat
  OBVIOUS
<1>1. CASE kept = {}
  <2>1. Core(n, 0, 0)
    BY <1>0, <1>1 DEF Core
  <2> QED  BY <1>0, <2>1
<1>2. CASE kept # {}
  <2>1. PICK lo \in kept : \A m \in kept : lo <= m
    <3>1. kept \subseteq 1..Len(n)
      OBVIOUS
    <3> HIDE DEF kept
    <3> QED  BY <1>0, <1>2, <3>1, Least
  <2>2. PICK hi \in kept : \A m \in kept : m <= hi
    <3>1. back \subseteq 1..Len(n) /\ back # {}
      BY <1>0, <1>2
    <3>2. PICK b \in back : \A m \in back : b <= m
      <4> HIDE DEF back
      <4> QED  BY <1>0, <3>1, Least
    <3>3. PICK hi \in kept : b = Len(n) + 1 - hi
      BY <3>2
    <3>4. \A m \in kept : Len(n) + 1 - hi <= Len(n) + 1 - m
      BY <3>2, <3>3
    <3>5. \A m \in kept : m <= hi
      BY <1>0, <3>4
    <3> QED  BY <3>5
  <2>3. /\ lo - 1 \in 0..Len(n) /\ hi \in 0..Len(n) /\ lo - 1 < hi /\ (lo - 1) + 1 = lo
        /\ n[lo] # Space /\ n[hi] # Space
    BY <1>0, <2>1, <2>2
  <2>4. \A k \in (1..(lo - 1)) \cup ((hi + 1)..Len(n)) : k \in 1..Len(n) /\ k \notin kept
    BY <1>0, <2>1, <2>2
  <2>5. Core(n, lo - 1, hi)
    BY <2>3, <2>4 DEF Core
  <2> QED  BY <2>3, <2>5
<1> QED  BY <1>1, <1>2

\* Two texts name the same exactly if they have the same normal form.
LEMMA SameNameIsSameNormal ==
    ASSUME NEW n \in Seq(Tokens), NEW m \in Seq(Tokens)
    PROVE  SameName(n, m) <=> normalize_nametag(n) = normalize_nametag(m)
<1>1. \A i, j \in 0..Len(n) : Core(n, i, j) => SubSeq(n, i + 1, j) = trim(n) /\ trim(n) \in Seq(Tokens)
  BY CoreTrimmed
<1>2. \A i, j \in 0..Len(m) : Core(m, i, j) => SubSeq(m, i + 1, j) = trim(m) /\ trim(m) \in Seq(Tokens)
  BY CoreTrimmed
<1>3. PICK i, j \in 0..Len(n) : Core(n, i, j)
  BY CoreExists
<1>4. PICK k, l \in 0..Len(m) : Core(m, k, l)
  BY CoreExists
<1>5. SameName(n, m) <=> Alike(trim(n), trim(m))
  BY <1>1, <1>2, <1>3, <1>4 DEF SameName
<1>6. Alike(trim(n), trim(m)) <=> normalize_nametag(n) = normalize_nametag(m)
  BY <1>1, <1>2, <1>3, <1>4, AlikeStripped DEF normalize_nametag
<1> QED  BY <1>5, <1>6

-----------------------------------------------------------------------------
(* What the relay holds of the authors.                                    *)

\* The event that a request is published as, and the d tag it has.
EventOf(c) ==
    IF c.name = NoName THEN create_identity_binding_event(c.by, c.identity, c.at)
    ELSE create_binding_event(c.by, c.name, c.to, c.identity, c.at)

DTag(c) == IF c.name = NoName THEN identity_d_tag(c.by) ELSE hash_nametag(c.name)

Named ==
    {Request(p, n, a, i, t) :
        p \in Authors, n \in {m \in Names : is_valid_nametag(m)}, a \in Addresses,
        i \in Identities \cup {NoIdentity}, t \in Times}

Unnamed == {Request(p, NoName, NoName, i, t) : p \in Authors, i \in Identities, t \in Times}

\* The event of an entry of others.
Data == {[by |-> p, app |-> x, at |-> t] : p \in Authors, x \in Apps, t \in Times}
DataOf(o) == app_event(o.by, o.app, o.at)

\* Where an event of the relay comes from.
FromSource(e) ==
    \/ e.pubkey \in Strangers
    \/ \E c \in made : e = EventOf(c)
    \/ \E o \in others : e = DataOf(o)

\* The events of the authors are those of requests and of their other applications;
\* every request is answered for by an event of its author and d tag that is not
\* older, and there is one event only of an author and d tag.
BookInv ==
    /\ made \subseteq Named \cup Unnamed /\ others \subseteq Data
    /\ IsFiniteSet(made) /\ IsFiniteSet(others) /\ IsFiniteSet(book)
    /\ \A e \in book : e.created_at \in Int /\ FromSource(e)
    /\ \A c \in made :
         \E e \in book : e.pubkey = c.by /\ d_tag(e) = DTag(c) /\ c.at <= e.created_at
    /\ \A e, o \in book : e.pubkey = o.pubkey /\ d_tag(e) = d_tag(o) => e = o

\* The last lookup is an answer from what the relay holds.
Told(g, by, of) ==
    \E T \in Answers(g) :
        reply = [by |-> by, of |-> of, infos |-> {parse_binding_info(e) : e \in T}]

ReplyInv ==
    \/ reply = Nothing
    \/ \E n \in Names     : Told(create_nametag_to_pubkey_filter(n), "name", n)
    \/ \E a \in Addresses : Told(create_address_to_binding_filter(a), "address", a)
    \/ \E p \in Authors   : Told(create_pubkey_to_nametag_filter(p), "author", p)

LookupInv == BookInv /\ ReplyInv

-----------------------------------------------------------------------------
(* The event of a request: its tags and what is read of it.                *)

\* The empty text is no nametag.
LEMMA NoNameIsInvalid == ~is_valid_nametag(NoName)
<1>1. strip_at(<<>>) = <<>>
  BY DEF strip_at
<1>2. <<>> \in Seq(Tokens) /\ Len(<<>>) = 0
  OBVIOUS
<1>3. DOMAIN <<>> = {}
  OBVIOUS
<1>4. \A s \in Seq(Tokens) : Len(s) = 0 => s = <<>>
  OBVIOUS
<1>5. normalize_nametag(<<>>) = <<>>
  <2>1. trim(<<>>) = <<>>
    BY <1>3 DEF trim
  <2>2. to_lowercase(<<>>) = <<>>
    BY <1>2, <1>4, LowerType
  <2>3. strip_suffix(<<>>) = <<>>
    BY SuffixTokens DEF strip_suffix, EndsWith
  <2> QED  BY <2>1, <2>2, <2>3 DEF normalize_nametag
<1>6. chars(<<>>) = 0
  <2> DEFINE F(g) == [i \in 0..Len(<<>>) |->
                        IF i = 0 THEN 0 ELSE g[i - 1] + CharCount[<<>>[i]]]
             w == [i \in 0..0 |-> 0]
             upto == CHOOSE g : g = F(g)
  <2>1. w = F(w)
    BY <1>2
  <2>2. upto = F(upto)
    <3> HIDE DEF F, w
    <3> QED  BY <2>1
  <2>3. upto[0] = 0
    <3> HIDE DEF upto
    <3> QED  BY <1>2, <2>2
  <2>4. chars(<<>>) = upto[0]
    BY <1>2 DEF chars
  <2> QED  BY <2>3, <2>4
<1> QED  BY <1>1, <1>5, <1>6 DEF is_valid_nametag, NAMETAG_MIN_LENGTH, NAMETAG_MAX_LENGTH, NoName

LEMMA IdentityShape ==
    /\ NoIdentity \notin Identities
    /\ \A i \in Identities :
         /\ DOMAIN i \subseteq IdentityFields
         /\ i = [k \in DOMAIN i |-> i[k]]
         /\ \A k \in DOMAIN i : i[k] \in Addresses
<1>1. ASSUME NEW i \in Identities
      PROVE  /\ DOMAIN i \subseteq IdentityFields
             /\ i = [k \in DOMAIN i |-> i[k]]
             /\ \A k \in DOMAIN i : i[k] \in Addresses
  <2>1. PICK S \in IdentitySets : i \in [S -> Addresses]
    BY DEF Identities
  <2>2. S \subseteq IdentityFields
    BY LookupAssumption
  <2> QED  BY <2>1, <2>2
<1>2. "none" \in DOMAIN NoIdentity /\ "none" \notin IdentityFields
  BY DEF NoIdentity, IdentityFields
<1> QED  BY <1>1, <1>2

\* A request is one of three: of an identity, of a name alone, of a name with an
\* identity.
LEMMA RequestShape ==
    ASSUME NEW c \in Named \cup Unnamed
    PROVE  /\ c.by \in Authors /\ c.at \in Times /\ c.at \in Int
           /\ c.name # NoName => c.name \in Names /\ c.name \in Seq(Tokens)
           /\ \/ c.name = NoName /\ c.identity \in Identities
              \/ c.name # NoName /\ c.identity = NoIdentity
              \/ c.name # NoName /\ c.identity \in Identities
<1>1. Times \subseteq Int /\ Names \subseteq Seq(Tokens)
  BY FilterAssumption, LookupAssumption
<1>2. CASE c \in Named
  <2>1. PICK p \in Authors, n \in {m \in Names : is_valid_nametag(m)}, a \in Addresses,
             i \in Identities \cup {NoIdentity}, t \in Times : c = Request(p, n, a, i, t)
    BY <1>2 DEF Named
  <2>2. n # NoName
    BY NoNameIsInvalid
  <2> QED  BY <1>1, <2>1, <2>2 DEF Request
<1>3. CASE c \in Unnamed
  <2>1. PICK p \in Authors, i \in Identities, t \in Times : c = Request(p, NoName, NoName, i, t)
    BY <1>3 DEF Unnamed
  <2> QED  BY <1>1, <2>1 DEF Request
<1> QED  BY <1>2, <1>3

LEMMA EventFields ==
    ASSUME NEW c \in Named \cup Unnamed
    PROVE  LET e == EventOf(c)
           IN  e.pubkey = c.by /\ e.kind = APP_DATA /\ e.created_at = c.at
<1>1. CASE c.name = NoName
  BY <1>1 DEF EventOf, create_identity_binding_event, Signed
<1>2. CASE c.name # NoName
  BY <1>2 DEF EventOf, create_binding_event, Signed
<1> QED  BY <1>1, <1>2

\* The tags that an event is looked up by are those of its name and of the
\* addresses it mentions; it has one d tag.
LEMMA EventTags ==
    ASSUME NEW c \in Named \cup Unnamed
    PROVE  LET tags == EventOf(c).tags
           IN  /\ <<"d", DTag(c)>> \in tags
               /\ c.name # NoName => <<"t", hash_nametag(c.name)>> \in tags
               /\ \A a : Mentions(c, a) => <<"t", hash_address_for_tag(a)>> \in tags
               /\ \A t \in tags :
                    /\ \E x, y : t = <<x, y>>
                    /\ t[1] = "d" => t[2] = DTag(c)
                    /\ t[1] = "t" => \/ c.name # NoName /\ t[2] = hash_nametag(c.name)
                                     \/ \E a : Mentions(c, a) /\ t[2] = hash_address_for_tag(a)
<1> DEFINE tags == EventOf(c).tags
<1>1. CASE c.name = NoName /\ c.identity \in Identities
  <2>1. tags = {<<"d", identity_d_tag(c.by)>>} \cup identity_tags(c.identity)
    BY <1>1 DEF EventOf, create_identity_binding_event, Signed
  <2>2. DTag(c) = identity_d_tag(c.by)
    BY <1>1 DEF DTag
  <2>3. \A a : Mentions(c, a) <=> \E k \in DOMAIN c.identity : c.identity[k] = a
    BY <1>1, IdentityShape DEF Mentions
  <2> HIDE DEF tags
  <2> QED  BY <1>1, <2>1, <2>2, <2>3 DEF identity_tags, tags
<1>2. CASE c.name # NoName /\ c.identity = NoIdentity
  <2>1. tags = binding_tags(hash_nametag(c.name), c.to)
    BY <1>2 DEF EventOf, create_binding_event, Signed
  <2>2. DTag(c) = hash_nametag(c.name)
    BY <1>2 DEF DTag
  <2>3. \A a : Mentions(c, a) <=> a = c.to
    BY <1>2 DEF Mentions
  <2> HIDE DEF tags
  <2> QED  BY <1>2, <2>1, <2>2, <2>3 DEF binding_tags, tags
<1>3. CASE c.name # NoName /\ c.identity \in Identities
  <2> DEFINE i == c.identity
             extra == (IF "public_key" \in DOMAIN i THEN {<<"pubkey", i["public_key"]>>} ELSE {})
                      \cup (IF "l1_address" \in DOMAIN i THEN {<<"l1", i["l1_address"]>>} ELSE {})
  <2>0. i # NoIdentity
    BY <1>3, IdentityShape
  <2>1. tags = binding_tags(hash_nametag(c.name), c.to) \cup identity_tags(i) \cup extra
    BY <1>3, <2>0 DEF EventOf, create_binding_event, Signed
  <2>2. DTag(c) = hash_nametag(c.name)
    BY <1>3 DEF DTag
  <2>3. \A a : Mentions(c, a) <=> a = c.to \/ \E k \in DOMAIN i : i[k] = a
    BY <1>3, <2>0 DEF Mentions
  <2>4. \A t \in extra : /\ \E y : t = <<"pubkey", y>> \/ t = <<"l1", y>>
                         /\ t[1] # "d" /\ t[1] # "t"
    OBVIOUS
  <2> HIDE DEF tags, extra, i
  <2> QED  BY <1>3, <2>1, <2>2, <2>3, <2>4 DEF binding_tags, identity_tags, tags
<1> QED  BY <1>1, <1>2, <1>3, RequestShape

LEMMA EventDTag ==
    ASSUME NEW c \in Named \cup Unnamed
    PROVE  d_tag(EventOf(c)) = DTag(c)
<1> DEFINE tags == EventOf(c).tags
<1>1. /\ \E t \in tags : t[1] = "d"
      /\ \A t \in tags : t[1] = "d" => t[2] = DTag(c)
  <2>1. <<"d", DTag(c)>>[1] = "d"
    OBVIOUS
  <2> QED  BY <2>1, EventTags
<1> HIDE DEF tags
<1>2. (CHOOSE t \in tags : t[1] = "d")[2] = DTag(c)
  BY <1>1
<1> QED  BY <1>2 DEF d_tag, tags

\* What is read of the event of a request is what the request promised.
LEMMA ReadAsPromised ==
    ASSUME NEW c \in Named \cup Unnamed
    PROVE  parse_binding_info(EventOf(c)) = Promised(c)
<1> DEFINE e == EventOf(c)
           read == Known(CHOOSE x \in e.content : TRUE)
<1>1. e.pubkey = c.by /\ e.created_at = c.at
  BY EventFields
<1>2. e.content # None /\ read = Promised(c).fields
  <2>1. CASE c.name = NoName /\ c.identity \in Identities
    <3>1. e.content = {c.identity}
      BY <2>1 DEF e, EventOf, create_identity_binding_event, Signed, Some
    <3>2. read = Known(c.identity)
      BY <3>1
    <3>3. /\ Known(c.identity) = [k \in DOMAIN c.identity |-> c.identity[k]]
          /\ "nametag" \notin DOMAIN c.identity
      BY <2>1, IdentityShape DEF Known, IdentityFields
    <3>4. c.identity # NoIdentity
      BY <2>1, IdentityShape
    <3>5. Promised(c).fields = [k \in DOMAIN c.identity |-> c.identity[k]]
      BY <2>1, <3>3, <3>4 DEF Promised
    <3> QED  BY <3>1, <3>2, <3>3, <3>5 DEF None
  <2>2. CASE c.name # NoName /\ c.identity = NoIdentity
    <3> DEFINE x == [address |-> c.to]
    <3>1. e.content = {x}
      BY <2>2 DEF e, EventOf, create_binding_event, Signed, Some
    <3>2. read = Known(x)
      BY <3>1
    <3>3. Known(x) = [k \in {} |-> x[k]]
      <4>1. DOMAIN x \cap (IdentityFields \cup {"nametag"}) = {}
        BY DEF IdentityFields
      <4> QED  BY <4>1 DEF Known
    <3>4. Promised(c).fields = [k \in {} |-> IF k = "nametag" THEN c.name ELSE <<>>[k]]
      BY <2>2 DEF Promised
    <3> QED  BY <3>1, <3>2, <3>3, <3>4 DEF None
  <2>3. CASE c.name # NoName /\ c.identity \in Identities
    <3> DEFINE i == c.identity
               x == [k \in {"address", "nametag"} \cup DOMAIN i |->
                       IF k = "address" THEN c.to ELSE IF k = "nametag" THEN c.name ELSE i[k]]
               y == [k \in DOMAIN i \cup {"nametag"} |-> IF k = "nametag" THEN c.name ELSE i[k]]
    <3>0. i # NoIdentity /\ DOMAIN i \subseteq IdentityFields
      BY <2>3, IdentityShape
    <3>1. e.content = {x}
      BY <2>3, <3>0 DEF e, EventOf, create_binding_event, Signed, Some
    <3>2. read = Known(x)
      BY <3>1
    <3>3. Known(x) = y
      <4>1. DOMAIN x \cap (IdentityFields \cup {"nametag"}) = DOMAIN i \cup {"nametag"}
        BY <3>0 DEF IdentityFields
      <4>2. "address" \notin DOMAIN i
        BY <3>0 DEF IdentityFields
      <4>3. \A k \in DOMAIN i \cup {"nametag"} : x[k] = y[k]
        BY <4>2
      <4>4. Known(x) = [k \in DOMAIN i \cup {"nametag"} |-> x[k]]
        BY <4>1 DEF Known
      <4> HIDE DEF x
      <4> QED  BY <4>3, <4>4
    <3>4. Promised(c).fields = y
      BY <2>3, <3>0 DEF Promised
    <3> QED  BY <3>1, <3>2, <3>3, <3>4 DEF None
  <2> QED  BY <2>1, <2>2, <2>3, RequestShape
<1>3. Promised(c).timestamp = millis(c.at)
  <2>1. c.at \in Int /\ MaxInt \in Nat
    BY RequestShape, LookupAssumption
  <2>2. c.at * 1000 \in Int /\ (c.at > 0 <=> c.at * 1000 > 0)
    BY <2>1
  <2>3. millis(c.at) = IF c.at * 1000 \in -(MaxInt + 1)..MaxInt THEN c.at * 1000
                       ELSE IF c.at > 0 THEN MaxInt ELSE -(MaxInt + 1)
    BY <2>1, <2>2 DEF millis
  <2> QED  BY <2>3 DEF Promised
<1>4. Promised(c) = [transport_pubkey |-> c.by, fields |-> Promised(c).fields, timestamp |-> millis(c.at)]
  BY <1>3 DEF Promised
<1> QED  BY <1>1, <1>2, <1>4 DEF parse_binding_info

\* Requests are about the same thing exactly if their events replace one another.
LEMMA SameThingSameTag ==
    ASSUME NEW c \in Named \cup Unnamed, NEW d \in Named \cup Unnamed
    PROVE  SameThing(c, d) <=> c.by = d.by /\ DTag(c) = DTag(d)
<1>1. CASE c.name = NoName /\ d.name = NoName
  BY <1>1 DEF SameThing, DTag, identity_d_tag
<1>2. CASE c.name # NoName /\ d.name # NoName
  <2>1. SameName(c.name, d.name) <=> normalize_nametag(c.name) = normalize_nametag(d.name)
    BY <1>2, RequestShape, SameNameIsSameNormal
  <2>2. hash_nametag(c.name) = hash_nametag(d.name)
          <=> normalize_nametag(c.name) = normalize_nametag(d.name)
    BY DEF hash_nametag
  <2> QED  BY <1>2, <2>1, <2>2 DEF SameThing, DTag
<1>3. CASE (c.name = NoName) # (d.name = NoName)
  BY <1>3 DEF SameThing, DTag, identity_d_tag, hash_nametag
<1> QED  BY <1>1, <1>2, <1>3

\* The event of other data: it has no t tag, and a d tag that no binding has.
LEMMA DataFields ==
    ASSUME NEW o \in Data
    PROVE  /\ o.by \in Authors /\ o.app \in Apps /\ o.at \in Int
           /\ DataOf(o).pubkey = o.by /\ DataOf(o).kind = APP_DATA /\ DataOf(o).created_at = o.at
           /\ DataOf(o).tags = {<<"d", <<"application:", o.app>>>>}
           /\ d_tag(DataOf(o)) = <<"application:", o.app>>
           /\ parse_binding_info(DataOf(o)) = Empty(o.by, o.at)
           /\ \A c : d_tag(DataOf(o)) # DTag(c)
<1>1. PICK p \in Authors, x \in Apps, t \in Times : o = [by |-> p, app |-> x, at |-> t]
  BY DEF Data
<1>2. o.by \in Authors /\ o.app \in Apps /\ o.at \in Int
  BY <1>1, FilterAssumption
<1>3. /\ DataOf(o).pubkey = o.by /\ DataOf(o).kind = APP_DATA /\ DataOf(o).created_at = o.at
      /\ DataOf(o).tags = {<<"d", <<"application:", o.app>>>>}
      /\ DataOf(o).content = None
  BY DEF DataOf, app_event, Signed
<1>4. d_tag(DataOf(o)) = <<"application:", o.app>>
  <2> DEFINE tags == DataOf(o).tags
             tag == <<"d", <<"application:", o.app>>>>
  <2>1. tags = {tag} /\ tag[1] = "d" /\ tag[2] = <<"application:", o.app>>
    BY <1>3
  <2> HIDE DEF tags, tag
  <2>2. (CHOOSE y \in tags : y[1] = "d") = tag
    BY <2>1
  <2> QED  BY <2>1, <2>2 DEF d_tag, tags
<1>5. parse_binding_info(DataOf(o)) = Empty(o.by, o.at)
  BY <1>3 DEF parse_binding_info, Empty
<1>6. \A c : d_tag(DataOf(o)) # DTag(c)
  BY <1>4 DEF DTag, identity_d_tag, hash_nametag
<1> QED  BY <1>2, <1>3, <1>4, <1>5, <1>6

-----------------------------------------------------------------------------
(* What the relay holds is kept to.                                        *)

\* Accepting an event leaves one event of every author and d tag, which is not
\* older than those that were there.
LEMMA Accepted ==
    ASSUME BookInv, NEW e, e.created_at \in Int, Accept(e)
    PROVE  /\ \A x \in book' : x = e \/ x \in book
           /\ IsFiniteSet(book')
           /\ \A x, y \in book' : x.pubkey = y.pubkey /\ d_tag(x) = d_tag(y) => x = y
           /\ \A o \in book \cup {e} :
                \E x \in book' : /\ x.pubkey = o.pubkey /\ d_tag(x) = d_tag(o)
                                 /\ o.created_at <= x.created_at
<1> DEFINE rivals == {o \in book : o.pubkey = e.pubkey /\ d_tag(o) = d_tag(e)}
<1>0. /\ \A o \in book : o.created_at \in Int /\ o.created_at <= o.created_at
      /\ e.created_at <= e.created_at
      /\ \A x, y \in book : x.pubkey = y.pubkey /\ d_tag(x) = d_tag(y) => x = y
      /\ IsFiniteSet(book)
  BY DEF BookInv
<1>1. CASE /\ \A o \in rivals : o.created_at <= e.created_at
           /\ book' = (book \ rivals) \cup {e}
  <2>1. IsFiniteSet(book')
    <3>1. IsFiniteSet(book \ rivals)
      BY <1>0, FS_Subset
    <3> QED  BY <1>1, <3>1, FS_AddElement
  <2>2. \A x, y \in book' : x.pubkey = y.pubkey /\ d_tag(x) = d_tag(y) => x = y
    BY <1>0, <1>1
  <2>3. ASSUME NEW o \in book \cup {e}
        PROVE  \E x \in book' : /\ x.pubkey = o.pubkey /\ d_tag(x) = d_tag(o)
                                /\ o.created_at <= x.created_at
    <3>1. CASE o \in rivals \cup {e}
      BY <1>0, <1>1, <3>1
    <3>2. CASE o \in book \ rivals
      BY <1>0, <1>1, <3>2
    <3> QED  BY <3>1, <3>2
  <2> QED  BY <1>1, <2>1, <2>2, <2>3
<1>2. CASE /\ \E o \in rivals : o.created_at >= e.created_at
           /\ UNCHANGED book
  BY <1>0, <1>2
<1> QED  BY <1>1, <1>2 DEF Accept

\* A new event that its program accounts for keeps the books: a request c that is
\* new stands for it.
LEMMA AcceptKeepsBook ==
    ASSUME BookInv, NEW e, Accept(e), e.created_at \in Int, FromSource(e)',
           made \subseteq made', made' \subseteq Named \cup Unnamed, IsFiniteSet(made'),
           others \subseteq others', others' \subseteq Data, IsFiniteSet(others'),
           \A c \in made' \ made : e.pubkey = c.by /\ d_tag(e) = DTag(c) /\ e.created_at = c.at
    PROVE  BookInv'
<1>1. /\ \A x \in book' : x = e \/ x \in book
      /\ IsFiniteSet(book')
      /\ \A x, y \in book' : x.pubkey = y.pubkey /\ d_tag(x) = d_tag(y) => x = y
      /\ \A o \in book \cup {e} :
           \E x \in book' : /\ x.pubkey = o.pubkey /\ d_tag(x) = d_tag(o)
                            /\ o.created_at <= x.created_at
  BY Accepted
<1>2. \A x \in book : FromSource(x)'
  BY DEF BookInv, FromSource
<1>3. \A x \in book' : x.created_at \in Int /\ FromSource(x)'
  BY <1>1, <1>2 DEF BookInv
<1>4. ASSUME NEW d \in made'
      PROVE  \E x \in book' : x.pubkey = d.by /\ d_tag(x) = DTag(d) /\ d.at <= x.created_at
  <2>1. d.at \in Int
    BY RequestShape
  <2>2. PICK o \in book \cup {e} :
          /\ o.pubkey = d.by /\ d_tag(o) = DTag(d)
          /\ o.created_at \in Int /\ d.at <= o.created_at
    BY <2>1 DEF BookInv
  <2>3. PICK x \in book' : /\ x.pubkey = o.pubkey /\ d_tag(x) = d_tag(o)
                           /\ o.created_at <= x.created_at
    BY <1>1
  <2>4. x.created_at \in Int
    BY <1>3
  <2> QED  BY <2>1, <2>2, <2>3, <2>4
<1> QED  BY <1>1, <1>3, <1>4 DEF BookInv

LEMMA BindKeepsBook ==
    ASSUME BookInv, NEW c \in Named \cup Unnamed, made' = made \cup {c}, others' = others,
           Accept(EventOf(c))
    PROVE  BookInv'
<1>1. /\ EventOf(c).created_at = c.at /\ EventOf(c).pubkey = c.by
      /\ d_tag(EventOf(c)) = DTag(c) /\ c.at \in Int
  BY EventFields, EventDTag, RequestShape
<1>2. IsFiniteSet(made') /\ made' \subseteq Named \cup Unnamed
  BY FS_AddElement DEF BookInv
<1>3. FromSource(EventOf(c))'
  BY DEF FromSource
<1> QED  BY <1>1, <1>2, <1>3, AcceptKeepsBook DEF BookInv

LEMMA OtherKeepsBook ==
    ASSUME BookInv, OtherEvent
    PROVE  BookInv'
<1>1. PICK p \in Strangers, n \in Names :
        Accept(Signed(p, {<<"d", NoName>>, <<"t", hash_nametag(n)>>}, None, 1))
  BY DEF OtherEvent
<1> DEFINE s == Signed(p, {<<"d", NoName>>, <<"t", hash_nametag(n)>>}, None, 1)
<1>2. s.pubkey = p /\ s.created_at = 1
  BY DEF Signed
<1> HIDE DEF s
<1>3. s.created_at \in Int /\ Accept(s) /\ FromSource(s)'
  BY <1>1, <1>2 DEF s, FromSource
<1>4. made' = made /\ others' = others
  BY DEF OtherEvent
<1> QED  BY <1>3, <1>4, AcceptKeepsBook DEF BookInv

LEMMA AppKeepsBook ==
    ASSUME BookInv, AppEvent
    PROVE  BookInv'
<1>1. PICK p \in Authors, x \in Apps, t \in Times :
        /\ others' = others \cup {[by |-> p, app |-> x, at |-> t]}
        /\ Accept(app_event(p, x, t))
  BY DEF AppEvent
<1>2. PICK o : o = [by |-> p, app |-> x, at |-> t]
  OBVIOUS
<1>3. o \in Data /\ DataOf(o) = app_event(p, x, t) /\ others' = others \cup {o}
  BY <1>1, <1>2 DEF Data, DataOf
<1>4. IsFiniteSet(others') /\ others' \subseteq Data
  BY <1>3, FS_AddElement DEF BookInv
<1>5. DataOf(o).created_at \in Int /\ FromSource(DataOf(o))'
  BY <1>3, DataFields DEF FromSource
<1>6. made' = made
  BY DEF AppEvent
<1> QED  BY <1>1, <1>3, <1>4, <1>5, <1>6, AcceptKeepsBook DEF BookInv

\* Binding a name publishes the event of its request; so does binding an identity.
LEMMA BindIs ==
    ASSUME Bind
    PROVE  others' = others /\ \E c \in Named : made' = made \cup {c} /\ Accept(EventOf(c))
<1>1. PICK p \in Authors, n \in Names, a \in Addresses, i \in Identities \cup {NoIdentity}, t \in Times :
        /\ is_valid_nametag(n)
        /\ made' = made \cup {Request(p, n, a, i, t)}
        /\ Accept(create_binding_event(p, n, a, i, t))
  BY DEF Bind
<1>2. PICK c : c = Request(p, n, a, i, t)
  OBVIOUS
<1>3. c \in Named
  BY <1>1, <1>2 DEF Named
<1>4. EventOf(c) = create_binding_event(p, n, a, i, t)
  <2>1. n # NoName
    BY <1>1, NoNameIsInvalid
  <2>2. c.by = p /\ c.name = n /\ c.to = a /\ c.identity = i /\ c.at = t
    BY <1>2 DEF Request
  <2> QED  BY <2>1, <2>2 DEF EventOf
<1> QED  BY <1>1, <1>2, <1>3, <1>4 DEF Bind

LEMMA BindIdentityIs ==
    ASSUME BindIdentity
    PROVE  others' = others /\ \E c \in Unnamed : made' = made \cup {c} /\ Accept(EventOf(c))
<1>1. PICK p \in Authors, i \in Identities, t \in Times :
        /\ made' = made \cup {Request(p, NoName, NoName, i, t)}
        /\ Accept(create_identity_binding_event(p, i, t))
  BY DEF BindIdentity
<1>2. PICK c : c = Request(p, NoName, NoName, i, t)
  OBVIOUS
<1>3. c \in Unnamed
  BY <1>2 DEF Unnamed
<1>4. EventOf(c) = create_identity_binding_event(p, i, t)
  <2>1. c.by = p /\ c.name = NoName /\ c.identity = i /\ c.at = t
    BY <1>2 DEF Request
  <2> QED  BY <2>1 DEF EventOf
<1> QED  BY <1>1, <1>2, <1>3, <1>4 DEF BindIdentity

LEMMA LookupInitially == LookupInit => LookupInv
<1>1. IsFiniteSet({})
  BY FS_EmptySet
<1> QED  BY <1>1 DEF LookupInit, LookupInv, BookInv, ReplyInv

LEMMA LookupStep == LookupInv /\ [LookupNext]_lookupVars => LookupInv'
<1> SUFFICES ASSUME LookupInv, [LookupNext]_lookupVars PROVE LookupInv'
  OBVIOUS
<1>1. ASSUME Bind PROVE LookupInv'
  <2>1. BookInv'
    BY <1>1, BindIs, BindKeepsBook DEF LookupInv
  <2> QED  BY <1>1, <2>1 DEF Bind, LookupInv, ReplyInv
<1>2. ASSUME BindIdentity PROVE LookupInv'
  <2>1. BookInv'
    BY <1>2, BindIdentityIs, BindKeepsBook DEF LookupInv
  <2> QED  BY <1>2, <2>1 DEF BindIdentity, LookupInv, ReplyInv
<1>3. ASSUME OtherEvent PROVE LookupInv'
  <2>1. BookInv'
    BY <1>3, OtherKeepsBook DEF LookupInv
  <2> QED  BY <1>3, <2>1 DEF OtherEvent, LookupInv, ReplyInv
<1>9. ASSUME AppEvent PROVE LookupInv'
  <2>1. BookInv'
    BY <1>9, AppKeepsBook DEF LookupInv
  <2> QED  BY <1>9, <2>1 DEF AppEvent, LookupInv, ReplyInv
<1>4. ASSUME NEW g, NEW by, NEW of, Look(g, by, of) PROVE BookInv' /\ Told(g, by, of)'
  <2>1. made' = made /\ others' = others /\ book' = book
    BY <1>4 DEF Look
  <2>2. BookInv'
    BY <2>1 DEF BookInv, LookupInv, FromSource
  <2>3. Answers(g)' = Answers(g)
    BY <2>1 DEF Answers
  <2> QED  BY <1>4, <2>2, <2>3 DEF Look, Told
<1>5. ASSUME AskName PROVE LookupInv'
  BY <1>4, <1>5 DEF AskName, LookupInv, ReplyInv
<1>6. ASSUME AskAddress PROVE LookupInv'
  BY <1>4, <1>6 DEF AskAddress, LookupInv, ReplyInv
<1>7. ASSUME AskAuthor PROVE LookupInv'
  BY <1>4, <1>7 DEF AskAuthor, LookupInv, ReplyInv
<1>8. ASSUME UNCHANGED lookupVars PROVE LookupInv'
  BY <1>8 DEF lookupVars, LookupInv, BookInv, FromSource, ReplyInv, Told, Answers
<1> QED  BY <1>1, <1>2, <1>3, <1>5, <1>6, <1>7, <1>8, <1>9 DEF LookupNext

THEOREM LookupsAnswered == LookupSpec => []LookupInv
BY LookupInitially, LookupStep, PTL DEF LookupSpec

-----------------------------------------------------------------------------
(* What the filters of lookups select.                                     *)

\* The filter that the relay reads is the one that was built.
LEMMA BuiltBack ==
    ASSUME NEW w, DOMAIN w \subseteq Fields,
           \A k \in DOMAIN w \cap VecFields : w[k] # {}
    PROVE  from_json(to_json(Built(w))) = Built(w)
<1> DEFINE g == Built(w)
<1>1. \A k \in Fields : g[k] = IF k \in DOMAIN w THEN {w[k]} ELSE {}
  BY DEF Built, Some, None
<1>2. \A k \in Fields : skipped(g, k) <=> k \notin DOMAIN w
  <2> SUFFICES ASSUME NEW k \in Fields PROVE skipped(g, k) <=> k \notin DOMAIN w
    OBVIOUS
  <2> HIDE DEF g
  <2>1. CASE k \in DOMAIN w
    BY <1>1, <2>1 DEF skipped, is_empty, None
  <2>2. CASE k \notin DOMAIN w
    BY <1>1, <2>2 DEF skipped, is_empty, None
  <2> QED  BY <2>1, <2>2
<1>3. to_json(g) = [k \in DOMAIN w |-> CHOOSE v \in g[k] : TRUE]
  <2>1. {j \in Fields : ~skipped(g, j)} = DOMAIN w
    BY <1>2
  <2> HIDE DEF g
  <2> QED  BY <2>1 DEF to_json
<1>4. \A k \in DOMAIN w : (CHOOSE v \in g[k] : TRUE) = w[k]
  <2> SUFFICES ASSUME NEW k \in DOMAIN w PROVE (CHOOSE v \in g[k] : TRUE) = w[k]
    OBVIOUS
  <2>1. g[k] = {w[k]}
    BY <1>1
  <2> HIDE DEF g
  <2> QED  BY <2>1
<1>5. PICK j : j = to_json(g) /\ DOMAIN j = DOMAIN w /\ \A k \in DOMAIN w : j[k] = w[k]
  <2> HIDE DEF g
  <2> QED  BY <1>3, <1>4
<1>6. from_json(j) = [k \in Fields |-> IF k \in DOMAIN w THEN Some(w[k]) ELSE None]
  BY <1>5 DEF from_json
<1> QED  BY <1>5, <1>6 DEF Built

\* Asking by a tag selects the events of the kind that have the tag.
LEMMA TagFilter ==
    ASSUME NEW h
    PROVE  LET g == Built([kinds |-> {APP_DATA}, t |-> {h}])
           IN  /\ from_json(to_json(g)) = g /\ g["limit"] = None
               /\ \A e : (\A t \in e.tags : \E x, y : t = <<x, y>>)
                           => (matches(g, e) <=> e.kind = APP_DATA /\ <<"t", h>> \in e.tags)
<1> DEFINE w == [kinds |-> {APP_DATA}, t |-> {h}]
           g == Built(w)
<1>1. /\ "t" \in TagFields /\ "t" \in Fields
      /\ TagFields \subseteq Fields
      /\ {"ids", "authors", "kinds", "since", "until", "limit"} \subseteq Fields
      /\ \A n \in TagFields : n # "kinds"
  BY FilterAssumption, LookupAssumption DEF Fields, VecFields
<1>2. DOMAIN w = {"kinds", "t"} /\ w["kinds"] = {APP_DATA} /\ w["t"] = {h}
  OBVIOUS
<1> HIDE DEF w
<1>3. from_json(to_json(g)) = g
  BY <1>1, <1>2, BuiltBack
<1>4. /\ g["ids"] = {} /\ g["authors"] = {} /\ g["since"] = {} /\ g["until"] = {}
      /\ g["limit"] = {} /\ g["kinds"] = {{APP_DATA}} /\ g["t"] = {{h}}
      /\ \A n \in TagFields : n # "t" => g[n] = {}
  BY <1>1, <1>2 DEF Built, Some, None
<1>5. ASSUME NEW e, \A t \in e.tags : \E x, y : t = <<x, y>>
      PROVE  matches(g, e) <=> e.kind = APP_DATA /\ <<"t", h>> \in e.tags
  <2> HIDE DEF g
  <2>1. prefix_matches(g["ids"], e.id) /\ prefix_matches(g["authors"], e.pubkey)
    BY <1>4 DEF prefix_matches, is_empty
  <2>2. \A n \in TagFields : n # "t" => tag_matches(n, g[n], e)
    BY <1>4 DEF tag_matches, is_empty
  <2>3. tag_matches("t", g["t"], e) <=> <<"t", h>> \in e.tags
    <3>1. ~is_empty(g["t"])
      BY <1>4 DEF is_empty
    <3>2. \A t \in e.tags : Len(t) >= 2 /\ t = <<t[1], t[2]>>
      BY <1>5
    <3>3. <<"t", h>>[1] = "t" /\ <<"t", h>>[2] = h
      OBVIOUS
    <3> QED  BY <1>4, <3>1, <3>2, <3>3 DEF tag_matches
  <2> QED  BY <1>1, <1>4, <2>1, <2>2, <2>3 DEF matches
<1> QED  BY <1>3, <1>4, <1>5 DEF None, g, w

\* Asking by an author with a whole key selects the author's events of the kind.
LEMMA AuthorFilter ==
    ASSUME NEW p \in Ids
    PROVE  LET g == create_pubkey_to_nametag_filter(p)
           IN  /\ from_json(to_json(g)) = g /\ g["limit"] = Some(AskLimit)
               /\ \A e : e.pubkey \in Ids
                           => (matches(g, e) <=> e.kind = APP_DATA /\ e.pubkey = p)
<1> DEFINE w == [kinds |-> {APP_DATA}, authors |-> {p}, limit |-> AskLimit]
           g == Built(w)
<1>1. /\ TagFields \subseteq Fields
      /\ {"ids", "authors", "kinds", "since", "until", "limit"} \subseteq Fields
      /\ \A n \in TagFields : n \notin {"kinds", "authors", "limit"}
      /\ "limit" \notin VecFields
  BY FilterAssumption DEF Fields, VecFields
<1>2. /\ DOMAIN w = {"kinds", "authors", "limit"}
      /\ w["kinds"] = {APP_DATA} /\ w["authors"] = {p} /\ w["limit"] = AskLimit
  OBVIOUS
<1> HIDE DEF w
<1>3. from_json(to_json(g)) = g
  <2>1. \A k \in DOMAIN w \cap VecFields : w[k] # {}
    BY <1>1, <1>2
  <2> QED  BY <1>1, <1>2, <2>1, BuiltBack
<1>4. /\ g["ids"] = {} /\ g["authors"] = {{p}} /\ g["since"] = {} /\ g["until"] = {}
      /\ g["limit"] = Some(AskLimit) /\ g["kinds"] = {{APP_DATA}}
      /\ \A n \in TagFields : g[n] = {}
  BY <1>1, <1>2 DEF Built, Some, None
<1>5. ASSUME NEW e, e.pubkey \in Ids
      PROVE  matches(g, e) <=> e.kind = APP_DATA /\ e.pubkey = p
  <2> HIDE DEF g
  <2>1. prefix_matches(g["ids"], e.id)
    BY <1>4 DEF prefix_matches, is_empty
  <2>2. \A n \in TagFields : tag_matches(n, g[n], e)
    BY <1>4 DEF tag_matches, is_empty
  <2>3. prefix_matches(g["authors"], e.pubkey) <=> starts_with(e.pubkey, p)
    BY <1>4 DEF prefix_matches, is_empty
  <2>4. starts_with(e.pubkey, p) <=> e.pubkey = p
    <3>1. /\ e.pubkey \in Seq(Digits) /\ p \in Seq(Digits)
          /\ Len(e.pubkey) = IdLen /\ Len(p) = IdLen /\ IdLen \in Nat
      BY <1>5, FilterAssumption DEF Ids
    <3>2. SubSeq(e.pubkey, 1, Len(e.pubkey)) = e.pubkey
      BY <3>1
    <3> QED  BY <3>1, <3>2 DEF starts_with
  <2> QED  BY <1>4, <2>1, <2>2, <2>3, <2>4 DEF matches
<1> QED  BY <1>3, <1>4, <1>5 DEF create_pubkey_to_nametag_filter, g, w

-----------------------------------------------------------------------------
(* Lookups find what the requests amount to.                               *)

\* A binding that the relay holds is a current one.
LEMMA HeldIsCurrent ==
    ASSUME BookInv, NEW c \in made, EventOf(c) \in book
    PROVE  c \in Current
<1>1. ASSUME NEW d \in made, SameThing(c, d) PROVE d.at <= c.at
  <2>1. c.by = d.by /\ DTag(c) = DTag(d)
    BY <1>1, SameThingSameTag DEF BookInv
  <2>2. EventOf(c).pubkey = c.by /\ EventOf(c).created_at = c.at /\ d_tag(EventOf(c)) = DTag(c)
    BY EventFields, EventDTag DEF BookInv
  <2>3. PICK o \in book : o.pubkey = d.by /\ d_tag(o) = DTag(d) /\ d.at <= o.created_at
    BY DEF BookInv
  <2>4. o = EventOf(c)
    BY <2>1, <2>2, <2>3 DEF BookInv
  <2> QED  BY <2>2, <2>3, <2>4
<1> QED  BY <1>1 DEF Current

\* If no events of the authors are read but those of requests in W, nothing else is
\* found.
LEMMA Soundly ==
    ASSUME BookInv, NEW T \in SUBSET book, NEW W,
           reply.infos = {parse_binding_info(e) : e \in T},
           \A o \in others : DataOf(o) \notin T,
           \A c \in made : EventOf(c) \in T => c \in W
    PROVE  Sound(W)
<1> SUFFICES ASSUME NEW x \in Infos PROVE \E c \in W \cap Current : x = Promised(c)
  BY DEF Sound
<1>1. PICK e \in T : x = parse_binding_info(e) /\ e.pubkey \in Authors
  BY DEF Infos, parse_binding_info
<1>2. PICK c \in made : e = EventOf(c)
  BY <1>1, LookupAssumption DEF BookInv, FromSource
<1>3. c \in W /\ x = Promised(c)
  BY <1>1, <1>2, ReadAsPromised DEF BookInv
<1> QED  BY <1>2, <1>3, HeldIsCurrent

\* Of everything that is current the relay holds a current binding, just as new.
LEMMA CurrentIsHeld ==
    ASSUME BookInv, NEW c \in Current
    PROVE  \E d \in Current : /\ d \in made /\ SameThing(c, d) /\ d.at = c.at /\ d.by = c.by
                             /\ EventOf(d) \in book /\ EventOf(d).created_at = d.at
<1>1. c \in made /\ c \in Named \cup Unnamed /\ c.by \in Authors /\ c.at \in Int
  BY RequestShape DEF Current, BookInv
<1>2. PICK e \in book : e.pubkey = c.by /\ d_tag(e) = DTag(c) /\ c.at <= e.created_at
  BY <1>1 DEF BookInv
<1>3. PICK d \in made : e = EventOf(d)
  <2>1. \A o \in others : e # DataOf(o)
    BY <1>2, DataFields DEF BookInv
  <2> QED  BY <1>1, <1>2, <2>1, LookupAssumption DEF BookInv, FromSource
<1>4. /\ d \in Named \cup Unnamed /\ d.by = c.by /\ DTag(d) = DTag(c)
      /\ d.at = e.created_at /\ d.at \in Int
  <2>1. d \in Named \cup Unnamed
    BY DEF BookInv
  <2> QED  BY <1>2, <1>3, <2>1, EventFields, EventDTag, RequestShape
<1>5. SameThing(c, d)
  BY <1>1, <1>4, SameThingSameTag
<1>6. d \in Current
  BY <1>3, HeldIsCurrent
<1>7. d.at <= c.at
  BY <1>5 DEF Current
<1> QED  BY <1>1, <1>2, <1>3, <1>4, <1>5, <1>6, <1>7

\* What is read of the event of a request is found.
LEMMA FoundOf ==
    ASSUME BookInv, NEW T, reply.infos = {parse_binding_info(e) : e \in T},
           NEW d \in made, EventOf(d) \in T
    PROVE  Promised(d) \in Infos
<1>1. Promised(d) = parse_binding_info(EventOf(d)) /\ d.by \in Authors
  BY ReadAsPromised, RequestShape DEF BookInv
<1>2. Promised(d).transport_pubkey = d.by
  BY DEF Promised
<1> QED  BY <1>1, <1>2 DEF Infos

\* If all events of requests in W are read, something is found of everything that
\* W covers.
LEMMA Completely ==
    ASSUME BookInv, NEW T \in SUBSET book, NEW W,
           reply.infos = {parse_binding_info(e) : e \in T},
           \A c \in W \cap made : EventOf(c) \in book => EventOf(c) \in T
    PROVE  Complete(W)
<1> SUFFICES ASSUME NEW c \in Current, \A d \in Current : SameThing(c, d) => d \in W
             PROVE  \E d \in Current : SameThing(c, d) /\ Promised(d) \in Infos
  BY DEF Complete
<1>1. PICK d \in Current : d \in made /\ SameThing(c, d) /\ EventOf(d) \in book
  BY CurrentIsHeld
<1>2. EventOf(d) \in T
  BY <1>1
<1>3. Promised(d) \in Infos
  BY <1>1, <1>2, FoundOf
<1> QED  BY <1>1, <1>3

\* A lookup by a tag reads the events that have it.
LEMMA TagTold ==
    ASSUME BookInv, NEW h, NEW by, NEW of,
           Told(Built([kinds |-> {APP_DATA}, t |-> {h}]), by, of)
    PROVE  \E T \in SUBSET book :
             /\ reply = [by |-> by, of |-> of, infos |-> {parse_binding_info(e) : e \in T}]
             /\ \A o \in others : DataOf(o) \notin T
             /\ \A c \in made : EventOf(c) \in book
                                 => (EventOf(c) \in T <=> <<"t", h>> \in EventOf(c).tags)
<1> DEFINE g == Built([kinds |-> {APP_DATA}, t |-> {h}])
           S == {e \in book : matches(g, e)}
<1>1. from_json(to_json(g)) = g /\ g["limit"] = None
  BY TagFilter
<1>2. \A c \in made : matches(g, EventOf(c)) <=> <<"t", h>> \in EventOf(c).tags
  <2> SUFFICES ASSUME NEW c \in made
               PROVE  matches(g, EventOf(c)) <=> <<"t", h>> \in EventOf(c).tags
    OBVIOUS
  <2>1. c \in Named \cup Unnamed
    BY DEF BookInv
  <2>2. EventOf(c).kind = APP_DATA
    BY <2>1, EventFields
  <2>3. \A t \in EventOf(c).tags : \E x, y : t = <<x, y>>
    BY <2>1, EventTags
  <2> QED  BY <2>2, <2>3, TagFilter
<1>6. \A o \in others : ~matches(g, DataOf(o))
  <2> SUFFICES ASSUME NEW o \in others PROVE ~matches(g, DataOf(o))
    OBVIOUS
  <2>1. DataOf(o).tags = {<<"d", <<"application:", o.app>>>>}
    BY DataFields DEF BookInv
  <2>2. /\ \A t \in DataOf(o).tags : \E x, y : t = <<x, y>>
        /\ <<"t", h>> \notin DataOf(o).tags
    BY <2>1
  <2> QED  BY <2>2, TagFilter
<1> HIDE DEF g
<1>3. \A T \in Answers(g) : T = S
  BY <1>1 DEF Answers
<1>4. reply = [by |-> by, of |-> of, infos |-> {parse_binding_info(e) : e \in S}]
  BY <1>3 DEF Told, g
<1>5. /\ S \in SUBSET book
      /\ \A o \in others : DataOf(o) \notin S
      /\ \A c \in made : EventOf(c) \in book
                           => (EventOf(c) \in S <=> <<"t", h>> \in EventOf(c).tags)
  BY <1>2, <1>6
<1> HIDE DEF S
<1> QED  BY <1>4, <1>5

\* For every set of authors, names, addresses and times, a lookup by name finds what
\* was bound under any spelling of the name and nothing else.
LEMMA NameFound == LookupInv => FoundByName
<1> SUFFICES ASSUME LookupInv, reply.by = "name"
             PROVE  LET W == {c \in made : c.name # NoName /\ SameName(c.name, reply.of)}
                    IN  Sound(W) /\ Complete(W)
  BY DEF FoundByName
<1>1. PICK n \in Names : Told(create_nametag_to_pubkey_filter(n), "name", n)
  BY DEF LookupInv, ReplyInv, Told, Nothing
<1>2. PICK T \in SUBSET book :
        /\ reply = [by |-> "name", of |-> n, infos |-> {parse_binding_info(e) : e \in T}]
        /\ \A o \in others : DataOf(o) \notin T
        /\ \A c \in made : EventOf(c) \in book
              => (EventOf(c) \in T <=> <<"t", hash_nametag(n)>> \in EventOf(c).tags)
  BY <1>1, TagTold DEF LookupInv, create_nametag_to_pubkey_filter
<1> DEFINE W == {c \in made : c.name # NoName /\ SameName(c.name, n)}
<1>3. ASSUME NEW c \in made
      PROVE  <<"t", hash_nametag(n)>> \in EventOf(c).tags <=> c \in W
  <2>1. c \in Named \cup Unnamed
    BY DEF LookupInv, BookInv
  <2>2. \A a : hash_nametag(n) # hash_address_for_tag(a)
    BY DEF hash_nametag, hash_address_for_tag
  <2>3. <<"t", hash_nametag(n)>> \in EventOf(c).tags
          <=> c.name # NoName /\ hash_nametag(c.name) = hash_nametag(n)
    <3>1. <<"t", hash_nametag(n)>>[1] = "t" /\ <<"t", hash_nametag(n)>>[2] = hash_nametag(n)
      OBVIOUS
    <3> QED  BY <2>1, <2>2, <3>1, EventTags
  <2>4. ASSUME c.name # NoName
        PROVE  SameName(c.name, n) <=> hash_nametag(c.name) = hash_nametag(n)
    <3>1. c.name \in Seq(Tokens) /\ n \in Seq(Tokens)
      BY <2>1, <2>4, RequestShape, LookupAssumption
    <3> QED  BY <3>1, SameNameIsSameNormal DEF hash_nametag
  <2> QED  BY <2>3, <2>4
<1>4. Sound(W)
  BY <1>2, <1>3, Soundly DEF LookupInv
<1>5. Complete(W)
  BY <1>2, <1>3, Completely DEF LookupInv
<1> QED  BY <1>2, <1>4, <1>5

LEMMA AddressFound == LookupInv => FoundByAddress
<1> SUFFICES ASSUME LookupInv, reply.by = "address"
             PROVE  LET W == {c \in made : Mentions(c, reply.of)} IN Sound(W) /\ Complete(W)
  BY DEF FoundByAddress
<1>1. PICK a \in Addresses : Told(create_address_to_binding_filter(a), "address", a)
  BY DEF LookupInv, ReplyInv, Told, Nothing
<1>2. PICK T \in SUBSET book :
        /\ reply = [by |-> "address", of |-> a, infos |-> {parse_binding_info(e) : e \in T}]
        /\ \A o \in others : DataOf(o) \notin T
        /\ \A c \in made : EventOf(c) \in book
              => (EventOf(c) \in T <=> <<"t", hash_address_for_tag(a)>> \in EventOf(c).tags)
  BY <1>1, TagTold DEF LookupInv, create_address_to_binding_filter
<1> DEFINE W == {c \in made : Mentions(c, a)}
<1>3. ASSUME NEW c \in made
      PROVE  <<"t", hash_address_for_tag(a)>> \in EventOf(c).tags <=> c \in W
  <2>1. c \in Named \cup Unnamed
    BY DEF LookupInv, BookInv
  <2>2. /\ \A n : hash_nametag(n) # hash_address_for_tag(a)
        /\ \A b : hash_address_for_tag(b) = hash_address_for_tag(a) => b = a
    BY DEF hash_nametag, hash_address_for_tag
  <2>3. <<"t", hash_address_for_tag(a)>>[1] = "t" /\ <<"t", hash_address_for_tag(a)>>[2] = hash_address_for_tag(a)
    OBVIOUS
  <2> QED  BY <2>1, <2>2, <2>3, EventTags
<1>4. Sound(W)
  BY <1>2, <1>3, Soundly DEF LookupInv
<1>5. Complete(W)
  BY <1>2, <1>3, Completely DEF LookupInv
<1> QED  BY <1>2, <1>4, <1>5

\* The bindings that the relay holds of an author are no more than the things the
\* author asked for.
LEMMA EventsAreThings ==
    ASSUME BookInv, NEW p \in Authors
    PROVE  LET S == {e \in book : e.pubkey = p /\ \E c \in made : e = EventOf(c)}
               W == {c \in made : c.by = p}
               things == {{d \in W : SameThing(c, d)} : c \in W}
           IN  Cardinality(S) <= Cardinality(things) /\ IsFiniteSet(things)
<1> DEFINE S == {e \in book : e.pubkey = p /\ \E c \in made : e = EventOf(c)}
           W == {c \in made : c.by = p}
           things == {{d \in W : SameThing(c, d)} : c \in W}
           of == [e \in S |-> {d \in W : DTag(d) = d_tag(e)}]
<1>1. \A c \in W : c \in Named \cup Unnamed
  BY DEF BookInv
<1>2. \A e \in S : \E c \in W : e = EventOf(c) /\ DTag(c) = d_tag(e)
  <2> SUFFICES ASSUME NEW e \in S PROVE \E c \in W : e = EventOf(c) /\ DTag(c) = d_tag(e)
    OBVIOUS
  <2>1. PICK c \in made : e = EventOf(c)
    OBVIOUS
  <2>2. c.by = p /\ DTag(c) = d_tag(e)
    BY <2>1, EventFields, EventDTag DEF BookInv
  <2> QED  BY <2>1, <2>2
<1>3. \A e \in S : of[e] \in things
  <2> SUFFICES ASSUME NEW e \in S PROVE of[e] \in things
    OBVIOUS
  <2>1. PICK c \in W : DTag(c) = d_tag(e)
    BY <1>2
  <2>2. \A d \in W : SameThing(c, d) <=> DTag(d) = d_tag(e)
    BY <1>1, <2>1, SameThingSameTag
  <2>3. of[e] = {d \in W : SameThing(c, d)}
    BY <2>2
  <2> QED  BY <2>3
<1>4. \A e, o \in S : of[e] = of[o] => e = o
  <2> SUFFICES ASSUME NEW e \in S, NEW o \in S, of[e] = of[o] PROVE e = o
    OBVIOUS
  <2>1. PICK c \in W : DTag(c) = d_tag(e)
    BY <1>2
  <2>2. c \in of[o]
    BY <2>1
  <2>3. d_tag(e) = d_tag(o)
    BY <2>1, <2>2
  <2> QED  BY <2>3 DEF BookInv
<1>5. IsFiniteSet(things)
  <2>1. IsFiniteSet(W) /\ W \subseteq made
    BY FS_Subset DEF BookInv
  <2>2. IsFiniteSet(SUBSET W)
    <3> HIDE DEF W
    <3> QED  BY <2>1, FS_SUBSET
  <2>3. things \subseteq SUBSET W
    OBVIOUS
  <2> HIDE DEF things, W
  <2> QED  BY <2>2, <2>3, FS_Subset
<1>6. of \in Injection(S, things)
  <2>1. of \in [S -> things]
    BY <1>3
  <2> HIDE DEF S, things, of
  <2> QED  BY <1>4, <2>1 DEF Injection, IsInjective
<1> HIDE DEF of, things
<1>7. Cardinality(S) <= Cardinality(things)
  BY <1>5, <1>6, FS_Injection
<1> QED  BY <1>5, <1>7 DEF things

\* The other data that it holds of an author is of no more than the author's other
\* applications.
LEMMA EventsAreApps ==
    ASSUME BookInv, NEW p \in Authors
    PROVE  LET S == {e \in book : e.pubkey = p /\ \E o \in others : e = DataOf(o)}
               apps == {o.app : o \in {x \in others : x.by = p}}
           IN  Cardinality(S) <= Cardinality(apps) /\ IsFiniteSet(apps)
<1> DEFINE S == {e \in book : e.pubkey = p /\ \E o \in others : e = DataOf(o)}
           A == {o \in others : o.by = p}
           apps == {o.app : o \in A}
           of == [e \in S |-> d_tag(e)[2]]
<1>1. \A e \in S : \E x \in apps : d_tag(e) = <<"application:", x>>
  <2> SUFFICES ASSUME NEW e \in S PROVE \E x \in apps : d_tag(e) = <<"application:", x>>
    OBVIOUS
  <2>1. PICK o \in others : e = DataOf(o)
    OBVIOUS
  <2>2. o.by = p /\ d_tag(e) = <<"application:", o.app>>
    BY <2>1, DataFields DEF BookInv
  <2> QED  BY <2>2
<1>2. \A e \in S : of[e] \in apps /\ d_tag(e) = <<"application:", of[e]>>
  <2> HIDE DEF S, apps
  <2> QED  BY <1>1
<1>3. \A e, o \in S : of[e] = of[o] => e = o
  <2> SUFFICES ASSUME NEW e \in S, NEW o \in S, of[e] = of[o] PROVE e = o
    OBVIOUS
  <2>1. d_tag(e) = d_tag(o) /\ e.pubkey = o.pubkey /\ e \in book /\ o \in book
    <3> HIDE DEF of
    <3> QED  BY <1>2
  <2> QED  BY <2>1 DEF BookInv
<1>4. IsFiniteSet(apps)
  <2>1. IsFiniteSet(A)
    BY FS_Subset DEF BookInv
  <2> DEFINE app == [o \in A |-> o.app]
  <2>2. app \in Surjection(A, apps)
    <3>1. app \in [A -> apps] /\ \A x \in apps : \E o \in A : app[o] = x
      OBVIOUS
    <3> HIDE DEF A, apps, app
    <3> QED  BY <3>1 DEF Surjection
  <2> HIDE DEF A, apps, app
  <2> QED  BY <2>1, <2>2, FS_Surjection
<1>5. of \in Injection(S, apps)
  <2>1. of \in [S -> apps]
    BY <1>2
  <2> HIDE DEF S, apps, of
  <2> QED  BY <1>3, <2>1 DEF Injection, IsInjective
<1> HIDE DEF of, apps
<1>6. Cardinality(S) <= Cardinality(apps)
  BY <1>4, <1>5, FS_Injection
<1> QED  BY <1>4, <1>6 DEF apps

\* Later seconds are no earlier milliseconds.
LEMMA MillisMonotone ==
    ASSUME NEW s \in Int, NEW t \in Int, s <= t
    PROVE  millis(s) <= millis(t)
<1>1. MaxInt \in Nat
  BY LookupAssumption
<1>2. s * 1000 <= t * 1000 /\ s * 1000 \in Int /\ t * 1000 \in Int
  OBVIOUS
<1> QED  BY <1>1, <1>2 DEF millis

LEMMA AuthorFound == LookupInv => FoundByAuthor
<1> SUFFICES ASSUME LookupInv, reply.by = "author"
             PROVE  FoundByAuthor
  BY DEF FoundByAuthor
<1>1. PICK p \in Authors : Told(create_pubkey_to_nametag_filter(p), "author", p)
  BY DEF LookupInv, ReplyInv, Told, Nothing
<1> DEFINE g == create_pubkey_to_nametag_filter(p)
           S == {e \in book : matches(g, e)}
           W == {c \in made : c.by = p}
           A == {o \in others : o.by = p}
           things == {{d \in W : SameThing(c, d)} : c \in W}
           apps == {o.app : o \in A}
<1>2. p \in Ids
  BY LookupAssumption
<1>3. from_json(to_json(g)) = g /\ g["limit"] = {AskLimit}
  BY <1>2, AuthorFilter DEF Some
<1>4. S = {e \in book : e.pubkey = p}
  <2> SUFFICES ASSUME NEW e \in book PROVE matches(g, e) <=> e.pubkey = p
    OBVIOUS
  <2>1. CASE e.pubkey \in Strangers
    <3>1. e.pubkey # p /\ e.pubkey \in Ids
      BY <2>1, LookupAssumption
    <3> QED  BY <1>2, <3>1, AuthorFilter
  <2>2. CASE \E c \in made : e = EventOf(c)
    <3>1. PICK c \in made : e = EventOf(c)
      BY <2>2
    <3>2. c \in Named \cup Unnamed
      BY DEF LookupInv, BookInv
    <3>3. e.pubkey = c.by /\ e.kind = APP_DATA /\ c.by \in Ids
      BY <3>1, <3>2, EventFields, RequestShape, LookupAssumption
    <3> QED  BY <1>2, <3>3, AuthorFilter
  <2>3. CASE \E o \in others : e = DataOf(o)
    <3>1. PICK o \in others : e = DataOf(o)
      BY <2>3
    <3>2. e.pubkey = o.by /\ e.kind = APP_DATA /\ o.by \in Ids
      BY <3>1, DataFields, LookupAssumption DEF LookupInv, BookInv
    <3> QED  BY <1>2, <3>2, AuthorFilter
  <2> QED  BY <2>1, <2>2, <2>3 DEF LookupInv, BookInv, FromSource
<1>5. PICK T \in Answers(g) :
        reply = [by |-> "author", of |-> p, infos |-> {parse_binding_info(e) : e \in T}]
  BY <1>1 DEF Told
<1> HIDE DEF g
<1>6. /\ T \subseteq S /\ S \subseteq book
      /\ Cardinality(T) = IF AskLimit < Cardinality(S) THEN AskLimit ELSE Cardinality(S)
      /\ \A e \in T, o \in S \ T : o.created_at <= e.created_at
  BY <1>3, <1>5 DEF Answers
<1> HIDE DEF S
<1>7. ASSUME NEW x \in Infos
      PROVE  \/ \E c \in W \cap Current : x = Promised(c)
             \/ \E o \in A : x = Empty(o.by, o.at)
  <2>1. PICK e \in T : x = parse_binding_info(e)
    BY <1>5 DEF Infos
  <2>2. e \in book /\ e.pubkey = p
    BY <1>4, <1>6
  <2>3. CASE \E c \in made : e = EventOf(c)
    <3>1. PICK c \in made : e = EventOf(c)
      BY <2>3
    <3>2. c.by = p /\ x = Promised(c)
      BY <2>1, <2>2, <3>1, EventFields, ReadAsPromised DEF LookupInv, BookInv
    <3>3. c \in Current
      BY <2>2, <3>1, HeldIsCurrent DEF LookupInv
    <3> QED  BY <3>2, <3>3
  <2>4. CASE \E o \in others : e = DataOf(o)
    <3>1. PICK o \in others : e = DataOf(o)
      BY <2>4
    <3>2. o.by = p /\ x = Empty(o.by, o.at)
      BY <2>1, <2>2, <3>1, DataFields DEF LookupInv, BookInv
    <3> QED  BY <3>2
  <2>5. e.pubkey \notin Strangers
    BY <2>2, LookupAssumption
  <2> QED  BY <2>2, <2>3, <2>4, <2>5 DEF LookupInv, BookInv, FromSource
<1>8. T # S => Cardinality(things) + Cardinality(apps) > AskLimit
  <2> DEFINE S1 == {e \in book : e.pubkey = p /\ \E c \in made : e = EventOf(c)}
             S2 == {e \in book : e.pubkey = p /\ \E o \in others : e = DataOf(o)}
  <2>1. Cardinality(S1) <= Cardinality(things) /\ IsFiniteSet(things)
    BY EventsAreThings DEF LookupInv
  <2>2. Cardinality(S2) <= Cardinality(apps) /\ IsFiniteSet(apps)
    BY EventsAreApps DEF LookupInv
  <2>3. S = S1 \cup S2
    BY <1>4, LookupAssumption DEF LookupInv, BookInv, FromSource
  <2>4. IsFiniteSet(S) /\ IsFiniteSet(S1) /\ IsFiniteSet(S2)
    BY <1>6, <2>3, FS_Subset DEF LookupInv, BookInv
  <2> HIDE DEF things, apps, S1, S2
  <2>5. /\ Cardinality(S) \in Nat /\ Cardinality(S1) \in Nat /\ Cardinality(S2) \in Nat
        /\ Cardinality(things) \in Nat /\ Cardinality(apps) \in Nat /\ AskLimit \in Nat
    BY <2>1, <2>2, <2>4, FS_CardinalityType, LookupAssumption
  <2>6. Cardinality(S) <= Cardinality(S1) + Cardinality(S2)
    <3>1. /\ Cardinality(S1 \cup S2) = Cardinality(S1) + Cardinality(S2) - Cardinality(S1 \cap S2)
          /\ IsFiniteSet(S1 \cap S2)
      BY <2>4, FS_Union, FS_Intersection
    <3>2. Cardinality(S1 \cap S2) \in Nat
      BY <3>1, FS_CardinalityType
    <3> QED  BY <2>3, <2>5, <3>1, <3>2
  <2>7. T # S => Cardinality(T) # Cardinality(S)
    BY <1>6, <2>4, FS_Subset
  <2> QED  BY <1>6, <2>1, <2>2, <2>5, <2>6, <2>7
<1>9. ASSUME NEW c \in W \cap Current
      PROVE  \/ \E d \in W \cap Current : SameThing(c, d) /\ Promised(d) \in Infos
             \/ T # S /\ \A x \in Infos : Promised(c).timestamp <= x.timestamp
  <2>1. PICK d \in Current : /\ d \in made /\ SameThing(c, d) /\ d.at = c.at /\ d.by = c.by
                             /\ EventOf(d) \in book /\ EventOf(d).created_at = d.at
    BY <1>9, CurrentIsHeld DEF LookupInv
  <2>2. EventOf(d) \in S /\ d \in W \cap Current
    <3>1. EventOf(d).pubkey = d.by
      BY <2>1, EventFields DEF LookupInv, BookInv
    <3> QED  BY <1>4, <1>9, <2>1, <3>1
  <2>3. CASE EventOf(d) \in T
    BY <1>5, <2>1, <2>2, <2>3, FoundOf DEF LookupInv
  <2>4. CASE EventOf(d) \notin T
    <3> SUFFICES ASSUME NEW x \in Infos PROVE Promised(c).timestamp <= x.timestamp
      BY <2>2, <2>4
    <3>1. PICK e \in T : x = parse_binding_info(e)
      BY <1>5 DEF Infos
    <3>2. c.at <= e.created_at
      BY <1>6, <2>1, <2>2, <2>4
    <3>3. c.at \in Int /\ e.created_at \in Int /\ c \in Named \cup Unnamed
      BY <1>6, <1>9, RequestShape DEF LookupInv, BookInv
    <3>4. millis(c.at) <= millis(e.created_at)
      BY <3>2, <3>3, MillisMonotone
    <3>5. Promised(c).timestamp = millis(c.at) /\ x.timestamp = millis(e.created_at)
      <4>1. Promised(c) = parse_binding_info(EventOf(c)) /\ EventOf(c).created_at = c.at
        BY <3>3, ReadAsPromised, EventFields
      <4> QED  BY <3>1, <4>1 DEF parse_binding_info
    <3> QED  BY <3>4, <3>5
  <2> QED  BY <2>3, <2>4
<1>10. reply.of = p
  BY <1>5
<1>11. ASSUME NEW c \in W \cap Current
       PROVE  \/ \E d \in W \cap Current : SameThing(c, d) /\ Promised(d) \in Infos
              \/ /\ Cardinality(things) + Cardinality(apps) > AskLimit
                 /\ \A x \in Infos : Promised(c).timestamp <= x.timestamp
  BY <1>8, <1>9
<1> QED  BY <1>7, <1>10, <1>11, Zenon DEF FoundByAuthor

\* Whatever the names are and however they are typed: a lookup by name finds, of
\* every author that bound the name, what the latest binding of it says, and nothing
\* of any other name.
THEOREM NameIsFound == LookupSpec => []FoundByName
BY LookupsAnswered, NameFound, PTL

\* An address is found as what a name is bound to and as a field of an identity,
\* never as a name and never by a binding that has been replaced.
THEOREM AddressIsFound == LookupSpec => []FoundByAddress
BY LookupsAnswered, AddressFound, PTL

\* Of an author nothing is found but the author's own current bindings and empty
\* entries for other application data of the author; and a binding is missing only
\* where the lookup's limit leaves no room for it beside things that are no older.
THEOREM AuthorIsFound == LookupSpec => []FoundByAuthor
BY LookupsAnswered, AuthorFound, PTL
=============================================================================
