------------------------------ MODULE Nametag ------------------------------
(***************************************************************************)
(* Nametags (src/src/nametag.rs): how a name that a user typed is brought  *)
(* to its normal form, tested, and hashed for the tags of a binding.       *)
(*                                                                         *)
(* A text is a sequence of tokens: white space, "@", the label "unicity",  *)
(* and words in lower and upper case.  Every token stands for CharCount    *)
(* characters; no text can be read as two sequences of tokens.  SHA-256 is *)
(* taken as collision-free: a hash is the salted text itself.              *)
(***************************************************************************)
EXTENDS Naturals, Sequences

CONSTANTS
    Words,       \* lower-case words of characters a nametag may have
    Lower,       \* the lower-case form of every token
    CharCount    \* token -> its number of characters

Space  == " "
Suffix == <<"@", "unicity">>
Tokens == DOMAIN CharCount

ASSUME NametagAssumption ==
    /\ {Space, "@", "unicity"} \cup Words \subseteq Tokens
    /\ Space \notin Words /\ "@" \notin Words /\ "unicity" \in Words
    /\ CharCount \in [Tokens -> Nat \ {0}] /\ Lower \in [Tokens -> Tokens]
    /\ \A t \in Tokens : Lower[Lower[t]] = Lower[t]
    /\ \A t \in Words \cup {Space, "@"} : Lower[t] = t

NAMETAG_MIN_LENGTH   == 3
NAMETAG_MAX_LENGTH   == 20
NAMETAG_MARKER_LABEL == "unicity:nametag"

EndsWith(s, t) == Len(t) <= Len(s) /\ SubSeq(s, Len(s) - Len(t) + 1, Len(s)) = t

\* The length of a text in characters.
chars(s) ==
    LET upto[i \in 0..Len(s)] == IF i = 0 THEN 0 ELSE upto[i - 1] + CharCount[s[i]]
    IN  upto[Len(s)]

trim(s) ==
    LET kept == {i \in DOMAIN s : s[i] # Space}
    IN  IF kept = {} THEN <<>>
        ELSE SubSeq(s, CHOOSE i \in kept : \A j \in kept : i <= j,
                       CHOOSE i \in kept : \A j \in kept : j <= i)

to_lowercase(s) == [i \in DOMAIN s |-> Lower[s[i]]]

strip_suffix(s) == IF EndsWith(s, Suffix) THEN SubSeq(s, 1, Len(s) - Len(Suffix)) ELSE s

\* Slip: the suffix is looked for before the case is folded.
CaseSuffix_normalize_nametag(n) == to_lowercase(strip_suffix(trim(n)))

\* Trim, fold the case, strip one "@unicity".
normalize_nametag(n) == strip_suffix(to_lowercase(trim(n)))

strip_at(n) == IF n # <<>> /\ Head(n) = "@" THEN Tail(n) ELSE n

\* The "@" is stripped here and not by normalize_nametag.
is_valid_nametag(n) ==
    LET m == normalize_nametag(strip_at(n))
    IN  /\ chars(m) \in NAMETAG_MIN_LENGTH..NAMETAG_MAX_LENGTH
        /\ \A i \in DOMAIN m : m[i] \in Words

hash_nametag(n)         == <<"unicity:nametag:", normalize_nametag(n)>>
hash_address_for_tag(a) == <<"unicity:address:", a>>
=============================================================================
