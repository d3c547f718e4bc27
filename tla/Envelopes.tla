----------------------------- MODULE Envelopes -----------------------------
(***************************************************************************)
(* Everything of this crate that is encoded for somebody to decode later:  *)
(* NIP-44 payloads, gift wraps, NIP-04 payloads, recoverable nametags and  *)
(* bech32 keys.  An envelope is written, by this code or by another        *)
(* client, perhaps damaged on its way, and read.                           *)
(***************************************************************************)
EXTENDS GiftWrap, FiniteSets

CONSTANTS
    KeyLen, AccRange,   \* of Bech32
    Secrets,       \* secrets of those who write and read, invalid ones included
    PublicKeys,    \* public keys that callers give, invalid ones included
    Ephemeral,     \* the secret that wraps
    Lengths,       \* lengths of messages
    EdgeLengths,   \* those tried with all keys and damages
    Replies,       \* what a message may reply to
    ZippedLengths, \* bound: what a message may be compressed to
    KeyBytes,      \* bytes of keys
    Symbols        \* symbols of bech32 strings of other programs

ASSUME EnvelopesAssumption ==
    /\ Lengths \subseteq Nat /\ EdgeLengths \subseteq Lengths /\ ZippedLengths \subseteq Nat \ {0}
    /\ Secrets \cup PublicKeys \subseteq Nat /\ Ephemeral \in Points
    \* The string of a key has at most the 90 characters that decode takes.
    /\ KeyLen \in 1..49
    \* A group of convert_bits fits beside what is left of the one before it.
    /\ AccRange \in Nat \ {0} /\ AccRange % 2^15 = 0
    /\ KeyBytes \subseteq 0..255 /\ Symbols \subseteq 0..31

N04 == INSTANCE Nip04
NC  == INSTANCE NametagCipher
B32 == INSTANCE Bech32

VARIABLES
    stage,   \* "ready", "sent" or "read"
    job,     \* what was asked for
    wire,    \* the envelope, or {} if it was not made
    harm,    \* what has happened to it on the way
    reader,  \* who reads it
    out      \* what it was read as, or {}

vars == <<stage, job, wire, harm, reader, out>>

Nonce == "n"
Body(n) == Text(n, [body |-> "message"])

\* The kind of envelope, the secret of the writer, the key it is for, the text,
\* and what else the kind asks for.
Job(kind, from, to, text, more) ==
    [kind |-> kind, from |-> from, to |-> to, text |-> text, more |-> more]

Reader(secret, has_gzip) == [secret |-> secret, gzip |-> has_gzip]
NoReader == Reader(0, FALSE)
NoJob == Job("none", 0, 0, Body(0), {})

Init ==
    /\ stage = "ready" /\ job = NoJob /\ wire = {} /\ harm = "none" /\ reader = NoReader /\ out = {}

-----------------------------------------------------------------------------
(* Writing.                                                                *)

Writes(j, w) ==
    /\ stage' = "sent"
    /\ job' = j /\ wire' = w
    /\ UNCHANGED <<harm, reader, out>>

\* All lengths between one pair of keys, the edges between all.
WriteNip44 ==
    /\ stage = "ready"
    /\ \E from \in Secrets, to \in PublicKeys, n \in Lengths :
           /\ n \in EdgeLengths \/ (from = Ephemeral /\ to = XCoord(Ephemeral))
           /\ Writes(Job("nip44", from, to, Body(n), {}),
                     UNION {encrypt_with_key_nonce(k, Nonce, Body(n)) : k \in derive_conversation_key(from, to)})

Strings == {"string", "key_string"}

Params(n, reply) ==
    [content |-> Body(n), reply_to |-> reply, ephemeral_secret |-> Ephemeral,
     seal_nonce |-> Nonce, wrap_nonce |-> Nonce]

WriteGiftWrap ==
    /\ stage = "ready"
    /\ \E from \in Secrets, to \in PublicKeys, n \in EdgeLengths, reply \in {{}} \cup {{r} : r \in Replies} :
           Writes(Job("gift_wrap", from, to, Body(n),
                      [tags |-> rumor_tags(to, reply), reply |-> reply, kind |-> CHAT_MESSAGE, flaw |-> "none"]),
                  create_gift_wrap(from, to, Params(n, reply)))

WriteNip04 ==
    /\ stage = "ready"
    /\ \E from \in Secrets, to \in PublicKeys, n \in EdgeLengths, z \in ZippedLengths, has_gzip, auto \in BOOLEAN :
           LET t == N04!Bytes("utf8", n, [body |-> "message"])
           IN  Writes(Job("nip04", from, to, t, {}),
                      IF auto THEN N04!encrypt_auto_with_iv(from, to, t, z, Nonce, has_gzip)
                      ELSE N04!encrypt_with_iv(from, to, t, Nonce))

WriteNametag ==
    /\ stage = "ready"
    /\ \E from \in Secrets, n \in EdgeLengths :
           Writes(Job("nametag", from, 0, Body(n), {}), NC!encrypt_nametag_with_iv(Body(n), from, Nonce))

WriteKey ==
    /\ stage = "ready"
    /\ \E hrp \in {B32!npub, B32!nsec}, key \in [1..KeyLen -> KeyBytes] :
           Writes(Job("key", 0, 0, Body(0), [hrp |-> hrp, key |-> key]), B32!encode(hrp, key))

-----------------------------------------------------------------------------
(* Other programs.  A gift wrap may be of another kind, carry other tags,  *)
(* or not be one.                                                          *)

Flaws == {"none", "wrap_kind", "seal_kind", "seal_text", "seal_sig", "rumor_text"}

\* The first e tag without a value, and two e tags.
OtherTags == {[tags |-> <<<<>>, <<"e">>, <<"e", "r2">>>>, reply |-> {}],
              [tags |-> <<<<"p", 1>>, <<"e", "r1">>, <<"e", "r2">>>>, reply |-> {"r1"}]}

\* The id of another event.
OtherId(s) == calculate_id(s.pubkey, s.kind, <<<<"p", 1>>>>, s.content)

ForeignWrap ==
    /\ stage = "ready"
    /\ \E from \in Secrets, to \in PublicKeys, flaw \in Flaws, o \in OtherTags :
           LET junk      == Text(100, [note |-> "junk"])
               rumor     == [kind |-> RECEIPT, pubkey |-> from, tags |-> o.tags, content |-> Body(10)]
               sealed    == layer(IF flaw = "seal_kind" THEN CHAT_MESSAGE ELSE SEAL, <<>>, from, to, Nonce,
                                  IF flaw = "rumor_text" THEN junk ELSE rumor_json(rumor))
               resign(s) == IF flaw = "seal_sig" THEN Signed(s.id, [key |-> s.pubkey, message |-> OtherId(s)]) ELSE s
           IN  Writes(Job("gift_wrap", from, to, Body(10),
                          [tags |-> o.tags, reply |-> o.reply, kind |-> RECEIPT, flaw |-> flaw]),
                      UNION {layer(IF flaw = "wrap_kind" THEN SEAL ELSE GIFT_WRAP, <<<<"p", to>>>>,
                                   Ephemeral, to, Nonce,
                                   IF flaw = "seal_text" THEN junk ELSE seal_json(resign(s))) : s \in sealed})

\* A string with a right checksum, of any symbols, for the general decoder or for
\* the decoder of public keys.
ForeignString ==
    /\ stage = "ready"
    /\ \E kind \in {"string", "key_string"}, hrp \in {B32!npub, <<"n">>},
          values \in (UNION {[1..n -> Symbols] : n \in 2..5}) \cup {[i \in 1..n |-> 0] : n \in {82, 83}} :
           Writes(Job(kind, 0, 0, Body(0), [hrp |-> hrp, key |-> <<>>]), B32!Spelt(hrp, values))

-----------------------------------------------------------------------------
(* Damage.                                                                 *)

\* Payload p with one part of its frame spoilt; a nametag may also be another
\* program's encryption of bytes that are no text.
SpoiltFrame(kind, p) ==
    {[p EXCEPT !.base64 = FALSE]} \cup
    (IF kind = "nip04"
     THEN {[p EXCEPT !.separator = FALSE], [p EXCEPT !.iv_len = 15], [p EXCEPT !.gz = ~@]}
     ELSE {[p EXCEPT !.len = 20, !.box.whole = FALSE]})
    \cup (IF kind = "nip44" THEN {[p EXCEPT !.version = 1]} ELSE {})
    \cup (IF kind = "nametag" THEN {[p EXCEPT !.box.utf8 = FALSE]} ELSE {})

Garbage(t) == Text(t.len, [body |-> "garbage"])

\* Payload p with its ciphertext, or the vector or nonce beside it, changed.
SpoiltCipher(kind, p) ==
    CASE kind = "nip44" ->
            {[p EXCEPT !.box.whole = FALSE, !.box.padded.text = Garbage(@)], [p EXCEPT !.nonce = "other"]}
      [] kind = "nip04" -> {[p EXCEPT !.box.whole = FALSE], [p EXCEPT !.iv = "other"]}
      [] kind = "nametag" ->
            {[p EXCEPT !.box.whole = FALSE, !.box.text = Garbage(@)], [p EXCEPT !.nonce = "other"]}

Characters == {B32!CHARSET[i] : i \in 1..32} \cup {"1", "b", "?"}

\* String s with one character replaced, left out or put in, or two neighbours
\* exchanged.
SpoiltString(s) ==
    LET n == Len(s)
        cut(i, j) == SubSeq(s, 1, i) \o SubSeq(s, j, n)
    IN  ({[s EXCEPT ![i] = c] : i \in 1..n, c \in Characters}
         \cup {cut(i - 1, i + 1) : i \in 1..n}
         \cup {SubSeq(s, 1, i) \o <<c>> \o SubSeq(s, i + 1, n) : i \in 0..n, c \in Characters}
         \cup {[s EXCEPT ![i] = s[i + 1], ![i + 1] = s[i]] : i \in 1..(n - 1)}) \ {s}

\* String s with its letters at some places in upper case.
Capitals(s, places) ==
    [i \in DOMAIN s |-> IF i \in places /\ B32!In(s[i], B32!Lowers)
                        THEN B32!Uppers[B32!At(s[i], B32!Lowers)] ELSE s[i]]

\* String s in mixed case: with one of its letters in upper case.
MixedCase(s) == {Capitals(s, {i}) : i \in {j \in DOMAIN s : B32!In(s[j], B32!Lowers)}}

Becomes(what, w) ==
    /\ stage = "sent" /\ harm = "none" /\ harm' = what /\ wire' = Ok(w)
    /\ UNCHANGED <<stage, job, reader, out>>

DamagePayload ==
    /\ job.kind \in {"nip44", "nip04", "nametag"} /\ job.text.len \in EdgeLengths
    /\ \E p \in wire : \/ \E w \in SpoiltFrame(job.kind, p)  : Becomes("frame", w)
                       \/ \E w \in SpoiltCipher(job.kind, p) : Becomes("cipher", w)

DamageWrap ==
    /\ job.kind = "gift_wrap"
    /\ \E w \in wire : \/ \E p \in SpoiltFrame("nip44", w.content)  : Becomes("frame", [w EXCEPT !.content = p])
                       \/ \E p \in SpoiltCipher("nip44", w.content) : Becomes("cipher", [w EXCEPT !.content = p])

DamageString ==
    /\ job.kind = "key"
    /\ \E s \in wire : \/ \E t \in SpoiltString(s) : Becomes("text", t)
                       \/ Becomes("case", Capitals(s, DOMAIN s))
                       \/ \E t \in MixedCase(s) : Becomes("mixed", t)

-----------------------------------------------------------------------------
(* Reading.                                                                *)

Reads(r, result) ==
    /\ stage = "sent" /\ stage' = "read" /\ reader' = r /\ out' = result
    /\ UNCHANGED <<job, wire, harm>>

ReadNip44 ==
    /\ job.kind = "nip44"
    /\ \E p \in wire, r \in Secrets, x \in xonly_public_key(job.from) : Reads(Reader(r, FALSE), decrypt(r, x, p))

Unwrap ==
    /\ job.kind = "gift_wrap"
    /\ \E w \in wire, r \in Secrets : Reads(Reader(r, FALSE), unwrap(r, w))

ReadNip04 ==
    /\ job.kind = "nip04"
    /\ \E p \in wire, r \in Secrets, x \in xonly_public_key(job.from), has_gzip \in BOOLEAN :
         \E result \in N04!decrypt(r, x, p, has_gzip) : Reads(Reader(r, has_gzip), result)

ReadNametag ==
    /\ job.kind = "nametag"
    /\ \E p \in wire, r \in Secrets : Reads(Reader(r, FALSE), NC!decrypt_nametag(p, r))

ReadKey ==
    /\ job.kind = "key"
    /\ \E s \in wire :
         Reads(NoReader, IF job.more.hrp = B32!npub THEN B32!decode_npub(s) ELSE B32!decode_nsec(s))

\* Of what the general decoder returns only the bytes are kept.
ReadString ==
    /\ job.kind \in Strings
    /\ \E s \in wire :
         Reads(NoReader, IF job.kind = "string" THEN {d[2] : d \in B32!decode(s)} ELSE B32!decode_npub(s))

\* The next envelope.
Again ==
    /\ stage = "read" \/ (stage = "sent" /\ wire = {})
    /\ stage' = "ready" /\ job' = NoJob /\ wire' = {} /\ harm' = "none" /\ reader' = NoReader /\ out' = {}

Next ==
    \/ WriteNip44 \/ WriteGiftWrap \/ WriteNip04 \/ WriteNametag \/ WriteKey
    \/ ForeignWrap \/ ForeignString
    \/ DamagePayload \/ DamageWrap \/ DamageString
    \/ ReadNip44 \/ Unwrap \/ ReadNip04 \/ ReadNametag \/ ReadKey \/ ReadString
    \/ Again

Spec == Init /\ [][Next]_vars

-----------------------------------------------------------------------------

\* The NIP-44 payloads of an envelope: its own, or that of a gift wrap.
Nip44Payloads ==
    IF job.kind = "nip44" THEN wire ELSE IF job.kind = "gift_wrap" THEN {w.content : w \in wire} ELSE {}

TypeOK ==
    /\ stage \in {"ready", "sent", "read"}
    /\ job.kind \in {"none", "nip44", "gift_wrap", "nip04", "nametag", "key"} \cup Strings
    /\ Cardinality(wire) <= 1 /\ Cardinality(out) <= 1
    /\ harm \in {"none", "frame", "cipher", "text", "case", "mixed"}
    /\ \A p \in Nip44Payloads : p.box.padded.hi \in 0..255 /\ p.box.padded.lo \in 0..255

Encrypted == {"nip44", "gift_wrap", "nip04", "nametag"}

\* May the reader read it?  A secret and its opposite are the same identity.
Addressed ==
    IF job.kind = "nametag" THEN reader.secret = job.from
    ELSE reader.secret \in Points /\ XCoord(reader.secret) = job.to

\* What the envelope should be read as.
Message(w) ==
    [event_id |-> w.id, sender_pubkey |-> XCoord(job.from), recipient_pubkey |-> job.to,
     content |-> job.text, kind |-> job.more.kind, reply_to |-> job.more.reply]

Intended ==
    CASE job.kind = "gift_wrap" -> IF job.more.flaw = "none" THEN {Message(w) : w \in wire} ELSE {}
      [] job.kind = "nip04"     -> {job.text : w \in {v \in wire : v.gz => reader.gzip}}
      [] OTHER                  -> {job.text}

\* The reader it is meant for reads exactly what was written: whichever of the two
\* secrets of an identity either side holds, and whatever the length.  A compressed
\* message needs a reader that can decompress.
ReadBack ==
    stage = "read" /\ job.kind \in Encrypted /\ Addressed /\ harm = "none" => out = Intended

\* Whoever reads an envelope, damaged or not, reads what was written or nothing.
\* Of NIP-04 this holds for messages that are announced as compressed, and for the
\* right reader when no more than the frame is damaged.
NeverMisread ==
    stage = "read" /\ job.kind \in Encrypted =>
        \/ out = {}
        \/ job.kind = "nip04" /\ ~(harm = "frame" /\ Addressed) /\ ~\E p \in wire : p.gz
        \/ job.kind = "nip04" /\ out = {job.text}
        \/ out = Intended

\* The length of a rumor's JSON.
RumorSize(n, tags) == RUMOR_FRAME + n + (IF Len(tags) > 1 THEN REPLY_FRAME ELSE 0)

\* An envelope is made exactly when the keys are valid and the message fits.  A gift
\* wrap is encrypted twice and encoded in between: its rumor must fit 40960 bytes,
\* not the 65535 that each layer takes.
SizeLimits ==
    stage = "sent" =>
        (wire # {} <=>
            /\ job.kind \in {"nip44", "gift_wrap", "nip04"} => job.from \in Points /\ job.to \in XOnly
            /\ job.kind = "nip44" => job.text.len > 0 /\ job.text.len <= 65535
            /\ job.kind = "gift_wrap" => RumorSize(job.text.len, job.more.tags) <= 40960)

\* The length of a payload tells little of its text: it is one of at most eight
\* steps to a power of two, and exceeds the text by less than a quarter, or by
\* less than 32 bytes.
PaddingHides ==
    stage = "sent" => \A p \in Nip44Payloads :
        harm = "none" =>
            LET padded == p.len - (1 + NONCE_SIZE + 2 + MAC_SIZE)
                text   == p.box.padded.text.len
            IN  /\ text <= padded /\ padded - text < Maximum(32, (text + 3) \div 4)
                /\ \E step \in PowersOfTwo : step >= 32 /\ padded % step = 0 /\ padded <= 8 * step

\* The string of a key is read as that key, and so it is in capitals; with one slip in
\* it, it is not read at all; in mixed case, as that key or not at all.
ReadsItsKey ==
    CASE harm = "text"  -> out = {}
      [] harm = "mixed" -> out \subseteq {job.more.key}
      [] OTHER          -> out = {job.more.key}

\* A string that decodes, whoever made it, is the one encoding of what it decodes
\* to, and no longer than 90 characters; as a public key it is of full length.
OneString ==
    \A bytes \in out :
        /\ wire = B32!encode(job.more.hrp, bytes) /\ \A s \in wire : Len(s) <= 90
        /\ job.kind = "key_string" => bytes \in [1..KeyLen -> 0..255]

\* No string is read as a key that it does not stand for: a key's string is read as
\* that key, with one slip as nothing, and what decodes in small letters is the one
\* encoding of what it decodes to.
CanonicalKeys ==
    stage = "read" => /\ job.kind = "key" => ReadsItsKey
                      /\ job.kind \in Strings => OneString

\* "Standard BIP-173 bech32", bech32.rs:2: a string in mixed case is not read.
MixedCaseRefused == stage = "read" /\ job.kind = "key" /\ harm = "mixed" => out = {}
=============================================================================
