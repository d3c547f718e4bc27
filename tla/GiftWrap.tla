------------------------------ MODULE GiftWrap ------------------------------
(***************************************************************************)
(* NIP-17 private messages (src/src/nip17.rs): an unsigned rumor, sealed   *)
(* for the recipient by its sender, and wrapped for the recipient by a key *)
(* that is used once.  Both layers are NIP-44 encryptions of JSON, whose   *)
(* length is what decides whether a message fits.                          *)
(*                                                                         *)
(* The JSON of a rumor or an event is a text that says the record; a text  *)
(* whose says lacks the field kind is no such JSON.  The id of an event is *)
(* the record of what is hashed.  Times are not modelled: they are copied. *)
(***************************************************************************)
EXTENDS Nip44, Sequences

CHAT_MESSAGE == 14
RECEIPT      == 15
SEAL         == 13
GIFT_WRAP    == 1059

\* The JSON of a rumor without its content, the reply's tag in it, and the JSON of
\* a seal without its content, with times of ten digits.
RUMOR_FRAME == 278
REPLY_FRAME == 84
SEAL_FRAME  == 343

IsJson(t) == "kind" \in DOMAIN t.says

calculate_id(pubkey, kind, tags, content) ==
    [pubkey |-> pubkey, kind |-> kind, tags |-> tags, content |-> content]

Signed(id, sig) ==
    [id |-> id, pubkey |-> id.pubkey, kind |-> id.kind, tags |-> id.tags,
     content |-> id.content, sig |-> sig]

\* content.len is the length of the content as a JSON string, without its quotes.
rumor_json(rumor) ==
    Text(RUMOR_FRAME + rumor.content.len + (IF Len(rumor.tags) > 1 THEN REPLY_FRAME ELSE 0), rumor)

seal_json(seal) == Text(SEAL_FRAME + base64_len(seal.content.len), seal)

\* The tags of a rumor: the recipient and, if it is a reply, what it replies to.
\* reply_to is an Option: {} or {id}.
rumor_tags(recipient, reply_to) ==
    <<<<"p", recipient>>>> \o
    (IF reply_to = {} THEN <<>> ELSE <<<<"e", CHOOSE id \in reply_to : TRUE, "", "reply">>>>)

\* One layer: event content of the given kind, encrypted to the recipient and
\* signed.
layer(kind, tags, secret, recipient, nonce, t) ==
    LET made == {<<pub, content>> :
                    pub \in xonly_public_key(secret),
                    content \in UNION {encrypt_with_key_nonce(k, nonce, t) :
                                          k \in derive_conversation_key(secret, recipient)}}
    IN  UNION {LET id == calculate_id(m[1], kind, tags, m[2])
               IN  {Signed(id, sig) : sig \in sign(id, secret)} : m \in made}

\* params: content, reply_to, the ephemeral secret and the two nonces.
create_gift_wrap(sender, recipient, params) ==
    LET rumors == {[kind    |-> CHAT_MESSAGE,
                    pubkey  |-> pub,
                    tags    |-> rumor_tags(recipient, params.reply_to),
                    content |-> params.content] : pub \in xonly_public_key(sender)}
        seals  == UNION {layer(SEAL, <<>>, sender, recipient, params.seal_nonce, rumor_json(r)) : r \in rumors}
    IN  UNION {layer(GIFT_WRAP, <<<<"p", recipient>>>>, params.ephemeral_secret, recipient,
                     params.wrap_nonce, seal_json(s)) : s \in seals}

\* The values of the first e tag: the one that follows its name, if there is one.
reply_to_event_id(tags) ==
    LET es == {i \in DOMAIN tags : tags[i] # <<>> /\ tags[i][1] = "e"}
        t  == tags[CHOOSE i \in es : \A j \in es : i <= j]
    IN  IF es # {} /\ Len(t) >= 2 THEN {t[2]} ELSE {}

\* What seal, found in wrap, is read as: its signature is checked against the id
\* it states.
open_seal(recipient, wrap, seal) ==
    LET rumors ==
            IF seal.kind = SEAL /\ verify(seal.sig, seal.id, seal.pubkey)
            THEN decrypt(recipient, seal.pubkey, seal.content)
            ELSE Err
    IN  {[event_id         |-> wrap.id,
          sender_pubkey    |-> seal.pubkey,
          recipient_pubkey |-> XCoord(recipient),
          content          |-> t.says.content,
          kind             |-> t.says.kind,
          reply_to         |-> reply_to_event_id(t.says.tags)] : t \in {r \in rumors : IsJson(r)}}

unwrap(recipient, wrap) ==
    LET seals == IF wrap.kind = GIFT_WRAP THEN decrypt(recipient, wrap.pubkey, wrap.content) ELSE Err
    IN  UNION {open_seal(recipient, wrap, t.says) : t \in {s \in seals : IsJson(s)}}
=============================================================================
