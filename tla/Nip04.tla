-------------------------------- MODULE Nip04 --------------------------------
(***************************************************************************)
(* NIP-04 in the variant of src/src/crypto/nip04.rs: a cipher without a    *)
(* tag of its own, an initialization vector beside the ciphertext, and     *)
(* compression of long messages that a "gz:" in front announces.           *)
(*                                                                         *)
(* Bytes are a record of their form - "utf8" text, "zipped" text, or       *)
(* "other" bytes - their length, and what they say.                        *)
(***************************************************************************)
EXTENDS Secp

COMPRESSION_THRESHOLD == 1024

Bytes(form, n, what) == [form |-> form, len |-> n, says |-> what]

derive_shared_secret(my_secret, peer_xonly) == ecdh_x(my_secret, peer_xonly)

\* What gzip makes of a text: zipped is the length it gets.
gzip(t, zipped) == Bytes("zipped", zipped, t)

\* Long texts, if that makes them shorter.
compress_if_large(t, zipped) ==
    IF t.len > COMPRESSION_THRESHOLD /\ zipped < t.len THEN gzip(t, zipped) ELSE t

\* The length of the ciphertext: padded to the next block, never by nothing.
cbc_len(n) == (n \div 16 + 1) * 16

\* The payload: the prefix, the separator, both parts base64, the length of the
\* vector, and the ciphertext.
format(key, iv, data, compressed) ==
    [gz |-> compressed, separator |-> TRUE, base64 |-> TRUE, iv_len |-> 16, iv |-> iv,
     len |-> cbc_len(data.len), box |-> [key |-> key, iv |-> iv, whole |-> TRUE, data |-> data]]

encrypt_with_iv(my_secret, peer_xonly, t, iv) ==
    {format(key, iv, t, FALSE) : key \in derive_shared_secret(my_secret, peer_xonly)}

encrypt_auto_with_iv(my_secret, peer_xonly, t, zipped, iv, has_gzip) ==
    LET data == IF has_gzip THEN compress_if_large(t, zipped) ELSE t
    IN  {format(key, iv, data, data.form = "zipped") :
            key \in derive_shared_secret(my_secret, peer_xonly)}

\* What a ciphertext may decrypt to: the data it was made of if nothing has
\* changed, else other bytes, unless the padding gives it away.  A changed vector
\* changes the first block alone, where gzip has fields of no consequence.
aes_cbc_decrypt(key, payload) ==
    LET box     == payload.box
        garbled == {Ok(Bytes(form, payload.len, "garbage")) : form \in {"utf8", "other"}}
    IN  IF box.key # key \/ ~box.whole THEN {Err} \cup garbled
        ELSE IF box.iv = payload.iv THEN {Ok(box.data)}
        ELSE {Err} \cup garbled \cup (IF box.data.form = "zipped" THEN {Ok(box.data)} ELSE {})

\* gzip's own checksum gives away what is not its output.
decompress(data, has_gzip) == IF has_gzip /\ data.form = "zipped" THEN Ok(data.says) ELSE Err

from_utf8(data) == IF data.form = "utf8" THEN Ok(data) ELSE Err

\* The results decrypt may have.
decrypt(my_secret, peer_xonly, payload, has_gzip) ==
    IF ~payload.separator \/ ~payload.base64 \/ payload.iv_len # 16 THEN {Err}
    ELSE UNION {{UNION {from_utf8(p) :
                     p \in IF payload.gz THEN UNION {decompress(d, has_gzip) : d \in plain} ELSE plain} :
                    plain \in aes_cbc_decrypt(key, payload)} :
                key \in derive_shared_secret(my_secret, peer_xonly)}
           \cup (IF derive_shared_secret(my_secret, peer_xonly) = {} THEN {Err} ELSE {})
=============================================================================
