-------------------------------- MODULE Nip44 --------------------------------
(***************************************************************************)
(* NIP-44 as src/src/crypto/nip44.rs implements it: lengths, padding and   *)
(* the framing of the payload as they are, the cipher by what it promises. *)
(*                                                                         *)
(* A text is a record of its length in bytes and of what it says.  A       *)
(* sealed box opens with the key and the nonce it was made with, if it     *)
(* has not been changed.  The nonce of an encryption is the caller's.      *)
(***************************************************************************)
EXTENDS Secp

VERSION         == 2
NONCE_SIZE      == 24
MAC_SIZE        == 16
MIN_PADDED_LEN  == 32
MAX_MESSAGE_LEN == 65535

Text(n, what) == [len |-> n, says |-> what]

\* The first n bytes of text t.
Take(t, n) == IF n = t.len THEN t ELSE Text(n, [cut |-> t.says])

Maximum(a, b)     == IF a >= b THEN a ELSE b
RoundUp(n, chunk) == ((n + chunk - 1) \div chunk) * chunk

PowersOfTwo ==
    {1, 2, 4, 8, 16, 32, 64, 128, 256, 512, 1024, 2048, 4096, 8192, 16384, 32768, 65536}

next_power_of_two(n) ==
    CHOOSE p \in PowersOfTwo : n <= p /\ \A q \in PowersOfTwo : n <= q => p <= q

\* Slip: the chunk grows with the power of two below the length.
Below_calc_padded_len(n) ==
    IF n = 0 \/ n > MAX_MESSAGE_LEN THEN Err
    ELSE IF n <= 32 THEN Ok(32)
    ELSE Ok(RoundUp(n, Maximum(32, (next_power_of_two(n) \div 2) \div 8)))

\* Slip: the length 2^16, which two bytes do not hold, is let through.
OffByOne_calc_padded_len(n) ==
    IF n = 0 \/ n > MAX_MESSAGE_LEN + 1 THEN Err
    ELSE IF n <= 32 THEN Ok(32)
    ELSE Ok(RoundUp(n, Maximum(32, next_power_of_two(n) \div 8)))

calc_padded_len(n) ==
    IF n = 0 \/ n > MAX_MESSAGE_LEN THEN Err
    ELSE IF n <= 32 THEN Ok(32)
    ELSE Ok(RoundUp(n, Maximum(32, next_power_of_two(n) \div 8)))

\* Slip: the length is not split into bytes.
Unsplit_Padded(t, n) == [hi |-> 0, lo |-> t.len, text |-> t, len |-> 2 + n]

\* Two bytes of length, the text, zeros.
Padded(t, n) == [hi |-> (t.len \div 256) % 256, lo |-> t.len % 256, text |-> t, len |-> 2 + n]

pad(t) == {Padded(t, n) : n \in calc_padded_len(t.len)}

unpad(p) ==
    LET n == p.hi * 256 + p.lo
    IN  {Take(p.text, n) :
            expected \in {m \in calc_padded_len(n) : p.len >= 2 + MIN_PADDED_LEN /\ p.len = 2 + m}}

\* Slip: the two keys enter the salt as mine and the peer's.
MineFirst_salt(mine, peers) == <<mine, peers>>

\* The two public keys in ascending order.
salt(mine, peers) == IF mine <= peers THEN <<mine, peers>> ELSE <<peers, mine>>

derive_conversation_key(my_secret, peer_xonly) ==
    {<<shared, salt(mine, peer_xonly)>> :
        shared \in ecdh_x(my_secret, peer_xonly), mine \in xonly_public_key(my_secret)}

base64_len(n) == 4 * ((n + 2) \div 3)

\* The payload: whether it is base64 at all, its bytes, and what they hold.
Payload(n, nonce, box) ==
    [base64 |-> TRUE, version |-> VERSION, len |-> n, nonce |-> nonce, box |-> box]

encrypt_with_key_nonce(conversation_key, nonce, t) ==
    {Payload(1 + NONCE_SIZE + p.len + MAC_SIZE, nonce,
             [key |-> <<conversation_key, nonce>>, whole |-> TRUE, padded |-> p]) : p \in pad(t)}

\* Slip: the tag of the cipher is not looked at.
NoMac_opens(box, key) == box.key = key

\* Does the cipher's tag check?
opens(box, key) == box.whole /\ box.key = key

decrypt_with_key(conversation_key, payload) ==
    IF /\ payload.base64
       /\ payload.len >= 1 + NONCE_SIZE + MIN_PADDED_LEN + MAC_SIZE
       /\ payload.version = VERSION
       /\ opens(payload.box, <<conversation_key, payload.nonce>>)
    THEN unpad(payload.box.padded)
    ELSE Err

decrypt(my_secret, peer_xonly, payload) ==
    UNION {decrypt_with_key(k, payload) : k \in derive_conversation_key(my_secret, peer_xonly)}
=============================================================================
