-------------------------- MODULE EnvelopesProofs --------------------------
(***************************************************************************)
(* Proofs about Envelopes and the modules it is built from.                *)
(***************************************************************************)
EXTENDS Envelopes, Integers, FiniteSetTheorems, SequenceTheorems, TLAPS

(* Key agreement.                                                          *)

\* The remainder of a division is the one there is.
LEMMA ModIs ==
    ASSUME NEW x \in Nat, NEW d \in Nat, d > 0, NEW q \in Nat, NEW r \in Nat, r < d, x = d * q + r
    PROVE  x % d = r
<1> DEFINE p == x \div d
           s == x % d
<1>1. p \in Int /\ s \in Int /\ x = d * p + s /\ 0 <= s /\ s < d
  OBVIOUS
<1> HIDE DEF p, s
<1>2. d * (p - q) = r - s
  BY <1>1
<1>3. ~(p > q)
  <2> SUFFICES ASSUME p > q PROVE FALSE
    OBVIOUS
  <2>1. p - q \in Nat /\ p - q >= 1
    BY <1>1
  <2>2. d * (p - q) >= d
    BY <2>1
  <2> QED
    BY <1>1, <1>2, <2>2
<1>4. ~(p < q)
  <2> SUFFICES ASSUME p < q PROVE FALSE
    OBVIOUS
  <2>1. q - p \in Nat /\ q - p >= 1
    BY <1>1
  <2>2. d * (q - p) >= d
    BY <2>1
  <2>3. d * (q - p) = s - r
    BY <1>1
  <2> QED
    BY <1>1, <2>2, <2>3
<1>5. p = q
  BY <1>1, <1>3, <1>4
<1>6. s = r
  BY <1>1, <1>5
<1> QED
  BY <1>6 DEF s

\* The product with the opposite of b is the opposite of the product with b.
LEMMA Opposite ==
    ASSUME NEW a \in Points, NEW b \in Points
    PROVE  /\ (a * b) % Order \in Points
           /\ (a * (Order - b)) % Order = Order - ((a * b) % Order)
<1> DEFINE q == (a * b) \div Order
           r == (a * b) % Order
<1>1. Order \in Nat /\ Order > 2 /\ r # 0
  BY SecpAssumption DEF Points
<1>2. a \in Nat /\ b \in Nat /\ a > 0 /\ b > 0 /\ a < Order /\ b < Order
  BY <1>1 DEF Points
<1>3. a * b \in Nat
  BY <1>2
<1>4. q \in Int /\ r \in Nat /\ a * b = Order * q + r /\ r < Order
  BY <1>1, <1>3
<1> HIDE DEF q, r
<1>5. q \in Nat /\ a - q - 1 \in Nat
  <2>1. a * b < a * Order
    BY <1>1, <1>2
  <2>2. Order * q < Order * a
    BY <1>1, <1>2, <1>4, <2>1
  <2>3. q < a
    BY <1>1, <1>2, <1>4, <2>2
  <2>4. q >= 0
    BY <1>1, <1>3, <1>4
  <2> QED
    BY <1>2, <1>4, <2>3, <2>4
<1>6. a * (Order - b) = Order * (a - q - 1) + (Order - r)
  BY <1>1, <1>2, <1>4
<1>7. a * (Order - b) \in Nat /\ Order - r \in Nat /\ Order - r < Order
  BY <1>1, <1>2, <1>4
<1>8. (a * (Order - b)) % Order = Order - r
  <2> DEFINE x == a * (Order - b)
             k == a - q - 1
             l == Order - r
  <2>1. x \in Nat /\ k \in Nat /\ l \in Nat /\ l < Order /\ x = Order * k + l
    BY <1>5, <1>6, <1>7
  <2> HIDE DEF x, k, l
  <2>2. x % Order = l
    BY <1>1, <2>1, ModIs
  <2> QED
    BY <2>2 DEF x, l
<1>9. r \in Points
  BY <1>1, <1>4 DEF Points
<1>10. (a * b) % Order = r
  BY Zenon DEF r
<1>11. (a * b) % Order \in Points
  BY Zenon, <1>9, <1>10
<1>12. (a * (Order - b)) % Order = Order - ((a * b) % Order)
  BY Zenon, <1>8, <1>10
<1> QED
  BY Zenon, <1>11, <1>12

\* A point and its opposite have the same x coordinate.
LEMMA SameX ==
    ASSUME NEW p \in Points, NEW q \in Points
    PROVE  /\ XCoord(Order - p) = XCoord(p)
           /\ XCoord(q) = XCoord(p) <=> q = p \/ q = Order - p
  BY SecpAssumption DEF XCoord, Points

\* Of a point and its opposite one counts as even: the order is odd.
LEMMA OneIsEven ==
    ASSUME NEW p \in Points
    PROVE  peer_public_key(XCoord(p)) = {IF p % 2 = 0 THEN p ELSE Order - p}
<1>1. Order \in Nat /\ Order % 2 = 1 /\ p \in Nat /\ p < Order /\ p > 0
  BY SecpAssumption DEF Points
<1>2. Order - p \in Points
  BY <1>1 DEF Points
<1>3. (p % 2 = 0) <=> ~((Order - p) % 2 = 0)
  BY <1>1
<1>4. peer_public_key(XCoord(p)) = {q \in Points : (q = p \/ q = Order - p) /\ q % 2 = 0}
  BY SameX DEF peer_public_key
<1> QED
  BY <1>2, <1>3, <1>4

\* Key agreement by a with the identity of b is by the product of the two secrets.
LEMMA Agreement ==
    ASSUME NEW a \in Points, NEW b \in Points
    PROVE  ecdh_x(a, XCoord(b)) = {XCoord((a * b) % Order)}
<1>1. CASE b % 2 = 0
  <2>1. peer_public_key(XCoord(b)) = {b}
    BY <1>1, OneIsEven
  <2> QED
    BY <2>1 DEF ecdh_x
<1>2. CASE b % 2 # 0
  <2>1. peer_public_key(XCoord(b)) = {Order - b}
    BY <1>2, OneIsEven
  <2>2. XCoord((a * (Order - b)) % Order) = XCoord((a * b) % Order)
    <3> DEFINE r == (a * b) % Order
               s == (a * (Order - b)) % Order
    <3>1. r \in Points /\ s = Order - r
      BY Opposite
    <3> HIDE DEF r, s
    <3>2. XCoord(s) = XCoord(r)
      BY <3>1, SameX
    <3> QED
      BY Zenon, <3>2 DEF r, s
  <2>3. ecdh_x(a, XCoord(b)) = {XCoord((a * (Order - b)) % Order)}
    BY <2>1 DEF ecdh_x
  <2> QED
    BY <2>2, <2>3
<1> QED
  BY <1>1, <1>2

-----------------------------------------------------------------------------
(* Lengths and padding.                                                    *)

Chunks == {32, 64, 128, 256, 512, 1024, 2048, 4096, 8192}

\* Rounding up to a chunk reaches the next multiple of it.
LEMMA Rounded ==
    ASSUME NEW n \in Nat, n > 0, NEW c \in Chunks
    PROVE  /\ RoundUp(n, c) \in Nat /\ RoundUp(n, c) % c = 0
           /\ n <= RoundUp(n, c) /\ RoundUp(n, c) < n + c
<1>1. CASE c = 32
  BY <1>1 DEF RoundUp
<1>2. CASE c = 64
  BY <1>2 DEF RoundUp
<1>3. CASE c = 128
  BY <1>3 DEF RoundUp
<1>4. CASE c = 256
  BY <1>4 DEF RoundUp
<1>5. CASE c = 512
  BY <1>5 DEF RoundUp
<1>6. CASE c = 1024
  BY <1>6 DEF RoundUp
<1>7. CASE c = 2048
  BY <1>7 DEF RoundUp
<1>8. CASE c = 4096
  BY <1>8 DEF RoundUp
<1>9. CASE c = 8192
  BY <1>9 DEF RoundUp
<1> QED
  BY <1>1, <1>2, <1>3, <1>4, <1>5, <1>6, <1>7, <1>8, <1>9 DEF Chunks

\* Is p the smallest power of two from n on?
Next2(n, p) == p \in PowersOfTwo /\ n <= p /\ \A q \in PowersOfTwo : n <= q => p <= q

\* The next power of two is less than twice the length.
LEMMA NextPower ==
    ASSUME NEW n \in Nat, n > 32, n <= 65535
    PROVE  /\ next_power_of_two(n) \in {64, 128, 256, 512, 1024, 2048, 4096, 8192, 16384, 32768, 65536}
           /\ n <= next_power_of_two(n) /\ next_power_of_two(n) < 2 * n
<1> DEFINE Exists == \E p : Next2(n, p)
<1> HIDE DEF Exists
<1>1. Exists
  <2>1. CASE 32 < n /\ n <= 64
    <3>1. Next2(n, 64)
      BY <2>1 DEF PowersOfTwo, Next2
    <3> QED
      BY <3>1 DEF Exists
  <2>2. CASE 64 < n /\ n <= 128
    <3>1. Next2(n, 128)
      BY <2>2 DEF PowersOfTwo, Next2
    <3> QED
      BY <3>1 DEF Exists
  <2>3. CASE 128 < n /\ n <= 256
    <3>1. Next2(n, 256)
      BY <2>3 DEF PowersOfTwo, Next2
    <3> QED
      BY <3>1 DEF Exists
  <2>4. CASE 256 < n /\ n <= 512
    <3>1. Next2(n, 512)
      BY <2>4 DEF PowersOfTwo, Next2
    <3> QED
      BY <3>1 DEF Exists
  <2>5. CASE 512 < n /\ n <= 1024
    <3>1. Next2(n, 1024)
      BY <2>5 DEF PowersOfTwo, Next2
    <3> QED
      BY <3>1 DEF Exists
  <2>6. CASE 1024 < n /\ n <= 2048
    <3>1. Next2(n, 2048)
      BY <2>6 DEF PowersOfTwo, Next2
    <3> QED
      BY <3>1 DEF Exists
  <2>7. CASE 2048 < n /\ n <= 4096
    <3>1. Next2(n, 4096)
      BY <2>7 DEF PowersOfTwo, Next2
    <3> QED
      BY <3>1 DEF Exists
  <2>8. CASE 4096 < n /\ n <= 8192
    <3>1. Next2(n, 8192)
      BY <2>8 DEF PowersOfTwo, Next2
    <3> QED
      BY <3>1 DEF Exists
  <2>9. CASE 8192 < n /\ n <= 16384
    <3>1. Next2(n, 16384)
      BY <2>9 DEF PowersOfTwo, Next2
    <3> QED
      BY <3>1 DEF Exists
  <2>10. CASE 16384 < n /\ n <= 32768
    <3>1. Next2(n, 32768)
      BY <2>10 DEF PowersOfTwo, Next2
    <3> QED
      BY <3>1 DEF Exists
  <2>11. CASE 32768 < n /\ n <= 65536
    <3>1. Next2(n, 65536)
      BY <2>11 DEF PowersOfTwo, Next2
    <3> QED
      BY <3>1 DEF Exists
  <2> QED
    BY <2>1, <2>2, <2>3, <2>4, <2>5, <2>6, <2>7, <2>8, <2>9, <2>10, <2>11
<1>2. Next2(n, next_power_of_two(n))
  BY <1>1 DEF next_power_of_two, Next2, Exists
<1>3. ASSUME NEW p, Next2(n, p)
      PROVE  /\ p \in {64, 128, 256, 512, 1024, 2048, 4096, 8192, 16384, 32768, 65536}
             /\ n <= p /\ p < 2 * n
  BY <1>3 DEF PowersOfTwo, Next2
<1> QED
  BY <1>2, <1>3

\* Does m tell little of n?
Hides(n, m) ==
    /\ n <= m /\ m - n < Maximum(32, (n + 3) \div 4)
    /\ \E step \in PowersOfTwo : step >= 32 /\ m % step = 0 /\ m <= 8 * step

\* The length that texts of n bytes are padded to.
PaddedLen(n) == IF n <= 32 THEN 32 ELSE RoundUp(n, Maximum(32, next_power_of_two(n) \div 8))

\* The padded length of every length that a message may have.
LEMMA PaddedWell ==
    ASSUME NEW n \in Nat, n > 0, n <= 65535
    PROVE  /\ calc_padded_len(n) = {PaddedLen(n)}
           /\ PaddedLen(n) \in Nat /\ PaddedLen(n) >= 32 /\ PaddedLen(n) <= 65536
           /\ Hides(n, PaddedLen(n))
           /\ IF n <= 40960 THEN PaddedLen(n) <= 40960 ELSE PaddedLen(n) >= 49152
<1>1. calc_padded_len(n) = {PaddedLen(n)}
  BY DEF calc_padded_len, MAX_MESSAGE_LEN, Ok, PaddedLen
<1>2. CASE n <= 32
  <2>1. PaddedLen(n) = 32
    BY <1>2 DEF PaddedLen
  <2>2. Hides(n, 32)
    BY <1>2 DEF Hides, Maximum, PowersOfTwo
  <2> QED
    BY <1>1, <1>2, <2>1, <2>2
<1>3. CASE n > 32
  <2> DEFINE p == next_power_of_two(n)
             c == Maximum(32, p \div 8)
             m == RoundUp(n, c)
  <2>1. PaddedLen(n) = m
    BY <1>3 DEF PaddedLen
  <2>2. /\ p \in {64, 128, 256, 512, 1024, 2048, 4096, 8192, 16384, 32768, 65536}
        /\ n <= p /\ p < 2 * n
    BY <1>3, NextPower
  <2> HIDE DEF p
  <2>3. /\ c \in Chunks /\ p <= 8 * c
        /\ c = 32 \/ p = 8 * c
    BY <2>2 DEF Chunks, Maximum
  <2> HIDE DEF c
  <2>4. m \in Nat /\ m % c = 0 /\ n <= m /\ m < n + c
    BY <2>3, Rounded
  <2> HIDE DEF m
  <2>5. m <= 8 * c
    BY <2>2, <2>3, <2>4 DEF Chunks
  <2>6. m - n < Maximum(32, (n + 3) \div 4)
    BY <2>2, <2>3, <2>4 DEF Chunks, Maximum
  <2>7. c \in PowersOfTwo /\ c >= 32 /\ 8 * c <= 65536
    BY <2>3 DEF Chunks, PowersOfTwo
  <2>8. m \in Nat /\ m >= 32 /\ m <= 65536
    BY <1>3, <2>3, <2>4, <2>5, <2>7 DEF Chunks
  <2>9. Hides(n, m)
    BY <2>4, <2>5, <2>6, <2>7 DEF Hides
  <2>10. n <= 40960 => m <= 40960
    BY <2>2, <2>3, <2>4 DEF Chunks
  <2>11. n > 40960 => m >= 49152
    <3>1. n > 40960 => c = 8192
      BY <2>2, <2>3 DEF Chunks
    <3> QED
      BY <2>4, <3>1
  <2>12. IF n <= 40960 THEN m <= 40960 ELSE m >= 49152
    BY <2>10, <2>11
  <2> QED
    BY <1>1, <2>1, <2>8, <2>9, <2>12
<1> QED
  BY <1>2, <1>3

-----------------------------------------------------------------------------
(* Round trips.                                                            *)

\* What pad makes of a text, unpad makes the text of again.
LEMMA PadUnpad ==
    ASSUME NEW t, t.len \in Nat, t.len > 0, t.len <= 65535
    PROVE  pad(t) = {Padded(t, PaddedLen(t.len))} /\ unpad(Padded(t, PaddedLen(t.len))) = {t}
<1> DEFINE n == PaddedLen(t.len)
           p == Padded(t, n)
<1>1. calc_padded_len(t.len) = {n} /\ n \in Nat /\ n >= 32
  BY PaddedWell
<1> HIDE DEF n
<1>2. pad(t) = {p}
  BY <1>1 DEF pad
<1>3. p.text = t /\ p.len = 2 + n /\ p.hi = (t.len \div 256) % 256 /\ p.lo = t.len % 256
  BY DEF Padded
<1> HIDE DEF p
<1>4. p.hi * 256 + p.lo = t.len
  BY <1>3
<1>5. {m \in calc_padded_len(t.len) : p.len >= 2 + MIN_PADDED_LEN /\ p.len = 2 + m} = {n}
  BY <1>1, <1>3 DEF MIN_PADDED_LEN
<1>6. Take(p.text, t.len) = t
  BY <1>3 DEF Take
<1>7. unpad(p) = {t}
  BY <1>4, <1>5, <1>6 DEF unpad
<1> QED
  BY <1>2, <1>7 DEF n, p

\* The conversation key of a with the identity of b.
Key(a, b) == <<XCoord((a * b) % Order), salt(XCoord(a), XCoord(b))>>

LEMMA ConversationKey ==
    ASSUME NEW a \in Points, NEW b \in Points
    PROVE  derive_conversation_key(a, XCoord(b)) = {Key(a, b)}
<1>1. ecdh_x(a, XCoord(b)) = {XCoord((a * b) % Order)}
  BY Agreement
<1>2. xonly_public_key(a) = {XCoord(a)}
  BY DEF xonly_public_key, Ok
<1> DEFINE K(shared, mine) == <<shared, salt(mine, XCoord(b))>>
           keys == {K(shared, mine) : shared \in ecdh_x(a, XCoord(b)), mine \in xonly_public_key(a)}
<1>3. derive_conversation_key(a, XCoord(b)) = keys
  BY DEF derive_conversation_key
<1>4. keys = {K(XCoord((a * b) % Order), XCoord(a))}
  <2> HIDE DEF K
  <2> QED
    BY <1>1, <1>2
<1> QED
  BY <1>3, <1>4 DEF Key

\* Either side derives the same key: whichever is first, and whichever of its two
\* secrets an identity holds.
LEMMA SameKey ==
    ASSUME NEW a \in Points, NEW b \in Points, NEW c \in Points, XCoord(c) = XCoord(b)
    PROVE  derive_conversation_key(c, XCoord(a)) = {Key(a, b)}
<1>1. derive_conversation_key(c, XCoord(a)) = {Key(c, a)}
  BY ConversationKey
<1>2. {XCoord((a * c) % Order)} = {XCoord((a * b) % Order)}
  BY Agreement
<1>3. a * c = c * a
  BY SecpAssumption DEF Points
<1>4. XCoord((c * a) % Order) = XCoord((a * b) % Order)
  BY Zenon, <1>2, <1>3
<1>5. XCoord(a) \in Nat /\ XCoord(b) \in Nat
  BY SecpAssumption DEF Points, XCoord
<1>6. salt(XCoord(c), XCoord(a)) = salt(XCoord(a), XCoord(b))
  BY <1>5 DEF salt
<1> QED
  BY Zenon, <1>1, <1>4, <1>6 DEF Key

\* The payload of a text of n bytes under a key and a nonce.
PayloadOf(k, nonce, t) ==
    LET p == Padded(t, PaddedLen(t.len))
    IN  Payload(1 + NONCE_SIZE + p.len + MAC_SIZE, nonce,
                [key |-> <<k, nonce>>, whole |-> TRUE, padded |-> p])

LEMMA OnePayload ==
    ASSUME NEW k, NEW nonce, NEW t, t.len \in Nat
    PROVE  encrypt_with_key_nonce(k, nonce, t) =
               IF t.len > 0 /\ t.len <= 65535 THEN {PayloadOf(k, nonce, t)} ELSE {}
<1>1. CASE t.len > 0 /\ t.len <= 65535
  <2>1. pad(t) = {Padded(t, PaddedLen(t.len))}
    BY <1>1, PadUnpad
  <2> QED
    BY <1>1, <2>1 DEF encrypt_with_key_nonce, PayloadOf
<1>2. CASE ~(t.len > 0 /\ t.len <= 65535)
  <2>1. calc_padded_len(t.len) = {}
    BY <1>2 DEF calc_padded_len, MAX_MESSAGE_LEN, Err
  <2>2. pad(t) = {}
    BY <2>1 DEF pad
  <2>3. encrypt_with_key_nonce(k, nonce, t) = {}
    BY <2>2 DEF encrypt_with_key_nonce
  <2> QED
    BY <1>2, <2>3
<1> QED
  BY <1>1, <1>2

\* What a encrypts for an identity, every holder of a secret of that identity
\* decrypts to exactly the text, for every pair of keys, every order of the group
\* and every length that is accepted.
THEOREM RecipientReads ==
    ASSUME NEW a \in Points, NEW b \in Points, NEW c \in Points, XCoord(c) = XCoord(b),
           NEW k \in derive_conversation_key(a, XCoord(b)), NEW nonce,
           NEW t, t.len \in Nat, NEW w \in encrypt_with_key_nonce(k, nonce, t)
    PROVE  decrypt(c, XCoord(a), w) = {t}
<1>1. k = Key(a, b) /\ derive_conversation_key(c, XCoord(a)) = {k}
  BY ConversationKey, SameKey
<1>2. t.len > 0 /\ t.len <= 65535 /\ w = PayloadOf(k, nonce, t)
  BY OnePayload
<1> DEFINE p == Padded(t, PaddedLen(t.len))
<1>3. unpad(p) = {t} /\ p.len \in Nat /\ p.len >= 34
  BY <1>2, PadUnpad, PaddedWell DEF Padded
<1> HIDE DEF p
<1>4. w = Payload(1 + NONCE_SIZE + p.len + MAC_SIZE, nonce,
                  [key |-> <<k, nonce>>, whole |-> TRUE, padded |-> p])
  BY <1>2 DEF PayloadOf, p
<1>5. /\ w.base64 = TRUE /\ w.version = VERSION /\ w.nonce = nonce
      /\ w.len = 1 + NONCE_SIZE + p.len + MAC_SIZE
      /\ w.box.whole = TRUE /\ w.box.key = <<k, nonce>> /\ w.box.padded = p
  BY <1>4 DEF Payload
<1>6. w.len >= 1 + NONCE_SIZE + MIN_PADDED_LEN + MAC_SIZE
  BY <1>3, <1>5 DEF NONCE_SIZE, MIN_PADDED_LEN, MAC_SIZE
<1>7. decrypt_with_key(k, w) = {t}
  BY <1>3, <1>5, <1>6 DEF decrypt_with_key, opens
<1> QED
  BY <1>1, <1>7 DEF decrypt

-----------------------------------------------------------------------------
(* What the length of a payload tells.                                     *)

\* PaddingHides of one payload.
Hidden(p) ==
    LET padded == p.len - (1 + NONCE_SIZE + 2 + MAC_SIZE)
        text   == p.box.padded.text.len
    IN  /\ text <= padded /\ padded - text < Maximum(32, (text + 3) \div 4)
        /\ \E step \in PowersOfTwo : step >= 32 /\ padded % step = 0 /\ padded <= 8 * step

LEMMA PayloadHidden ==
    ASSUME NEW k, NEW nonce, NEW t, t.len \in Nat, NEW w \in encrypt_with_key_nonce(k, nonce, t)
    PROVE  Hidden(w) /\ w.len \in Nat
<1>1. t.len > 0 /\ t.len <= 65535 /\ w = PayloadOf(k, nonce, t)
  BY OnePayload
<1> DEFINE n == PaddedLen(t.len)
<1>2. n \in Nat /\ Hides(t.len, n)
  BY <1>1, PaddedWell
<1>3. w.len = 1 + NONCE_SIZE + (2 + n) + MAC_SIZE /\ w.box.padded.text = t
  BY <1>1 DEF PayloadOf, Padded, Payload
<1> HIDE DEF n
<1>4. w.len - (1 + NONCE_SIZE + 2 + MAC_SIZE) = n /\ w.len \in Nat
  BY <1>2, <1>3 DEF NONCE_SIZE, MAC_SIZE
<1> QED
  BY <1>2, <1>3, <1>4 DEF Hides, Hidden

\* The content of an event that layer makes is a payload of the text.
LEMMA LayerContent ==
    ASSUME NEW kind, NEW tags, NEW secret, NEW recipient, NEW nonce, NEW t,
           NEW w \in layer(kind, tags, secret, recipient, nonce, t)
    PROVE  w.id.content = w.content /\ \E k : w.content \in encrypt_with_key_nonce(k, nonce, t)
<1> DEFINE contents == UNION {encrypt_with_key_nonce(k, nonce, t) : k \in derive_conversation_key(secret, recipient)}
           made == {<<pub, content>> : pub \in xonly_public_key(secret), content \in contents}
           events(m) == {Signed(calculate_id(m[1], kind, tags, m[2]), sig) :
                            sig \in sign(calculate_id(m[1], kind, tags, m[2]), secret)}
<1>1. w \in UNION {events(m) : m \in made}
  BY DEF layer
<1>2. PICK m \in made : w \in events(m)
  BY <1>1
<1>3. w.content = m[2] /\ w.id.content = m[2]
  BY <1>2 DEF Signed, calculate_id
<1>4. m[2] \in contents
  <2> HIDE DEF contents
  <2> QED
    BY <1>2
<1>5. PICK k \in derive_conversation_key(secret, recipient) : m[2] \in encrypt_with_key_nonce(k, nonce, t)
  BY <1>4
<1> QED
  BY <1>3, <1>5

\* The seal of a text that has a length is a text that has one.
LEMMA SealLength ==
    ASSUME NEW tags, NEW secret, NEW recipient, NEW nonce, NEW t, t.len \in Nat, NEW kind,
           NEW s \in layer(kind, tags, secret, recipient, nonce, t)
    PROVE  seal_json(s).len \in Nat /\ s.content.len \in Nat
<1>1. s.content.len \in Nat
  BY LayerContent, PayloadHidden
<1>2. seal_json(s).len = SEAL_FRAME + base64_len(s.content.len)
  BY DEF seal_json, Text
<1> QED
  BY <1>1, <1>2 DEF SEAL_FRAME, base64_len

LEMMA LayerHidden ==
    ASSUME NEW kind, NEW tags, NEW secret, NEW recipient, NEW nonce, NEW t, t.len \in Nat,
           NEW w \in layer(kind, tags, secret, recipient, nonce, t)
    PROVE  Hidden(w.content)
  BY LayerContent, PayloadHidden

LEMMA BodyLength ==
    ASSUME NEW n \in Lengths
    PROVE  Body(n).len = n /\ n \in Nat
  BY EnvelopesAssumption DEF Body, Text

LEMMA RumorLength ==
    ASSUME NEW r, r.content.len \in Nat
    PROVE  rumor_json(r).len \in Nat
  BY DEF rumor_json, Text, RUMOR_FRAME, REPLY_FRAME

LEMMA WrapsHidden ==
    ASSUME NEW from, NEW to, NEW n \in Lengths, NEW reply, NEW w \in create_gift_wrap(from, to, Params(n, reply))
    PROVE  Hidden(w.content)
<1> DEFINE params == Params(n, reply)
           rumors == {[kind    |-> CHAT_MESSAGE,
                       pubkey  |-> pub,
                       tags    |-> rumor_tags(to, params.reply_to),
                       content |-> params.content] : pub \in xonly_public_key(from)}
           seals  == UNION {layer(SEAL, <<>>, from, to, params.seal_nonce, rumor_json(r)) : r \in rumors}
<1>1. PICK s \in seals : w \in layer(GIFT_WRAP, <<<<"p", to>>>>, params.ephemeral_secret, to,
                                    params.wrap_nonce, seal_json(s))
  <2> HIDE DEF params
  <2> QED
    BY DEF create_gift_wrap, params
<1>2. PICK r \in rumors : s \in layer(SEAL, <<>>, from, to, params.seal_nonce, rumor_json(r))
  OBVIOUS
<1>3. r.content = Body(n)
  BY DEF Params
<1>4. rumor_json(r).len \in Nat
  BY <1>3, BodyLength, RumorLength
<1> HIDE DEF params
<1>5. seal_json(s).len \in Nat
  BY <1>2, <1>4, SealLength
<1> QED
  BY <1>1, <1>5, LayerHidden

-----------------------------------------------------------------------------
(* What fits.                                                              *)

Fits(n) == n > 0 /\ n <= 65535

LEMMA SomeKey ==
    ASSUME NEW from, NEW to
    PROVE  derive_conversation_key(from, to) # {} <=> from \in Points /\ to \in XOnly
<1>1. ASSUME from \in Points, to \in XOnly PROVE derive_conversation_key(from, to) # {}
  <2>1. PICK b \in Points : to = XCoord(b)
    BY <1>1 DEF XOnly
  <2> QED
    BY <1>1, <2>1, ConversationKey
<1>2. ASSUME ecdh_x(from, to) = {} PROVE derive_conversation_key(from, to) = {}
  BY <1>2 DEF derive_conversation_key
<1>3. ASSUME from \notin Points PROVE ecdh_x(from, to) = {}
  BY <1>3 DEF ecdh_x, Err
<1>4. ASSUME to \notin XOnly PROVE ecdh_x(from, to) = {}
  <2>1. peer_public_key(to) = {}
    BY <1>4 DEF peer_public_key, XOnly
  <2> QED
    BY <2>1 DEF ecdh_x, Err
<1> QED
  BY <1>1, <1>2, <1>3, <1>4

LEMMA SomePayload ==
    ASSUME NEW from, NEW to, NEW nonce, NEW t, t.len \in Nat
    PROVE  UNION {encrypt_with_key_nonce(k, nonce, t) : k \in derive_conversation_key(from, to)} # {}
             <=> from \in Points /\ to \in XOnly /\ Fits(t.len)
<1> DEFINE ks == derive_conversation_key(from, to)
           es(k) == encrypt_with_key_nonce(k, nonce, t)
<1>1. \A k : es(k) # {} <=> Fits(t.len)
  BY OnePayload DEF Fits
<1>2. ks # {} <=> from \in Points /\ to \in XOnly
  BY SomeKey
<1> HIDE DEF ks, es
<1>3. UNION {es(k) : k \in ks} # {} <=> ks # {} /\ Fits(t.len)
  BY <1>1
<1> QED
  BY <1>2, <1>3 DEF ks, es

LEMMA SomeLayer ==
    ASSUME NEW kind, NEW tags, NEW secret, NEW recipient, NEW nonce, NEW t, t.len \in Nat
    PROVE  layer(kind, tags, secret, recipient, nonce, t) # {}
             <=> secret \in Points /\ recipient \in XOnly /\ Fits(t.len)
<1> DEFINE contents == UNION {encrypt_with_key_nonce(k, nonce, t) : k \in derive_conversation_key(secret, recipient)}
           made == {<<pub, content>> : pub \in xonly_public_key(secret), content \in contents}
           events(m) == {Signed(calculate_id(m[1], kind, tags, m[2]), sig) :
                            sig \in sign(calculate_id(m[1], kind, tags, m[2]), secret)}
<1>1. layer(kind, tags, secret, recipient, nonce, t) = UNION {events(m) : m \in made}
  BY DEF layer
<1>2. contents # {} <=> secret \in Points /\ recipient \in XOnly /\ Fits(t.len)
  BY SomePayload
<1>3. xonly_public_key(secret) # {} <=> secret \in Points
  BY DEF xonly_public_key, Ok, Err
<1> HIDE DEF contents
<1>4. made # {} <=> contents # {} /\ secret \in Points
  <2> DEFINE Pair(pub, content) == <<pub, content>>
             pubs == xonly_public_key(secret)
  <2>1. made = {Pair(pub, content) : pub \in pubs, content \in contents}
    OBVIOUS
  <2>2. pubs # {} <=> secret \in Points
    BY <1>3
  <2> HIDE DEF Pair, made, pubs
  <2>3. ASSUME NEW pub \in pubs, NEW content \in contents PROVE Pair(pub, content) \in made
    BY <2>1
  <2>4. ASSUME NEW m \in made PROVE pubs # {} /\ contents # {}
    BY <2>1
  <2> QED
    BY <2>2, <2>3, <2>4
<1>5. ASSUME secret \in Points PROVE \A m : events(m) # {}
  BY <1>3, <1>5 DEF sign
<1> HIDE DEF made, events
<1> QED
  BY <1>1, <1>2, <1>4, <1>5

\* A seal's JSON fits the second layer if the rumor's JSON has at most 40960 bytes.
LEMMA SealFits ==
    ASSUME NEW kind, NEW tags, NEW secret, NEW recipient, NEW nonce, NEW t, t.len \in Nat,
           NEW s \in layer(kind, tags, secret, recipient, nonce, t)
    PROVE  Fits(seal_json(s).len) <=> t.len <= 40960
<1>1. PICK k : s.content \in encrypt_with_key_nonce(k, nonce, t)
  BY LayerContent
<1>2. Fits(t.len) /\ s.content = PayloadOf(k, nonce, t)
  BY <1>1, OnePayload DEF Fits
<1> DEFINE n == PaddedLen(t.len)
<1>3. n \in Nat /\ IF t.len <= 40960 THEN n <= 40960 ELSE n >= 49152
  BY <1>2, PaddedWell DEF Fits
<1>4. s.content.len = 1 + NONCE_SIZE + (2 + n) + MAC_SIZE
  BY <1>2 DEF PayloadOf, Padded, Payload
<1> HIDE DEF n
<1>5. seal_json(s).len = 343 + 4 * ((45 + n) \div 3)
  BY <1>3, <1>4 DEF seal_json, Text, SEAL_FRAME, base64_len, NONCE_SIZE, MAC_SIZE
<1> QED
  BY <1>3, <1>5 DEF Fits

\* The parts of ForeignWrap.
Junk           == Text(100, [note |-> "junk"])
ForeignRumor(from, o) == [kind |-> RECEIPT, pubkey |-> from, tags |-> o.tags, content |-> Body(10)]
ForeignSeals(from, to, flaw, o) ==
    layer(IF flaw = "seal_kind" THEN CHAT_MESSAGE ELSE SEAL, <<>>, from, to, Nonce,
          IF flaw = "rumor_text" THEN Junk ELSE rumor_json(ForeignRumor(from, o)))
Resigned(flaw, s) ==
    IF flaw = "seal_sig" THEN Signed(s.id, [key |-> s.pubkey, message |-> OtherId(s)]) ELSE s
ForeignText(flaw, s) == IF flaw = "seal_text" THEN Junk ELSE seal_json(Resigned(flaw, s))
ForeignWraps(to, flaw, s) ==
    layer(IF flaw = "wrap_kind" THEN SEAL ELSE GIFT_WRAP, <<<<"p", to>>>>, Ephemeral, to, Nonce,
          ForeignText(flaw, s))
ForeignWire(from, to, flaw, o) ==
    UNION {ForeignWraps(to, flaw, s) : s \in ForeignSeals(from, to, flaw, o)}
ForeignJob(from, to, flaw, o) ==
    Job("gift_wrap", from, to, Body(10),
        [tags |-> o.tags, reply |-> o.reply, kind |-> RECEIPT, flaw |-> flaw])

LEMMA ForeignWrites ==
    ASSUME ForeignWrap
    PROVE  \E from \in Secrets, to \in PublicKeys, flaw \in Flaws, o \in OtherTags :
               Writes(ForeignJob(from, to, flaw, o), ForeignWire(from, to, flaw, o))
<1>1. PICK from \in Secrets, to \in PublicKeys, flaw \in Flaws, o \in OtherTags :
         Writes(ForeignJob(from, to, flaw, o), ForeignWire(from, to, flaw, o))
  BY Zenon DEF ForeignWrap, ForeignJob, ForeignWire, ForeignWraps, ForeignText, Resigned, ForeignSeals,
               ForeignRumor, Junk
<1> QED
  BY Zenon, <1>1

LEMMA ForeignLengths ==
    ASSUME NEW from, NEW to, NEW flaw, NEW o, NEW s \in ForeignSeals(from, to, flaw, o)
    PROVE  /\ ForeignText(flaw, s).len \in Nat
           /\ Fits(ForeignText(flaw, s).len)
<1> DEFINE kind == IF flaw = "seal_kind" THEN CHAT_MESSAGE ELSE SEAL
           t    == IF flaw = "rumor_text" THEN Junk ELSE rumor_json(ForeignRumor(from, o))
<1>1. s \in layer(kind, <<>>, from, to, Nonce, t)
  BY DEF ForeignSeals
<1>2. Junk.len = 100
  BY DEF Junk, Text
<1>3. t.len \in Nat /\ t.len <= 40960
  <2>1. rumor_json(ForeignRumor(from, o)).len \in {288, 372}
    BY DEF rumor_json, ForeignRumor, Text, Body, RUMOR_FRAME, REPLY_FRAME
  <2> QED
    BY <1>2, <2>1
<1> HIDE DEF t
<1>4. seal_json(s).len \in Nat /\ Fits(seal_json(s).len)
  BY <1>1, <1>3, SealLength, SealFits
<1>5. seal_json(Resigned(flaw, s)).len = seal_json(s).len
  <2>1. Resigned(flaw, s).content = s.content
    BY <1>1, LayerContent DEF Resigned, Signed
  <2> QED
    BY <2>1 DEF seal_json, Text
<1> QED
  BY <1>2, <1>4, <1>5 DEF ForeignText, Fits

\* The length of every payload that is made tells little of the length of its text.
THEOREM LengthsHidden == Spec => []PaddingHides
<1>1. Init => PaddingHides
  BY DEF Init, PaddingHides
<1>2. PaddingHides /\ [Next]_vars => PaddingHides'
  <2> SUFFICES ASSUME PaddingHides, [Next]_vars, stage' = "sent", harm' = "none",
                      NEW p \in Nip44Payloads'
               PROVE  Hidden(p)
    BY DEF PaddingHides, Hidden
  <2>1. CASE WriteNip44
    <3>1. PICK from \in Secrets, to \in PublicKeys, n \in Lengths :
             Writes(Job("nip44", from, to, Body(n), {}),
                    UNION {encrypt_with_key_nonce(k, Nonce, Body(n)) : k \in derive_conversation_key(from, to)})
      BY <2>1 DEF WriteNip44
    <3>2. p \in UNION {encrypt_with_key_nonce(k, Nonce, Body(n)) : k \in derive_conversation_key(from, to)}
      BY <3>1 DEF Writes, Job, Nip44Payloads
    <3>3. PICK k : p \in encrypt_with_key_nonce(k, Nonce, Body(n))
      BY <3>2
    <3> QED
      BY <3>3, BodyLength, PayloadHidden
  <2>2. CASE WriteGiftWrap
    <3>1. PICK from \in Secrets, to \in PublicKeys, n \in EdgeLengths, reply \in {{}} \cup {{r} : r \in Replies} :
             Writes(Job("gift_wrap", from, to, Body(n),
                        [tags |-> rumor_tags(to, reply), reply |-> reply, kind |-> CHAT_MESSAGE, flaw |-> "none"]),
                    create_gift_wrap(from, to, Params(n, reply)))
      BY <2>2 DEF WriteGiftWrap
    <3>2. PICK w \in create_gift_wrap(from, to, Params(n, reply)) : p = w.content
      BY <3>1 DEF Writes, Job, Nip44Payloads
    <3> QED
      BY <3>2, WrapsHidden, EnvelopesAssumption
  <2>3. CASE WriteNip04 \/ WriteNametag \/ WriteKey \/ ForeignString
    <3>1. job'.kind \notin {"nip44", "gift_wrap"}
      <4>1. CASE WriteNip04
        <5>1. PICK from, to, t, w : Writes(Job("nip04", from, to, t, {}), w)
          BY Zenon, <4>1 DEF WriteNip04
        <5> QED
          BY <5>1 DEF Writes, Job
      <4>2. CASE WriteNametag
        BY <4>2 DEF WriteNametag, Writes, Job
      <4>3. CASE WriteKey
        BY <4>3 DEF WriteKey, Writes, Job
      <4>4. CASE ForeignString
        <5>1. PICK kind \in {"string", "key_string"} :
                   \E more, w : Writes(Job(kind, 0, 0, Body(0), more), w)
          BY Zenon, <4>4 DEF ForeignString
        <5>2. job'.kind = kind
          BY <5>1 DEF Writes, Job
        <5> QED
          BY <5>1, <5>2
      <4> QED
        BY <2>3, <4>1, <4>2, <4>3, <4>4
    <3> QED
      BY <3>1 DEF Nip44Payloads
  <2>4. CASE ForeignWrap
    <3>1. PICK from, to, flaw, o : Writes(ForeignJob(from, to, flaw, o), ForeignWire(from, to, flaw, o))
      BY <2>4, ForeignWrites
    <3>2. PICK w \in ForeignWire(from, to, flaw, o) : p = w.content
      BY <3>1 DEF Writes, Job, ForeignJob, Nip44Payloads
    <3>3. PICK s \in ForeignSeals(from, to, flaw, o) : w \in ForeignWraps(to, flaw, s)
      BY <3>2 DEF ForeignWire
    <3>4. ForeignText(flaw, s).len \in Nat
      BY <3>3, ForeignLengths
    <3> QED
      BY <3>2, <3>3, <3>4, LayerHidden DEF ForeignWraps
  <2>5. CASE DamagePayload \/ DamageWrap \/ DamageString
    BY <2>5 DEF DamagePayload, DamageWrap, DamageString, Becomes
  <2>6. CASE ReadNip44 \/ Unwrap \/ ReadNip04 \/ ReadNametag \/ ReadKey \/ ReadString
    BY <2>6 DEF ReadNip44, Unwrap, ReadNip04, ReadNametag, ReadKey, ReadString, Reads
  <2>7. CASE Again
    BY <2>7 DEF Again
  <2>8. CASE UNCHANGED vars
    BY <2>8 DEF vars, PaddingHides, Hidden, Nip44Payloads
  <2> QED
    BY <2>1, <2>2, <2>3, <2>4, <2>5, <2>6, <2>7, <2>8 DEF Next
<1> QED
  BY <1>1, <1>2, PTL DEF Spec

LEMMA SomeWrap ==
    ASSUME NEW from, NEW to, NEW n \in Lengths, NEW reply
    PROVE  create_gift_wrap(from, to, Params(n, reply)) # {}
             <=> /\ from \in Points /\ to \in XOnly
                 /\ RumorSize(n, rumor_tags(to, reply)) <= 40960
<1> DEFINE params == Params(n, reply)
           Rumor(pub) == [kind    |-> CHAT_MESSAGE,
                          pubkey  |-> pub,
                          tags    |-> rumor_tags(to, params.reply_to),
                          content |-> params.content]
           rumors  == {Rumor(pub) : pub \in xonly_public_key(from)}
           Sealed(r) == layer(SEAL, <<>>, from, to, params.seal_nonce, rumor_json(r))
           seals   == UNION {Sealed(r) : r \in rumors}
           Wraps(s) == layer(GIFT_WRAP, <<<<"p", to>>>>, params.ephemeral_secret, to,
                             params.wrap_nonce, seal_json(s))
           size    == RumorSize(n, rumor_tags(to, reply))
<1>1. create_gift_wrap(from, to, params) = UNION {Wraps(s) : s \in seals}
  BY DEF create_gift_wrap
<1>2. \A r \in rumors : rumor_json(r).len = size
  BY DEF rumor_json, Text, Body, Params, RumorSize
<1>3. size \in Nat /\ size > 0
  BY BodyLength DEF RumorSize, RUMOR_FRAME, REPLY_FRAME
<1>4. params.ephemeral_secret = Ephemeral /\ Ephemeral \in Points
  BY EnvelopesAssumption DEF Params
<1>5. rumors # {} <=> from \in Points
  BY DEF xonly_public_key, Ok, Err
<1> HIDE DEF params, Rumor, size
<1>6. \A r \in rumors : Sealed(r) # {} <=> from \in Points /\ to \in XOnly /\ Fits(size)
  BY <1>2, <1>3, SomeLayer
<1>7. \A r \in rumors : \A s \in Sealed(r) : Wraps(s) # {} <=> to \in XOnly /\ size <= 40960
  <2> TAKE r \in rumors
  <2> TAKE s \in Sealed(r)
  <2>1. seal_json(s).len \in Nat /\ (Fits(seal_json(s).len) <=> size <= 40960)
    BY <1>2, <1>3, SealLength, SealFits
  <2>2. Wraps(s) # {} <=> Ephemeral \in Points /\ to \in XOnly /\ Fits(seal_json(s).len)
    BY <1>4, <2>1, SomeLayer
  <2> QED
    BY <1>4, <2>1, <2>2
<1>8. size <= 40960 => Fits(size)
  BY <1>3 DEF Fits
<1> HIDE DEF rumors, Sealed, Wraps
<1>9. ASSUME from \in Points, to \in XOnly, size <= 40960
      PROVE  UNION {Wraps(s) : s \in seals} # {}
  <2>1. PICK r \in rumors : TRUE
    BY <1>5, <1>9
  <2>2. PICK s \in Sealed(r) : TRUE
    BY <1>6, <1>8, <1>9, <2>1
  <2>3. s \in seals /\ Wraps(s) # {}
    BY <1>7, <1>9, <2>1, <2>2
  <2> QED
    BY <2>3
<1>10. ASSUME UNION {Wraps(s) : s \in seals} # {}
       PROVE  from \in Points /\ to \in XOnly /\ size <= 40960
  <2>1. PICK s \in seals : Wraps(s) # {}
    BY <1>10
  <2>2. PICK r \in rumors : s \in Sealed(r)
    BY <2>1
  <2> QED
    BY <1>5, <1>7, <2>1, <2>2
<1> QED
  BY <1>1, <1>9, <1>10 DEF params, size

WrapOf(from, to, n, reply) == create_gift_wrap(from, to, Params(n, reply))

Wrapped(from, to, n, reply) ==
    from \in Points /\ to \in XOnly /\ RumorSize(n, rumor_tags(to, reply)) <= 40960

LEMMA SomeWrapOf ==
    ASSUME NEW from, NEW to, NEW n \in Lengths, NEW reply
    PROVE  WrapOf(from, to, n, reply) # {} <=> Wrapped(from, to, n, reply)
  BY SomeWrap DEF WrapOf, Wrapped

LEMMA SomeForeign ==
    ASSUME NEW from, NEW to, NEW flaw, NEW o
    PROVE  ForeignWire(from, to, flaw, o) # {} <=> from \in Points /\ to \in XOnly
<1> DEFINE t == IF flaw = "rumor_text" THEN Junk ELSE rumor_json(ForeignRumor(from, o))
           seals == ForeignSeals(from, to, flaw, o)
<1>1. t.len \in Nat /\ Fits(t.len)
  BY DEF rumor_json, ForeignRumor, Text, Body, RUMOR_FRAME, REPLY_FRAME, Junk, Fits
<1>2. seals # {} <=> from \in Points /\ to \in XOnly
  <2> HIDE DEF t
  <2> QED
    BY <1>1, SomeLayer DEF ForeignSeals, t
<1>3. \A s \in seals : ForeignWraps(to, flaw, s) # {} <=> to \in XOnly
  <2> TAKE s \in seals
  <2>1. ForeignText(flaw, s).len \in Nat /\ Fits(ForeignText(flaw, s).len)
    BY ForeignLengths
  <2>2. Ephemeral \in Points
    BY EnvelopesAssumption
  <2> QED
    BY <2>1, <2>2, SomeLayer DEF ForeignWraps
<1> HIDE DEF seals
<1> QED
  BY <1>2, <1>3 DEF seals, ForeignWire

LEMMA SomeSharedSecret ==
    ASSUME NEW from, NEW to
    PROVE  N04!derive_shared_secret(from, to) # {} <=> from \in Points /\ to \in XOnly
<1>1. N04!derive_shared_secret(from, to) = ecdh_x(from, to)
  BY DEF N04!derive_shared_secret, N04!ecdh_x, N04!XCoord, N04!Points, N04!peer_public_key, N04!Err,
         ecdh_x, XCoord, Points, peer_public_key, Err
<1>2. ASSUME from \in Points, to \in XOnly PROVE ecdh_x(from, to) # {}
  <2>1. PICK b \in Points : to = XCoord(b)
    BY <1>2 DEF XOnly
  <2> QED
    BY <1>2, <2>1, Agreement
<1>3. ASSUME from \notin Points PROVE ecdh_x(from, to) = {}
  BY <1>3 DEF ecdh_x, Err
<1>4. ASSUME to \notin XOnly PROVE ecdh_x(from, to) = {}
  <2>1. peer_public_key(to) = {}
    BY <1>4 DEF peer_public_key, XOnly
  <2> QED
    BY <2>1 DEF ecdh_x, Err
<1> QED
  BY <1>1, <1>2, <1>3, <1>4

LEMMA SomeNip04 ==
    ASSUME NEW from, NEW to, NEW t, NEW z, NEW g
    PROVE  /\ N04!encrypt_auto_with_iv(from, to, t, z, Nonce, g) # {} <=> from \in Points /\ to \in XOnly
           /\ N04!encrypt_with_iv(from, to, t, Nonce) # {} <=> from \in Points /\ to \in XOnly
<1> DEFINE keys == N04!derive_shared_secret(from, to)
           data == IF g THEN N04!compress_if_large(t, z) ELSE t
           Zipped(key) == N04!format(key, Nonce, data, data.form = "zipped")
           Plain(key) == N04!format(key, Nonce, t, FALSE)
<1>1. N04!encrypt_auto_with_iv(from, to, t, z, Nonce, g) = {Zipped(key) : key \in keys}
  BY DEF N04!encrypt_auto_with_iv
<1>2. N04!encrypt_with_iv(from, to, t, Nonce) = {Plain(key) : key \in keys}
  BY DEF N04!encrypt_with_iv
<1>3. keys # {} <=> from \in Points /\ to \in XOnly
  BY SomeSharedSecret
<1> HIDE DEF keys, Zipped, Plain
<1>4. {Zipped(key) : key \in keys} # {} <=> keys # {}
  OBVIOUS
<1>5. {Plain(key) : key \in keys} # {} <=> keys # {}
  OBVIOUS
<1> QED
  BY <1>1, <1>2, <1>3, <1>4, <1>5

LEMMA SomeSpelling ==
    ASSUME NEW hrp, NEW values
    PROVE  B32!Spelt(hrp, values) # {}
  BY DEF B32!Spelt

LEMMA SomeKeyString ==
    ASSUME NEW hrp, NEW key \in [1..KeyLen -> KeyBytes]
    PROVE  B32!encode(hrp, key) # {}
<1>1. \A i \in DOMAIN key : ~(key[i] >= 2^8)
  <2> TAKE i \in DOMAIN key
  <2>1. key[i] \in Nat /\ key[i] <= 255
    <3>1. key[i] \in KeyBytes
      OBVIOUS
    <3>2. KeyBytes \subseteq 0..255
      BY Zenon, EnvelopesAssumption
    <3>3. \A x \in 0..255 : x \in Nat /\ x <= 255
      OBVIOUS
    <3> QED
      BY Zenon, <3>1, <3>2, <3>3
  <2>2. 2^8 = 256
    OBVIOUS
  <2>3. ~(key[i] >= 256)
    BY <2>1
  <2> QED
    BY Zenon, <2>2, <2>3
<1> DEFINE end == B32!Grouped(key, 8, 5)
           v == IF end.bits > 0 THEN Append(end.out, B32!Rest(end, 5)) ELSE end.out
<1>2. B32!convert_bits(key, 8, 5, TRUE) = {v}
  BY <1>1 DEF B32!convert_bits, B32!Ok
<1> HIDE DEF v
<1>3. B32!encode(hrp, key) = UNION {B32!Spelt(hrp, values) : values \in {v}}
  BY Zenon, <1>2 DEF B32!encode
<1>4. B32!encode(hrp, key) = B32!Spelt(hrp, v)
  BY <1>3
<1> QED
  BY <1>4, SomeSpelling

\* An envelope is made exactly when its keys are valid and its text fits: a gift
\* wrap, which is encrypted twice, holds rumors of at most 40960 bytes.
THEOREM LimitsHold == Spec => []SizeLimits
<1>1. Init => SizeLimits
  BY DEF Init, SizeLimits
<1>2. SizeLimits /\ [Next]_vars => SizeLimits'
  <2> SUFFICES ASSUME SizeLimits, [Next]_vars PROVE SizeLimits'
    OBVIOUS
  <2>1. CASE WriteNip44
    <3>1. PICK from \in Secrets, to \in PublicKeys, n \in Lengths :
             Writes(Job("nip44", from, to, Body(n), {}),
                    UNION {encrypt_with_key_nonce(k, Nonce, Body(n)) : k \in derive_conversation_key(from, to)})
      BY <2>1 DEF WriteNip44
    <3>2. wire' # {} <=> from \in Points /\ to \in XOnly /\ n > 0 /\ n <= 65535
      BY <3>1, BodyLength, SomePayload DEF Writes, Fits
    <3>3. job'.kind = "nip44" /\ job'.from = from /\ job'.to = to /\ job'.text.len = n
      BY <3>1, BodyLength DEF Writes, Job
    <3> QED
      BY <3>2, <3>3 DEF SizeLimits
  <2>2. CASE WriteGiftWrap
    <3>1. PICK from \in Secrets, to \in PublicKeys, n \in EdgeLengths, reply \in {{}} \cup {{r} : r \in Replies} :
             Writes(Job("gift_wrap", from, to, Body(n),
                        [tags |-> rumor_tags(to, reply), reply |-> reply, kind |-> CHAT_MESSAGE, flaw |-> "none"]),
                    create_gift_wrap(from, to, Params(n, reply)))
      BY <2>2 DEF WriteGiftWrap
    <3>2. n \in Lengths
      BY EnvelopesAssumption
    <3>3. wire' # {} <=> from \in Points /\ to \in XOnly /\ RumorSize(n, rumor_tags(to, reply)) <= 40960
      <4>1. wire' = create_gift_wrap(from, to, Params(n, reply))
        BY <3>1 DEF Writes
      <4>2. WrapOf(from, to, n, reply) # {} <=> Wrapped(from, to, n, reply)
        BY <3>2, SomeWrapOf
      <4> QED
        BY <4>1, <4>2 DEF WrapOf, Wrapped
    <3>4. /\ job'.kind = "gift_wrap" /\ job'.from = from /\ job'.to = to /\ job'.text.len = n
          /\ job'.more.tags = rumor_tags(to, reply)
      BY <3>1, <3>2, BodyLength DEF Writes, Job
    <3> QED
      BY <3>3, <3>4 DEF SizeLimits
  <2>3. CASE WriteNip04
    <3>1. PICK from, to, t, w :
             /\ Writes(Job("nip04", from, to, t, {}), w)
             /\ w # {} <=> from \in Points /\ to \in XOnly
      <4>1. PICK from \in Secrets, to \in PublicKeys, n \in EdgeLengths, z \in ZippedLengths, g, auto \in BOOLEAN :
               LET t == N04!Bytes("utf8", n, [body |-> "message"])
               IN  Writes(Job("nip04", from, to, t, {}),
                          IF auto THEN N04!encrypt_auto_with_iv(from, to, t, z, Nonce, g)
                          ELSE N04!encrypt_with_iv(from, to, t, Nonce))
        BY Zenon, <2>3 DEF WriteNip04
      <4> QED
        BY <4>1, SomeNip04
    <3>2. job'.kind = "nip04" /\ job'.from = from /\ job'.to = to /\ wire' = w
      BY <3>1 DEF Writes, Job
    <3> QED
      BY <3>1, <3>2 DEF SizeLimits
  <2>4. CASE WriteNametag
    <3>1. job'.kind = "nametag" /\ wire' # {}
      BY <2>4 DEF WriteNametag, Writes, Job, NC!encrypt_nametag_with_iv, NC!Ok
    <3> QED
      BY <3>1 DEF SizeLimits
  <2>5. CASE WriteKey
    <3>1. PICK hrp, key, more :
             /\ hrp \in {B32!npub, B32!nsec} /\ key \in [1..KeyLen -> KeyBytes]
             /\ Writes(Job("key", 0, 0, Body(0), more), B32!encode(hrp, key))
      BY Zenon, <2>5 DEF WriteKey
    <3>2. job'.kind = "key" /\ wire' = B32!encode(hrp, key)
      BY <3>1 DEF Writes, Job
    <3> QED
      BY <3>1, <3>2, SomeKeyString DEF SizeLimits
  <2>6. CASE ForeignWrap
    <3>1. PICK from, to, flaw, o : Writes(ForeignJob(from, to, flaw, o), ForeignWire(from, to, flaw, o))
      BY <2>6, ForeignWrites
    <3>2. wire' # {} <=> from \in Points /\ to \in XOnly
      BY <3>1, SomeForeign DEF Writes
    <3>3. /\ job'.kind = "gift_wrap" /\ job'.from = from /\ job'.to = to /\ job'.text.len = 10
          /\ job'.more.tags = o.tags
      BY <3>1 DEF Writes, Job, ForeignJob, Body, Text
    <3>4. RumorSize(10, o.tags) <= 40960
      BY DEF RumorSize, RUMOR_FRAME, REPLY_FRAME
    <3> QED
      BY <3>2, <3>3, <3>4 DEF SizeLimits
  <2>7. CASE ForeignString
    <3>1. PICK kind \in {"string", "key_string"} :
             \E hrp, values, more : Writes(Job(kind, 0, 0, Body(0), more), B32!Spelt(hrp, values))
      BY Zenon, <2>7 DEF ForeignString
    <3>2. job'.kind = kind /\ wire' # {}
      BY <3>1, SomeSpelling DEF Writes, Job
    <3> QED
      BY <3>1, <3>2 DEF SizeLimits
  <2>8. CASE DamagePayload \/ DamageWrap \/ DamageString
    <3>1. stage = "sent" /\ wire # {} /\ wire' # {} /\ job' = job
      BY <2>8 DEF DamagePayload, DamageWrap, DamageString, Becomes, Ok
    <3> QED
      BY <3>1 DEF SizeLimits
  <2>9. CASE ReadNip44 \/ Unwrap \/ ReadNip04 \/ ReadNametag \/ ReadKey \/ ReadString
    <3>1. stage' = "read"
      BY <2>9 DEF ReadNip44, Unwrap, ReadNip04, ReadNametag, ReadKey, ReadString, Reads
    <3> QED
      BY <3>1 DEF SizeLimits
  <2>10. CASE Again
    BY <2>10 DEF Again, SizeLimits
  <2>11. CASE UNCHANGED vars
    BY <2>11 DEF vars, SizeLimits
  <2> QED
    BY <2>1, <2>2, <2>3, <2>4, <2>5, <2>6, <2>7, <2>8, <2>9, <2>10, <2>11 DEF Next
<1> QED
  BY <1>1, <1>2, PTL DEF Spec

-----------------------------------------------------------------------------
(* Who reads what.                                                         *)

\* Is p text t as it is encrypted between from and to?
Sealed(p, from, to, t) ==
    \E k \in derive_conversation_key(from, to) : p \in encrypt_with_key_nonce(k, Nonce, t)

\* Does p have the parts of a NIP-44 payload that was made with Nonce?
Framed(p) ==
    /\ DOMAIN p = {"base64", "version", "len", "nonce", "box"}
    /\ DOMAIN p.box = {"key", "whole", "padded"}
    /\ DOMAIN p.box.padded = {"hi", "lo", "text", "len"}
    /\ p.box.key[2] = Nonce
    /\ p.box.padded.hi \in 0..255 /\ p.box.padded.lo \in 0..255

\* Whatever key it is tried with, a payload that is broken does not open.
Broken(p)     == ~p.base64 \/ ~p.box.whole \/ p.nonce # p.box.key[2]
Unopenable(p) == Broken(p) \/ p.version # VERSION

LEMMA NothingOpens ==
    ASSUME NEW p, Unopenable(p), NEW r, NEW x
    PROVE  decrypt(r, x, p) = {}
<1>1. ASSUME NEW r1, NEW r2 PROVE decrypt_with_key(<<r1, r2>>, p) = {}
  BY DEF decrypt_with_key, opens, Unopenable, Broken, Err
<1>2. \A k \in derive_conversation_key(r, x) : decrypt_with_key(k, p) = {}
  BY <1>1 DEF derive_conversation_key
<1> QED
  BY <1>2 DEF decrypt

LEMMA SealedFramed ==
    ASSUME NEW p, NEW from, NEW to, NEW t, t.len \in Nat, Sealed(p, from, to, t)
    PROVE  Framed(p) /\ from \in Points /\ to \in XOnly
<1>1. PICK k \in derive_conversation_key(from, to) : p \in encrypt_with_key_nonce(k, Nonce, t)
  BY DEF Sealed
<1>2. p = PayloadOf(k, Nonce, t)
  BY <1>1, OnePayload
<1>3. from \in Points /\ to \in XOnly
  BY <1>1, SomeKey
<1> DEFINE q == Padded(t, PaddedLen(t.len))
<1>4. q.hi \in 0..255 /\ q.lo \in 0..255 /\ DOMAIN q = {"hi", "lo", "text", "len"}
  BY DEF Padded
<1> HIDE DEF q
<1>5. p = Payload(1 + NONCE_SIZE + q.len + MAC_SIZE, Nonce, [key |-> <<k, Nonce>>, whole |-> TRUE, padded |-> q])
  BY <1>2 DEF PayloadOf, q
<1>6. p.box = [key |-> <<k, Nonce>>, whole |-> TRUE, padded |-> q] /\ DOMAIN p = {"base64", "version", "len", "nonce", "box"}
  BY <1>5 DEF Payload
<1> QED
  BY <1>3, <1>4, <1>6 DEF Framed

\* What is encrypted between from and to, the holders of a secret of to read, and
\* nobody else reads anything: the salt of the key names both.
LEMMA SealedReads ==
    ASSUME NEW p, NEW from, NEW to, NEW t, t.len \in Nat, Sealed(p, from, to, t), NEW r
    PROVE  decrypt(r, XCoord(from), p) = IF r \in Points /\ XCoord(r) = to THEN {t} ELSE {}
<1>1. PICK k \in derive_conversation_key(from, to) : p \in encrypt_with_key_nonce(k, Nonce, t)
  BY DEF Sealed
<1>2. from \in Points /\ to \in XOnly
  BY SealedFramed
<1>3. PICK b \in Points : to = XCoord(b)
  BY <1>2 DEF XOnly
<1>4. CASE r \in Points /\ XCoord(r) = to
  BY <1>1, <1>2, <1>3, <1>4, RecipientReads
<1>5. CASE ~(r \in Points /\ XCoord(r) = to)
  <2>1. k = Key(from, b)
    BY <1>1, <1>2, <1>3, ConversationKey
  <2>2. p.box.key = <<k, Nonce>>
    <3>1. p = PayloadOf(k, Nonce, t)
      BY <1>1, OnePayload
    <3> QED
      BY <3>1 DEF PayloadOf, Payload
  <2>3. CASE r \notin Points
    <3>1. derive_conversation_key(r, XCoord(from)) = {}
      BY <2>3, SomeKey
    <3> QED
      BY <1>5, <3>1 DEF decrypt
  <2>4. CASE r \in Points
    <3>1. derive_conversation_key(r, XCoord(from)) = {Key(r, from)}
      BY <1>2, <2>4, ConversationKey
    <3>2. XCoord(r) \in Nat /\ XCoord(from) \in Nat /\ XCoord(b) \in Nat
      BY SecpAssumption, <1>2, <2>4 DEF Points, XCoord
    <3>3. salt(XCoord(r), XCoord(from)) # salt(XCoord(from), XCoord(b))
      BY <1>3, <1>5, <2>4, <3>2 DEF salt
    <3>4. Key(r, from) # k
      BY <2>1, <3>3 DEF Key
    <3>5. decrypt_with_key(Key(r, from), p) = {}
      BY <2>2, <3>4 DEF decrypt_with_key, opens, Err
    <3> QED
      BY <1>5, <3>1, <3>5 DEF decrypt
  <2> QED
    BY <2>3, <2>4
<1> QED
  BY <1>4, <1>5

-----------------------------------------------------------------------------
(* Gift wraps.                                                             *)

\* The event that layer makes, and that only somebody with a valid secret makes.
LEMMA LayerMade ==
    ASSUME NEW kind, NEW tags, NEW secret, NEW recipient, NEW t,
           NEW w \in layer(kind, tags, secret, recipient, Nonce, t)
    PROVE  /\ secret \in Points
           /\ w = Signed(calculate_id(XCoord(secret), kind, tags, w.content),
                         [key |-> XCoord(secret), message |-> w.id])
           /\ Sealed(w.content, secret, recipient, t)
<1> DEFINE contents == UNION {encrypt_with_key_nonce(k, Nonce, t) : k \in derive_conversation_key(secret, recipient)}
           made == {<<pub, content>> : pub \in xonly_public_key(secret), content \in contents}
           events(m) == {Signed(calculate_id(m[1], kind, tags, m[2]), sig) :
                            sig \in sign(calculate_id(m[1], kind, tags, m[2]), secret)}
<1>1. w \in UNION {events(m) : m \in made}
  BY DEF layer
<1>2. PICK m \in made : w \in events(m)
  BY <1>1
<1> DEFINE id == calculate_id(m[1], kind, tags, m[2])
<1>3. PICK sig \in sign(id, secret) : w = Signed(id, sig)
  BY <1>2
<1>4. m[1] \in xonly_public_key(secret) /\ m[2] \in contents
  <2> HIDE DEF contents
  <2> QED
    BY <1>2
<1>5. secret \in Points /\ m[1] = XCoord(secret) /\ xonly_public_key(secret) = {XCoord(secret)}
  BY <1>4 DEF xonly_public_key, Ok, Err
<1>6. sig = [key |-> XCoord(secret), message |-> id]
  <2> HIDE DEF id
  <2> QED
    BY <1>3, <1>5 DEF sign
<1>7. w.content = m[2] /\ w.id = id
  BY <1>3 DEF Signed, calculate_id
<1>8. Sealed(w.content, secret, recipient, t)
  <2>1. PICK k \in derive_conversation_key(secret, recipient) : m[2] \in encrypt_with_key_nonce(k, Nonce, t)
    BY <1>4
  <2> QED
    BY <1>7, <2>1 DEF Sealed
<1> HIDE DEF id
<1>9. w = Signed(calculate_id(XCoord(secret), kind, tags, w.content), [key |-> XCoord(secret), message |-> w.id])
  BY <1>3, <1>5, <1>6, <1>7 DEF id
<1> QED
  BY <1>5, <1>8, <1>9

\* The fields of such an event, and that its signature is right.
LEMMA LayerFields ==
    ASSUME NEW kind, NEW tags, NEW secret, NEW recipient, NEW t,
           NEW w \in layer(kind, tags, secret, recipient, Nonce, t)
    PROVE  /\ w.kind = kind /\ w.tags = tags /\ w.pubkey = XCoord(secret)
           /\ w.id.tags = tags /\ w.id.pubkey = XCoord(secret)
           /\ DOMAIN w = {"id", "pubkey", "kind", "tags", "content", "sig"}
           /\ verify(w.sig, w.id, w.pubkey)
<1> DEFINE id == calculate_id(XCoord(secret), kind, tags, w.content)
           sig == [key |-> XCoord(secret), message |-> w.id]
<1>1. secret \in Points /\ w = Signed(id, sig)
  BY LayerMade
<1>2. /\ id.kind = kind /\ id.tags = tags /\ id.pubkey = XCoord(secret)
  BY DEF calculate_id
<1> HIDE DEF id
<1>3. /\ w.kind = kind /\ w.tags = tags /\ w.pubkey = XCoord(secret) /\ w.sig = sig /\ w.id = id
      /\ DOMAIN w = {"id", "pubkey", "kind", "tags", "content", "sig"}
  <2> HIDE DEF sig
  <2> QED
    BY <1>1, <1>2 DEF Signed
<1>4. XCoord(secret) \in XOnly
  BY <1>1 DEF XOnly
<1> QED
  BY <1>2, <1>3, <1>4 DEF verify

\* What the holder of secret r finds in seal s of wrap w.
Found(r, w, s, rumor) ==
    [event_id         |-> w.id,
     sender_pubkey    |-> s.pubkey,
     recipient_pubkey |-> XCoord(r),
     content          |-> rumor.content,
     kind             |-> rumor.kind,
     reply_to         |-> reply_to_event_id(rumor.tags)]

\* What is sealed between from and to opens for to alone, and says the rumor.
LEMMA SealReads ==
    ASSUME NEW from, NEW to, NEW rumor, rumor.content.len \in Nat, "kind" \in DOMAIN rumor,
           NEW s \in layer(SEAL, <<>>, from, to, Nonce, rumor_json(rumor)), NEW r, NEW w
    PROVE  open_seal(r, w, s) = IF r \in Points /\ XCoord(r) = to THEN {Found(r, w, s, rumor)} ELSE {}
<1> DEFINE t == rumor_json(rumor)
<1>1. t.len \in Nat /\ t.says = rumor
  BY RumorLength DEF rumor_json, Text
<1>2. IsJson(t)
  BY <1>1 DEF IsJson
<1> HIDE DEF t
<1>3. s \in layer(SEAL, <<>>, from, to, Nonce, t)
  BY DEF t
<1>4. s.kind = SEAL /\ s.pubkey = XCoord(from) /\ verify(s.sig, s.id, s.pubkey)
  BY <1>3, LayerFields
<1>5. Sealed(s.content, from, to, t)
  BY <1>3, LayerMade
<1>6. decrypt(r, s.pubkey, s.content) = IF r \in Points /\ XCoord(r) = to THEN {t} ELSE {}
  BY <1>1, <1>4, <1>5, SealedReads
<1> DEFINE F(u) == Found(r, w, s, u.says)
<1>7. open_seal(r, w, s) = {F(u) : u \in {v \in decrypt(r, s.pubkey, s.content) : IsJson(v)}}
  BY <1>4 DEF open_seal, Found
<1> HIDE DEF F
<1>8. CASE r \in Points /\ XCoord(r) = to
  <2>1. {v \in decrypt(r, s.pubkey, s.content) : IsJson(v)} = {t}
    BY <1>2, <1>6, <1>8
  <2>2. open_seal(r, w, s) = {F(t)}
    BY <1>7, <2>1
  <2> QED
    BY <1>1, <1>8, <2>2 DEF F
<1>9. CASE ~(r \in Points /\ XCoord(r) = to)
  BY <1>6, <1>7, <1>9
<1> QED
  BY <1>8, <1>9

\* What is wrapped for to opens for to alone, and says the seal.
LEMMA WrapReads ==
    ASSUME NEW to, NEW s, s.content.len \in Nat, "kind" \in DOMAIN s,
           NEW w \in layer(GIFT_WRAP, <<<<"p", to>>>>, Ephemeral, to, Nonce, seal_json(s)), NEW r
    PROVE  unwrap(r, w) = IF r \in Points /\ XCoord(r) = to THEN open_seal(r, w, s) ELSE {}
<1> DEFINE t == seal_json(s)
<1>1. t.len \in Nat /\ t.says = s
  BY DEF seal_json, Text, SEAL_FRAME, base64_len
<1>2. IsJson(t)
  BY <1>1 DEF IsJson
<1> HIDE DEF t
<1>3. w \in layer(GIFT_WRAP, <<<<"p", to>>>>, Ephemeral, to, Nonce, t)
  BY DEF t
<1>4. w.kind = GIFT_WRAP /\ w.pubkey = XCoord(Ephemeral)
  BY <1>3, LayerFields
<1>5. Sealed(w.content, Ephemeral, to, t)
  BY <1>3, LayerMade
<1>6. decrypt(r, w.pubkey, w.content) = IF r \in Points /\ XCoord(r) = to THEN {t} ELSE {}
  BY <1>1, <1>4, <1>5, SealedReads
<1> DEFINE F(u) == open_seal(r, w, u.says)
<1>7. unwrap(r, w) = UNION {F(u) : u \in {v \in decrypt(r, w.pubkey, w.content) : IsJson(v)}}
  BY <1>4 DEF unwrap
<1> HIDE DEF F
<1>8. CASE r \in Points /\ XCoord(r) = to
  <2>1. {v \in decrypt(r, w.pubkey, w.content) : IsJson(v)} = {t}
    BY <1>2, <1>6, <1>8
  <2>2. unwrap(r, w) = F(t)
    BY <1>7, <2>1
  <2> QED
    BY <1>1, <1>8, <2>2 DEF F
<1>9. CASE ~(r \in Points /\ XCoord(r) = to)
  BY <1>6, <1>7, <1>9
<1> QED
  BY <1>8, <1>9

\* A wrap that is no gift wrap, whose text is no JSON or whose payload is broken
\* holds nothing.
LEMMA EmptyWrap ==
    ASSUME NEW w, NEW r,
           \/ w.kind # GIFT_WRAP
           \/ Unopenable(w.content)
           \/ \A t \in decrypt(r, w.pubkey, w.content) : ~IsJson(t)
    PROVE  unwrap(r, w) = {}
<1> DEFINE seals == IF w.kind = GIFT_WRAP THEN decrypt(r, w.pubkey, w.content) ELSE Err
<1>1. \A t \in seals : ~IsJson(t)
  BY NothingOpens DEF Err
<1>2. unwrap(r, w) = UNION {open_seal(r, w, t.says) : t \in {s \in seals : IsJson(s)}}
  BY DEF unwrap
<1> HIDE DEF seals
<1> QED
  BY <1>1, <1>2

\* A seal that is none, whose signature is wrong or whose text is no JSON holds
\* nothing.
LEMMA EmptySeal ==
    ASSUME NEW s, NEW r, NEW w,
           \/ s.kind # SEAL
           \/ ~verify(s.sig, s.id, s.pubkey)
           \/ \A t \in decrypt(r, s.pubkey, s.content) : ~IsJson(t)
    PROVE  open_seal(r, w, s) = {}
<1> DEFINE rumors == IF s.kind = SEAL /\ verify(s.sig, s.id, s.pubkey)
                     THEN decrypt(r, s.pubkey, s.content) ELSE Err
           F(t) == Found(r, w, s, t.says)
<1>1. \A t \in rumors : ~IsJson(t)
  BY DEF Err
<1>2. open_seal(r, w, s) = {F(t) : t \in {u \in rumors : IsJson(u)}}
  BY DEF open_seal, Found
<1> HIDE DEF rumors, F
<1> QED
  BY <1>1, <1>2

\* A gift wrap that is written to to, as those read it who can.
MessageOf(w, from, to, text, kind, reply) ==
    [event_id |-> w.id, sender_pubkey |-> XCoord(from), recipient_pubkey |-> to,
     content |-> text, kind |-> kind, reply_to |-> reply]

\* The reply that the tags of a rumor name is the one they were made for.
LEMMA ReplyOfTags ==
    ASSUME NEW to, NEW reply, reply = {} \/ \E x : reply = {x}
    PROVE  reply_to_event_id(rumor_tags(to, reply)) = reply
<1> DEFINE tags == rumor_tags(to, reply)
           es == {i \in DOMAIN tags : tags[i] # <<>> /\ tags[i][1] = "e"}
           t  == tags[CHOOSE i \in es : \A j \in es : i <= j]
<1>1. reply_to_event_id(tags) = IF es # {} /\ Len(t) >= 2 THEN {t[2]} ELSE {}
  BY DEF reply_to_event_id
<1>2. CASE reply = {}
  <2>1. tags = <<<<"p", to>>>>
    BY <1>2 DEF rumor_tags
  <2>2. es = {}
    BY <2>1
  <2> QED
    BY <1>1, <1>2, <2>2
<1>3. ASSUME NEW x, reply = {x} PROVE reply_to_event_id(tags) = reply
  <2>1. (CHOOSE id \in reply : TRUE) = x
    BY <1>3
  <2> DEFINE e == <<"e", x, "", "reply">>
             p == <<"p", to>>
  <2>2. tags = <<p>> \o <<e>>
    BY <1>3, <2>1 DEF rumor_tags
  <2>3. p # <<>> /\ p[1] = "p" /\ e # <<>> /\ e[1] = "e" /\ Len(e) = 4 /\ e[2] = x
    OBVIOUS
  <2> HIDE DEF p, e
  <2>4. <<p>> \in Seq({p, e}) /\ <<e>> \in Seq({p, e})
    OBVIOUS
  <2>5. DOMAIN tags = {1, 2} /\ tags[1] = p /\ tags[2] = e
    <3> DEFINE u == <<p>>
               v == <<e>>
    <3>1. u \in Seq({p, e}) /\ v \in Seq({p, e}) /\ Len(u) = 1 /\ Len(v) = 1 /\ u[1] = p /\ v[1] = e
      BY <2>4
    <3> HIDE DEF u, v
    <3>2. Len(u \o v) = 2 /\ (u \o v)[1] = p /\ (u \o v)[2] = e /\ u \o v \in Seq({p, e})
      <4>1. /\ Len(u \o v) = Len(u) + Len(v) /\ u \o v \in Seq({p, e})
            /\ \A i \in 1..(Len(u) + Len(v)) : (u \o v)[i] = IF i <= Len(u) THEN u[i] ELSE v[i - Len(u)]
        BY <3>1, ConcatProperties
      <4> QED
        BY <3>1, <4>1
    <3>3. tags = u \o v
      BY <2>2 DEF u, v
    <3> HIDE DEF tags
    <3>4. DOMAIN tags = 1..2
      BY <3>2, <3>3
    <3> QED
      BY <3>2, <3>3, <3>4
  <2> HIDE DEF tags
  <2>6. es = {2}
    BY <2>3, <2>5
  <2> HIDE DEF es
  <2>7. (CHOOSE i \in es : \A j \in es : i <= j) = 2
    BY <2>6
  <2>8. t = e
    BY <2>5, <2>7
  <2> QED
    BY <1>1, <1>3, <2>3, <2>6, <2>8
<1> QED
  BY <1>2, <1>3

\* The same of the tags that other programs write.
LEMMA ReplyOfOtherTags ==
    ASSUME NEW o \in OtherTags
    PROVE  reply_to_event_id(o.tags) = o.reply
<1> DEFINE tags == o.tags
           es == {i \in DOMAIN tags : tags[i] # <<>> /\ tags[i][1] = "e"}
           t  == tags[CHOOSE i \in es : \A j \in es : i <= j]
           first == <<"e">>
           second == <<"e", "r1">>
           third == <<"e", "r2">>
           other == <<"p", 1>>
<1>1. reply_to_event_id(tags) = IF es # {} /\ Len(t) >= 2 THEN {t[2]} ELSE {}
  BY DEF reply_to_event_id
<1>2. /\ first # <<>> /\ first[1] = "e" /\ Len(first) = 1
      /\ second # <<>> /\ second[1] = "e" /\ Len(second) = 2 /\ second[2] = "r1"
      /\ third # <<>> /\ third[1] = "e"
      /\ other # <<>> /\ other[1] # "e"
  OBVIOUS
<1>3. \/ tags = <<<<>>, first, third>> /\ o.reply = {}
      \/ tags = <<other, second, third>> /\ o.reply = {"r1"}
  BY DEF OtherTags
<1> HIDE DEF first, second, third, other
<1>4. DOMAIN tags = {1, 2, 3} /\ tags[3] = third
      /\ \/ tags[1] = <<>> /\ tags[2] = first /\ o.reply = {}
         \/ tags[1] = other /\ tags[2] = second /\ o.reply = {"r1"}
  BY <1>3
<1> HIDE DEF tags
<1>5. es = {2, 3}
  BY <1>2, <1>4
<1> HIDE DEF es
<1>6. (CHOOSE i \in es : \A j \in es : i <= j) = 2
  BY <1>5
<1>7. t = tags[2]
  BY <1>6
<1> HIDE DEF t
<1>8. CASE tags[2] = first /\ o.reply = {}
  <2>1. ~(Len(t) >= 2)
    <3>1. t = first
      BY <1>7, <1>8
    <3>2. Len(t) = 1
      BY <1>2, <3>1
    <3> QED
      BY <3>2
  <2>2. reply_to_event_id(tags) = {}
    BY <1>1, <2>1
  <2> QED
    BY <1>8, <2>2 DEF tags
<1>9. CASE tags[2] = second /\ o.reply = {"r1"}
  <2>1. Len(t) = 2 /\ t[2] = "r1"
    BY <1>2, <1>7, <1>9
  <2>2. reply_to_event_id(tags) = {"r1"}
    BY <1>1, <1>5, <2>1
  <2> QED
    BY <1>9, <2>2 DEF tags
<1> QED
  BY <1>4, <1>8, <1>9

\* A rumor of from, sealed and wrapped for to, is read by to alone.
LEMMA RumorReads ==
    ASSUME NEW from, NEW to, NEW rumor, rumor.content.len \in Nat, "kind" \in DOMAIN rumor,
           NEW s \in layer(SEAL, <<>>, from, to, Nonce, rumor_json(rumor)),
           NEW w \in layer(GIFT_WRAP, <<<<"p", to>>>>, Ephemeral, to, Nonce, seal_json(s)), NEW r
    PROVE  unwrap(r, w) =
               IF r \in Points /\ XCoord(r) = to
               THEN {MessageOf(w, from, to, rumor.content, rumor.kind, reply_to_event_id(rumor.tags))}
               ELSE {}
<1>1. rumor_json(rumor).len \in Nat
  BY RumorLength
<1>2. s.content.len \in Nat
  BY <1>1, SealLength
<1>3. "kind" \in DOMAIN s /\ s.pubkey = XCoord(from)
  BY LayerFields
<1>4. unwrap(r, w) = IF r \in Points /\ XCoord(r) = to THEN open_seal(r, w, s) ELSE {}
  BY <1>2, <1>3, WrapReads
<1>5. open_seal(r, w, s) = IF r \in Points /\ XCoord(r) = to THEN {Found(r, w, s, rumor)} ELSE {}
  BY SealReads
<1>6. XCoord(r) = to => Found(r, w, s, rumor)
                          = MessageOf(w, from, to, rumor.content, rumor.kind, reply_to_event_id(rumor.tags))
  BY <1>3 DEF Found, MessageOf
<1> QED
  BY <1>4, <1>5, <1>6

\* The parts of create_gift_wrap.
Rumor(from, to, n, reply) ==
    [kind |-> CHAT_MESSAGE, pubkey |-> XCoord(from), tags |-> rumor_tags(to, reply), content |-> Body(n)]

LEMMA WrapMade ==
    ASSUME NEW from, NEW to, NEW n, NEW reply
    PROVE  create_gift_wrap(from, to, Params(n, reply)) =
               IF from \in Points
               THEN UNION {layer(GIFT_WRAP, <<<<"p", to>>>>, Ephemeral, to, Nonce, seal_json(s)) :
                              s \in layer(SEAL, <<>>, from, to, Nonce, rumor_json(Rumor(from, to, n, reply)))}
               ELSE {}
<1> DEFINE params == Params(n, reply)
           R(pub) == [kind    |-> CHAT_MESSAGE,
                      pubkey  |-> pub,
                      tags    |-> rumor_tags(to, params.reply_to),
                      content |-> params.content]
           Sealed_(u) == layer(SEAL, <<>>, from, to, params.seal_nonce, rumor_json(u))
           Wrap_(s) == layer(GIFT_WRAP, <<<<"p", to>>>>, params.ephemeral_secret, to,
                             params.wrap_nonce, seal_json(s))
           rumors == {R(pub) : pub \in xonly_public_key(from)}
           seals  == UNION {Sealed_(u) : u \in rumors}
<1>1. create_gift_wrap(from, to, params) = UNION {Wrap_(s) : s \in seals}
  BY DEF create_gift_wrap
<1>2. /\ params.content = Body(n) /\ params.reply_to = reply /\ params.ephemeral_secret = Ephemeral
      /\ params.seal_nonce = Nonce /\ params.wrap_nonce = Nonce
  BY DEF Params
<1> HIDE DEF params
<1>3. R(XCoord(from)) = Rumor(from, to, n, reply)
  BY <1>2 DEF Rumor
<1>4. CASE from \in Points
  <2>1. xonly_public_key(from) = {XCoord(from)}
    BY <1>4 DEF xonly_public_key, Ok
  <2> HIDE DEF R
  <2>2. rumors = {Rumor(from, to, n, reply)}
    BY <1>3, <2>1
  <2> HIDE DEF rumors, Sealed_
  <2>3. seals = Sealed_(Rumor(from, to, n, reply))
    BY <2>2
  <2>4. seals = layer(SEAL, <<>>, from, to, Nonce, rumor_json(Rumor(from, to, n, reply)))
    BY <1>2, <2>3 DEF Sealed_
  <2> HIDE DEF seals
  <2>5. UNION {Wrap_(s) : s \in seals}
          = UNION {layer(GIFT_WRAP, <<<<"p", to>>>>, Ephemeral, to, Nonce, seal_json(s)) : s \in seals}
    BY <1>2
  <2> QED
    BY <1>1, <1>4, <2>4, <2>5 DEF params
<1>5. CASE from \notin Points
  <2>1. xonly_public_key(from) = {}
    BY <1>5 DEF xonly_public_key, Err
  <2> HIDE DEF R
  <2>2. rumors = {}
    BY <2>1
  <2> HIDE DEF rumors, Sealed_
  <2>3. seals = {}
    BY <2>2
  <2> HIDE DEF seals, Wrap_
  <2> QED
    BY <1>1, <1>5, <2>3 DEF params
<1> QED
  BY <1>4, <1>5

\* What create_gift_wrap makes, to reads as the message, and nobody else reads.
LEMMA GiftWrapReads ==
    ASSUME NEW from, NEW to, NEW n \in Lengths, NEW reply, reply = {} \/ \E x : reply = {x},
           NEW w \in create_gift_wrap(from, to, Params(n, reply))
    PROVE  /\ Framed(w.content) /\ "content" \in DOMAIN w
           /\ \A r : unwrap(r, w) = IF r \in Points /\ XCoord(r) = to
                                    THEN {MessageOf(w, from, to, Body(n), CHAT_MESSAGE, reply)} ELSE {}
<1> DEFINE rumor == Rumor(from, to, n, reply)
<1>1. PICK s \in layer(SEAL, <<>>, from, to, Nonce, rumor_json(rumor)) :
             w \in layer(GIFT_WRAP, <<<<"p", to>>>>, Ephemeral, to, Nonce, seal_json(s))
  <2>1. from \in Points
    BY WrapMade
  <2> HIDE DEF rumor
  <2>2. w \in UNION {layer(GIFT_WRAP, <<<<"p", to>>>>, Ephemeral, to, Nonce, seal_json(s)) :
                        s \in layer(SEAL, <<>>, from, to, Nonce, rumor_json(rumor))}
    BY <2>1, WrapMade DEF rumor
  <2> QED
    BY <2>2
<1>2. /\ rumor.content = Body(n) /\ rumor.content.len \in Nat /\ "kind" \in DOMAIN rumor
      /\ rumor.kind = CHAT_MESSAGE /\ rumor.tags = rumor_tags(to, reply)
  BY BodyLength DEF Rumor
<1>3. reply_to_event_id(rumor.tags) = reply
  BY <1>2, ReplyOfTags
<1> HIDE DEF rumor
<1>4. rumor_json(rumor).len \in Nat
  BY <1>2, RumorLength
<1>5. seal_json(s).len \in Nat
  BY <1>1, <1>4, SealLength
<1>6. Framed(w.content) /\ "content" \in DOMAIN w
  <2> DEFINE t == seal_json(s)
  <2> HIDE DEF t
  <2>1. w \in layer(GIFT_WRAP, <<<<"p", to>>>>, Ephemeral, to, Nonce, t)
    BY <1>1 DEF t
  <2>2. Sealed(w.content, Ephemeral, to, t)
    BY <2>1, LayerMade
  <2>3. "content" \in DOMAIN w
    BY <2>1, LayerFields
  <2> QED
    BY <1>5, <2>2, <2>3, SealedFramed DEF t
<1>7. ASSUME NEW r
      PROVE  unwrap(r, w) = IF r \in Points /\ XCoord(r) = to
                            THEN {MessageOf(w, from, to, rumor.content, rumor.kind, reply_to_event_id(rumor.tags))}
                            ELSE {}
  BY <1>1, <1>2, RumorReads
<1> QED
  BY <1>2, <1>3, <1>6, <1>7

\* What other programs wrap is read as they meant it if nothing is wrong with it,
\* and else not at all.
LEMMA ForeignReads ==
    ASSUME NEW from, NEW to, NEW flaw \in Flaws, NEW o \in OtherTags, NEW w \in ForeignWire(from, to, flaw, o)
    PROVE  /\ Framed(w.content) /\ "content" \in DOMAIN w
           /\ \A r : unwrap(r, w) = IF flaw = "none" /\ r \in Points /\ XCoord(r) = to
                                    THEN {MessageOf(w, from, to, Body(10), RECEIPT, o.reply)} ELSE {}
<1> DEFINE rumor == ForeignRumor(from, o)
           t == IF flaw = "rumor_text" THEN Junk ELSE rumor_json(rumor)
           k1 == IF flaw = "seal_kind" THEN CHAT_MESSAGE ELSE SEAL
           k2 == IF flaw = "wrap_kind" THEN SEAL ELSE GIFT_WRAP
<1>1. PICK s \in ForeignSeals(from, to, flaw, o) : w \in ForeignWraps(to, flaw, s)
  BY DEF ForeignWire
<1> DEFINE u == ForeignText(flaw, s)
<1>2. s \in layer(k1, <<>>, from, to, Nonce, t)
  BY DEF ForeignSeals
<1>3. w \in layer(k2, <<<<"p", to>>>>, Ephemeral, to, Nonce, u)
  BY <1>1 DEF ForeignWraps
<1>4. u.len \in Nat
  BY <1>1, ForeignLengths
<1>5. /\ rumor.content = Body(10) /\ rumor.content.len \in Nat /\ "kind" \in DOMAIN rumor
      /\ rumor.kind = RECEIPT /\ reply_to_event_id(rumor.tags) = o.reply
  BY ReplyOfOtherTags DEF ForeignRumor, Body, Text
<1>6. Junk.len \in Nat /\ ~IsJson(Junk)
  BY DEF Junk, Text, IsJson
<1> HIDE DEF rumor
<1>7. t.len \in Nat
  BY <1>5, <1>6, RumorLength
<1> HIDE DEF t, k1, k2, u
<1>8. /\ w.kind = k2 /\ w.pubkey = XCoord(Ephemeral) /\ Sealed(w.content, Ephemeral, to, u)
      /\ "content" \in DOMAIN w
  <2>1. Sealed(w.content, Ephemeral, to, u)
    BY <1>3, LayerMade
  <2>2. w.kind = k2 /\ w.pubkey = XCoord(Ephemeral) /\ "content" \in DOMAIN w
    BY <1>3, LayerFields
  <2> QED
    BY <2>1, <2>2
<1>9. /\ s.kind = k1 /\ s.pubkey = XCoord(from) /\ Sealed(s.content, from, to, t) /\ s.id.tags = <<>>
      /\ "kind" \in DOMAIN s
  <2>1. Sealed(s.content, from, to, t)
    BY <1>2, LayerMade
  <2>2. s.kind = k1 /\ s.pubkey = XCoord(from) /\ s.id.tags = <<>> /\ "kind" \in DOMAIN s
    BY <1>2, LayerFields
  <2> QED
    BY <2>1, <2>2
<1>10. s.content.len \in Nat
  BY <1>2, <1>7, SealLength
<1>11. Framed(w.content)
  BY <1>4, <1>8, SealedFramed
<1> SUFFICES ASSUME NEW r
             PROVE  unwrap(r, w) = IF flaw = "none" /\ r \in Points /\ XCoord(r) = to
                                   THEN {MessageOf(w, from, to, Body(10), RECEIPT, o.reply)} ELSE {}
  BY <1>8, <1>11
<1>12. CASE flaw = "none"
  <2>1. k1 = SEAL /\ k2 = GIFT_WRAP /\ t = rumor_json(rumor) /\ u = seal_json(s)
    BY <1>12 DEF k1, k2, t, u, ForeignText, Resigned
  <2>2. unwrap(r, w) =
          IF r \in Points /\ XCoord(r) = to
          THEN {MessageOf(w, from, to, rumor.content, rumor.kind, reply_to_event_id(rumor.tags))}
          ELSE {}
    BY <1>2, <1>3, <1>5, <2>1, RumorReads
  <2> QED
    BY <1>5, <1>12, <2>2
<1>13. CASE flaw = "wrap_kind"
  <2>1. w.kind # GIFT_WRAP
    BY <1>8, <1>13 DEF k2, SEAL, GIFT_WRAP
  <2> QED
    BY <1>13, <2>1, EmptyWrap
<1>14. CASE flaw = "seal_text"
  <2>1. u = Junk
    BY <1>14 DEF u, ForeignText
  <2>2. \A v \in decrypt(r, w.pubkey, w.content) : ~IsJson(v)
    BY <1>4, <1>6, <1>8, <2>1, SealedReads
  <2> QED
    BY <1>14, <2>2, EmptyWrap
<1>15. CASE flaw = "seal_kind" \/ flaw = "rumor_text"
  <2>1. k2 = GIFT_WRAP /\ u = seal_json(s)
    BY <1>15 DEF k2, u, ForeignText, Resigned
  <2>2. unwrap(r, w) = IF r \in Points /\ XCoord(r) = to THEN open_seal(r, w, s) ELSE {}
    BY <1>3, <1>9, <1>10, <2>1, WrapReads
  <2>3. open_seal(r, w, s) = {}
    <3>1. CASE flaw = "seal_kind"
      <4>1. s.kind # SEAL
        BY <1>9, <3>1 DEF k1, CHAT_MESSAGE, SEAL
      <4> QED
        BY <4>1, EmptySeal
    <3>2. CASE flaw = "rumor_text"
      <4>1. t = Junk
        BY <3>2 DEF t
      <4>2. \A v \in decrypt(r, s.pubkey, s.content) : ~IsJson(v)
        BY <1>6, <1>7, <1>9, <4>1, SealedReads
      <4> QED
        BY <4>2, EmptySeal
    <3> QED
      BY <1>15, <3>1, <3>2
  <2> QED
    BY <1>15, <2>2, <2>3
<1>16. CASE flaw = "seal_sig"
  <2> DEFINE s2 == Resigned(flaw, s)
             id == s.id
             other == OtherId(s)
             sig == [key |-> s.pubkey, message |-> other]
  <2>1. k1 = SEAL /\ k2 = GIFT_WRAP /\ u = seal_json(s2) /\ s2 = Signed(id, sig)
    BY <1>16 DEF k1, k2, u, ForeignText, Resigned
  <2>2. s.content = id.content
    BY <1>2, LayerContent
  <2>3. other # id
    <3>1. other.tags = <<<<"p", 1>>>>
      BY DEF OtherId, calculate_id
    <3>2. <<<<"p", 1>>>> # <<>>
      OBVIOUS
    <3> HIDE DEF other
    <3> QED
      BY <1>9, <3>1, <3>2
  <2> HIDE DEF s2, id, other
  <2>4. /\ s2.content = s.content /\ "kind" \in DOMAIN s2 /\ s2.id = id /\ s2.sig.message = other
        /\ s2.sig = sig
    BY <2>1, <2>2 DEF Signed
  <2>5. unwrap(r, w) = IF r \in Points /\ XCoord(r) = to THEN open_seal(r, w, s2) ELSE {}
    BY <1>3, <1>10, <2>1, <2>4, WrapReads
  <2>6. ~verify(s2.sig, s2.id, s2.pubkey)
    BY <2>3, <2>4 DEF verify
  <2>7. open_seal(r, w, s2) = {}
    BY <2>6, EmptySeal
  <2> QED
    BY <1>16, <2>5, <2>7
<1> QED
  BY <1>12, <1>13, <1>14, <1>15, <1>16 DEF Flaws

-----------------------------------------------------------------------------
(* NIP-04 and nametags.                                                    *)

AtMostOne(S) == \A a, b \in S : a = b

LEMMA SharedSecret ==
    ASSUME NEW from, NEW to
    PROVE  N04!derive_shared_secret(from, to) = ecdh_x(from, to)
  BY DEF N04!derive_shared_secret, N04!ecdh_x, N04!XCoord, N04!Points, N04!peer_public_key, N04!Err,
         ecdh_x, XCoord, Points, peer_public_key, Err

\* There is at most one shared secret, and either side derives the same.
LEMMA OneSecret ==
    ASSUME NEW from, NEW to, NEW key \in N04!derive_shared_secret(from, to)
    PROVE  /\ from \in Points /\ to \in XOnly
           /\ N04!derive_shared_secret(from, to) = {key}
           /\ \A r \in Points : XCoord(r) = to => N04!derive_shared_secret(r, XCoord(from)) = {key}
<1>1. from \in Points /\ to \in XOnly
  BY SomeSharedSecret
<1>2. PICK b \in Points : to = XCoord(b)
  BY <1>1 DEF XOnly
<1>3. N04!derive_shared_secret(from, to) = {XCoord((from * b) % Order)}
  BY <1>1, <1>2, Agreement, SharedSecret
<1>4. ASSUME NEW r \in Points, XCoord(r) = to
      PROVE  N04!derive_shared_secret(r, XCoord(from)) = {key}
  <2>1. N04!derive_shared_secret(r, XCoord(from)) = {XCoord((r * from) % Order)}
    BY <1>1, <1>4, Agreement, SharedSecret
  <2>2. N04!derive_shared_secret(from, to) = {XCoord((from * r) % Order)}
    BY <1>1, <1>4, Agreement, SharedSecret
  <2>3. from * r = r * from
    BY <1>1, SecpAssumption DEF Points
  <2> QED
    BY <2>1, <2>2, <2>3
<1> QED
  BY <1>1, <1>3, <1>4

\* Does p hold text t, compressed or not, encrypted between from and to?
Holds(p, from, to, t) ==
    /\ p.box.key \in N04!derive_shared_secret(from, to)
    /\ p.box.data = t \/ (p.box.data.form = "zipped" /\ p.box.data.says = t)

\* Neither the ciphertext of p nor its vector has been changed, and neither has its
\* frame, which announces rightly whether the text is compressed.
Uncut(p)     == p.box.whole /\ p.box.iv = p.iv
WellFramed(p) == p.separator /\ p.base64 /\ p.iv_len = 16
Announced(p) == p.gz <=> p.box.data.form = "zipped"

\* What becomes of the decrypted bytes.
Decoded(plain, gz, has_gzip) ==
    UNION {N04!from_utf8(p) : p \in IF gz THEN UNION {N04!decompress(d, has_gzip) : d \in plain} ELSE plain}

LEMMA DecodedOne ==
    ASSUME NEW d, NEW gz, NEW g
    PROVE  Decoded({d}, gz, g) = IF gz THEN (IF g /\ d.form = "zipped" THEN N04!from_utf8(d.says) ELSE {})
                                 ELSE N04!from_utf8(d)
<1>1. CASE gz
  <2>1. UNION {N04!decompress(e, g) : e \in {d}} = N04!decompress(d, g)
    OBVIOUS
  <2>2. N04!decompress(d, g) = IF g /\ d.form = "zipped" THEN {d.says} ELSE {}
    BY DEF N04!decompress, N04!Ok, N04!Err
  <2> QED
    BY <1>1, <2>1, <2>2 DEF Decoded
<1>2. CASE ~gz
  BY <1>2 DEF Decoded
<1> QED
  BY <1>1, <1>2

LEMMA DecodedNone ==
    ASSUME NEW gz, NEW g
    PROVE  Decoded({}, gz, g) = {}
  BY DEF Decoded

\* What a key makes of a payload: the data if both are as they were, and else the
\* data, other bytes or nothing.
LEMMA Plaintext ==
    ASSUME NEW key, NEW p, NEW plain \in N04!aes_cbc_decrypt(key, p)
    PROVE  /\ \/ plain = {}
              \/ \E d : plain = {d} /\ (d = p.box.data \/ d.form \in {"utf8", "other"})
           /\ key = p.box.key /\ Uncut(p) => plain = {p.box.data}
<1> DEFINE Garbled(form) == N04!Bytes(form, p.len, "garbage")
           garbled == {{Garbled(form)} : form \in {"utf8", "other"}}
<1>1. \A form : Garbled(form).form = form
  BY DEF N04!Bytes
<1>2. N04!aes_cbc_decrypt(key, p) =
          IF p.box.key # key \/ ~p.box.whole THEN {{}} \cup garbled
          ELSE IF p.box.iv = p.iv THEN {{p.box.data}}
          ELSE {{}} \cup garbled \cup (IF p.box.data.form = "zipped" THEN {{p.box.data}} ELSE {})
  BY DEF N04!aes_cbc_decrypt, N04!Err, N04!Ok
<1> HIDE DEF Garbled
<1>3. plain = {} \/ plain = {p.box.data} \/ plain \in garbled
  BY <1>2
<1>4. plain \in garbled => \E d : plain = {d} /\ d.form \in {"utf8", "other"}
  BY <1>1
<1>5. key = p.box.key /\ Uncut(p) => plain = {p.box.data}
  BY <1>2 DEF Uncut
<1> QED
  BY <1>3, <1>4, <1>5

\* What decrypt may result in.
LEMMA DecryptCases ==
    ASSUME NEW r, NEW x, NEW p, NEW g, NEW result \in N04!decrypt(r, x, p, g)
    PROVE  \/ result = {} /\ (~WellFramed(p) \/ N04!derive_shared_secret(r, x) = {})
           \/ /\ WellFramed(p)
              /\ \E key \in N04!derive_shared_secret(r, x) : \E plain \in N04!aes_cbc_decrypt(key, p) :
                    result = Decoded(plain, p.gz, g)
<1>1. CASE ~WellFramed(p)
  BY <1>1 DEF WellFramed, N04!decrypt, N04!Err
<1>2. CASE WellFramed(p)
  <2> DEFINE keys == N04!derive_shared_secret(r, x)
             D(plain) == Decoded(plain, p.gz, g)
  <2>1. N04!decrypt(r, x, p, g) = UNION {{D(plain) : plain \in N04!aes_cbc_decrypt(key, p)} : key \in keys}
                                   \cup (IF keys = {} THEN {{}} ELSE {})
    BY <1>2 DEF WellFramed, N04!decrypt, N04!Err, Decoded
  <2> HIDE DEF keys, D
  <2>2. \/ result = {} /\ keys = {}
        \/ \E key \in keys : \E plain \in N04!aes_cbc_decrypt(key, p) : result = D(plain)
    BY <2>1
  <2> QED
    BY <1>2, <2>2 DEF keys, D
<1> QED
  BY <1>1, <1>2

\* Who reads a payload that is announced as compressed reads its text or nothing.
\* The right reader reads the text of one whose ciphertext has not been changed, or
\* nothing: the text if it is announced rightly, and can be decompressed if need be.
LEMMA Nip04Reads ==
    ASSUME NEW p, NEW from, NEW to, NEW t, t.form = "utf8", Holds(p, from, to, t),
           NEW r, NEW g, NEW result \in N04!decrypt(r, XCoord(from), p, g)
    PROVE  /\ AtMostOne(result)
           /\ p.gz => result \subseteq {t}
           /\ Uncut(p) /\ r \in Points /\ XCoord(r) = to =>
                  /\ result \subseteq {t}
                  /\ WellFramed(p) /\ Announced(p) => result = IF p.gz => g THEN {t} ELSE {}
<1> DEFINE keys == N04!derive_shared_secret(r, XCoord(from))
           right == r \in Points /\ XCoord(r) = to
           data == p.box.data
<1>1. right => keys = {p.box.key}
  BY OneSecret DEF Holds
<1>2. data = t \/ (data.form = "zipped" /\ data.says = t)
  BY DEF Holds
<1>3. N04!from_utf8(t) = {t} /\ \A d : N04!from_utf8(d) = IF d.form = "utf8" THEN {d} ELSE {}
  BY DEF N04!from_utf8, N04!Ok, N04!Err
<1>4. CASE result = {} /\ (~WellFramed(p) \/ keys = {})
  BY <1>1, <1>4 DEF AtMostOne
<1>5. ASSUME WellFramed(p), NEW key \in keys, NEW plain \in N04!aes_cbc_decrypt(key, p),
             result = Decoded(plain, p.gz, g)
      PROVE  /\ AtMostOne(result)
             /\ p.gz => result \subseteq {t}
             /\ Uncut(p) /\ right =>
                    /\ result \subseteq {t}
                    /\ Announced(p) => result = IF p.gz => g THEN {t} ELSE {}
  <2>1. CASE plain = {}
    <3>1. result = {}
      BY <1>5, <2>1, DecodedNone
    <3>2. ~(Uncut(p) /\ right)
      BY <1>1, <1>5, <2>1, Plaintext
    <3> QED
      BY <3>1, <3>2 DEF AtMostOne
  <2>2. ASSUME NEW d, plain = {d}, d = data \/ d.form \in {"utf8", "other"}
        PROVE  /\ AtMostOne(result)
               /\ p.gz => result \subseteq {t}
               /\ Uncut(p) /\ right =>
                      /\ result \subseteq {t}
                      /\ Announced(p) => result = IF p.gz => g THEN {t} ELSE {}
    <3>1. result = IF p.gz THEN (IF g /\ d.form = "zipped" THEN N04!from_utf8(d.says) ELSE {})
                   ELSE N04!from_utf8(d)
      BY <1>5, <2>2, DecodedOne
    <3>2. d.form = "zipped" => d = data /\ d.says = t
      BY <1>2, <2>2
    <3>3. p.gz => result \subseteq {t} /\ result = IF g /\ d.form = "zipped" THEN {t} ELSE {}
      BY <1>3, <3>1, <3>2
    <3>4. ~p.gz => result = IF d.form = "utf8" THEN {d} ELSE {}
      BY <1>3, <3>1
    <3>5. Uncut(p) /\ right => d = data
      BY <1>1, <1>5, <2>2, Plaintext
    <3>6. ~p.gz /\ Uncut(p) /\ right => result \subseteq {t} /\ (data.form # "zipped" => result = {t})
      BY <1>2, <3>4, <3>5
    <3>7. p.gz /\ Uncut(p) /\ right /\ data.form = "zipped" => result = IF g THEN {t} ELSE {}
      BY <3>3, <3>5
    <3>8. AtMostOne(result)
      BY <3>3, <3>4 DEF AtMostOne
    <3> QED
      BY <3>3, <3>6, <3>7, <3>8 DEF Announced
  <2> QED
    BY <1>5, <2>1, <2>2, Plaintext
<1> QED
  BY <1>4, <1>5, DecryptCases

-----------------------------------------------------------------------------
(* What is so of every envelope on its way.                                *)

\* What a gift wrap is read as.
ReadAs(w) ==
    \A r \in Secrets :
        unwrap(r, w) = IF job.more.flaw = "none" /\ r \in Points /\ XCoord(r) = job.to THEN {Message(w)} ELSE {}

Nip04Parts(p) ==
    /\ DOMAIN p = {"gz", "separator", "base64", "iv_len", "iv", "len", "box"}
    /\ DOMAIN p.box = {"key", "iv", "whole", "data"}

NametagParts(p) ==
    /\ DOMAIN p = {"base64", "len", "nonce", "box"} /\ DOMAIN p.box = {"key", "whole", "utf8", "text"}
    /\ p.box.key[2] = Nonce

\* An envelope that has not been damaged is what was written for whom it was
\* written for; one that has been damaged opens for nobody, unless it is a NIP-04
\* payload: that still holds the text, and its ciphertext has not been changed if no
\* more than its frame was damaged.
WireInv ==
    /\ stage = "ready" => harm = "none"
    /\ AtMostOne(wire)
    /\ \A p \in Nip44Payloads : Framed(p) /\ (harm # "none" => Unopenable(p))
    /\ job.kind = "nip44" =>
           /\ job.text.len \in Nat
           /\ harm = "none" => \A p \in wire : Sealed(p, job.from, job.to, job.text)
    /\ job.kind = "gift_wrap" => \A w \in wire : "content" \in DOMAIN w /\ (harm = "none" => ReadAs(w))
    /\ job.kind = "nip04" =>
           /\ job.text.form = "utf8"
           /\ \A p \in wire :
                 /\ Nip04Parts(p) /\ Holds(p, job.from, job.to, job.text)
                 /\ harm \in {"none", "frame"} => Uncut(p)
                 /\ harm = "none" => WellFramed(p) /\ Announced(p)
    /\ job.kind = "nametag" =>
           /\ job.text.len \in Nat
           /\ \A p \in wire :
                 /\ NametagParts(p)
                 /\ IF harm = "none" THEN p \in NC!encrypt_nametag_with_iv(job.text, job.from, Nonce)
                    ELSE Broken(p) \/ ~p.box.utf8

\* There is one payload of a text, one event of a layer, one gift wrap.
LEMMA OneSealed ==
    ASSUME NEW p, NEW q, NEW from, NEW to, NEW t, t.len \in Nat, Sealed(p, from, to, t), Sealed(q, from, to, t)
    PROVE  p = q
<1>1. PICK k \in derive_conversation_key(from, to) : p \in encrypt_with_key_nonce(k, Nonce, t)
  BY DEF Sealed
<1>2. PICK l \in derive_conversation_key(from, to) : q \in encrypt_with_key_nonce(l, Nonce, t)
  BY DEF Sealed
<1>3. from \in Points /\ to \in XOnly
  BY SealedFramed
<1>4. PICK b \in Points : to = XCoord(b)
  BY <1>3 DEF XOnly
<1>5. k = l
  BY <1>1, <1>2, <1>3, <1>4, ConversationKey
<1> QED
  BY <1>1, <1>2, <1>5, OnePayload

LEMMA OneLayer ==
    ASSUME NEW kind, NEW tags, NEW secret, NEW recipient, NEW t, t.len \in Nat
    PROVE  AtMostOne(layer(kind, tags, secret, recipient, Nonce, t))
<1> SUFFICES ASSUME NEW v \in layer(kind, tags, secret, recipient, Nonce, t),
                    NEW w \in layer(kind, tags, secret, recipient, Nonce, t)
             PROVE  v = w
  BY DEF AtMostOne
<1> DEFINE E(content, id) == Signed(calculate_id(XCoord(secret), kind, tags, content),
                                    [key |-> XCoord(secret), message |-> id])
           C(content) == calculate_id(XCoord(secret), kind, tags, content)
<1>1. v = E(v.content, v.id) /\ w = E(w.content, w.id)
  BY LayerMade
<1>2. v.content = w.content
  <2>1. Sealed(v.content, secret, recipient, t)
    BY LayerMade
  <2>2. Sealed(w.content, secret, recipient, t)
    BY LayerMade
  <2> QED
    BY <2>1, <2>2, OneSealed
<1>3. v.id = C(v.content) /\ w.id = C(w.content)
  <2>1. \A content, id : E(content, id).id = C(content)
    BY DEF Signed
  <2> HIDE DEF E, C
  <2> QED
    BY <1>1, <2>1
<1> HIDE DEF E, C
<1> QED
  BY <1>1, <1>2, <1>3

LEMMA OneWrap ==
    ASSUME NEW from, NEW to, NEW n \in Lengths, NEW reply
    PROVE  AtMostOne(create_gift_wrap(from, to, Params(n, reply)))
<1> DEFINE t == rumor_json(Rumor(from, to, n, reply))
           seals == layer(SEAL, <<>>, from, to, Nonce, t)
           Wraps(s) == layer(GIFT_WRAP, <<<<"p", to>>>>, Ephemeral, to, Nonce, seal_json(s))
<1>1. t.len \in Nat
  BY BodyLength, RumorLength DEF Rumor
<1> HIDE DEF t
<1>2. AtMostOne(seals)
  BY <1>1, OneLayer
<1>3. \A s \in seals : AtMostOne(Wraps(s))
  <2> TAKE s \in seals
  <2>1. seal_json(s).len \in Nat
    BY <1>1, SealLength
  <2> QED
    BY <2>1, OneLayer
<1>4. create_gift_wrap(from, to, Params(n, reply)) = IF from \in Points THEN UNION {Wraps(s) : s \in seals} ELSE {}
  BY WrapMade DEF t
<1> HIDE DEF seals, Wraps
<1> QED
  BY <1>2, <1>3, <1>4 DEF AtMostOne

LEMMA OneForeign ==
    ASSUME NEW from, NEW to, NEW flaw, NEW o
    PROVE  AtMostOne(ForeignWire(from, to, flaw, o))
<1> DEFINE t == IF flaw = "rumor_text" THEN Junk ELSE rumor_json(ForeignRumor(from, o))
           seals == ForeignSeals(from, to, flaw, o)
           Wraps(s) == ForeignWraps(to, flaw, s)
<1>1. t.len \in Nat
  BY DEF rumor_json, ForeignRumor, Text, Body, RUMOR_FRAME, REPLY_FRAME, Junk
<1> HIDE DEF t
<1>2. AtMostOne(seals)
  BY <1>1, OneLayer DEF ForeignSeals, t
<1>3. \A s \in seals : AtMostOne(Wraps(s))
  BY ForeignLengths, OneLayer DEF ForeignWraps
<1>4. ForeignWire(from, to, flaw, o) = UNION {Wraps(s) : s \in seals}
  BY DEF ForeignWire
<1> HIDE DEF seals, Wraps
<1> QED
  BY <1>2, <1>3, <1>4 DEF AtMostOne

\* There is one string of a key or of symbols.
LEMMA OneSpelling ==
    ASSUME NEW hrp, NEW values
    PROVE  AtMostOne(B32!Spelt(hrp, values))
<1> DEFINE F(symbols) == hrp \o <<"1">> \o [i \in DOMAIN symbols |-> B32!CHARSET[symbols[i] + 1]]
           all == values \o B32!create_checksum(hrp, values)
<1>1. B32!Spelt(hrp, values) = {F(symbols) : symbols \in {all}}
  BY DEF B32!Spelt
<1> HIDE DEF F, all
<1> QED
  BY <1>1 DEF AtMostOne

LEMMA OneConversion ==
    ASSUME NEW data, NEW from, NEW to, NEW padding
    PROVE  AtMostOne(B32!convert_bits(data, from, to, padding))
<1> DEFINE end == B32!Grouped(data, from, to)
           more == Append(end.out, B32!Rest(end, to))
           out1 == end.out
<1>1. \/ B32!convert_bits(data, from, to, padding) = {}
      \/ B32!convert_bits(data, from, to, padding) = {more}
      \/ B32!convert_bits(data, from, to, padding) = {out1}
  BY Zenon DEF B32!convert_bits, B32!Ok, B32!Err
<1> QED
  BY <1>1 DEF AtMostOne

LEMMA OneEncoding ==
    ASSUME NEW hrp, NEW data
    PROVE  AtMostOne(B32!encode(hrp, data))
<1> DEFINE all == B32!convert_bits(data, 8, 5, TRUE)
           F(values) == B32!Spelt(hrp, values)
<1>1. AtMostOne(all) /\ \A values : AtMostOne(F(values))
  BY OneConversion, OneSpelling
<1>2. B32!encode(hrp, data) = UNION {F(values) : values \in all}
  BY DEF B32!encode
<1> HIDE DEF all, F
<1> QED
  BY <1>1, <1>2 DEF AtMostOne

\* A string is decoded in one way: there is one last "1" in it.
LEMMA OneDecoding ==
    ASSUME NEW s
    PROVE  AtMostOne(B32!decode(s))
<1> DEFINE lower == <<>> \o B32!to_ascii_lowercase(s)
           P(pos) == <<SubSeq(lower, 1, pos - 1), SubSeq(lower, pos + 1, Len(lower))>>
           last == {i \in DOMAIN lower :
                       /\ lower[i] = "1" /\ \A j \in DOMAIN lower : lower[j] = "1" => j <= i
                       /\ i \in 2..(Len(lower) - 6) /\ Len(lower) <= 90}
           splits == B32!Split(lower)
           Data(p) == {d \in B32!SymbolsOf(p[2]) : B32!verify_checksum(p[1], d)}
           Bytes_(d) == B32!convert_bits(SubSeq(d, 1, Len(d) - 6), 5, 8, FALSE)
           all(p) == UNION {Bytes_(d) : d \in Data(p)}
           Pairs(p) == {<<p[1], bytes>> : bytes \in all(p)}
<1>1. B32!decode(s) = UNION {Pairs(p) : p \in splits}
  BY DEF B32!decode
<1>2. splits = {P(pos) : pos \in last}
  <2> HIDE DEF lower
  <2> QED
    BY DEF B32!Split
<1>3. AtMostOne(last)
  <2> HIDE DEF lower
  <2> SUFFICES ASSUME NEW i \in last, NEW j \in last PROVE i = j
    BY DEF AtMostOne
  <2>1. i \in Int /\ j \in Int /\ i <= j /\ j <= i
    OBVIOUS
  <2> QED
    BY <2>1
<1>4. AtMostOne(splits)
  <2> HIDE DEF last, P, splits
  <2> QED
    BY <1>2, <1>3 DEF AtMostOne
<1>5. \A p : AtMostOne(Data(p))
  BY DEF B32!SymbolsOf, B32!Err, B32!Ok, AtMostOne
<1>6. \A d : AtMostOne(Bytes_(d))
  BY OneConversion
<1> HIDE DEF lower, splits, Data, Bytes_
<1>7. \A p : AtMostOne(all(p))
  BY <1>5, <1>6 DEF AtMostOne
<1> HIDE DEF all
<1>8. \A p : AtMostOne(Pairs(p))
  BY <1>7 DEF AtMostOne
<1> HIDE DEF Pairs
<1> QED
  BY <1>1, <1>4, <1>8 DEF AtMostOne

LEMMA OneKeyOrNone ==
    ASSUME NEW hrp, NEW s
    PROVE  AtMostOne(B32!decode_key(hrp, s)) /\ AtMostOne({d[2] : d \in B32!decode(s)})
  BY OneDecoding DEF B32!decode_key, AtMostOne

\* A NIP-44 payload that is damaged opens with no key.
LEMMA DamagedNip44 ==
    ASSUME NEW p, Framed(p), NEW w \in SpoiltFrame("nip44", p) \cup SpoiltCipher("nip44", p)
    PROVE  Framed(w) /\ Unopenable(w)
<1>1. CASE w = [p EXCEPT !.base64 = FALSE]
  <2>1. w.base64 = FALSE /\ w.box = p.box /\ DOMAIN w = DOMAIN p
    BY <1>1 DEF Framed
  <2> QED
    BY <2>1 DEF Framed, Unopenable, Broken
<1>2. CASE w = [p EXCEPT !.len = 20, !.box.whole = FALSE]
  <2>1. w.box = [p.box EXCEPT !.whole = FALSE] /\ DOMAIN w = DOMAIN p
    BY <1>2 DEF Framed
  <2> QED
    BY <2>1 DEF Framed, Unopenable, Broken
<1>3. CASE w = [p EXCEPT !.version = 1]
  <2>1. w.version = 1 /\ w.box = p.box /\ DOMAIN w = DOMAIN p
    BY <1>3 DEF Framed
  <2> QED
    BY <2>1 DEF Framed, Unopenable, VERSION
<1>4. CASE w = [p EXCEPT !.box.whole = FALSE, !.box.padded.text = Garbage(@)]
  <2>1. /\ DOMAIN w = DOMAIN p /\ DOMAIN w.box = DOMAIN p.box
        /\ w.box.whole = FALSE /\ w.box.key = p.box.key
        /\ w.box.padded = [p.box.padded EXCEPT !.text = Garbage(@)]
    BY <1>4 DEF Framed
  <2> QED
    BY <2>1 DEF Framed, Unopenable, Broken
<1>5. CASE w = [p EXCEPT !.nonce = "other"]
  <2>1. w.nonce = "other" /\ w.box = p.box /\ DOMAIN w = DOMAIN p
    BY <1>5 DEF Framed
  <2> QED
    BY <2>1 DEF Framed, Unopenable, Broken, Nonce
<1> QED
  BY <1>1, <1>2, <1>3, <1>4, <1>5 DEF SpoiltFrame, SpoiltCipher

\* So does a damaged nametag.
LEMMA DamagedNametag ==
    ASSUME NEW p, NametagParts(p), NEW w \in SpoiltFrame("nametag", p) \cup SpoiltCipher("nametag", p)
    PROVE  NametagParts(w) /\ (Broken(w) \/ ~w.box.utf8)
<1>1. CASE w = [p EXCEPT !.base64 = FALSE]
  <2>1. w.base64 = FALSE /\ w.box = p.box /\ DOMAIN w = DOMAIN p
    BY <1>1 DEF NametagParts
  <2> QED
    BY <2>1 DEF NametagParts, Broken
<1>2. CASE w = [p EXCEPT !.len = 20, !.box.whole = FALSE]
  <2>1. w.box = [p.box EXCEPT !.whole = FALSE] /\ DOMAIN w = DOMAIN p
    BY <1>2 DEF NametagParts
  <2> QED
    BY <2>1 DEF NametagParts, Broken
<1>3. CASE w = [p EXCEPT !.box.whole = FALSE, !.box.text = Garbage(@)]
  <2>1. /\ DOMAIN w = DOMAIN p /\ DOMAIN w.box = DOMAIN p.box
        /\ w.box.whole = FALSE /\ w.box.key = p.box.key
    BY <1>3 DEF NametagParts
  <2> QED
    BY <2>1 DEF NametagParts, Broken
<1>4. CASE w = [p EXCEPT !.nonce = "other"]
  <2>1. w.nonce = "other" /\ w.box = p.box /\ DOMAIN w = DOMAIN p
    BY <1>4 DEF NametagParts
  <2> QED
    BY <2>1 DEF NametagParts, Broken, Nonce
<1>5. CASE w = [p EXCEPT !.box.utf8 = FALSE]
  <2>1. w.box = [p.box EXCEPT !.utf8 = FALSE] /\ DOMAIN w = DOMAIN p
    BY <1>5 DEF NametagParts
  <2> QED
    BY <2>1 DEF NametagParts
<1> QED
  BY <1>1, <1>2, <1>3, <1>4, <1>5 DEF SpoiltFrame, SpoiltCipher

\* A damaged NIP-04 payload still holds its text.
LEMMA DamagedNip04 ==
    ASSUME NEW p, Nip04Parts(p), NEW from, NEW to, NEW t, Holds(p, from, to, t), Uncut(p)
    PROVE  /\ \A w \in SpoiltFrame("nip04", p) : Nip04Parts(w) /\ Holds(w, from, to, t) /\ Uncut(w)
           /\ \A w \in SpoiltCipher("nip04", p) : Nip04Parts(w) /\ Holds(w, from, to, t)
<1>1. ASSUME NEW w \in SpoiltFrame("nip04", p)
      PROVE  DOMAIN w = DOMAIN p /\ w.box = p.box /\ w.iv = p.iv
  <2>1. \/ w = [p EXCEPT !.base64 = FALSE] \/ w = [p EXCEPT !.separator = FALSE]
        \/ w = [p EXCEPT !.iv_len = 15] \/ w = [p EXCEPT !.gz = ~@]
    BY DEF SpoiltFrame
  <2> QED
    BY <2>1 DEF Nip04Parts
<1>2. ASSUME NEW w \in SpoiltCipher("nip04", p)
      PROVE  DOMAIN w = DOMAIN p /\ DOMAIN w.box = DOMAIN p.box /\ w.box.key = p.box.key /\ w.box.data = p.box.data
  <2>1. w = [p EXCEPT !.box.whole = FALSE] \/ w = [p EXCEPT !.iv = "other"]
    BY DEF SpoiltCipher
  <2>2. CASE w = [p EXCEPT !.box.whole = FALSE]
    BY <2>2 DEF Nip04Parts
  <2>3. CASE w = [p EXCEPT !.iv = "other"]
    <3>1. DOMAIN w = DOMAIN p /\ w.box = p.box
      BY <2>3 DEF Nip04Parts
    <3> QED
      BY <3>1
  <2> QED
    BY <2>1, <2>2, <2>3
<1> QED
  BY <1>1, <1>2 DEF Nip04Parts, Holds, Uncut

\* What is written is so.
LEMMA Nip44Written ==
    ASSUME WireInv, WriteNip44
    PROVE  WireInv'
<1>1. PICK from \in Secrets, to \in PublicKeys, n \in Lengths :
         Writes(Job("nip44", from, to, Body(n), {}),
                UNION {encrypt_with_key_nonce(k, Nonce, Body(n)) : k \in derive_conversation_key(from, to)})
  BY DEF WriteNip44
<1>2. /\ job'.kind = "nip44" /\ job'.from = from /\ job'.to = to /\ job'.text = Body(n)
      /\ stage' = "sent" /\ harm' = "none"
  BY <1>1 DEF Writes, Job, WireInv, WriteNip44
<1>3. wire' = UNION {encrypt_with_key_nonce(k, Nonce, Body(n)) : k \in derive_conversation_key(from, to)}
  BY <1>1 DEF Writes
<1>4. Body(n).len \in Nat
  BY BodyLength
<1>5. \A p \in wire' : Sealed(p, from, to, Body(n))
  BY <1>3 DEF Sealed
<1>6. \A p \in wire' : Framed(p)
  BY <1>4, <1>5, SealedFramed
<1>7. AtMostOne(wire')
  BY <1>4, <1>5, OneSealed DEF AtMostOne
<1> QED
  BY <1>2, <1>4, <1>5, <1>6, <1>7 DEF WireInv, Nip44Payloads

\* From what a gift wrap is written as.
LEMMA WrapWritten ==
    ASSUME WireInv, stage = "ready", NEW from, NEW to, NEW t, NEW more, NEW made, AtMostOne(made),
           Writes(Job("gift_wrap", from, to, t, more), made),
           \A w \in made :
               /\ Framed(w.content) /\ "content" \in DOMAIN w
               /\ \A r : unwrap(r, w) = IF more.flaw = "none" /\ r \in Points /\ XCoord(r) = to
                                        THEN {MessageOf(w, from, to, t, more.kind, more.reply)} ELSE {}
    PROVE  WireInv'
<1>1. /\ job'.kind = "gift_wrap" /\ job'.from = from /\ job'.to = to /\ job'.text = t /\ job'.more = more
      /\ stage' = "sent" /\ harm' = "none" /\ wire' = made
  BY DEF Writes, Job, WireInv
<1>2. \A w : Message(w)' = MessageOf(w, from, to, t, more.kind, more.reply)
  BY <1>1 DEF Message, MessageOf
<1>3. \A w \in made : ReadAs(w)'
  BY <1>1, <1>2 DEF ReadAs
<1>4. \A p \in Nip44Payloads' : Framed(p)
  BY <1>1 DEF Nip44Payloads
<1> QED
  BY <1>1, <1>3, <1>4 DEF WireInv

LEMMA GiftWrapWritten ==
    ASSUME WireInv, WriteGiftWrap
    PROVE  WireInv'
<1>1. PICK from \in Secrets, to \in PublicKeys, n \in EdgeLengths, reply \in {{}} \cup {{r} : r \in Replies} :
         Writes(Job("gift_wrap", from, to, Body(n),
                    [tags |-> rumor_tags(to, reply), reply |-> reply, kind |-> CHAT_MESSAGE, flaw |-> "none"]),
                create_gift_wrap(from, to, Params(n, reply)))
  BY DEF WriteGiftWrap
<1> DEFINE more == [tags |-> rumor_tags(to, reply), reply |-> reply, kind |-> CHAT_MESSAGE, flaw |-> "none"]
           made == create_gift_wrap(from, to, Params(n, reply))
<1>2. n \in Lengths /\ stage = "ready"
  BY EnvelopesAssumption DEF WriteGiftWrap
<1>3. reply = {} \/ \E x : reply = {x}
  OBVIOUS
<1>4. more.flaw = "none" /\ more.kind = CHAT_MESSAGE /\ more.reply = reply
  OBVIOUS
<1>5. AtMostOne(made)
  BY <1>2, OneWrap
<1>6. ASSUME NEW w \in made
      PROVE  /\ Framed(w.content) /\ "content" \in DOMAIN w
             /\ \A r : unwrap(r, w) = IF r \in Points /\ XCoord(r) = to
                                      THEN {MessageOf(w, from, to, Body(n), CHAT_MESSAGE, reply)} ELSE {}
  BY <1>2, <1>3, GiftWrapReads
<1>7. Writes(Job("gift_wrap", from, to, Body(n), more), made)
  BY <1>1
<1> HIDE DEF more, made
<1> QED
  BY <1>2, <1>4, <1>5, <1>6, <1>7, WrapWritten

LEMMA ForeignWrapWritten ==
    ASSUME WireInv, ForeignWrap
    PROVE  WireInv'
<1>1. PICK from \in Secrets, to \in PublicKeys, flaw \in Flaws, o \in OtherTags :
         Writes(ForeignJob(from, to, flaw, o), ForeignWire(from, to, flaw, o))
  BY ForeignWrites
<1> DEFINE more == [tags |-> o.tags, reply |-> o.reply, kind |-> RECEIPT, flaw |-> flaw]
           made == ForeignWire(from, to, flaw, o)
<1>2. stage = "ready"
  BY DEF ForeignWrap
<1>3. more.flaw = flaw /\ more.kind = RECEIPT /\ more.reply = o.reply
  OBVIOUS
<1>4. AtMostOne(made)
  BY OneForeign
<1>5. ASSUME NEW w \in made
      PROVE  /\ Framed(w.content) /\ "content" \in DOMAIN w
             /\ \A r : unwrap(r, w) = IF flaw = "none" /\ r \in Points /\ XCoord(r) = to
                                      THEN {MessageOf(w, from, to, Body(10), RECEIPT, o.reply)} ELSE {}
  BY ForeignReads
<1>6. Writes(Job("gift_wrap", from, to, Body(10), more), made)
  BY <1>1 DEF ForeignJob
<1> HIDE DEF more, made
<1> QED
  BY <1>2, <1>3, <1>4, <1>5, <1>6, WrapWritten

\* A NIP-04 payload as it is made.
LEMMA FormatFields ==
    ASSUME NEW key, NEW data, NEW gz
    PROVE  LET p == N04!format(key, Nonce, data, gz)
           IN  /\ Nip04Parts(p) /\ Uncut(p) /\ WellFramed(p)
               /\ p.box.key = key /\ p.box.data = data /\ p.gz = gz
  BY DEF N04!format, Nip04Parts, Uncut, WellFramed

LEMMA Nip04Written ==
    ASSUME WireInv, WriteNip04
    PROVE  WireInv'
<1>1. PICK from \in Secrets, to \in PublicKeys, n \in EdgeLengths, z \in ZippedLengths, g, auto \in BOOLEAN :
         LET t == N04!Bytes("utf8", n, [body |-> "message"])
         IN  Writes(Job("nip04", from, to, t, {}),
                    IF auto THEN N04!encrypt_auto_with_iv(from, to, t, z, Nonce, g)
                    ELSE N04!encrypt_with_iv(from, to, t, Nonce))
  BY Zenon DEF WriteNip04
<1> DEFINE t == N04!Bytes("utf8", n, [body |-> "message"])
           keys == N04!derive_shared_secret(from, to)
           data == IF auto /\ g THEN N04!compress_if_large(t, z) ELSE t
           Made(key) == N04!format(key, Nonce, data, data.form = "zipped")
<1>2. /\ job'.kind = "nip04" /\ job'.from = from /\ job'.to = to /\ job'.text = t
      /\ stage' = "sent" /\ harm' = "none"
      /\ wire' = IF auto THEN N04!encrypt_auto_with_iv(from, to, t, z, Nonce, g)
                 ELSE N04!encrypt_with_iv(from, to, t, Nonce)
  BY <1>1 DEF Writes, Job, WireInv, WriteNip04
<1>3. t.form = "utf8"
  BY DEF N04!Bytes
<1>4. data = t \/ (data.form = "zipped" /\ data.says = t)
  BY DEF N04!compress_if_large, N04!gzip, N04!Bytes
<1>5. wire' = {Made(key) : key \in keys}
  <2>1. CASE auto
    <3>1. data = IF g THEN N04!compress_if_large(t, z) ELSE t
      BY <2>1
    <3> HIDE DEF data, t
    <3> QED
      BY <1>2, <2>1, <3>1 DEF N04!encrypt_auto_with_iv
  <2>2. CASE ~auto
    <3>1. data = t /\ (data.form = "zipped") = FALSE
      BY <1>3, <2>2
    <3>2. wire' = {N04!format(key, Nonce, t, FALSE) : key \in keys}
      BY <1>2, <2>2 DEF N04!encrypt_with_iv
    <3> HIDE DEF data, t
    <3> QED
      BY Zenon, <3>1, <3>2
  <2> QED
    BY <2>1, <2>2
<1> HIDE DEF t, data
<1>6. \A key \in keys : keys = {key}
  BY OneSecret
<1>7. AtMostOne(wire')
  <2> HIDE DEF Made, keys
  <2> QED
    BY <1>5, <1>6 DEF AtMostOne
<1>8. ASSUME NEW p \in wire'
      PROVE  /\ Nip04Parts(p) /\ Holds(p, from, to, t) /\ Uncut(p) /\ WellFramed(p) /\ Announced(p)
  <2>1. PICK key \in keys : p = Made(key)
    BY <1>5
  <2> DEFINE gz == data.form = "zipped"
  <2>2. p = N04!format(key, Nonce, data, gz)
    BY <2>1
  <2> HIDE DEF gz
  <2>3. /\ Nip04Parts(p) /\ Uncut(p) /\ WellFramed(p)
        /\ p.box.key = key /\ p.box.data = data /\ p.gz = gz
    BY <2>2, FormatFields
  <2>4. Holds(p, from, to, t)
    BY <1>4, <2>1, <2>3 DEF Holds
  <2>5. Announced(p)
    BY Zenon, <2>3 DEF Announced, gz
  <2> QED
    BY <2>3, <2>4, <2>5
<1> QED
  BY <1>2, <1>3, <1>7, <1>8 DEF WireInv, Nip44Payloads

LEMMA NametagWritten ==
    ASSUME WireInv, WriteNametag
    PROVE  WireInv'
<1>1. PICK from \in Secrets, n \in EdgeLengths :
         Writes(Job("nametag", from, 0, Body(n), {}), NC!encrypt_nametag_with_iv(Body(n), from, Nonce))
  BY DEF WriteNametag
<1>2. /\ job'.kind = "nametag" /\ job'.from = from /\ job'.text = Body(n)
      /\ stage' = "sent" /\ harm' = "none" /\ wire' = NC!encrypt_nametag_with_iv(Body(n), from, Nonce)
  BY <1>1 DEF Writes, Job, WireInv, WriteNametag
<1>3. n \in Lengths /\ Body(n).len \in Nat
  BY BodyLength, EnvelopesAssumption
<1>4. AtMostOne(wire') /\ \A p \in wire' : NametagParts(p)
  BY <1>2 DEF NC!encrypt_nametag_with_iv, NC!Ok, AtMostOne, NametagParts
<1> QED
  BY <1>2, <1>3, <1>4 DEF WireInv, Nip44Payloads

LEMMA StringsWritten ==
    ASSUME WireInv, WriteKey \/ ForeignString
    PROVE  WireInv'
<1>1. job'.kind \in {"key", "string", "key_string"} /\ AtMostOne(wire') /\ stage' = "sent"
  <2>1. CASE WriteKey
    <3>1. PICK hrp, key, more : Writes(Job("key", 0, 0, Body(0), more), B32!encode(hrp, key))
      BY Zenon, <2>1 DEF WriteKey
    <3> QED
      BY <3>1, OneEncoding DEF Writes, Job
  <2>2. CASE ForeignString
    <3>1. PICK kind \in {"string", "key_string"} :
             \E hrp, values, more : Writes(Job(kind, 0, 0, Body(0), more), B32!Spelt(hrp, values))
      BY Zenon, <2>2 DEF ForeignString
    <3>2. PICK hrp, values, more : Writes(Job(kind, 0, 0, Body(0), more), B32!Spelt(hrp, values))
      BY <3>1
    <3> QED
      BY <3>1, <3>2, OneSpelling DEF Writes, Job
  <2> QED
    BY <2>1, <2>2
<1> QED
  BY <1>1 DEF WireInv, Nip44Payloads

LEMMA PayloadDamaged ==
    ASSUME WireInv, DamagePayload
    PROVE  WireInv'
<1>1. job.kind \in {"nip44", "nip04", "nametag"} /\ harm = "none" /\ stage = "sent"
  BY DEF DamagePayload, Becomes
<1>2. PICK p \in wire :
         \/ \E w \in SpoiltFrame(job.kind, p)  : Becomes("frame", w)
         \/ \E w \in SpoiltCipher(job.kind, p) : Becomes("cipher", w)
  BY DEF DamagePayload
<1>3. PICK w :
         \/ w \in SpoiltFrame(job.kind, p) /\ Becomes("frame", w)
         \/ w \in SpoiltCipher(job.kind, p) /\ Becomes("cipher", w)
  BY <1>2
<1>4. wire' = {w} /\ job' = job /\ stage' = "sent" /\ AtMostOne(wire')
  BY <1>1, <1>3 DEF Becomes, Ok, AtMostOne
<1>5. \/ w \in SpoiltFrame(job.kind, p) /\ harm' = "frame"
      \/ w \in SpoiltCipher(job.kind, p) /\ harm' = "cipher"
  BY <1>3 DEF Becomes
<1>6. CASE job.kind = "nip44"
  <2>1. Framed(p)
    BY <1>6 DEF WireInv, Nip44Payloads
  <2>2. Framed(w) /\ Unopenable(w)
    BY <1>5, <1>6, <2>1, DamagedNip44
  <2> QED
    BY <1>4, <1>5, <1>6, <2>2 DEF WireInv, Nip44Payloads
<1>7. CASE job.kind = "nip04"
  <2>1. Nip04Parts(p) /\ Holds(p, job.from, job.to, job.text) /\ Uncut(p)
    BY <1>1, <1>7 DEF WireInv
  <2>2. /\ Nip04Parts(w) /\ Holds(w, job.from, job.to, job.text)
        /\ harm' = "frame" => Uncut(w)
    BY <1>5, <1>7, <2>1, DamagedNip04
  <2> QED
    BY <1>4, <1>5, <1>7, <2>2 DEF WireInv, Nip44Payloads
<1>8. CASE job.kind = "nametag"
  <2>1. NametagParts(p)
    BY <1>8 DEF WireInv
  <2>2. NametagParts(w) /\ (Broken(w) \/ ~w.box.utf8)
    BY <1>5, <1>8, <2>1, DamagedNametag
  <2> QED
    BY <1>4, <1>5, <1>8, <2>2 DEF WireInv, Nip44Payloads
<1> QED
  BY <1>1, <1>6, <1>7, <1>8

LEMMA WrapDamaged ==
    ASSUME WireInv, DamageWrap
    PROVE  WireInv'
<1>1. job.kind = "gift_wrap" /\ harm = "none" /\ stage = "sent"
  BY DEF DamageWrap, Becomes
<1>2. PICK w \in wire :
         \/ \E p \in SpoiltFrame("nip44", w.content)  : Becomes("frame", [w EXCEPT !.content = p])
         \/ \E p \in SpoiltCipher("nip44", w.content) : Becomes("cipher", [w EXCEPT !.content = p])
  BY DEF DamageWrap
<1>3. PICK p \in SpoiltFrame("nip44", w.content) \cup SpoiltCipher("nip44", w.content) :
         Becomes("frame", [w EXCEPT !.content = p]) \/ Becomes("cipher", [w EXCEPT !.content = p])
  BY <1>2
<1> DEFINE v == [w EXCEPT !.content = p]
<1>4. wire' = {v} /\ job' = job /\ stage' = "sent" /\ harm' # "none" /\ AtMostOne(wire')
  BY <1>1, <1>3 DEF Becomes, Ok, AtMostOne
<1>5. Framed(w.content) /\ "content" \in DOMAIN w
  BY <1>1 DEF WireInv, Nip44Payloads
<1>6. Framed(p) /\ Unopenable(p)
  BY <1>3, <1>5, DamagedNip44
<1>7. v.content = p /\ "content" \in DOMAIN v
  BY <1>5
<1> HIDE DEF v
<1> QED
  BY <1>1, <1>4, <1>6, <1>7 DEF WireInv, Nip44Payloads

LEMMA StringDamaged ==
    ASSUME WireInv, DamageString
    PROVE  WireInv'
<1>1. job.kind = "key" /\ stage = "sent"
  BY DEF DamageString, Becomes
<1>2. PICK what, w : Becomes(what, w)
  BY DEF DamageString
<1>3. job' = job /\ stage' = "sent" /\ wire' = {w}
  BY <1>1, <1>2 DEF Becomes, Ok
<1> QED
  BY <1>1, <1>3 DEF WireInv, AtMostOne, Nip44Payloads

THEOREM EnvelopesAreKept == Spec => []WireInv
<1>1. Init => WireInv
  BY DEF Init, WireInv, AtMostOne, NoJob, Job, Nip44Payloads
<1>2. WireInv /\ [Next]_vars => WireInv'
  <2> SUFFICES ASSUME WireInv, [Next]_vars PROVE WireInv'
    OBVIOUS
  <2>1. CASE ReadNip44 \/ Unwrap \/ ReadNip04 \/ ReadNametag \/ ReadKey \/ ReadString
    <3>1. stage' = "read" /\ UNCHANGED <<job, wire, harm>>
      BY <2>1 DEF ReadNip44, Unwrap, ReadNip04, ReadNametag, ReadKey, ReadString, Reads
    <3> QED
      BY <3>1 DEF WireInv, Nip44Payloads, ReadAs, Message
  <2>2. CASE Again
    BY <2>2 DEF Again, WireInv, AtMostOne, NoJob, Job, Nip44Payloads
  <2>3. CASE UNCHANGED vars
    BY <2>3 DEF vars, WireInv, Nip44Payloads, ReadAs, Message
  <2> QED
    BY <2>1, <2>2, <2>3, Nip44Written, GiftWrapWritten, ForeignWrapWritten, Nip04Written, NametagWritten,
       StringsWritten, PayloadDamaged, WrapDamaged, StringDamaged DEF Next
<1> QED
  BY <1>1, <1>2, PTL DEF Spec

-----------------------------------------------------------------------------
(* What is read.                                                           *)

\* Encrypted with an authenticated cipher, an envelope is read as intended, by whom
\* it is intended for and undamaged, or not at all.
SealedOut == out = IF harm = "none" /\ Addressed THEN Intended ELSE {}

LEMMA Nip44IsRead ==
    ASSUME WireInv, ReadNip44
    PROVE  SealedOut' /\ AtMostOne(out')
<1>1. PICK p \in wire, r \in Secrets, x \in xonly_public_key(job.from) : Reads(Reader(r, FALSE), decrypt(r, x, p))
  BY DEF ReadNip44
<1>2. /\ job.kind = "nip44" /\ job' = job /\ harm' = harm /\ wire' = wire
      /\ reader'.secret = r /\ out' = decrypt(r, x, p)
  BY <1>1 DEF ReadNip44, Reads, Reader
<1>3. x = XCoord(job.from)
  BY <1>1 DEF xonly_public_key, Ok, Err
<1>4. Addressed' <=> r \in Points /\ XCoord(r) = job.to
  BY <1>2 DEF Addressed
<1>5. Intended' = {job.text}
  BY <1>2 DEF Intended
<1>6. CASE harm = "none"
  <2>1. job.text.len \in Nat /\ Sealed(p, job.from, job.to, job.text)
    BY <1>2, <1>6 DEF WireInv
  <2>2. out' = IF r \in Points /\ XCoord(r) = job.to THEN {job.text} ELSE {}
    BY <1>2, <1>3, <2>1, SealedReads
  <2> QED
    BY <1>2, <1>4, <1>5, <1>6, <2>2 DEF SealedOut, AtMostOne
<1>7. CASE harm # "none"
  <2>1. Unopenable(p)
    BY <1>2, <1>7 DEF WireInv, Nip44Payloads
  <2>2. out' = {}
    BY <1>2, <2>1, NothingOpens
  <2> QED
    BY <1>2, <1>7, <2>2 DEF SealedOut, AtMostOne
<1> QED
  BY <1>6, <1>7

LEMMA WrapIsRead ==
    ASSUME WireInv, Unwrap
    PROVE  SealedOut' /\ AtMostOne(out')
<1>1. PICK w \in wire, r \in Secrets : Reads(Reader(r, FALSE), unwrap(r, w))
  BY DEF Unwrap
<1>2. /\ job.kind = "gift_wrap" /\ job' = job /\ harm' = harm /\ wire' = wire
      /\ reader'.secret = r /\ out' = unwrap(r, w)
  BY <1>1 DEF Unwrap, Reads, Reader
<1>3. Addressed' <=> r \in Points /\ XCoord(r) = job.to
  BY <1>2 DEF Addressed
<1>4. Intended' = IF job.more.flaw = "none" THEN {Message(w)} ELSE {}
  <2>1. wire = {w}
    BY <1>1 DEF WireInv, AtMostOne
  <2>2. \A v : Message(v)' = Message(v)
    BY <1>2 DEF Message
  <2>3. Intended' = IF job.more.flaw = "none" THEN {Message(v)' : v \in wire} ELSE {}
    BY <1>2 DEF Intended
  <2> QED
    BY <2>1, <2>2, <2>3
<1>5. CASE harm = "none"
  <2>1. ReadAs(w)
    BY <1>2, <1>5 DEF WireInv
  <2>2. out' = IF job.more.flaw = "none" /\ r \in Points /\ XCoord(r) = job.to THEN {Message(w)} ELSE {}
    BY <1>2, <2>1 DEF ReadAs
  <2> QED
    BY <1>2, <1>3, <1>4, <1>5, <2>2 DEF SealedOut, AtMostOne
<1>6. CASE harm # "none"
  <2>1. Unopenable(w.content)
    BY <1>2, <1>6 DEF WireInv, Nip44Payloads
  <2>2. out' = {}
    BY <1>2, <2>1, EmptyWrap
  <2> QED
    BY <1>2, <1>6, <2>2 DEF SealedOut, AtMostOne
<1> QED
  BY <1>5, <1>6

LEMMA NametagIsRead ==
    ASSUME WireInv, ReadNametag
    PROVE  SealedOut' /\ AtMostOne(out')
<1>1. PICK p \in wire, r \in Secrets : Reads(Reader(r, FALSE), NC!decrypt_nametag(p, r))
  BY DEF ReadNametag
<1>2. /\ job.kind = "nametag" /\ job' = job /\ harm' = harm
      /\ reader'.secret = r /\ out' = NC!decrypt_nametag(p, r)
  BY <1>1 DEF ReadNametag, Reads, Reader
<1>3. Addressed' <=> r = job.from
  BY <1>2 DEF Addressed
<1>4. Intended' = {job.text}
  BY <1>2 DEF Intended
<1>5. CASE harm = "none"
  <2> DEFINE from == job.from
             text == job.text
  <2>1. text.len \in Nat /\ p \in NC!encrypt_nametag_with_iv(text, from, Nonce)
    BY <1>2, <1>5 DEF WireInv
  <2> HIDE DEF from, text
  <2>2. /\ p.base64 = TRUE /\ p.len = 12 + text.len + 16 /\ p.nonce = Nonce
        /\ p.box.whole = TRUE /\ p.box.utf8 = TRUE /\ p.box.text = text
        /\ p.box.key = <<<<"nametag-encryption", from>>, Nonce>>
    BY <2>1 DEF NC!encrypt_nametag_with_iv, NC!Ok, NC!IV_SIZE, NC!TAG_SIZE, NC!derive_nametag_encryption_key
  <2>3. p.len >= 28
    BY <2>1, <2>2
  <2>4. NC!decrypt_nametag(p, r) = IF r = from THEN {text} ELSE {}
    BY <2>2, <2>3 DEF NC!decrypt_nametag, NC!Ok, NC!Err, NC!IV_SIZE, NC!TAG_SIZE, NC!derive_nametag_encryption_key
  <2> QED
    BY <1>2, <1>3, <1>4, <1>5, <2>4 DEF SealedOut, AtMostOne, from, text
<1>6. CASE harm # "none"
  <2>1. NametagParts(p) /\ (Broken(p) \/ ~p.box.utf8)
    BY <1>2, <1>6 DEF WireInv
  <2>2. NC!decrypt_nametag(p, r) = {}
    BY <2>1 DEF Broken, NC!decrypt_nametag, NC!Err
  <2> QED
    BY <1>2, <1>6, <2>2 DEF SealedOut, AtMostOne
<1> QED
  BY <1>5, <1>6

\* What NIP-04, whose cipher has no tag, promises less.
Nip04Out ==
    /\ harm = "none" /\ Addressed => out = Intended
    /\ (\E p \in wire : p.gz) \/ (harm = "frame" /\ Addressed) => out \subseteq {job.text}

LEMMA Nip04IsRead ==
    ASSUME WireInv, ReadNip04
    PROVE  Nip04Out' /\ AtMostOne(out')
<1>1. PICK p \in wire, r \in Secrets, x \in xonly_public_key(job.from), g \in BOOLEAN :
         \E result \in N04!decrypt(r, x, p, g) : Reads(Reader(r, g), result)
  BY DEF ReadNip04
<1>2. PICK result \in N04!decrypt(r, x, p, g) : Reads(Reader(r, g), result)
  BY <1>1
<1>3. /\ job.kind = "nip04" /\ job' = job /\ harm' = harm /\ wire' = wire
      /\ reader'.secret = r /\ reader'.gzip = g /\ out' = result
  BY <1>2 DEF ReadNip04, Reads, Reader
<1>4. x = XCoord(job.from)
  BY <1>1 DEF xonly_public_key, Ok, Err
<1>5. Addressed' <=> r \in Points /\ XCoord(r) = job.to
  BY <1>3 DEF Addressed
<1>6. wire = {p}
  BY <1>1 DEF WireInv, AtMostOne
<1>7. Intended' = IF p.gz => g THEN {job.text} ELSE {}
  <2>1. Intended' = {job.text : w \in {v \in wire : v.gz => g}}
    BY <1>3 DEF Intended
  <2> QED
    BY <1>6, <2>1
<1>8. /\ job.text.form = "utf8" /\ Holds(p, job.from, job.to, job.text)
      /\ harm \in {"none", "frame"} => Uncut(p)
      /\ harm = "none" => WellFramed(p) /\ Announced(p)
  BY <1>3 DEF WireInv
<1>9. /\ AtMostOne(result)
      /\ p.gz => result \subseteq {job.text}
      /\ Uncut(p) /\ r \in Points /\ XCoord(r) = job.to =>
             /\ result \subseteq {job.text}
             /\ WellFramed(p) /\ Announced(p) => result = IF p.gz => g THEN {job.text} ELSE {}
  BY <1>2, <1>4, <1>8, Nip04Reads
<1>10. (harm = "none" /\ Addressed => out = Intended)'
  BY <1>3, <1>5, <1>7, <1>8, <1>9
<1>11. (\E v \in wire : v.gz) <=> p.gz
  BY <1>6
<1>12. p.gz \/ (harm = "frame" /\ Addressed') => result \subseteq {job.text}
  BY <1>5, <1>8, <1>9
<1> QED
  BY <1>3, <1>9, <1>10, <1>11, <1>12 DEF Nip04Out

LEMMA StringIsRead ==
    ASSUME ReadKey \/ ReadString
    PROVE  AtMostOne(out') /\ job'.kind \notin Encrypted
<1>1. CASE ReadKey
  <2>1. PICK s \in wire :
           Reads(NoReader, IF job.more.hrp = B32!npub THEN B32!decode_npub(s) ELSE B32!decode_nsec(s))
    BY <1>1 DEF ReadKey
  <2>2. out' = B32!decode_npub(s) \/ out' = B32!decode_nsec(s)
    BY <2>1 DEF Reads
  <2>3. AtMostOne(out')
    BY <2>2, OneKeyOrNone DEF B32!decode_npub, B32!decode_nsec
  <2> QED
    BY <1>1, <2>1, <2>3 DEF ReadKey, Reads, Encrypted
<1>2. CASE ReadString
  <2>1. PICK s \in wire :
           Reads(NoReader, IF job.kind = "string" THEN {d[2] : d \in B32!decode(s)} ELSE B32!decode_npub(s))
    BY <1>2 DEF ReadString
  <2>2. out' = {d[2] : d \in B32!decode(s)} \/ out' = B32!decode_npub(s)
    BY <2>1 DEF Reads
  <2>3. AtMostOne(out')
    BY <2>2, OneKeyOrNone DEF B32!decode_npub
  <2> QED
    BY <1>2, <2>1, <2>3 DEF ReadString, Reads, Encrypted, Strings
<1> QED
  BY <1>1, <1>2

Read == ReadNip44 \/ Unwrap \/ ReadNip04 \/ ReadNametag \/ ReadKey \/ ReadString

\* What is read does not change until the next envelope.
LEMMA NothingElseReads ==
    ASSUME [Next]_vars, ~Read
    PROVE  \/ stage' # "read"
           \/ UNCHANGED vars
<1> USE DEF Writes, Becomes
<1>1. CASE WriteNip44 \/ WriteGiftWrap \/ WriteNametag \/ WriteKey \/ ForeignString
  BY Zenon, <1>1 DEF WriteNip44, WriteGiftWrap, WriteNametag, WriteKey, ForeignString
<1>2. CASE WriteNip04
  <2>1. PICK j, w : Writes(j, w)
    BY Zenon, <1>2 DEF WriteNip04
  <2> QED
    BY <2>1
<1>3. CASE ForeignWrap
  BY <1>3, ForeignWrites
<1>4. CASE DamagePayload \/ DamageWrap \/ DamageString
  BY <1>4 DEF DamagePayload, DamageWrap, DamageString
<1>5. CASE Again
  BY <1>5 DEF Again
<1> QED
  BY <1>1, <1>2, <1>3, <1>4, <1>5 DEF Next, Read

\* The reader an envelope is meant for reads exactly what was written: whichever of
\* the two secrets of an identity either side holds, and whatever the length.
THEOREM WhatIsWrittenIsRead == Spec => []ReadBack
<1>1. Init => ReadBack
  BY DEF Init, ReadBack
<1>2. WireInv /\ ReadBack /\ [Next]_vars => ReadBack'
  <2> SUFFICES ASSUME WireInv, ReadBack, [Next]_vars PROVE ReadBack'
    OBVIOUS
  <2>1. CASE ReadNip44 \/ Unwrap \/ ReadNametag
    <3>1. SealedOut'
      BY <2>1, Nip44IsRead, WrapIsRead, NametagIsRead
    <3> QED
      BY <3>1 DEF SealedOut, ReadBack
  <2>2. CASE ReadNip04
    BY <2>2, Nip04IsRead DEF Nip04Out, ReadBack
  <2>3. CASE ReadKey \/ ReadString
    BY <2>3, StringIsRead DEF ReadBack
  <2>4. CASE ~Read
    <3>1. CASE UNCHANGED vars
      BY <3>1 DEF vars, ReadBack, Addressed, Intended, Message
    <3>2. CASE stage' # "read"
      BY <3>2 DEF ReadBack
    <3> QED
      BY <2>4, <3>1, <3>2, NothingElseReads
  <2> QED
    BY <2>1, <2>2, <2>3, <2>4 DEF Read
<1> QED
  BY <1>1, <1>2, EnvelopesAreKept, PTL DEF Spec

\* Nobody reads anything but what was written: an envelope that was damaged, or that
\* is for somebody else, is not read at all.  Of NIP-04 that holds for what is
\* announced as compressed, and for damage to the frame.
THEOREM NothingIsMisread == Spec => []NeverMisread
<1>1. Init => NeverMisread
  BY DEF Init, NeverMisread
<1>2. WireInv /\ NeverMisread /\ [Next]_vars => NeverMisread'
  <2> SUFFICES ASSUME WireInv, NeverMisread, [Next]_vars PROVE NeverMisread'
    OBVIOUS
  <2>1. CASE ReadNip44 \/ Unwrap \/ ReadNametag
    <3>1. SealedOut'
      BY <2>1, Nip44IsRead, WrapIsRead, NametagIsRead
    <3> QED
      BY <3>1 DEF SealedOut, NeverMisread
  <2>2. CASE ReadNip04
    <3>1. job'.kind = "nip04" /\ Nip04Out'
      BY <2>2, Nip04IsRead DEF ReadNip04, Reads
    <3>2. (\E p \in wire : p.gz)' \/ (harm = "frame" /\ Addressed)' => out' = {} \/ out' = {job'.text}
      BY <3>1 DEF Nip04Out
    <3> QED
      BY <3>1, <3>2 DEF NeverMisread
  <2>3. CASE ReadKey \/ ReadString
    BY <2>3, StringIsRead DEF NeverMisread
  <2>4. CASE ~Read
    <3>1. CASE UNCHANGED vars
      BY <3>1 DEF vars, NeverMisread, Addressed, Intended, Message
    <3>2. CASE stage' # "read"
      BY <3>2 DEF NeverMisread
    <3> QED
      BY <2>4, <3>1, <3>2, NothingElseReads
  <2> QED
    BY <2>1, <2>2, <2>3, <2>4 DEF Read
<1> QED
  BY <1>1, <1>2, EnvelopesAreKept, PTL DEF Spec

LEMMA SmallSet ==
    ASSUME NEW S, AtMostOne(S)
    PROVE  Cardinality(S) <= 1
<1>1. CASE S = {}
  BY <1>1, FS_EmptySet
<1>2. ASSUME NEW x \in S PROVE Cardinality(S) <= 1
  <2>1. S = {x}
    BY DEF AtMostOne
  <2>2. Cardinality({x}) = 1
    BY FS_Singleton
  <2> QED
    BY <2>1, <2>2
<1> QED
  BY <1>1, <1>2

Kinds == {"none", "nip44", "gift_wrap", "nip04", "nametag", "key"} \cup Strings
Harms == {"none", "frame", "cipher", "text", "case", "mixed"}

\* What an action writes into the variables that TypeOK enumerates, and that only
\* the actions that read have something to say of out.
LEMMA StepTyped ==
    ASSUME TypeOK, [Next]_vars
    PROVE  /\ stage' \in {"ready", "sent", "read"} /\ job'.kind \in Kinds
           /\ harm' \in Harms
           /\ Read \/ out' \in {out, {}}
<1>1. /\ stage \in {"ready", "sent", "read"} /\ job.kind \in Kinds
      /\ harm \in Harms
  BY DEF TypeOK, Kinds, Harms
<1>2. ASSUME NEW kind \in Kinds, NEW from, NEW to, NEW t, NEW more, NEW w,
             Writes(Job(kind, from, to, t, more), w)
      PROVE  stage' = "sent" /\ job'.kind \in Kinds /\ harm' = harm /\ out' = out
  BY <1>2 DEF Writes, Job
<1>3. CASE WriteNip44
  <2>1. "nip44" \in Kinds
    BY DEF Kinds
  <2> QED
    BY Zenon, <1>1, <1>2, <1>3, <2>1 DEF WriteNip44
<1>4. CASE WriteGiftWrap
  <2>1. "gift_wrap" \in Kinds
    BY DEF Kinds
  <2> QED
    BY Zenon, <1>1, <1>2, <1>4, <2>1 DEF WriteGiftWrap
<1>5. CASE WriteNip04
  <2>1. "nip04" \in Kinds
    BY DEF Kinds
  <2> QED
    BY Zenon, <1>1, <1>2, <1>5, <2>1 DEF WriteNip04
<1>6. CASE WriteNametag
  <2>1. "nametag" \in Kinds
    BY DEF Kinds
  <2> QED
    BY Zenon, <1>1, <1>2, <1>6, <2>1 DEF WriteNametag
<1>7. CASE WriteKey
  <2>1. "key" \in Kinds
    BY DEF Kinds
  <2> QED
    BY Zenon, <1>1, <1>2, <1>7, <2>1 DEF WriteKey
<1>8. CASE ForeignWrap
  <2>1. "gift_wrap" \in Kinds
    BY DEF Kinds
  <2> QED
    BY Zenon, <1>1, <1>2, <1>8, <2>1, ForeignWrites DEF ForeignJob
<1>9. CASE ForeignString
  <2>1. \A kind \in {"string", "key_string"} : kind \in Kinds
    BY DEF Kinds, Strings
  <2> QED
    BY Zenon, <1>1, <1>2, <1>9, <2>1 DEF ForeignString
<1>10. CASE DamagePayload \/ DamageWrap \/ DamageString
  BY <1>1, <1>10 DEF DamagePayload, DamageWrap, DamageString, Becomes, Harms
<1>11. CASE Read
  BY <1>1, <1>11 DEF Read, ReadNip44, Unwrap, ReadNip04, ReadNametag, ReadKey, ReadString, Reads
<1>12. CASE Again
  BY <1>12 DEF Again, NoJob, Job, Kinds, Harms
<1>13. CASE UNCHANGED vars
  BY <1>1, <1>13 DEF vars
<1> QED
  BY <1>3, <1>4, <1>5, <1>6, <1>7, <1>8, <1>9, <1>10, <1>11, <1>12, <1>13 DEF Next, Read

\* There is one envelope at a time and it is read as one thing, and the length of a
\* text is kept in two bytes, in every payload that is made or damaged.
THEOREM EnvelopesTyped == Spec => []TypeOK
<1>1. Init => TypeOK
  <2>1. ASSUME Init PROVE Cardinality(wire) <= 1 /\ Cardinality(out) <= 1
    BY <2>1, SmallSet DEF Init, AtMostOne
  <2> QED
    BY <2>1 DEF Init, TypeOK, NoJob, Job, Nip44Payloads
<1>2. WireInv /\ WireInv' /\ TypeOK /\ [Next]_vars => TypeOK'
  <2> SUFFICES ASSUME WireInv, WireInv', TypeOK, [Next]_vars PROVE TypeOK'
    OBVIOUS
  <2>1. Cardinality(wire') <= 1
    BY SmallSet DEF WireInv
  <2>2. \A p \in Nip44Payloads' : p.box.padded.hi \in 0..255 /\ p.box.padded.lo \in 0..255
    BY DEF WireInv, Framed
  <2>3. Cardinality(out') <= 1
    <3>1. CASE Read
      <4>1. AtMostOne(out')
        BY <3>1, Nip44IsRead, WrapIsRead, NametagIsRead, Nip04IsRead, StringIsRead DEF Read
      <4> QED
        BY <4>1, SmallSet
    <3>2. CASE out' = {}
      BY <3>2, SmallSet DEF AtMostOne
    <3>3. CASE out' = out
      BY <3>3 DEF TypeOK
    <3> QED
      BY <3>1, <3>2, <3>3, StepTyped
  <2> QED
    BY <2>1, <2>2, <2>3, StepTyped DEF TypeOK, Kinds, Harms
<1> QED
  BY <1>1, <1>2, EnvelopesAreKept, PTL DEF Spec

=============================================================================
