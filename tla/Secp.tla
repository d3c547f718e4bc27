-------------------------------- MODULE Secp --------------------------------
(***************************************************************************)
(* Keys, key agreement and signatures (src/src/crypto/secp.rs, schnorr.rs, *)
(* keys.rs, signer.rs) over a small group.                                 *)
(*                                                                         *)
(* The group of the curve is written additively as the integers modulo     *)
(* Order: the point of secret s is s itself.  A point and its opposite     *)
(* have the same x coordinate, of which the smaller of the two is the      *)
(* name.  Exactly one of them counts as having an even y: the even number. *)
(* A signature names its key and its message; it cannot be made without    *)
(* the secret.  A Result is {v} for Ok(v) and {} for Err.                  *)
(***************************************************************************)
EXTENDS Naturals

CONSTANT Order    \* the order of the group, an odd prime

ASSUME SecpAssumption ==
    /\ Order \in Nat /\ Order > 2 /\ Order % 2 = 1
    /\ \A a, b \in 1..(Order - 1) : (a * b) % Order # 0

Err   == {}
Ok(v) == {v}

Points  == 1..(Order - 1)
XCoord(p) == IF p <= Order - p THEN p ELSE Order - p
XOnly   == {XCoord(p) : p \in Points}

\* Secrets are out of range at zero and from the order on.
xonly_public_key(secret) == IF secret \in Points THEN Ok(XCoord(secret)) ELSE Err

\* The point with this x coordinate and an even y, if there is one.
peer_public_key(x) == {p \in Points : XCoord(p) = x /\ p % 2 = 0}

ecdh_x(my_secret, peer_xonly) ==
    {XCoord((my_secret * peer) % Order) :
        peer \in IF my_secret \in Points THEN peer_public_key(peer_xonly) ELSE Err}

sign(message, secret) ==
    {[key |-> x, message |-> message] : x \in xonly_public_key(secret)}

verify(signature, message, public_key) ==
    public_key \in XOnly /\ signature = [key |-> public_key, message |-> message]
=============================================================================
