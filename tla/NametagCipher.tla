--------------------------- MODULE NametagCipher ---------------------------
(***************************************************************************)
(* The recoverable copy of a nametag that its owner puts into a binding    *)
(* (derive_nametag_encryption_key, encrypt_nametag_with_iv and             *)
(* decrypt_nametag of src/src/nametag.rs): AES-256-GCM under a key of the  *)
(* owner's secret, with the vector in front.  Lengths are in bytes.  What  *)
(* this code encrypts is a string; another program that holds the secret   *)
(* may have encrypted bytes that are no UTF-8 text.                        *)
(***************************************************************************)
EXTENDS Naturals

IV_SIZE  == 12
TAG_SIZE == 16

Err   == {}
Ok(v) == {v}

\* The same secret, not merely the same public key, yields the same key.
derive_nametag_encryption_key(private_key) == <<"nametag-encryption", private_key>>

encrypt_nametag_with_iv(nametag, private_key, iv) ==
    Ok([base64 |-> TRUE, len |-> IV_SIZE + nametag.len + TAG_SIZE, nonce |-> iv,
        box |-> [key |-> <<derive_nametag_encryption_key(private_key), iv>>,
                 whole |-> TRUE, utf8 |-> TRUE, text |-> nametag]])

decrypt_nametag(encrypted, private_key) ==
    IF /\ encrypted.base64
       /\ encrypted.len >= IV_SIZE + TAG_SIZE
       /\ encrypted.box.whole
       /\ encrypted.box.key = <<derive_nametag_encryption_key(private_key), encrypted.nonce>>
       /\ encrypted.box.utf8
    THEN Ok(encrypted.box.text)
    ELSE Err
=============================================================================
