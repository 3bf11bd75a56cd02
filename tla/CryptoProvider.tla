--------------------------- MODULE CryptoProvider ---------------------------
(***************************************************************************)
(* Crypto of crates/common/src/crypto/core.rs: replicas that sign messages *)
(* and verify each other's, one by one or in batches, with one of three    *)
(* schemes.  The signature algorithms are external: a signature is right   *)
(* for the key that made it and the digest it was made of.                 *)
(***************************************************************************)
EXTENDS Integers, Sequences

CryptoFlavors == {"Plain", "Secp256k1", "Schnorrkel"}

NoDigest == "no digest"

(* How a key of the Plain scheme is written down.                          *)
Key(of, written) == [of |-> of, written |-> written]

-----------------------------------------------------------------------------
(* Secret keys are taken from a list, which panics beyond its end; a Plain *)
(* replica has only a name.                                                *)
HardcodedPanics(n, index, flavor) == flavor # "Plain" /\ index >= n

new_hardcoded(n, index, flavor) ==
    [flavor |-> flavor, key |-> Key(index, "name"),
     public_keys |-> [i \in 1..n |-> Key(i - 1, "name")]]

(* A random Plain key is public in hex and signs as a list of numbers.     *)
new_random(secret, flavor) ==
    [flavor |-> flavor,
     key |-> Key(secret, IF flavor = "Plain" THEN "list" ELSE "name"),
     public_keys |-> <<Key(secret, IF flavor = "Plain" THEN "hex" ELSE "name")>>]

sign(crypto, message) ==
    [inner |-> message,
     signature |-> [flavor |-> crypto.flavor, key |-> crypto.key,
                    digest |-> IF crypto.flavor = "Plain" THEN NoDigest ELSE message]]

(* Whether a signature is right, as the algorithms decide it.              *)
Matches(signature, flavor, public_key, message) ==
    /\ signature.flavor = flavor
    /\ signature.key = public_key
    /\ flavor = "Plain" \/ signature.digest = message

\* Mutant: the message is not hashed again.
M_verify_any_message(crypto, index, signed) ==
    /\ index < Len(crypto.public_keys)
    /\ Matches(signed.signature, crypto.flavor, crypto.public_keys[index + 1],
               signed.signature.digest)

verify(crypto, index, signed) ==
    /\ index < Len(crypto.public_keys)
    /\ Matches(signed.signature, crypto.flavor, crypto.public_keys[index + 1],
               signed.inner)

-----------------------------------------------------------------------------
ShorterLen(indexes, signed) ==
    IF Len(indexes) < Len(signed) THEN Len(indexes) ELSE Len(signed)

(* Where the loop of verify_batch stops: an index without a key panics, a  *)
(* signature of another scheme is refused.                                 *)
Stops(crypto, indexes, signed) ==
    {i \in 1..ShorterLen(indexes, signed) :
        \/ indexes[i] >= Len(crypto.public_keys)
        \/ signed[i].signature.flavor # "Schnorrkel"}

\* Mutant: only the first pair is verified.
M_verify_batch_first(crypto, indexes, signed) ==
    CASE crypto.flavor # "Schnorrkel" -> "Err"
      [] OTHER -> IF \A i \in 1..ShorterLen(indexes, signed) :
                        i = 1 => verify(crypto, indexes[i], signed[i])
                    THEN "Ok" ELSE "Err"

(* zip: what is longer is not looked at to its end.                        *)
verify_batch(crypto, indexes, signed) ==
    LET stops == Stops(crypto, indexes, signed)
        first == CHOOSE i \in stops : \A j \in stops : i <= j
        matching == \A i \in 1..ShorterLen(indexes, signed) :
                        Matches(signed[i].signature, "Schnorrkel",
                                crypto.public_keys[indexes[i] + 1], signed[i].inner)
    IN  CASE crypto.flavor # "Schnorrkel" -> "Err"
          [] crypto.flavor = "Schnorrkel" /\ stops # {} ->
                IF indexes[first] >= Len(crypto.public_keys) THEN "panic" ELSE "Err"
          [] OTHER -> IF matching THEN "Ok" ELSE "Err"

(* peer::Crypto::verify_batch hands both lists on, and schnorrkel asserts  *)
(* that they are of one length.                                            *)
peer_verify_batch(public_keys, signed) ==
    IF Len(public_keys) # Len(signed) THEN "panic"
    ELSE IF \A i \in 1..Len(signed) :
                Matches(signed[i].signature, "Schnorrkel", public_keys[i],
                        signed[i].inner)
           THEN "Ok" ELSE "Err"
=============================================================================
