---------------------------- MODULE EthSignature ----------------------------
(***************************************************************************)
(* Recoverable ECDSA signatures and the forms they are passed around in:   *)
(* crates/alloy-wrapper/src/signature.rs and util.rs, and                  *)
(* crates/common/src/crypto/recovery.rs.  ECDSA itself is external.        *)
(***************************************************************************)
EXTENDS Integers, Sequences

CONSTANTS
    Secrets, Digests,
    Ecdsa(_, _),           \* sign_ecdsa_recoverable: [r, s, rec]
    Recover(_, _, _, _),   \* recover_ecdsa of r, s, recovery id and digest
    Order,                 \* of the curve
    ChainIds, U64Max,
    NoChain, NoKey

(* Signing gives the lower of the two values of s, and recovery undoes it; *)
(* with the parity changed, the higher one belongs to the same key.  The   *)
(* order is a prime, and odd: no s is both low and high.                   *)
ASSUME EcdsaAssumption ==
    /\ U64Max \in Nat /\ Order \in Nat /\ Order % 2 = 1 /\ ChainIds \subseteq Nat
    /\ NoChain \notin ChainIds /\ NoKey \notin Secrets
    /\ \A k \in Secrets, d \in Digests :
         LET e == Ecdsa(k, d)
         IN  /\ e.r \in 1..(Order - 1) /\ e.s \in 1..(Order \div 2) /\ e.rec \in 0..3
             /\ Recover(e.r, e.s, e.rec, d) = k
             /\ e.rec \in {0, 1} => Recover(e.r, Order - e.s, 1 - e.rec, d) = k

SECP256K1N_HALF == Order \div 2

AsInt(b) == IF b THEN 1 ELSE 0

-----------------------------------------------------------------------------
(* util.rs: the recovery id is kept as a parity, so 2 and 3, which an r    *)
(* beyond the order would need, become 1.                                  *)
sign_message(secret, digest) ==
    LET e == Ecdsa(secret, digest)
    IN  [r |-> e.r, s |-> e.s, odd_y_parity |-> e.rec # 0]

recover_signer_unchecked(sig, digest) ==
    Recover(sig.r, sig.s, AsInt(sig.odd_y_parity), digest)

recover_signer(sig, digest) ==
    IF sig.s > SECP256K1N_HALF THEN NoKey ELSE recover_signer_unchecked(sig, digest)

(* The 65 bytes, the last of which is 27 or 28.                            *)
to_bytes(sig) ==
    [r |-> sig.r, s |-> sig.s, v |-> AsInt(sig.odd_y_parity) + 27]

(* Reads 0, 1, 27 and 28; the subtraction is u8.                           *)
from_hex_str(bytes) ==
    [r |-> bytes.r, s |-> bytes.s,
     odd_y_parity |-> IF bytes.v > 1 THEN (bytes.v - 27) % 256 = 1
                                     ELSE bytes.v = 1]

-----------------------------------------------------------------------------
(* EIP-155: chain_id * 2 + 35 and the parity in one u64.                   *)
FitsV(chain_id) == chain_id = NoChain \/ 1 + 2 * chain_id + 35 <= U64Max

v(sig, chain_id) ==
    IF chain_id = NoChain
      THEN AsInt(sig.odd_y_parity) + 27
      ELSE (AsInt(sig.odd_y_parity) + 2 * chain_id + 35) % (U64Max + 1)

\* Mutant: the offset is forgotten in one direction.
M_extract_chain_id_offset(w) ==
    IF w < 35
      THEN [ok |-> w \in {27, 28}, odd_y_parity |-> w = 28, chain_id |-> NoChain]
      ELSE [ok |-> TRUE, odd_y_parity |-> w % 2 # 0, chain_id |-> (w - 35) \div 2]

extract_chain_id(w) ==
    IF w < 35
      THEN [ok |-> w \in {27, 28}, odd_y_parity |-> w = 28, chain_id |-> NoChain]
      ELSE [ok |-> TRUE, odd_y_parity |-> (w - 35) % 2 # 0,
            chain_id |-> (w - 35) \div 2]

(* A buffer is the sequence of its RLP items.                              *)
encode_with_eip155_chain_id(sig, chain_id) == <<v(sig, chain_id), sig.r, sig.s>>

decode_with_eip155_chain_id(buf) ==
    LET e == extract_chain_id(buf[1])
    IN  [ok |-> e.ok, chain_id |-> e.chain_id,
         sig |-> [r |-> buf[2], s |-> buf[3], odd_y_parity |-> e.odd_y_parity]]

encode(sig) == <<AsInt(sig.odd_y_parity), sig.r, sig.s>>

decode(buf) == [r |-> buf[2], s |-> buf[3], odd_y_parity |-> buf[1] = 1]

-----------------------------------------------------------------------------
(* recovery.rs: its 65 bytes end in the recovery id itself.                *)
sign_message_recover_pk(secret, digest) ==
    LET e == Ecdsa(secret, digest)
    IN  [r |-> e.r, s |-> e.s, v |-> e.rec]

(* RecoveryId::from_i32 refuses what is not in 0..3.                       *)
recover_public_key(bytes, digest) ==
    IF bytes.v \in 0..3 THEN Recover(bytes.r, bytes.s, bytes.v, digest) ELSE NoKey

(* verify_ecdsa with the key just recovered, which accepts a low s only.   *)
verify_secp256k1_recovery_pk(bytes, digest) ==
    /\ recover_public_key(bytes, digest) # NoKey
    /\ bytes.s <= SECP256K1N_HALF
=============================================================================
