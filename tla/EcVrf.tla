------------------------------- MODULE EcVrf -------------------------------
(***************************************************************************)
(* The ECVRF of crates/vrf/src/ecvrf.rs and its use by run_vrf: keys,      *)
(* proofs, their bytes and the number drawn from them, over any group with *)
(* a cofactor and any hash functions.                                      *)
(***************************************************************************)
EXTENDS Integers

CONSTANTS
    Points, Scalars,
    Base,                      \* ED25519_BASEPOINT_POINT
    PAdd(_, _), PSub(_, _),    \* +, - of points
    PMul(_, _),                \* point * scalar
    SAdd(_, _), SMul(_, _),    \* +, * of scalars
    MulByCofactor(_),
    Compress(_), Decompress(_),
    HashPoints(_),             \* SHA-512 of SUITE, TWO and points, as scalar
    HashCandidate(_, _),       \* the first point in SHA-512 of SUITE, ONE, ...
    HashOutput(_),             \* SHA-512 of SUITE, THREE and a point
    HashNonce(_, _),
    Low16(_),                  \* the lower 16 bytes of a scalar
    VrfSecrets, Expand(_),     \* SHA-512 of a secret, split and clamped
    Prompts,
    OutputDigits               \* OUTPUT_LENGTH * 2

(* What mul_by_cofactor leaves: the subgroup of prime order.               *)
Subgroup == {MulByCofactor(p) : p \in Points}

(* Of the curve's arithmetic (curve25519-dalek).                           *)
ASSUME GroupAssumption ==
    /\ Subgroup \subseteq Points /\ Base \in Subgroup
    /\ \A p, q \in Subgroup :
         PAdd(p, q) \in Subgroup /\ PSub(PAdd(p, q), q) = p
    /\ \A a, b \in Scalars : SAdd(a, b) \in Scalars /\ SMul(a, b) \in Scalars
    /\ \A a, b \in Scalars, p \in Subgroup :
         /\ PMul(p, a) \in Subgroup
         /\ PMul(p, SAdd(a, b)) = PAdd(PMul(p, a), PMul(p, b))
         /\ PMul(p, SMul(a, b)) = PMul(PMul(p, b), a)

ASSUME CodecAssumption ==
    /\ \A p \in Points : Decompress(Compress(p)) = p
    /\ \A c \in Scalars : Low16(c) \in Scalars /\ Low16(Low16(c)) = Low16(c)

ASSUME HashAssumption ==
    /\ \A ps \in [1..4 -> {Compress(p) : p \in Subgroup}] : HashPoints(ps) \in Scalars
    /\ \A k \in VrfSecrets : Expand(k).key \in Scalars
    /\ \A k \in VrfSecrets, p \in Subgroup :
         HashNonce(Expand(k).nonce, Compress(p)) \in Scalars
    /\ \A k \in VrfSecrets, prompt \in Prompts :
         HashCandidate(Compress(PMul(Base, Expand(k).key)), prompt) \in Points

-----------------------------------------------------------------------------
(* VRFPublicKey::from: a public key is kept as its bytes.                  *)
PublicKey(secret) == Compress(PMul(Base, Expand(secret).key))

\* Mutant: the cofactor is not cleared.
M_hash_to_curve_raw(pk, alpha) == HashCandidate(pk, alpha)

(* The loop ends at the first counter whose hash is a point.               *)
hash_to_curve(pk, alpha) == MulByCofactor(HashCandidate(pk, alpha))

(* The hash of the compressed points, of which 16 bytes are kept.          *)
hash_points(h, gamma, u, v) ==
    Low16(HashPoints([i \in 1..4 |-> Compress(<<h, gamma, u, v>>[i])]))

prove(secret, alpha) ==
    LET x == Expand(secret)
        h == hash_to_curve(PublicKey(secret), alpha)
        k == HashNonce(x.nonce, Compress(h))
        gamma == PMul(h, x.key)
        c == hash_points(h, gamma, PMul(Base, k), PMul(h, k))
    IN  [gamma |-> gamma, c |-> c, s |-> SAdd(k, SMul(c, x.key))]

verify_proof(pk, proof, alpha) ==
    LET h == hash_to_curve(pk, alpha)
    IN  proof.c = hash_points(h, proof.gamma,
                    PSub(PMul(Base, proof.s), PMul(Decompress(pk), proof.c)),
                    PSub(PMul(h, proof.s), PMul(proof.gamma, proof.c)))

(* Proof to and from its 80 bytes, in which c has 16.                      *)
proof_to_bytes(proof) ==
    [gamma |-> Compress(proof.gamma), c |-> Low16(proof.c), s |-> proof.s]

proof_try_from(bytes) ==
    [gamma |-> Decompress(bytes.gamma), c |-> bytes.c, s |-> bytes.s]

Output(proof) == HashOutput(Compress(MulByCofactor(proof.gamma)))

-----------------------------------------------------------------------------
(* The number drawn: the last precision hex digits of the output.          *)
random_num(output, precision) == output % (16 ^ precision)

(* A precision of 0 or of more digits than there are panics.               *)
PrecisionFits(precision) == precision \in 1..OutputDigits

run_vrf(secret, prompt, precision, threshold) ==
    LET proof == prove(secret, prompt)
        output == Output(proof)
    IN  [selected |-> random_num(output, precision) < threshold,
         vrf_prompt_hash |-> prompt,
         vrf_random_value |-> output,
         vrf_verify_pubkey |-> PublicKey(secret),
         vrf_proof |-> proof_to_bytes(proof)]
=============================================================================
