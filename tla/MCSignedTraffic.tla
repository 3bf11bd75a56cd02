-------------------------- MODULE MCSignedTraffic --------------------------
(***************************************************************************)
(* A group of 40 points with the cofactor 8, hash functions made of sums,  *)
(* and signatures that are numbered through.                               *)
(***************************************************************************)
EXTENDS SignedTraffic

CONSTANT Stranger      \* a key nobody has

MCPoints == 0..39
MCScalars == 0..4
MCPAdd(p, q) == (p + q) % 40
MCPSub(p, q) == (p - q + 40) % 40
MCPMul(p, a) == (p * a) % 40
MCSAdd(a, b) == (a + b) % 5
MCSMul(a, b) == (a * b) % 5
MCMulByCofactor(p) == (8 * p) % 40
MCCompress(p) == 100 + p
MCDecompress(bytes) == bytes - 100
MCHashPoints(ps) == (ps[1] + 2 * ps[2] + 3 * ps[3] + (5 * ps[4]) \div 8) % 5
MCHashCandidate(pk, prompt) == (3 * pk + 7 * prompt + 1) % 40
MCHashOutput(bytes) == (61 * bytes * bytes + 11) % 4096
MCHashNonce(nonce, bytes) == (nonce * bytes + 3) % 5
MCLow16(c) == c % 4
MCExpand(secret) == [key |-> 1 + (secret % 4), nonce |-> secret + 7]

MCEcdsa(secret, digest) ==
    [r |-> 3 * secret + digest, s |-> secret + digest,
     rec |-> (secret + 2 * digest) % 3]

(* The secret whose signature it is, low or high, or a key nobody has.     *)
MCRecover(r, s, rec, digest) ==
    LET made == {secret \in Secrets :
                    LET e == MCEcdsa(secret, digest)
                    IN  r = e.r /\ (\/ s = e.s /\ rec = e.rec
                                    \/ s = Order - e.s /\ rec = 1 - e.rec)}
    IN  IF made = {} THEN Stranger ELSE CHOOSE secret \in made : TRUE

MCAddressOf(signer) == signer
=============================================================================
