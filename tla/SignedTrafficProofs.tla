------------------------ MODULE SignedTrafficProofs ------------------------
(***************************************************************************)
(* Proofs about what is signed, for every group, hash function and amount  *)
(* of traffic.                                                             *)
(***************************************************************************)
EXTENDS SignedTraffic, WellFoundedInduction, TLAPS

-----------------------------------------------------------------------------
(* The VRF.                                                                *)

(* Where the values of prove lie.                                          *)
LEMMA ProveTypes ==
    ASSUME NEW secret \in VrfSecrets, NEW prompt \in Prompts
    PROVE  LET h == hash_to_curve(PublicKey(secret), prompt)
           IN  /\ h \in Subgroup
               /\ Expand(secret).key \in Scalars
               /\ HashNonce(Expand(secret).nonce, Compress(h)) \in Scalars
               /\ PMul(h, Expand(secret).key) \in Subgroup
<1> DEFINE h == hash_to_curve(PublicKey(secret), prompt)
<1>1. HashCandidate(PublicKey(secret), prompt) \in Points
  BY HashAssumption DEF PublicKey
<1>2. h \in Subgroup
  BY <1>1 DEF hash_to_curve, Subgroup
<1> HIDE DEF h
<1>3. Expand(secret).key \in Scalars
  BY HashAssumption
<1>4. HashNonce(Expand(secret).nonce, Compress(h)) \in Scalars
  BY <1>2, HashAssumption
<1>5. PMul(h, Expand(secret).key) \in Subgroup
  BY <1>2, <1>3, GroupAssumption
<1> QED
  BY <1>2, <1>3, <1>4, <1>5 DEF h

(* The challenge is a scalar that survives being cut to 16 bytes again.    *)
LEMMA ChallengeTypes ==
    ASSUME NEW a \in Subgroup, NEW b \in Subgroup, NEW c \in Subgroup, NEW d \in Subgroup
    PROVE  hash_points(a, b, c, d) \in Scalars /\ Low16(hash_points(a, b, c, d)) = hash_points(a, b, c, d)
<1> DEFINE ps == [i \in 1..4 |-> Compress(<<a, b, c, d>>[i])]
<1>1. \A i \in 1..4 : <<a, b, c, d>>[i] \in Subgroup
  OBVIOUS
<1>2. ps \in [1..4 -> {Compress(p) : p \in Subgroup}]
  BY <1>1
<1> HIDE DEF ps
<1>3. HashPoints(ps) \in Scalars
  BY <1>2, HashAssumption
<1>4. hash_points(a, b, c, d) = Low16(HashPoints(ps))
  BY DEF hash_points, ps
<1> QED
  BY <1>3, <1>4, CodecAssumption

(* The commitments are recovered: p * (k + c x) - (p * x) * c = p * k.     *)
LEMMA Cancels ==
    ASSUME NEW p \in Subgroup, NEW k \in Scalars, NEW c \in Scalars, NEW x \in Scalars
    PROVE  PSub(PMul(p, SAdd(k, SMul(c, x))), PMul(PMul(p, x), c)) = PMul(p, k)
<1>1. SMul(c, x) \in Scalars
  BY GroupAssumption
<1>2. PMul(p, SAdd(k, SMul(c, x))) = PAdd(PMul(p, k), PMul(p, SMul(c, x)))
  BY <1>1, GroupAssumption
<1>3. PMul(p, SMul(c, x)) = PMul(PMul(p, x), c)
  BY GroupAssumption
<1>4. PMul(p, k) \in Subgroup /\ PMul(PMul(p, x), c) \in Subgroup
  BY GroupAssumption
<1>5. PSub(PAdd(PMul(p, k), PMul(PMul(p, x), c)), PMul(PMul(p, x), c)) = PMul(p, k)
  BY <1>4, GroupAssumption
<1> QED
  BY <1>2, <1>3, <1>5

(* Every proof verifies after it went through its bytes, and stands for    *)
(* the same output, for every secret, prompt, group and hash.              *)
THEOREM ProofVerifies ==
    ASSUME NEW secret \in VrfSecrets, NEW prompt \in Prompts
    PROVE  LET proof == prove(secret, prompt)
               received == proof_try_from(proof_to_bytes(proof))
           IN  /\ verify_proof(PublicKey(secret), received, prompt)
               /\ Output(received) = Output(proof)
<1> DEFINE h == hash_to_curve(PublicKey(secret), prompt)
           x == Expand(secret).key
           k == HashNonce(Expand(secret).nonce, Compress(h))
           gamma == PMul(h, x)
           c == hash_points(h, gamma, PMul(Base, k), PMul(h, k))
           s == SAdd(k, SMul(c, x))
           received == proof_try_from(proof_to_bytes(prove(secret, prompt)))
<1>1. h \in Subgroup /\ x \in Scalars /\ k \in Scalars /\ gamma \in Subgroup
  BY ProveTypes
<1>2. prove(secret, prompt) = [gamma |-> gamma, c |-> c, s |-> s]
  BY DEF prove
<1>3. PublicKey(secret) = Compress(PMul(Base, x))
  BY DEF PublicKey
<1> HIDE DEF h, x, k
<1>4. /\ PMul(Base, k) \in Subgroup /\ PMul(h, k) \in Subgroup
      /\ Base \in Subgroup /\ PMul(Base, x) \in Points /\ gamma \in Points
  BY <1>1, GroupAssumption
<1>5. c \in Scalars /\ Low16(c) = c
  <2> HIDE DEF gamma
  <2> QED
    BY <1>1, <1>4, ChallengeTypes
<1>6. received.gamma = gamma /\ received.c = c /\ received.s = s
  <2> HIDE DEF gamma, c, s
  <2>1. Decompress(Compress(gamma)) = gamma
    BY <1>4, CodecAssumption
  <2> QED
    BY <1>2, <1>5, <2>1 DEF proof_to_bytes, proof_try_from
<1>7. PSub(PMul(Base, s), PMul(Decompress(PublicKey(secret)), c)) = PMul(Base, k)
  <2>1. Decompress(PublicKey(secret)) = PMul(Base, x)
    BY <1>3, <1>4, CodecAssumption
  <2> HIDE DEF c
  <2>2. PSub(PMul(Base, SAdd(k, SMul(c, x))), PMul(PMul(Base, x), c)) = PMul(Base, k)
    BY <1>1, <1>4, <1>5, Cancels
  <2> QED
    BY <2>1, <2>2
<1>8. PSub(PMul(h, s), PMul(gamma, c)) = PMul(h, k)
  <2> HIDE DEF c
  <2> QED
    BY <1>1, <1>5, Cancels
<1> HIDE DEF received
<1>9. verify_proof(PublicKey(secret), received, prompt)
  <2>1. hash_to_curve(PublicKey(secret), prompt) = h
    BY DEF h
  <2> HIDE DEF s
  <2> QED
    BY <1>6, <1>7, <1>8, <2>1 DEF verify_proof
<1>10. Output(received) = Output(prove(secret, prompt))
  <2> HIDE DEF gamma, c, s
  <2> QED
    BY <1>2, <1>6 DEF Output
<1> QED
  BY <1>9, <1>10 DEF received

(* Every reply under way came from run_vrf.                                *)
RepliesInv ==
    \A r \in replies :
        \E secret \in VrfSecrets, prompt \in Prompts, precision \in Precisions,
           threshold \in Thresholds :
            r = [reply |-> run_vrf(secret, prompt, precision, threshold),
                 precision |-> precision, threshold |-> threshold]

LEMMA RepliesStep == RepliesInv /\ [Next]_vars => RepliesInv'
<1> SUFFICES ASSUME RepliesInv, [Next]_vars PROVE RepliesInv'
  OBVIOUS
<1>1. ASSUME NEW secret \in VrfSecrets, NEW prompt \in Prompts,
             NEW precision \in Precisions, NEW threshold \in Thresholds,
             draw(secret, prompt, precision, threshold)
      PROVE  RepliesInv'
  BY <1>1 DEF draw, RepliesInv
<1>2. CASE UNCHANGED replies
  BY <1>2 DEF RepliesInv
<1>3. CASE \E secret \in Secrets, digest \in Digests : sign_recoverable(secret, digest)
  BY <1>2, <1>3 DEF sign_recoverable
<1>4. CASE \E item \in signatures : convert(item)
  BY <1>2, <1>4 DEF convert
<1>5. CASE \E flavor \in CryptoFlavors, content \in Contents : sign_verifiable(flavor, content)
  BY <1>2, <1>5 DEF sign_verifiable
<1>6. CASE \E y \in verifiables, content \in Contents : change_verifiable(y, content)
  BY <1>2, <1>6 DEF change_verifiable
<1>7. CASE \E signer \in Signers, method \in {"method", NoMethod}, content \in Contents :
             send_wire(signer, method, content)
  BY <1>2, <1>7 DEF send_wire
<1>8. CASE \E w \in wires :
             (\E content \in Contents : change_wire(w, content)) \/ garble_wire(w)
  BY <1>2, <1>8 DEF change_wire, garble_wire
<1>9. CASE UNCHANGED vars
  BY <1>2, <1>9 DEF vars
<1> QED
  BY <1>1, <1>3, <1>4, <1>5, <1>6, <1>7, <1>8, <1>9 DEF Next

(* Whoever receives a reply of run_vrf can check it from the reply alone,  *)
(* for every group with a cofactor and every hash function.                *)
THEOREM Checkable == Spec => []SelectionCheckable
<1>1. Init => RepliesInv
  BY DEF Init, RepliesInv
<1>2. RepliesInv => SelectionCheckable
  <2> SUFFICES ASSUME RepliesInv, NEW r \in replies
               PROVE  LET proof == proof_try_from(r.reply.vrf_proof)
                      IN  /\ verify_proof(r.reply.vrf_verify_pubkey, proof, r.reply.vrf_prompt_hash)
                          /\ Output(proof) = r.reply.vrf_random_value
                          /\ r.reply.selected <=>
                               random_num(r.reply.vrf_random_value, r.precision) < r.threshold
    BY DEF SelectionCheckable
  <2>1. PICK secret \in VrfSecrets, prompt \in Prompts, precision \in Precisions,
             threshold \in Thresholds :
          r = [reply |-> run_vrf(secret, prompt, precision, threshold),
               precision |-> precision, threshold |-> threshold]
    BY DEF RepliesInv
  <2>2. /\ r.reply.vrf_proof = proof_to_bytes(prove(secret, prompt))
        /\ r.reply.vrf_verify_pubkey = PublicKey(secret)
        /\ r.reply.vrf_prompt_hash = prompt
        /\ r.reply.vrf_random_value = Output(prove(secret, prompt))
        /\ r.reply.selected = (random_num(Output(prove(secret, prompt)), precision) < threshold)
        /\ r.precision = precision /\ r.threshold = threshold
    BY <2>1 DEF run_vrf
  <2> QED
    BY <2>2, ProofVerifies
<1> QED
  BY <1>1, <1>2, RepliesStep, PTL DEF Spec

-----------------------------------------------------------------------------
(* Batches.                                                                *)

(* verify_batch accepts a batch exactly when verify accepts every pair, as *)
(* far as the shorter list goes, for every group of Schnorrkel replicas.   *)
THEOREM BatchVerifies ==
    ASSUME NEW crypto, crypto.flavor = "Schnorrkel",
           NEW indexes, NEW signed,
           Len(crypto.public_keys) \in Nat,
           Len(indexes) \in Nat, Len(signed) \in Nat,
           \A i \in 1..Len(indexes) : indexes[i] \in Nat
    PROVE  verify_batch(crypto, indexes, signed) = "Ok"
             <=> \A i \in 1..ShorterLen(indexes, signed) :
                    verify(crypto, indexes[i], signed[i])
<1> DEFINE pairs == 1..ShorterLen(indexes, signed)
           stops == Stops(crypto, indexes, signed)
<1>1. \A i \in pairs : indexes[i] \in Nat
  BY DEF ShorterLen
<1>2. CASE stops # {}
  <2>1. verify_batch(crypto, indexes, signed) \in {"panic", "Err"}
    BY <1>2 DEF verify_batch
  <2>2. PICK i \in pairs : \/ indexes[i] >= Len(crypto.public_keys)
                            \/ signed[i].signature.flavor # "Schnorrkel"
    BY <1>2 DEF Stops
  <2>3. ~verify(crypto, indexes[i], signed[i])
    BY <1>1, <2>2 DEF verify, Matches
  <2> QED
    BY <2>1, <2>3
<1>3. CASE stops = {}
  <2>1. \A i \in pairs : indexes[i] < Len(crypto.public_keys)
    BY <1>1, <1>3 DEF Stops
  <2>2. verify_batch(crypto, indexes, signed) = "Ok"
          <=> \A i \in pairs : Matches(signed[i].signature, "Schnorrkel",
                                crypto.public_keys[indexes[i] + 1], signed[i].inner)
    BY <1>3 DEF verify_batch
  <2> QED
    BY <2>1, <2>2 DEF verify
<1> QED
  BY <1>2, <1>3

-----------------------------------------------------------------------------
(* Wire messages.                                                          *)

(* What request and response make.                                         *)
SentOf(method, said, signer) ==
    [id |-> "id", method |-> method, body |-> said, address |-> FixedAddress,
     hash |-> generate_hash_str(Unsigned("id", method, said)),
     signature |-> sign_wire(signer, Unsigned("id", method, said))]

(* A message under way as it was made, but for its body and signature.     *)
WireOf(method, said, body, signature, signer) ==
    [message |->
       [id |-> "id", method |-> method, body |-> body, address |-> FixedAddress,
        hash |-> generate_hash_str(Unsigned("id", method, said)),
        signature |-> signature],
     sent |-> SentOf(method, said, signer), by |-> signer]

WiresInv ==
    \A w \in wires :
        \E method \in {"method", NoMethod}, said \in Contents, body \in Contents,
           signer \in Signers :
            \E signature \in {sign_wire(signer, Unsigned("id", method, said)), Garbled} :
                w = WireOf(method, said, body, signature, signer)

LEMMA SentIs ==
    ASSUME NEW signer, NEW method \in {"method", NoMethod}, NEW content
    PROVE  (IF method = NoMethod THEN response("id", content, signer)
                                 ELSE request("id", method, content, signer))
             = SentOf(method, content, signer)
BY DEF SentOf, request, response, Signed, Unsigned

LEMMA ChangeIsWireOf ==
    ASSUME NEW method, NEW said, NEW body, NEW signature, NEW signer, NEW content
    PROVE  [WireOf(method, said, body, signature, signer) EXCEPT !.message.body = content]
             = WireOf(method, said, content, signature, signer)
BY DEF WireOf

LEMMA GarbleIsWireOf ==
    ASSUME NEW method, NEW said, NEW body, NEW signature, NEW signer
    PROVE  [WireOf(method, said, body, signature, signer) EXCEPT !.message.signature = Garbled]
             = WireOf(method, said, body, Garbled, signer)
BY DEF WireOf

LEMMA WiresStep == WiresInv /\ [Next]_vars => WiresInv'
<1> SUFFICES ASSUME WiresInv, [Next]_vars PROVE WiresInv'
  OBVIOUS
<1>1. ASSUME NEW signer \in Signers, NEW method \in {"method", NoMethod},
             NEW content \in Contents, send_wire(signer, method, content)
      PROVE  WiresInv'
  <2> DEFINE signature == sign_wire(signer, Unsigned("id", method, content))
  <2>1. wires' = wires \union {[message |-> SentOf(method, content, signer),
                                sent |-> SentOf(method, content, signer), by |-> signer]}
    BY <1>1, SentIs DEF send_wire
  <2>2. wires' = wires \union {WireOf(method, content, content, signature, signer)}
    BY <2>1 DEF WireOf, SentOf
  <2> QED
    BY <2>2 DEF WiresInv
<1>2. ASSUME NEW w \in wires,
             (\E content \in Contents : change_wire(w, content)) \/ garble_wire(w)
      PROVE  WiresInv'
  <2>1. PICK method \in {"method", NoMethod}, said \in Contents, body \in Contents,
             signer \in Signers :
          \E signature \in {sign_wire(signer, Unsigned("id", method, said)), Garbled} :
            w = WireOf(method, said, body, signature, signer)
    BY DEF WiresInv
  <2>2. PICK signature \in {sign_wire(signer, Unsigned("id", method, said)), Garbled} :
            w = WireOf(method, said, body, signature, signer)
    BY <2>1
  <2>3. ASSUME NEW content \in Contents, change_wire(w, content)
        PROVE  WiresInv'
    <3>1. wires' = (wires \ {w}) \union {WireOf(method, said, content, signature, signer)}
      BY <2>2, <2>3, ChangeIsWireOf DEF change_wire
    <3> QED
      BY <3>1 DEF WiresInv
  <2>4. CASE garble_wire(w)
    <3>1. wires' = (wires \ {w}) \union {WireOf(method, said, body, Garbled, signer)}
      BY <2>2, <2>4, GarbleIsWireOf DEF garble_wire
    <3> QED
      BY <3>1 DEF WiresInv
  <2>5. CASE \E content \in Contents : change_wire(w, content)
    BY <2>3, <2>5
  <2> QED
    BY <1>2, <2>4, <2>5
<1>3. CASE UNCHANGED wires
  BY <1>3 DEF WiresInv
<1>4. CASE \E secret \in VrfSecrets, prompt \in Prompts, precision \in Precisions,
             threshold \in Thresholds : draw(secret, prompt, precision, threshold)
  BY <1>3, <1>4 DEF draw
<1>5. CASE \E secret \in Secrets, digest \in Digests : sign_recoverable(secret, digest)
  BY <1>3, <1>5 DEF sign_recoverable
<1>6. CASE \E item \in signatures : convert(item)
  BY <1>3, <1>6 DEF convert
<1>7. CASE \E flavor \in CryptoFlavors, content \in Contents : sign_verifiable(flavor, content)
  BY <1>3, <1>7 DEF sign_verifiable
<1>8. CASE \E y \in verifiables, content \in Contents : change_verifiable(y, content)
  BY <1>3, <1>8 DEF change_verifiable
<1>9. CASE UNCHANGED vars
  BY <1>3, <1>9 DEF vars
<1> QED
  BY <1>1, <1>2, <1>4, <1>5, <1>6, <1>7, <1>8, <1>9 DEF Next

(* What recv_inner checks is the message that has neither hash nor         *)
(* signature.                                                              *)
LEMMA ClearedIs ==
    ASSUME NEW method, NEW body, NEW h, NEW sig
    PROVE  Cleared([id |-> "id", method |-> method, body |-> body,
                    address |-> FixedAddress, hash |-> h, signature |-> sig])
             = Unsigned("id", method, body)
<1> DEFINE r == [id |-> "id", method |-> method, body |-> body,
                 address |-> FixedAddress, hash |-> h, signature |-> sig]
           unhashed == [r EXCEPT !.hash = Empty]
<1>1. unhashed = [id |-> "id", method |-> method, body |-> body,
                  address |-> FixedAddress, hash |-> Empty, signature |-> sig]
  OBVIOUS
<1>2. Cleared(r) = [unhashed EXCEPT !.signature = Empty]
  BY Zenon DEF Cleared
<1> HIDE DEF unhashed
<1>3. [unhashed EXCEPT !.signature = Empty] = Unsigned("id", method, body)
  BY <1>1 DEF Unsigned
<1> QED
  BY <1>2, <1>3

(* What is known of one message.                                           *)
LEMMA WireChecked ==
    ASSUME NEW method \in {"method", NoMethod}, NEW said \in Contents,
           NEW body \in Contents, NEW signer \in Signers,
           NEW signature \in {sign_wire(signer, Unsigned("id", method, said)), Garbled}
    PROVE  LET w == WireOf(method, said, body, signature, signer)
               intact == w.message = w.sent
           IN  /\ intact <=> (body = said /\ signature # Garbled)
               /\ recv_inner(w.message) =
                    IF method = NoMethod THEN "response"
                    ELSE IF signature = Garbled THEN "panic" ELSE "request"
               /\ signature # Garbled =>
                    (is_valid(w.message) <=> intact /\ AddressOf(signer) = FixedAddress)
               /\ intact => ~verify_message(w.message)
<1> DEFINE w == WireOf(method, said, body, signature, signer)
           m == w.message
           hash == generate_hash_str(Unsigned("id", method, said))
           made == sign_wire(signer, Unsigned("id", method, said))
<1>1. m = [id |-> "id", method |-> method, body |-> body, address |-> FixedAddress,
           hash |-> hash, signature |-> signature]
  BY DEF WireOf
<1>2. made.of = Unsigned("id", method, said) /\ made.by = signer /\ made # Garbled
  BY TrafficAssumption DEF sign_wire
<1>3. m = w.sent <=> (body = said /\ signature # Garbled)
  <2>1. w.sent = [id |-> "id", method |-> method, body |-> said, address |-> FixedAddress,
                  hash |-> hash, signature |-> made]
    BY DEF WireOf, SentOf
  <2> HIDE DEF m, w, hash, made
  <2>2. m.body = body /\ m.signature = signature
    BY <1>1
  <2>3. w.sent.body = said /\ w.sent.signature = made
    BY <2>1
  <2>4. signature # Garbled <=> signature = made
    BY <1>2 DEF made
  <2> QED
    BY <1>1, <2>1, <2>2, <2>3, <2>4
<1>4. recv_inner(m) = IF method = NoMethod THEN "response"
                      ELSE IF signature = Garbled THEN "panic" ELSE "request"
  <2>1. m.method = method /\ m.signature = signature
    BY <1>1
  <2> HIDE DEF m
  <2> QED
    BY <2>1 DEF recv_inner
<1>5. Cleared(m) = Unsigned("id", method, body)
  <2> HIDE DEF m
  <2> QED
    BY <1>1, ClearedIs
<1>6. Unsigned("id", method, body) = Unsigned("id", method, said) <=> body = said
  <2>1. Unsigned("id", method, body).body = body /\ Unsigned("id", method, said).body = said
    BY DEF Unsigned
  <2> QED
    BY <2>1
<1>7. ASSUME signature # Garbled
      PROVE  is_valid(m) <=> (body = said /\ AddressOf(signer) = FixedAddress)
  <2>1. m.address = FixedAddress /\ m.signature = made
    BY <1>1, <1>7
  <2> HIDE DEF m, made
  <2> QED
    BY <1>2, <1>5, <1>6, <2>1 DEF is_valid, verify_signature
<1>8. ASSUME signature # Garbled PROVE ~verify_message(m)
  <2>1. [m EXCEPT !.signature = Empty].hash = hash
    BY <1>1
  <2>2. Unsigned("id", method, said).hash = Empty
    BY DEF Unsigned
  <2>3. hash # Empty
    BY TrafficAssumption
  <2>4. [m EXCEPT !.signature = Empty] # Unsigned("id", method, said)
    <3> HIDE DEF m, hash
    <3> QED
      BY <2>1, <2>2, <2>3
  <2>5. m.signature = made
    BY <1>1, <1>8
  <2> HIDE DEF m, hash, made
  <2> QED
    BY <1>2, <2>4, <2>5 DEF verify_message, verify_signature
<1> HIDE DEF m
<1> QED
  BY <1>3, <1>4, <1>7, <1>8 DEF m

(* A message as request or response made it is handed on by recv_inner,    *)
(* whoever signed it; the verdict that is dropped would tell the changed   *)
(* requests and refuse every key but one; verify_message would accept      *)
(* none.  For any contents, any keys and any addresses.                    *)
THEOREM IntactHandedOn == Spec => []IntactIsHandedOn
<1>1. Init => WiresInv
  BY DEF Init, WiresInv
<1>2. WiresInv => IntactIsHandedOn
  <2> SUFFICES ASSUME WiresInv, NEW w \in wires
               PROVE  LET intact  == w.message = w.sent
                          outcome == recv_inner(w.message)
                      IN  /\ intact => outcome = IF w.sent.method = NoMethod
                                                 THEN "response" ELSE "request"
                          /\ outcome = "request" =>
                               (is_valid(w.message) <=> intact /\ AddressOf(w.by) = FixedAddress)
                          /\ intact => ~verify_message(w.message)
    BY DEF IntactIsHandedOn
  <2>1. PICK method \in {"method", NoMethod}, said \in Contents, body \in Contents,
             signer \in Signers :
          \E signature \in {sign_wire(signer, Unsigned("id", method, said)), Garbled} :
            w = WireOf(method, said, body, signature, signer)
    BY DEF WiresInv
  <2>2. PICK signature \in {sign_wire(signer, Unsigned("id", method, said)), Garbled} :
            w = WireOf(method, said, body, signature, signer)
    BY <2>1
  <2>3. w.sent.method = method /\ w.by = signer
    BY <2>2 DEF WireOf, SentOf
  <2>4. /\ (w.message = w.sent) <=> (body = said /\ signature # Garbled)
        /\ recv_inner(w.message) =
             IF method = NoMethod THEN "response"
             ELSE IF signature = Garbled THEN "panic" ELSE "request"
        /\ signature # Garbled =>
             (is_valid(w.message) <=> (w.message = w.sent) /\ AddressOf(signer) = FixedAddress)
        /\ (w.message = w.sent) => ~verify_message(w.message)
    BY <2>2, WireChecked
  <2> QED
    BY <2>3, <2>4
<1> QED
  BY <1>1, <1>2, WiresStep, PTL DEF Spec

-----------------------------------------------------------------------------
(* Replicas that verify each other.                                        *)

(* Whose signature may be under way: of a member or of a random key.       *)
SignerKeys(flavor) ==
    {Member(i, flavor).key : i \in Indexes(flavor)} \union {Loner(flavor).key}

VerifiableOf(key, flavor, said, inner) ==
    [item |-> [inner |-> inner,
               signature |-> [flavor |-> flavor, key |-> key,
                              digest |-> IF flavor = "Plain" THEN NoDigest ELSE said]],
     by |-> key.of, flavor |-> flavor, said |-> said]

(* Every verifiable is what sign made of said, but for its inner message.  *)
VerifiablesInv ==
    \A x \in verifiables :
        \E flavor \in CryptoFlavors : \E key \in SignerKeys(flavor),
            said \in Contents, inner \in Contents :
                x = VerifiableOf(key, flavor, said, inner)

LEMMA ChangeIsVerifiableOf ==
    ASSUME NEW key, NEW flavor, NEW said, NEW inner, NEW content
    PROVE  [VerifiableOf(key, flavor, said, inner) EXCEPT !.item.inner = content]
             = VerifiableOf(key, flavor, said, content)
BY DEF VerifiableOf

LEMMA VerifiablesStep == VerifiablesInv /\ [Next]_vars => VerifiablesInv'
<1> SUFFICES ASSUME VerifiablesInv, [Next]_vars PROVE VerifiablesInv'
  OBVIOUS
<1>1. ASSUME NEW flavor \in CryptoFlavors, NEW content \in Contents,
             sign_verifiable(flavor, content)
      PROVE  VerifiablesInv'
  <2>1. PICK c \in {Member(i, flavor) : i \in Indexes(flavor)} \union {Loner(flavor)} :
          verifiables' = verifiables \union
            {[item |-> sign(c, content), by |-> c.key.of, flavor |-> flavor,
              said |-> content]}
    BY <1>1 DEF sign_verifiable
  <2>2. c.key \in SignerKeys(flavor)
    BY <2>1 DEF SignerKeys
  <2>3. c.flavor = flavor
    BY <2>1 DEF Member, Loner, new_hardcoded, new_random
  <2>4. verifiables' = verifiables \union {VerifiableOf(c.key, flavor, content, content)}
    BY <2>1, <2>3 DEF sign, VerifiableOf
  <2> QED
    BY <2>2, <2>4 DEF VerifiablesInv
<1>2. ASSUME NEW x \in verifiables, NEW content \in Contents, change_verifiable(x, content)
      PROVE  VerifiablesInv'
  <2>1. PICK flavor \in CryptoFlavors : \E key \in SignerKeys(flavor),
            said \in Contents, inner \in Contents :
                x = VerifiableOf(key, flavor, said, inner)
    BY DEF VerifiablesInv
  <2>2. PICK key \in SignerKeys(flavor), said \in Contents, inner \in Contents :
                x = VerifiableOf(key, flavor, said, inner)
    BY <2>1
  <2>3. verifiables' = (verifiables \ {x}) \union {VerifiableOf(key, flavor, said, content)}
    BY <1>2, <2>2, ChangeIsVerifiableOf DEF change_verifiable
  <2> QED
    BY <2>3 DEF VerifiablesInv
<1>3. CASE UNCHANGED verifiables
  BY <1>3 DEF VerifiablesInv
<1>4. CASE \E secret \in VrfSecrets, prompt \in Prompts, precision \in Precisions,
             threshold \in Thresholds : draw(secret, prompt, precision, threshold)
  BY <1>3, <1>4 DEF draw
<1>5. CASE \E secret \in Secrets, digest \in Digests : sign_recoverable(secret, digest)
  BY <1>3, <1>5 DEF sign_recoverable
<1>6. CASE \E item \in signatures : convert(item)
  BY <1>3, <1>6 DEF convert
<1>7. CASE \E signer \in Signers, method \in {"method", NoMethod}, content \in Contents :
             send_wire(signer, method, content)
  BY <1>3, <1>7 DEF send_wire
<1>8. CASE \E w \in wires :
             (\E content \in Contents : change_wire(w, content)) \/ garble_wire(w)
  BY <1>3, <1>8 DEF change_wire, garble_wire
<1>9. CASE UNCHANGED vars
  BY <1>3, <1>9 DEF vars
<1> QED
  BY <1>1, <1>2, <1>4, <1>5, <1>6, <1>7, <1>8, <1>9 DEF Next

(* The keys of a group, in the order of its indexes.                       *)
LEMMA MemberKeys ==
    ASSUME NEW m, NEW flavor
    PROVE  /\ Member(m, flavor).flavor = flavor
           /\ Len(Member(m, flavor).public_keys) = Replicas
           /\ \A i \in 0..(Replicas - 1) :
                Member(m, flavor).public_keys[i + 1] = Key(i, "name")
<1> DEFINE keys == [i \in 1..Replicas |-> Key(i - 1, "name")]
<1>1. Member(m, flavor).flavor = flavor /\ Member(m, flavor).public_keys = keys
  BY DEF Member, new_hardcoded
<1>2. Len(keys) = Replicas
  BY TrafficAssumption
<1>3. ASSUME NEW i \in 0..(Replicas - 1) PROVE keys[i + 1] = Key(i, "name")
  <2>1. i + 1 \in 1..Replicas /\ (i + 1) - 1 = i
    BY TrafficAssumption
  <2> QED
    BY <2>1
<1> QED
  BY <1>1, <1>2, <1>3

(* What the keys of signers look like.                                     *)
LEMMA SignerKeyIs ==
    ASSUME NEW flavor \in CryptoFlavors, NEW key \in SignerKeys(flavor)
    PROVE  \/ key.of \in 0..Replicas /\ key = Key(key.of, "name")
           \/ key = Key(RandomKey, IF flavor = "Plain" THEN "list" ELSE "name")
<1>1. CASE key \in {Member(i, flavor).key : i \in Indexes(flavor)}
  <2>1. PICK i \in Indexes(flavor) : key = Member(i, flavor).key
    BY <1>1
  <2>2. i \in 0..Replicas
    BY DEF Indexes
  <2> QED
    BY <2>1, <2>2 DEF Member, new_hardcoded, Key
<1>2. CASE key = Loner(flavor).key
  BY <1>2 DEF Loner, new_random
<1> QED
  BY <1>1, <1>2 DEF SignerKeys

(* A replica verifies exactly what the replica of that index signed and    *)
(* nobody changed, in groups of any size and for any messages.             *)
THEOREM VerifiesSigned == Spec => []VerifyMeansSigned
<1>1. Init => VerifiablesInv
  BY DEF Init, VerifiablesInv
<1>2. VerifiablesInv => VerifyMeansSigned
  <2> SUFFICES ASSUME VerifiablesInv, NEW x \in verifiables,
                      NEW flavor \in CryptoFlavors, NEW i \in 0..Replicas
               PROVE  LET intact == flavor = "Plain" \/ x.item.inner = x.said
                      IN  /\ \A m \in Indexes(flavor) :
                               verify(Member(m, flavor), i, x.item) <=>
                                  (x.flavor = flavor /\ x.by = i /\ i < Replicas /\ intact)
                          /\ verify(Loner(flavor), i, x.item) <=>
                               (/\ x.flavor = flavor /\ x.by = RandomKey /\ i = 0 /\ intact
                                /\ flavor # "Plain")
    BY DEF VerifyMeansSigned
  <2> DEFINE intact == flavor = "Plain" \/ x.item.inner = x.said
             signature == x.item.signature
  <2>1. PICK scheme \in CryptoFlavors : \E key \in SignerKeys(scheme),
            said \in Contents, inner \in Contents :
                x = VerifiableOf(key, scheme, said, inner)
    BY DEF VerifiablesInv
  <2>2. PICK key \in SignerKeys(scheme), said \in Contents, inner \in Contents :
                x = VerifiableOf(key, scheme, said, inner)
    BY <2>1
  <2>3. /\ signature.flavor = scheme /\ signature.key = key
        /\ signature.digest = IF scheme = "Plain" THEN NoDigest ELSE said
        /\ x.item.inner = inner /\ x.by = key.of /\ x.flavor = scheme /\ x.said = said
    BY <2>2 DEF VerifiableOf
  <2>4. \A k : Matches(signature, flavor, k, x.item.inner)
                 <=> (x.flavor = flavor /\ key = k /\ intact)
    BY <2>3 DEF Matches
  <2>5. \/ key.of \in 0..Replicas /\ key = Key(key.of, "name")
        \/ key = Key(RandomKey, IF scheme = "Plain" THEN "list" ELSE "name")
    BY SignerKeyIs
  <2>6. \A a, b, w, u : Key(a, w) = Key(b, u) <=> (a = b /\ w = u)
    <3> TAKE a, b, w, u
    <3>1. /\ Key(a, w).of = a /\ Key(b, u).of = b
          /\ Key(a, w).written = w /\ Key(b, u).written = u
      BY DEF Key
    <3> QED
      BY <3>1
  <2>7. key = Key(i, "name") <=> x.by = i
    <3>1. i # RandomKey
      BY TrafficAssumption DEF RandomKey
    <3>2. \A a, w : Key(a, w).of = a
      BY DEF Key
    <3> QED
      BY <2>3, <2>5, <2>6, <3>1, <3>2
  <2>8. ASSUME NEW m \in Indexes(flavor)
        PROVE  verify(Member(m, flavor), i, x.item) <=>
                  (x.flavor = flavor /\ x.by = i /\ i < Replicas /\ intact)
    <3> HIDE DEF intact
    <3>1. verify(Member(m, flavor), i, x.item) <=>
            (/\ i < Replicas
             /\ Matches(signature, flavor, Member(m, flavor).public_keys[i + 1], x.item.inner))
      BY MemberKeys DEF verify
    <3>2. CASE i < Replicas
      <4>1. i \in 0..(Replicas - 1)
        BY <3>2, TrafficAssumption
      <4>2. Member(m, flavor).public_keys[i + 1] = Key(i, "name")
        BY <4>1, MemberKeys
      <4> QED
        BY <3>1, <3>2, <4>2, <2>4, <2>7
    <3> QED
      BY <3>1, <3>2
  <2>9. verify(Loner(flavor), i, x.item) <=>
           (/\ x.flavor = flavor /\ x.by = RandomKey /\ i = 0 /\ intact
            /\ flavor # "Plain")
    <3> HIDE DEF intact
    <3> DEFINE own == Key(RandomKey, IF flavor = "Plain" THEN "hex" ELSE "name")
    <3>1. Loner(flavor).flavor = flavor /\ Loner(flavor).public_keys = <<own>>
      BY DEF Loner, new_random
    <3> HIDE DEF own
    <3>2. verify(Loner(flavor), i, x.item) <=>
            (i = 0 /\ Matches(signature, flavor, own, x.item.inner))
      <4>1. Len(<<own>>) = 1 /\ <<own>>[1] = own
        OBVIOUS
      <4>2. CASE i = 0
        <5>1. i < 1 /\ i + 1 = 1
          BY <4>2
        <5> QED
          BY <3>1, <4>1, <4>2, <5>1 DEF verify
      <4>3. CASE i # 0
        <5>1. ~(i < 1)
          BY <4>3, TrafficAssumption
        <5> QED
          BY <3>1, <4>1, <4>3, <5>1 DEF verify
      <4> QED
        BY <4>2, <4>3
    <3>3. x.flavor = flavor => (key = own <=> (x.by = RandomKey /\ flavor # "Plain"))
      <4>1. \A a, w : Key(a, w).of = a
        BY DEF Key
      <4>2. RandomKey \notin 0..Replicas
        BY TrafficAssumption DEF RandomKey
      <4> QED
        BY <2>3, <2>5, <2>6, <4>1, <4>2 DEF own
    <3> QED
      BY <3>2, <3>3, <2>4
  <2> QED
    BY <2>8, <2>9
<1> QED
  BY <1>1, <1>2, VerifiablesStep, PTL DEF Spec

(* Among positions in a list there is a first.                             *)
LEMMA FirstIs ==
    ASSUME NEW S, S \subseteq Nat, S # {}
    PROVE  LET first == CHOOSE i \in S : \A j \in S : i <= j
           IN  first \in S /\ \A j \in S : first <= j
<1> DEFINE R == OpToRel(<, Nat)
<1>1. IsWellFoundedOn(R, Nat)
  BY NatLessThanWellFounded
<1>2. PICK x \in S : \A y \in S : ~(<<y, x>> \in R)
  <2> HIDE DEF R
  <2> QED
    BY <1>1, WFMin
<1>3. \A y \in S : <<y, x>> \in R <=> y < x
  BY DEF OpToRel
<1>4. \A y \in S : x <= y
  <2> TAKE y \in S
  <2>1. ~(y < x)
    BY <1>2, <1>3
  <2> HIDE DEF R
  <2> QED
    BY <2>1
<1>5. \E i \in S : \A j \in S : i <= j
  BY <1>4
<1> QED
  BY <1>5

(* verify_batch panics only for an index without a key: that of the pair   *)
(* it stops at.                                                            *)
LEMMA BatchPanics ==
    ASSUME NEW crypto, crypto.flavor = "Schnorrkel",
           NEW indexes, NEW signed,
           verify_batch(crypto, indexes, signed) = "panic"
    PROVE  \E i \in 1..ShorterLen(indexes, signed) :
              indexes[i] >= Len(crypto.public_keys)
<1> DEFINE stops == Stops(crypto, indexes, signed)
           first == CHOOSE i \in stops : \A j \in stops : i <= j
<1>1. CASE stops # {}
  <2>1. stops \subseteq Nat
    BY DEF Stops
  <2>2. first \in stops
    <3> HIDE DEF stops
    <3> QED
      BY <1>1, <2>1, FirstIs
  <2>3. indexes[first] >= Len(crypto.public_keys)
    <3>1. verify_batch(crypto, indexes, signed) =
            IF indexes[first] >= Len(crypto.public_keys) THEN "panic" ELSE "Err"
      BY <1>1 DEF verify_batch
    <3> HIDE DEF first
    <3> QED
      BY <3>1
  <2>4. first \in 1..ShorterLen(indexes, signed)
    <3> HIDE DEF first
    <3> QED
      BY <2>2 DEF Stops
  <2> QED
    BY <2>3, <2>4
<1>2. CASE stops = {}
  BY <1>2 DEF verify_batch
<1> QED
  BY <1>1, <1>2

(* With lists of one length and a key for every index, the batch of peer,  *)
(* given the keys themselves, decides as verify does one by one.           *)
LEMMA PeerBatchVerifies ==
    ASSUME NEW crypto, crypto.flavor = "Schnorrkel",
           NEW indexes, NEW signed, NEW n \in Nat,
           Len(indexes) = n, Len(signed) = n,
           \A i \in 1..n : indexes[i] < Len(crypto.public_keys)
    PROVE  peer_verify_batch([i \in 1..n |-> crypto.public_keys[indexes[i] + 1]], signed) = "Ok"
             <=> \A i \in 1..n : verify(crypto, indexes[i], signed[i])
<1> DEFINE keys == [i \in 1..n |-> crypto.public_keys[indexes[i] + 1]]
<1>1. Len(keys) = n
  OBVIOUS
<1>2. \A i \in 1..n : keys[i] = crypto.public_keys[indexes[i] + 1]
  OBVIOUS
<1> HIDE DEF keys
<1>3. peer_verify_batch(keys, signed) = "Ok"
        <=> \A i \in 1..n : Matches(signed[i].signature, "Schnorrkel", keys[i], signed[i].inner)
  BY <1>1 DEF peer_verify_batch
<1> QED
  BY <1>2, <1>3 DEF verify, keys

(* verify_batch says Ok to what verify accepts one by one, panics only for *)
(* an index without a key and agrees with peer, for groups of any size and *)
(* batches of any length, as MaxBatch is any number.                       *)
THEOREM BatchesVerified == Spec => []BatchIsOneByOne
<1>1. BatchIsOneByOne
  <2> DEFINE S == {x.item : x \in verifiables}
             crypto == Member(0, "Schnorrkel")
  <2> SUFFICES ASSUME NEW signed \in Lists(S), NEW indexes \in Lists(0..Replicas)
               PROVE  LET pairs == 1..ShorterLen(indexes, signed)
                          verdict == verify_batch(crypto, indexes, signed)
                      IN  /\ verdict = "Ok" <=> \A i \in pairs : verify(crypto, indexes[i], signed[i])
                          /\ verdict = "panic" => \E i \in pairs : indexes[i] >= Replicas
                          /\ (Len(indexes) = Len(signed) /\ \A i \in pairs : indexes[i] < Replicas)
                               => (verdict = "Ok" <=>
                                      peer_verify_batch([i \in pairs |-> crypto.public_keys[indexes[i] + 1]],
                                                        signed) = "Ok")
    BY DEF BatchIsOneByOne
  <2> DEFINE pairs == 1..ShorterLen(indexes, signed)
  <2>1. crypto.flavor = "Schnorrkel" /\ Len(crypto.public_keys) = Replicas
    BY MemberKeys
  <2>2. Len(crypto.public_keys) \in Nat
    BY <2>1, TrafficAssumption
  <2>3. PICK n \in 0..MaxBatch : signed \in [1..n -> S]
    BY DEF Lists
  <2>4. PICK k \in 0..MaxBatch : indexes \in [1..k -> 0..Replicas]
    BY DEF Lists
  <2>5. Len(signed) = n /\ n \in Nat
    BY <2>3, TrafficAssumption
  <2>6. Len(indexes) = k /\ k \in Nat
    BY <2>4, TrafficAssumption
  <2>7. \A i \in 1..Len(indexes) : indexes[i] \in Nat
    BY <2>4, <2>6, TrafficAssumption
  <2> HIDE DEF crypto, S
  <2>8. verify_batch(crypto, indexes, signed) = "Ok"
           <=> \A i \in pairs : verify(crypto, indexes[i], signed[i])
    BY <2>1, <2>2, <2>5, <2>6, <2>7, BatchVerifies
  <2>9. verify_batch(crypto, indexes, signed) = "panic"
           => \E i \in pairs : indexes[i] >= Replicas
    BY <2>1, BatchPanics
  <2>10. ASSUME Len(indexes) = Len(signed), \A i \in pairs : indexes[i] < Replicas
         PROVE  verify_batch(crypto, indexes, signed) = "Ok" <=>
                  peer_verify_batch([i \in pairs |-> crypto.public_keys[indexes[i] + 1]],
                                    signed) = "Ok"
    <3>1. ShorterLen(indexes, signed) = n /\ Len(indexes) = n
      BY <2>5, <2>6, <2>10 DEF ShorterLen
    <3>2. \A i \in 1..n : indexes[i] < Len(crypto.public_keys)
      BY <2>1, <2>10, <3>1
    <3>3. peer_verify_batch([i \in 1..n |-> crypto.public_keys[indexes[i] + 1]], signed) = "Ok"
            <=> \A i \in 1..n : verify(crypto, indexes[i], signed[i])
      BY <2>1, <2>5, <3>1, <3>2, PeerBatchVerifies
    <3> QED
      BY <2>8, <3>1, <3>3
  <2> QED
    BY <2>8, <2>9, <2>10 DEF crypto
<1> QED
  BY <1>1, PTL DEF Spec

-----------------------------------------------------------------------------
(* The forms of a recoverable signature.                                   *)

(* The signature of a digest by a secret, with the lower or the higher s.  *)
SigOf(secret, digest, high) ==
    LET e == Ecdsa(secret, digest)
    IN  [r |-> e.r, s |-> IF high THEN Order - e.s ELSE e.s,
         odd_y_parity |-> IF high THEN e.rec = 0 ELSE e.rec # 0]

(* The value of an item, in each form, as the signature it came from.      *)
ValueIs(item) ==
    LET sig == SigOf(item.by, item.digest, item.high)
    IN  \/ item.form = "struct" /\ item.value = sig
        \/ item.form = "bytes" /\ item.value = to_bytes(sig)
        \/ /\ item.form = "bytes" /\ item.high = FALSE
           /\ item.value = sign_message_recover_pk(item.by, item.digest)
        \/ item.form = "rlp" /\ item.value = encode(sig)
        \/ /\ item.form = "rlp155" /\ item.chain_id \in ChainIds \union {NoChain}
           /\ FitsV(item.chain_id)
           /\ item.value = encode_with_eip155_chain_id(sig, item.chain_id)

IsParity(item) == Ecdsa(item.by, item.digest).rec \in {0, 1}

ItemOK(item) ==
    /\ item.by \in Secrets /\ item.digest \in Digests /\ item.high \in BOOLEAN
    /\ item.fits \in BOOLEAN
    /\ item.fits /\ IsParity(item) => ValueIs(item)

(* Whatever forms it went through, an item stands for its signature.       *)
SignaturesInv == \A item \in signatures : ItemOK(item)

(* What is in a signature, and what is recovered from it.                  *)
LEMMA SigOfIs ==
    ASSUME NEW secret \in Secrets, NEW digest \in Digests, NEW high \in BOOLEAN,
           Ecdsa(secret, digest).rec \in {0, 1}
    PROVE  LET sig == SigOf(secret, digest, high)
           IN  /\ sig = [r |-> sig.r, s |-> sig.s, odd_y_parity |-> sig.odd_y_parity]
               /\ sig.odd_y_parity \in BOOLEAN
               /\ recover_signer_unchecked(sig, digest) = secret
               /\ recover_signer(sig, digest) = IF high THEN NoKey ELSE secret
               /\ sig.s <= SECP256K1N_HALF <=> ~high
<1> DEFINE e == Ecdsa(secret, digest)
           sig == SigOf(secret, digest, high)
<1>1. /\ e.s \in 1..(Order \div 2) /\ Order \in Nat /\ Order % 2 = 1
      /\ Recover(e.r, e.s, e.rec, digest) = secret
      /\ Recover(e.r, Order - e.s, 1 - e.rec, digest) = secret
      /\ e.rec \in {0, 1}
  BY EcdsaAssumption
<1>2. sig.r = e.r /\ sig.s = (IF high THEN Order - e.s ELSE e.s)
  BY DEF SigOf
<1>3. sig.odd_y_parity = (IF high THEN e.rec = 0 ELSE e.rec # 0)
  BY DEF SigOf
<1>4. sig = [r |-> sig.r, s |-> sig.s, odd_y_parity |-> sig.odd_y_parity]
  BY DEF SigOf
<1> HIDE DEF e, sig
<1>5. sig.odd_y_parity \in BOOLEAN
  BY <1>3
<1>6. AsInt(sig.odd_y_parity) = (IF high THEN 1 - e.rec ELSE e.rec)
  <2>1. AsInt(TRUE) = 1 /\ AsInt(FALSE) = 0
    BY DEF AsInt
  <2>2. CASE sig.odd_y_parity = TRUE
    <3>1. AsInt(sig.odd_y_parity) = 1
      BY <2>1, <2>2
    <3>2. e.rec = (IF high THEN 0 ELSE 1)
      BY <1>1, <1>3, <2>2
    <3> QED
      BY <3>1, <3>2
  <2>3. CASE sig.odd_y_parity = FALSE
    <3>1. AsInt(sig.odd_y_parity) = 0
      BY <2>1, <2>3
    <3>2. e.rec = (IF high THEN 1 ELSE 0)
      BY <1>1, <1>3, <2>3
    <3> QED
      BY <3>1, <3>2
  <2> QED
    BY <1>5, <2>2, <2>3
<1>7. recover_signer_unchecked(sig, digest) = secret
  BY <1>1, <1>2, <1>6 DEF recover_signer_unchecked
<1>8. sig.s > SECP256K1N_HALF <=> high
  <2>1. e.s <= Order \div 2 /\ Order - e.s > Order \div 2 /\ e.s \in Nat
    BY <1>1
  <2> QED
    BY <2>1, <1>1, <1>2 DEF SECP256K1N_HALF
<1>9. recover_signer(sig, digest) = IF high THEN NoKey ELSE secret
  BY <1>7, <1>8 DEF recover_signer
<1>10. sig.s <= SECP256K1N_HALF <=> ~high
  <2>1. sig.s \in Int /\ SECP256K1N_HALF \in Int
    BY <1>1, <1>2 DEF SECP256K1N_HALF
  <2> QED
    BY <2>1, <1>8
<1> QED
  BY <1>4, <1>5, <1>7, <1>9, <1>10 DEF sig

(* from_hex_str reads the 65 bytes of to_bytes.                            *)
LEMMA BytesRoundTrip ==
    ASSUME NEW r, NEW s, NEW odd \in BOOLEAN
    PROVE  LET sig == [r |-> r, s |-> s, odd_y_parity |-> odd]
           IN  from_hex_str(to_bytes(sig)) = sig /\ to_bytes(sig).v \in {27, 28}
<1>1. CASE odd = TRUE
  <2>1. to_bytes([r |-> r, s |-> s, odd_y_parity |-> odd]) = [r |-> r, s |-> s, v |-> 28]
    BY <1>1 DEF to_bytes, AsInt
  <2>2. ((28 - 27) % 256 = 1) = TRUE
    OBVIOUS
  <2>3. from_hex_str([r |-> r, s |-> s, v |-> 28]) = [r |-> r, s |-> s, odd_y_parity |-> TRUE]
    <3> DEFINE b == [r |-> r, s |-> s, v |-> 28]
    <3>1. b.r = r /\ b.s = s /\ b.v = 28 /\ 28 > 1
      OBVIOUS
    <3> HIDE DEF b
    <3>2. from_hex_str(b) = [r |-> r, s |-> s, odd_y_parity |-> (28 - 27) % 256 = 1]
      BY <3>1, Zenon DEF from_hex_str
    <3>3. from_hex_str(b) = [r |-> r, s |-> s, odd_y_parity |-> TRUE]
      BY <3>2, <2>2, Zenon
    <3> QED
      BY <3>3 DEF b
  <2> QED
    BY <2>1, <2>3, <1>1
<1>2. CASE odd = FALSE
  BY <1>2 DEF from_hex_str, to_bytes, AsInt
<1> QED
  BY <1>1, <1>2

(* decode reads what encode wrote.                                         *)
LEMMA RlpRoundTrip ==
    ASSUME NEW r, NEW s, NEW odd \in BOOLEAN
    PROVE  LET sig == [r |-> r, s |-> s, odd_y_parity |-> odd]
           IN  decode(encode(sig)) = sig
<1>1. CASE odd = TRUE
  BY <1>1 DEF decode, encode, AsInt
<1>2. CASE odd = FALSE
  BY <1>2 DEF decode, encode, AsInt
<1> QED
  BY <1>1, <1>2

(* The chain id and the parity come out of v as they went in, as long as   *)
(* v fits into a u64.                                                      *)
THEOREM ChainIdRoundTrip ==
    ASSUME NEW sig, NEW odd \in BOOLEAN, sig.odd_y_parity = odd,
           NEW chain_id \in ChainIds \union {NoChain}, FitsV(chain_id)
    PROVE  extract_chain_id(v(sig, chain_id)) =
             [ok |-> TRUE, odd_y_parity |-> odd, chain_id |-> chain_id]
<1> DEFINE a == AsInt(odd)
<1>1. a \in {0, 1} /\ (a = 1 <=> odd)
  BY DEF AsInt
<1>2. CASE chain_id = NoChain
  <2>1. v(sig, chain_id) = a + 27
    BY <1>2 DEF v
  <2>2. CASE odd = TRUE
    <3>1. v(sig, chain_id) = 28
      BY <2>1, <2>2 DEF AsInt
    <3>2. extract_chain_id(28) = [ok |-> TRUE, odd_y_parity |-> TRUE, chain_id |-> NoChain]
      <4>1. 28 < 35 /\ (28 \in {27, 28}) = TRUE /\ (28 = 28) = TRUE
        OBVIOUS
      <4>2. extract_chain_id(28) =
              [ok |-> 28 \in {27, 28}, odd_y_parity |-> 28 = 28, chain_id |-> NoChain]
        BY <4>1, Zenon DEF extract_chain_id
      <4> QED
        BY <4>1, <4>2, Zenon
    <3> QED
      BY <3>1, <3>2, <2>2, <1>2
  <2>3. CASE odd = FALSE
    <3>1. v(sig, chain_id) = 27
      BY <2>1, <2>3 DEF AsInt
    <3>2. extract_chain_id(27) = [ok |-> TRUE, odd_y_parity |-> FALSE, chain_id |-> NoChain]
      <4>1. 27 < 35 /\ (27 \in {27, 28}) = TRUE /\ (27 = 28) = FALSE
        OBVIOUS
      <4>2. extract_chain_id(27) =
              [ok |-> 27 \in {27, 28}, odd_y_parity |-> 27 = 28, chain_id |-> NoChain]
        BY <4>1, Zenon DEF extract_chain_id
      <4> QED
        BY <4>1, <4>2, Zenon
    <3> QED
      BY <3>1, <3>2, <2>3, <1>2
  <2> QED
    BY <2>2, <2>3
<1>3. CASE chain_id # NoChain
  <2>1. chain_id \in Nat /\ U64Max \in Nat /\ 1 + 2 * chain_id + 35 <= U64Max
    BY <1>3, EcdsaAssumption DEF FitsV
  <2> DEFINE w == a + 2 * chain_id + 35
  <2>2. w \in Nat /\ w < U64Max + 1 /\ w >= 35
    BY <1>1, <2>1
  <2>3. v(sig, chain_id) = w % (U64Max + 1)
    BY <1>3 DEF v
  <2>4. w - 35 = a + 2 * chain_id
    <3> HIDE DEF a
    <3> QED
      BY <1>1, <2>1
  <2>5. (a + 2 * chain_id) % 2 = a /\ (a + 2 * chain_id) \div 2 = chain_id
    <3> HIDE DEF a
    <3> QED
      BY <1>1, <2>1
  <2> HIDE DEF w
  <2>6. w % (U64Max + 1) = w
    BY <2>1, <2>2
  <2>7. extract_chain_id(w) =
          [ok |-> TRUE, odd_y_parity |-> (w - 35) % 2 # 0, chain_id |-> (w - 35) \div 2]
    BY <2>2 DEF extract_chain_id
  <2>8. ((w - 35) % 2 # 0) = odd
    BY <1>1, <2>4, <2>5
  <2> QED
    BY <2>3, <2>4, <2>5, <2>6, <2>7, <2>8
<1> QED
  BY <1>2, <1>3

(* What was written in any form is read back, and what recovery.rs makes   *)
(* of the bytes depends on who wrote them.                                 *)
LEMMA ReadBack ==
    ASSUME NEW item, item.by \in Secrets, item.digest \in Digests,
           item.high \in BOOLEAN, IsParity(item), ValueIs(item)
    PROVE  /\ Readable(item)
           /\ SignatureIn(item) = SigOf(item.by, item.digest, item.high)
           /\ item.form = "rlp155" =>
                decode_with_eip155_chain_id(item.value).chain_id = item.chain_id
           /\ item.form = "bytes" =>
                (verify_secp256k1_recovery_pk(item.value, item.digest)
                   <=> item.value.v < 27)
<1> DEFINE sig == SigOf(item.by, item.digest, item.high)
           e == Ecdsa(item.by, item.digest)
<1>1. /\ sig = [r |-> sig.r, s |-> sig.s, odd_y_parity |-> sig.odd_y_parity]
      /\ sig.odd_y_parity \in BOOLEAN
      /\ sig.s <= SECP256K1N_HALF <=> ~item.high
  BY SigOfIs DEF IsParity
<1>2. CASE item.form = "struct" /\ item.value = sig
  <2> HIDE DEF sig
  <2>1. SignatureIn(item) = sig
    BY <1>2 DEF SignatureIn
  <2> QED
    BY <1>2, <2>1 DEF Readable, sig
<1>3. CASE item.form = "bytes" /\ item.value = to_bytes(sig)
  <2> HIDE DEF sig
  <2>1. from_hex_str(item.value) = sig /\ item.value.v \in {27, 28}
    <3> DEFINE r == sig.r
               s == sig.s
               odd == sig.odd_y_parity
    <3> HIDE DEF r, s, odd
    <3>1. sig = [r |-> r, s |-> s, odd_y_parity |-> odd] /\ odd \in BOOLEAN
      BY <1>1 DEF r, s, odd
    <3> QED
      BY <1>3, <3>1, BytesRoundTrip
  <2>2. SignatureIn(item) = sig
    BY <1>3, <2>1 DEF SignatureIn
  <2>3. ~verify_secp256k1_recovery_pk(item.value, item.digest) /\ ~(item.value.v < 27)
    BY <2>1 DEF verify_secp256k1_recovery_pk, recover_public_key
  <2> QED
    BY <1>3, <2>2, <2>3 DEF Readable, sig
<1>4. CASE /\ item.form = "bytes" /\ item.high = FALSE
           /\ item.value = sign_message_recover_pk(item.by, item.digest)
  <2>1. item.value.r = e.r /\ item.value.s = e.s /\ item.value.v = e.rec
    BY <1>4 DEF sign_message_recover_pk
  <2>2. sig = [r |-> e.r, s |-> e.s, odd_y_parity |-> e.rec # 0]
    BY <1>4 DEF SigOf
  <2> HIDE DEF sig, e
  <2>3. e.rec \in {0, 1} /\ Recover(e.r, e.s, e.rec, item.digest) = item.by
    BY EcdsaAssumption DEF IsParity, e
  <2>4. (e.rec # 0) = (e.rec = 1) /\ ~(e.rec > 1) /\ e.rec \in 0..3 /\ e.rec < 27
    BY <2>3
  <2>5. from_hex_str(item.value) = sig
    <3>1. from_hex_str(item.value) = [r |-> e.r, s |-> e.s, odd_y_parity |-> e.rec = 1]
      BY <2>1, <2>4, Zenon DEF from_hex_str
    <3> QED
      BY <3>1, <2>2, <2>4, Zenon
  <2>6. SignatureIn(item) = sig
    BY <1>4, <2>5 DEF SignatureIn
  <2>7. verify_secp256k1_recovery_pk(item.value, item.digest)
    <3>1. recover_public_key(item.value, item.digest) = item.by
      BY <2>1, <2>3, <2>4 DEF recover_public_key
    <3>2. item.by # NoKey
      BY EcdsaAssumption
    <3>3. item.value.s <= SECP256K1N_HALF
      BY <1>1, <1>4, <2>1, <2>2
    <3> QED
      BY <3>1, <3>2, <3>3 DEF verify_secp256k1_recovery_pk
  <2> QED
    BY <1>4, <2>1, <2>4, <2>6, <2>7 DEF Readable, sig
<1>5. CASE item.form = "rlp" /\ item.value = encode(sig)
  <2> HIDE DEF sig
  <2>1. decode(item.value) = sig
    <3> DEFINE r == sig.r
               s == sig.s
               odd == sig.odd_y_parity
    <3> HIDE DEF r, s, odd
    <3>1. sig = [r |-> r, s |-> s, odd_y_parity |-> odd] /\ odd \in BOOLEAN
      BY <1>1 DEF r, s, odd
    <3> QED
      BY <1>5, <3>1, RlpRoundTrip
  <2>2. SignatureIn(item) = sig
    BY <1>5, <2>1 DEF SignatureIn
  <2> QED
    BY <1>5, <2>2 DEF Readable, sig
<1>6. CASE /\ item.form = "rlp155" /\ item.chain_id \in ChainIds \union {NoChain}
           /\ FitsV(item.chain_id)
           /\ item.value = encode_with_eip155_chain_id(sig, item.chain_id)
  <2> HIDE DEF sig
  <2> DEFINE x == extract_chain_id(item.value[1])
             d == decode_with_eip155_chain_id(item.value)
  <2>1. item.value[1] = v(sig, item.chain_id) /\ item.value[2] = sig.r /\ item.value[3] = sig.s
    BY <1>6 DEF encode_with_eip155_chain_id
  <2>2. x = [ok |-> TRUE, odd_y_parity |-> sig.odd_y_parity, chain_id |-> item.chain_id]
    BY <1>1, <1>6, <2>1, ChainIdRoundTrip
  <2>3. d = [ok |-> x.ok, chain_id |-> x.chain_id,
             sig |-> [r |-> item.value[2], s |-> item.value[3],
                      odd_y_parity |-> x.odd_y_parity]]
    BY DEF decode_with_eip155_chain_id
  <2> HIDE DEF x, d
  <2>4. d.ok = TRUE /\ d.chain_id = item.chain_id
    BY <2>2, <2>3
  <2>5. d.sig = sig
    <3>1. d.sig = [r |-> item.value[2], s |-> item.value[3], odd_y_parity |-> x.odd_y_parity]
      BY <2>3
    <3>2. x.odd_y_parity = sig.odd_y_parity
      BY <2>2
    <3> QED
      BY <1>1, <2>1, <3>1, <3>2, Zenon
  <2>6. SignatureIn(item) = sig
    BY <1>6, <2>5 DEF SignatureIn, d
  <2> QED
    BY <1>6, <2>4, <2>6 DEF Readable, sig, d
<1> QED
  BY <1>2, <1>3, <1>4, <1>5, <1>6 DEF ValueIs

(* What alloy-wrapper, recovery.rs and an older signer make.               *)
LEMMA MadeOK ==
    ASSUME NEW secret \in Secrets, NEW digest \in Digests, NEW item \in Made(secret, digest)
    PROVE  ItemOK(item)
<1> DEFINE e == Ecdsa(secret, digest)
           low == sign_message(secret, digest)
           high == [low EXCEPT !.s = Order - @, !.odd_y_parity = ~@]
<1>1. low = SigOf(secret, digest, FALSE)
  BY DEF sign_message, SigOf
<1>2. high = SigOf(secret, digest, TRUE)
  <2> DEFINE half == [low EXCEPT !.s = Order - @]
  <2>1. low = [r |-> e.r, s |-> e.s, odd_y_parity |-> e.rec # 0]
    BY DEF sign_message
  <2>2. SigOf(secret, digest, TRUE) = [r |-> e.r, s |-> Order - e.s, odd_y_parity |-> e.rec = 0]
    BY Zenon DEF SigOf
  <2>3. high = [half EXCEPT !.odd_y_parity = ~@]
    BY Zenon
  <2> HIDE DEF low, e
  <2>4. half = [r |-> e.r, s |-> Order - e.s, odd_y_parity |-> e.rec # 0]
    BY <2>1
  <2> HIDE DEF half, high
  <2> DEFINE b == ~half.odd_y_parity
  <2>5. b = (e.rec = 0)
    BY <2>4
  <2>6. high = [half EXCEPT !.odd_y_parity = b]
    BY <2>3
  <2> HIDE DEF b
  <2>7. [half EXCEPT !.odd_y_parity = b] = [r |-> e.r, s |-> Order - e.s, odd_y_parity |-> b]
    BY <2>4
  <2> QED
    BY <2>2, <2>5, <2>6, <2>7, Zenon
<1> HIDE DEF low, high
<1>3. CASE item = Item("struct", low, secret, digest, NoChain, FALSE, TRUE)
  BY <1>1, <1>3 DEF Item, ItemOK, ValueIs
<1>4. CASE item = Item("bytes", sign_message_recover_pk(secret, digest), secret, digest,
                       NoChain, FALSE, TRUE)
  BY <1>4 DEF Item, ItemOK, ValueIs
<1>5. CASE item = Item("struct", high, secret, digest, NoChain, TRUE, TRUE)
  BY <1>2, <1>5 DEF Item, ItemOK, ValueIs
<1> QED
  BY <1>3, <1>4, <1>5 DEF Made, low, high

(* Any form an item takes next stands for the same signature, unless v did *)
(* not fit.                                                                *)
LEMMA FormsOK ==
    ASSUME NEW item, ItemOK(item), NEW other \in Forms(item)
    PROVE  ItemOK(other)
<1> DEFINE sig == SignatureIn(item)
           As(form, value, chain_id, fits) ==
               Item(form, value, item.by, item.digest, chain_id, item.high, fits)
<1>1. \/ other = As("struct", sig, NoChain, item.fits)
      \/ other = As("bytes", to_bytes(sig), NoChain, item.fits)
      \/ other = As("rlp", encode(sig), NoChain, item.fits)
      \/ \E chain_id \in ChainIds \union {NoChain} :
           other = As("rlp155", encode_with_eip155_chain_id(sig, chain_id), chain_id,
                      item.fits /\ FitsV(chain_id))
  BY DEF Forms
<1>2. item.fits /\ IsParity(item) => sig = SigOf(item.by, item.digest, item.high)
  BY ReadBack DEF ItemOK
<1> HIDE DEF sig
<1>3. ASSUME NEW form, NEW value, NEW chain_id, NEW fits \in BOOLEAN,
             other = As(form, value, chain_id, fits)
      PROVE  /\ other.by = item.by /\ other.digest = item.digest /\ other.high = item.high
             /\ other.form = form /\ other.value = value /\ other.chain_id = chain_id
             /\ other.fits = fits /\ (IsParity(other) <=> IsParity(item))
  BY <1>3 DEF Item, IsParity
<1> HIDE DEF As
<1>4. CASE other = As("struct", sig, NoChain, item.fits)
  BY <1>2, <1>3, <1>4 DEF ItemOK, ValueIs
<1>5. CASE other = As("bytes", to_bytes(sig), NoChain, item.fits)
  BY <1>2, <1>3, <1>5 DEF ItemOK, ValueIs
<1>6. CASE other = As("rlp", encode(sig), NoChain, item.fits)
  BY <1>2, <1>3, <1>6 DEF ItemOK, ValueIs
<1>7. ASSUME NEW chain_id \in ChainIds \union {NoChain},
             other = As("rlp155", encode_with_eip155_chain_id(sig, chain_id), chain_id,
                        item.fits /\ FitsV(chain_id))
      PROVE  ItemOK(other)
  <2> DEFINE fits == item.fits /\ FitsV(chain_id)
  <2>1. fits \in BOOLEAN /\ (fits => item.fits /\ FitsV(chain_id))
    BY DEF ItemOK
  <2> HIDE DEF fits
  <2>2. other = As("rlp155", encode_with_eip155_chain_id(sig, chain_id), chain_id, fits)
    BY <1>7 DEF fits
  <2> QED
    BY <1>2, <1>3, <2>1, <2>2 DEF ItemOK, ValueIs
<1> QED
  BY <1>1, <1>4, <1>5, <1>6, <1>7

LEMMA SignaturesStep == SignaturesInv /\ [Next]_vars => SignaturesInv'
<1> SUFFICES ASSUME SignaturesInv, [Next]_vars PROVE SignaturesInv'
  OBVIOUS
<1>1. \A item \in signatures : ItemOK(item)
  BY DEF SignaturesInv
<1>2. SUFFICES \A item \in signatures' : ItemOK(item)
  BY DEF SignaturesInv
<1>3. ASSUME NEW secret \in Secrets, NEW digest \in Digests,
             sign_recoverable(secret, digest)
      PROVE  \A item \in signatures' : ItemOK(item)
  <2>1. PICK made \in Made(secret, digest) : signatures' = signatures \union {made}
    BY <1>3 DEF sign_recoverable
  <2> QED
    BY <1>1, <2>1, MadeOK
<1>4. ASSUME NEW item \in signatures, convert(item)
      PROVE  \A i \in signatures' : ItemOK(i)
  <2>1. PICK other \in Forms(item) : signatures' = (signatures \ {item}) \union {other}
    BY <1>4 DEF convert
  <2> QED
    BY <1>1, <2>1, FormsOK
<1>5. CASE UNCHANGED signatures
  BY <1>1, <1>5
<1>6. CASE \E secret \in VrfSecrets, prompt \in Prompts, precision \in Precisions,
             threshold \in Thresholds : draw(secret, prompt, precision, threshold)
  BY <1>5, <1>6 DEF draw
<1>7. CASE \E flavor \in CryptoFlavors, content \in Contents : sign_verifiable(flavor, content)
  BY <1>5, <1>7 DEF sign_verifiable
<1>8. CASE \E y \in verifiables, content \in Contents : change_verifiable(y, content)
  BY <1>5, <1>8 DEF change_verifiable
<1>9. CASE \E signer \in Signers, method \in {"method", NoMethod}, content \in Contents :
             send_wire(signer, method, content)
  BY <1>5, <1>9 DEF send_wire
<1>10. CASE \E w \in wires :
             (\E content \in Contents : change_wire(w, content)) \/ garble_wire(w)
  BY <1>5, <1>10 DEF change_wire, garble_wire
<1>11. CASE UNCHANGED vars
  BY <1>5, <1>11 DEF vars
<1> QED
  BY <1>3, <1>4, <1>6, <1>7, <1>8, <1>9, <1>10, <1>11 DEF Next

(* Through any sequence of forms a signature keeps its signer and its      *)
(* chain id while v fits into a u64, for every curve order, every width of *)
(* the integer and every chain id.                                         *)
THEOREM FormsKept == Spec => []FormsKeepSigner
<1>1. Init => SignaturesInv
  BY DEF Init, SignaturesInv
<1>2. SignaturesInv => FormsKeepSigner
  <2> SUFFICES ASSUME SignaturesInv, NEW item \in signatures,
                      item.fits, Ecdsa(item.by, item.digest).rec \in {0, 1}
               PROVE  /\ Readable(item)
                      /\ recover_signer_unchecked(SignatureIn(item), item.digest) = item.by
                      /\ recover_signer(SignatureIn(item), item.digest) =
                           IF item.high THEN NoKey ELSE item.by
                      /\ item.form = "rlp155" =>
                           decode_with_eip155_chain_id(item.value).chain_id = item.chain_id
                      /\ item.form = "bytes" =>
                           (verify_secp256k1_recovery_pk(item.value, item.digest)
                              <=> item.value.v < 27)
    BY DEF FormsKeepSigner
  <2>1. /\ item.by \in Secrets /\ item.digest \in Digests /\ item.high \in BOOLEAN
        /\ IsParity(item) /\ ValueIs(item)
    BY DEF SignaturesInv, ItemOK, IsParity
  <2>2. /\ Readable(item)
        /\ SignatureIn(item) = SigOf(item.by, item.digest, item.high)
        /\ item.form = "rlp155" =>
             decode_with_eip155_chain_id(item.value).chain_id = item.chain_id
        /\ item.form = "bytes" =>
             (verify_secp256k1_recovery_pk(item.value, item.digest)
                <=> item.value.v < 27)
    BY <2>1, ReadBack
  <2> QED
    BY <2>1, <2>2, SigOfIs
<1> QED
  BY <1>1, <1>2, SignaturesStep, PTL DEF Spec
=============================================================================
