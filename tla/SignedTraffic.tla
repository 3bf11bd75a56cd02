--------------------------- MODULE SignedTraffic ---------------------------
(***************************************************************************)
(* What the repository signs, on its way: replies of the VRF, recoverable  *)
(* signatures that change their form at every hop, verifiables of Crypto   *)
(* and wire messages that may be changed in transit.  Every item carries,  *)
(* as history, who made it of what.                                        *)
(***************************************************************************)
EXTENDS EcVrf, EthSignature, CryptoProvider, WireMessages, FiniteSets

CONSTANTS
    Precisions, Thresholds,    \* arguments of run_vrf
    Replicas,                  \* how many Crypto::new_hardcoded knows
    Contents,                  \* what is signed by Crypto and on the wire
    MaxTraffic,                \* bound on the items under way
    MaxBatch                   \* bound on the items of a batch

(* A group has a size, a hash written out is not the empty string, and a   *)
(* signature can be read.                                                  *)
ASSUME TrafficAssumption ==
    /\ Replicas \in Nat
    /\ MaxBatch \in Nat
    /\ \A method \in {"method", NoMethod}, content \in Contents :
         /\ generate_hash_str(Unsigned("id", method, content)) # Empty
         /\ \A signer \in Signers :
              sign_wire(signer, Unsigned("id", method, content)) # Garbled

VARIABLES replies, signatures, verifiables, wires

vars == <<replies, signatures, verifiables, wires>>

Init == replies = {} /\ signatures = {} /\ verifiables = {} /\ wires = {}

Room ==
    Cardinality(replies) + Cardinality(signatures)
        + Cardinality(verifiables) + Cardinality(wires) < MaxTraffic

-----------------------------------------------------------------------------
draw(secret, prompt, precision, threshold) ==
    /\ Room
    /\ PrecisionFits(precision)
    /\ replies' = replies \union
         {[reply |-> run_vrf(secret, prompt, precision, threshold),
           precision |-> precision, threshold |-> threshold]}
    /\ UNCHANGED <<signatures, verifiables, wires>>

(* A recoverable signature: its form, its value, and of what it is.        *)
Item(form, value, secret, digest, chain_id, high, fits) ==
    [form |-> form, value |-> value, by |-> secret, digest |-> digest,
     chain_id |-> chain_id, high |-> high, fits |-> fits]

(* Made by alloy-wrapper, by recovery.rs, or long ago with the higher s.   *)
Made(secret, digest) ==
    LET sig == sign_message(secret, digest)
    IN  {Item("struct", sig, secret, digest, NoChain, FALSE, TRUE),
         Item("bytes", sign_message_recover_pk(secret, digest), secret, digest,
              NoChain, FALSE, TRUE),
         Item("struct", [sig EXCEPT !.s = Order - @, !.odd_y_parity = ~@],
              secret, digest, NoChain, TRUE, TRUE)}

sign_recoverable(secret, digest) ==
    /\ Room
    /\ \E item \in Made(secret, digest) : signatures' = signatures \union {item}
    /\ UNCHANGED <<replies, verifiables, wires>>

(* The signature in an item, whichever form it is in.                      *)
SignatureIn(item) ==
    CASE item.form = "struct" -> item.value
      [] item.form = "bytes"  -> from_hex_str(item.value)
      [] item.form = "rlp155" -> decode_with_eip155_chain_id(item.value).sig
      [] item.form = "rlp"    -> decode(item.value)

Readable(item) ==
    item.form = "rlp155" => decode_with_eip155_chain_id(item.value).ok

Forms(item) ==
    LET sig == SignatureIn(item)
        As(form, value, chain_id, fits) ==
            Item(form, value, item.by, item.digest, chain_id, item.high, fits)
    IN  {As("struct", sig, NoChain, item.fits),
         As("bytes", to_bytes(sig), NoChain, item.fits),
         As("rlp", encode(sig), NoChain, item.fits)}
        \union {As("rlp155", encode_with_eip155_chain_id(sig, chain_id), chain_id,
                   item.fits /\ FitsV(chain_id)) :
                  chain_id \in ChainIds \union {NoChain}}

convert(item) ==
    /\ Readable(item)
    /\ \E other \in Forms(item) :
         signatures' = (signatures \ {item}) \union {other}
    /\ UNCHANGED <<replies, verifiables, wires>>

-----------------------------------------------------------------------------
(* The replicas of a hardcoded group and one with a random key.            *)
Member(i, flavor) == new_hardcoded(Replicas, i, flavor)
Indexes(flavor) == {i \in 0..Replicas : ~HardcodedPanics(Replicas, i, flavor)}
RandomKey == -1
Loner(flavor) == new_random(RandomKey, flavor)

sign_verifiable(flavor, content) ==
    /\ Room
    /\ \E c \in {Member(i, flavor) : i \in Indexes(flavor)} \union {Loner(flavor)} :
         verifiables' = verifiables \union
            {[item |-> sign(c, content), by |-> c.key.of, flavor |-> flavor,
              said |-> content]}
    /\ UNCHANGED <<replies, signatures, wires>>

change_verifiable(x, content) ==
    /\ verifiables' = (verifiables \ {x}) \union {[x EXCEPT !.item.inner = content]}
    /\ UNCHANGED <<replies, signatures, wires>>

send_wire(signer, method, content) ==
    /\ Room
    /\ LET sent == IF method = NoMethod THEN response("id", content, signer)
                                         ELSE request("id", method, content, signer)
       IN  wires' = wires \union {[message |-> sent, sent |-> sent, by |-> signer]}
    /\ UNCHANGED <<replies, signatures, verifiables>>

change_wire(w, content) ==
    /\ wires' = (wires \ {w}) \union {[w EXCEPT !.message.body = content]}
    /\ UNCHANGED <<replies, signatures, verifiables>>

garble_wire(w) ==
    /\ wires' = (wires \ {w}) \union {[w EXCEPT !.message.signature = Garbled]}
    /\ UNCHANGED <<replies, signatures, verifiables>>

Next ==
    \/ \E secret \in VrfSecrets, prompt \in Prompts, precision \in Precisions,
          threshold \in Thresholds : draw(secret, prompt, precision, threshold)
    \/ \E secret \in Secrets, digest \in Digests : sign_recoverable(secret, digest)
    \/ \E item \in signatures : convert(item)
    \/ \E flavor \in CryptoFlavors, content \in Contents : sign_verifiable(flavor, content)
    \/ \E x \in verifiables, content \in Contents : change_verifiable(x, content)
    \/ \E signer \in Signers, method \in {"method", NoMethod}, content \in Contents :
          send_wire(signer, method, content)
    \/ \E w \in wires, content \in Contents : change_wire(w, content)
    \/ \E w \in wires : garble_wire(w)

Spec == Init /\ [][Next]_vars

-----------------------------------------------------------------------------
(* Whoever receives a reply of run_vrf can check it from the reply alone:  *)
(* the proof verifies after it went through its bytes, the random value is *)
(* the one the proof stands for, and so is the selection.                  *)
SelectionCheckable ==
    \A r \in replies :
        LET proof == proof_try_from(r.reply.vrf_proof)
        IN  /\ verify_proof(r.reply.vrf_verify_pubkey, proof, r.reply.vrf_prompt_hash)
            /\ Output(proof) = r.reply.vrf_random_value
            /\ r.reply.selected <=>
                 random_num(r.reply.vrf_random_value, r.precision) < r.threshold

(* Through any sequence of forms a signature keeps its signer and, in the  *)
(* form that has one, its chain id, as long as v fits into a u64 and the   *)
(* recovery id is a parity; only the higher s is refused by recover_signer.*)
(* The bytes of recovery.rs are read by from_hex_str, and those of         *)
(* to_bytes are not read by recovery.rs.                                   *)
FormsKeepSigner ==
    \A item \in signatures :
        (item.fits /\ Ecdsa(item.by, item.digest).rec \in {0, 1}) =>
            /\ Readable(item)
            /\ recover_signer_unchecked(SignatureIn(item), item.digest) = item.by
            /\ recover_signer(SignatureIn(item), item.digest) =
                 IF item.high THEN NoKey ELSE item.by
            /\ item.form = "rlp155" =>
                 decode_with_eip155_chain_id(item.value).chain_id = item.chain_id
            /\ item.form = "bytes" =>
                 (verify_secp256k1_recovery_pk(item.value, item.digest)
                    <=> item.value.v < 27)

(* A replica verifies exactly what the replica of that index signed and    *)
(* nobody changed, if it has a key for the index; a Plain signature does   *)
(* not depend on the message, and who has a random Plain key does not know *)
(* its own.                                                                *)
VerifyMeansSigned ==
    \A x \in verifiables, flavor \in CryptoFlavors, i \in 0..Replicas :
        LET intact == flavor = "Plain" \/ x.item.inner = x.said
        IN  /\ \A m \in Indexes(flavor) :
                 verify(Member(m, flavor), i, x.item) <=>
                    (x.flavor = flavor /\ x.by = i /\ i < Replicas /\ intact)
            /\ verify(Loner(flavor), i, x.item) <=>
                 (/\ x.flavor = flavor /\ x.by = RandomKey /\ i = 0 /\ intact
                  /\ flavor # "Plain")

Lists(S) == UNION {[1..n -> S] : n \in 0..MaxBatch}

(* verify_batch says Ok to what verify accepts one by one, as far as the   *)
(* shorter list goes, and to nothing else; it panics instead of refusing   *)
(* only for an index without a key.                                        *)
BatchIsOneByOne ==
    \A signed \in Lists({x.item : x \in verifiables}), indexes \in Lists(0..Replicas) :
        LET crypto == Member(0, "Schnorrkel")
            pairs == 1..ShorterLen(indexes, signed)
            verdict == verify_batch(crypto, indexes, signed)
        IN  /\ verdict = "Ok" <=> \A i \in pairs : verify(crypto, indexes[i], signed[i])
            /\ verdict = "panic" => \E i \in pairs : indexes[i] >= Replicas
            /\ (Len(indexes) = Len(signed) /\ \A i \in pairs : indexes[i] < Replicas)
                 => (verdict = "Ok" <=>
                        peer_verify_batch([i \in pairs |-> crypto.public_keys[indexes[i] + 1]],
                                          signed) = "Ok")

(* A message that arrives as request or response made it is handed on by   *)
(* recv_inner and never panics, whoever signed it, although every node     *)
(* names the same fixed address.  The verdict recv_inner computes for a    *)
(* request on the way, and drops, would have told the changed ones, but    *)
(* also refused the node whose key is not that of the address; and         *)
(* verify_message, which leaves the hash in what it checks, would accept   *)
(* no message at all.                                                      *)
IntactIsHandedOn ==
    \A w \in wires :
        LET intact  == w.message = w.sent
            outcome == recv_inner(w.message)
        IN  /\ intact => outcome = IF w.sent.method = NoMethod THEN "response"
                                                               ELSE "request"
            /\ outcome = "request" =>
                 (is_valid(w.message) <=> intact /\ AddressOf(w.by) = FixedAddress)
            /\ intact => ~verify_message(w.message)
=============================================================================
