---------------------------- MODULE WireMessages ----------------------------
(***************************************************************************)
(* The messages of the websocket (WireMessage in crates/websocket) and     *)
(* their hash and signature (MessageVerify in crates/signer).  Keccak-256  *)
(* and ECDSA are external: a hash stands for the message it is of, and a   *)
(* signature gives back its signer for that message alone.                 *)
(***************************************************************************)
CONSTANTS
    Signers,           \* private keys
    AddressOf(_),      \* get_address
    FixedAddress,      \* "0x02a5..." of request and response
    Empty,             \* model value: the empty string
    Garbled            \* model value: no signature can be read from it

NoMethod == "no method"

generate_hash_str(message) == [hash_of |-> message]

sign_wire(signer, message) == [by |-> signer, of |-> message]

(* Recovery from another message gives an address nobody has.              *)
verify_signature(address, message, signature) ==
    signature.of = message /\ AddressOf(signature.by) = address

Unsigned(id, method, body) ==
    [id |-> id, method |-> method, body |-> body, address |-> FixedAddress,
     hash |-> Empty, signature |-> Empty]

(* Hash and signature are both of the message that has neither.            *)
Signed(message, signer) ==
    [message EXCEPT !.hash = generate_hash_str(message),
                    !.signature = sign_wire(signer, message)]

request(id, method, body, signer) == Signed(Unsigned(id, method, body), signer)

response(id, body, signer) == Signed(Unsigned(id, NoMethod, body), signer)

(* What recv_inner makes of a message before it checks it.                 *)
Cleared(recvd) == [recvd EXCEPT !.hash = Empty, !.signature = Empty]

(* The verdict recv_inner computes for a request, and makes no use of.     *)
is_valid(recvd) ==
    verify_signature(recvd.address, Cleared(recvd), recvd.signature)

\* Mutant: a request that is not valid is refused.
M_recv_inner_checks(recvd) ==
    IF recvd.method = NoMethod THEN "response"
    ELSE IF recvd.signature = Garbled THEN "panic"
    ELSE IF is_valid(recvd) THEN "request" ELSE "refused"

(* What recv_inner does with a message: a response goes to its call        *)
(* unchecked; a request is handed on whatever the verdict, except that     *)
(* verify_signature panics when it cannot read the signature.              *)
recv_inner(recvd) ==
    IF recvd.method = NoMethod THEN "response"
    ELSE IF recvd.signature = Garbled THEN "panic"
    ELSE "request"

(* verify_message takes out the signature alone.                           *)
verify_message(message) ==
    verify_signature(message.address, [message EXCEPT !.signature = Empty],
                     message.signature)
=============================================================================
