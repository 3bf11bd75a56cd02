---------------------------- MODULE WsConnection ----------------------------
(***************************************************************************)
(* One websocket connection of crates/websocket/src/lib.rs: any number of  *)
(* tasks in request_timeout, one task in recv and respond, and the core    *)
(* they share (an Option that close takes, and the callback map that pairs *)
(* responses with requests).                                               *)
(*                                                                         *)
(* exec clones the core and lets go of it, so whatever runs inside may     *)
(* find that someone else has closed the connection in the meantime; the   *)
(* steps below are cut at every such point.  The peer answers what it has  *)
(* received, in any order, late, twice or never.                           *)
(***************************************************************************)
EXTENDS Naturals

CONSTANT Requests        \* calls of request_timeout, each with a fresh id

VARIABLES
    core,        \* "open", or "taken" by close
    sink,        \* the sending half: "open" or "closed"
    link,        \* the TCP connection: "up" or "down"
    callbacks,   \* ids in the callback map
    req,         \* where every request_timeout is
    oneshot,     \* the channel each of them waits on
    receiver,    \* where the task in recv is
    sent         \* requests that may have reached the peer

reqVars == <<callbacks, req, oneshot, sent>>
vars == <<core, sink, link, receiver, reqVars>>

Returned == {"ok", "err"}

TypeOK ==
    /\ core \in {"open", "taken"}
    /\ sink \in {"open", "closed"}
    /\ link \in {"up", "down"}
    /\ callbacks \subseteq Requests
    /\ req \in [Requests -> {"idle", "signed", "cloned", "registered",
                             "awaiting", "leaving_ok", "leaving_err"}
                            \union Returned]
    /\ oneshot \in [Requests -> {"empty", "value", "closed", "dropped"}]
    /\ receiver \in {"idle", "reading", "ponging", "handling", "responding", "ended"}
    /\ sent \subseteq Requests

Init ==
    /\ core = "open" /\ sink = "open" /\ link = "up"
    /\ callbacks = {} /\ sent = {}
    /\ req = [q \in Requests |-> "idle"]
    /\ oneshot = [q \in Requests |-> "empty"]
    /\ receiver = "idle"

-----------------------------------------------------------------------------
(* WsCoreSync.                                                             *)

(* close, when these callbacks are registered: the core is taken and every *)
(* one of them is told, under the core's lock; a second close does nothing.*)
close(remaining) ==
    IF core = "open"
      THEN /\ core' = "taken"
           /\ callbacks' = {}
           /\ oneshot' = [q \in Requests |->
                             IF q \in remaining THEN "closed" ELSE oneshot[q]]
      ELSE /\ UNCHANGED <<core, oneshot>>
           /\ callbacks' = remaining

\* Mutant: the sink is left open.
M_closer_leaves_sink == core = "taken" /\ UNCHANGED vars

(* A pong is sent with the lock of the sink and without a timeout.         *)
SinkFree == receiver # "ponging"

(* The task close spawns: it shuts the sink down when it gets at it.       *)
closer ==
    /\ core = "taken" /\ sink = "open" /\ SinkFree
    /\ sink' = "closed"
    /\ UNCHANGED <<core, link, receiver, reqVars>>

-----------------------------------------------------------------------------
(* WebsocketSender::request_timeout.                                       *)

Goto(q, label) == req' = [req EXCEPT ![q] = label]

(* signer(), then exec: either finds the core open or returns.             *)
sign(q) ==
    /\ req[q] = "idle"
    /\ Goto(q, IF core = "open" THEN "signed" ELSE "err")
    /\ UNCHANGED <<core, sink, link, receiver, callbacks, oneshot, sent>>

clone_core(q) ==
    /\ req[q] = "signed"
    /\ Goto(q, IF core = "open" THEN "cloned" ELSE "err")
    /\ UNCHANGED <<core, sink, link, receiver, callbacks, oneshot, sent>>

\* Mutant: the callback is not registered before the message goes out.
M_register_nothing(q) ==
    /\ req[q] = "cloned"
    /\ Goto(q, "registered")
    /\ UNCHANGED <<core, sink, link, receiver, callbacks, oneshot, sent>>

(* The callback is registered, in a map that close may have drained.       *)
register(q) ==
    /\ req[q] = "cloned"
    /\ Goto(q, "registered")
    /\ callbacks' = callbacks \union {q}
    /\ UNCHANGED <<core, sink, link, receiver, oneshot, sent>>

send(q) ==
    /\ req[q] = "registered" /\ sink = "open" /\ link = "up" /\ SinkFree
    /\ Goto(q, "awaiting")
    /\ sent' = sent \union {q}
    /\ UNCHANGED <<core, sink, link, receiver, callbacks, oneshot>>

(* The send fails or does not end in time (the message may be out all the  *)
(* same): the drop helper removes the callback, and exec closes the        *)
(* connection for everyone.                                                *)
send_err(q) ==
    /\ req[q] = "registered"
    /\ Goto(q, "err")
    /\ sent' \in {sent, sent \union {q}}
    /\ close(callbacks \ {q})
    /\ UNCHANGED <<sink, link, receiver>>

wake(q) ==
    /\ req[q] = "awaiting" /\ oneshot[q] # "empty"
    /\ Goto(q, IF oneshot[q] = "value" THEN "leaving_ok" ELSE "leaving_err")
    /\ UNCHANGED <<core, sink, link, receiver, callbacks, oneshot, sent>>

\* Mutant: the response is awaited without a timeout.
M_await_for_ever(q) == FALSE /\ UNCHANGED vars

await_timeout(q) ==
    /\ req[q] = "awaiting" /\ oneshot[q] = "empty"
    /\ Goto(q, "leaving_err")
    /\ UNCHANGED <<core, sink, link, receiver, callbacks, oneshot, sent>>

\* Mutant: no drop helper.
M_leave_callback(q) ==
    /\ req[q] \in {"leaving_ok", "leaving_err"}
    /\ Goto(q, IF req[q] = "leaving_ok" THEN "ok" ELSE "err")
    /\ UNCHANGED <<core, sink, link, receiver, callbacks, oneshot, sent>>

(* The drop helper removes the callback if it is still there.              *)
leave(q) ==
    /\ req[q] \in {"leaving_ok", "leaving_err"}
    /\ Goto(q, IF req[q] = "leaving_ok" THEN "ok" ELSE "err")
    /\ callbacks' = callbacks \ {q}
    /\ UNCHANGED <<core, sink, link, receiver, oneshot, sent>>

-----------------------------------------------------------------------------
(* WebsocketReceiver::recv_inner and WebsocketRespond::respond, as r_task  *)
(* calls them.                                                             *)

recv(label) == receiver' = label /\ UNCHANGED <<sink, link, req, sent>>

(* The loop takes the core, or finds it closed.                            *)
recv_next ==
    /\ receiver = "idle"
    /\ recv(IF core = "open" THEN "reading" ELSE "ended")
    /\ UNCHANGED <<core, callbacks, oneshot>>

\* Mutant: the callback is looked up and not removed.
M_recv_response_keeps(q) ==
    /\ receiver = "reading" /\ link = "up" /\ q \in sent
    /\ recv("idle")
    /\ IF q \in callbacks
         THEN \E outcome \in {"value", "dropped"} :
                  oneshot' = [oneshot EXCEPT ![q] = outcome]
         ELSE UNCHANGED oneshot
    /\ UNCHANGED <<core, callbacks>>

(* A response: its callback, if there still is one, is removed and gets    *)
(* the result; a response without a result only drops it.                  *)
recv_response(q) ==
    /\ receiver = "reading" /\ link = "up" /\ q \in sent
    /\ recv("idle")
    /\ IF q \in callbacks
         THEN \E outcome \in {"value", "dropped"} :
                  oneshot' = [oneshot EXCEPT ![q] = outcome]
         ELSE UNCHANGED oneshot
    /\ callbacks' = callbacks \ {q}
    /\ UNCHANGED core

(* A pong, or a response to nothing.                                       *)
recv_nothing ==
    /\ receiver = "reading" /\ link = "up"
    /\ recv("idle")
    /\ UNCHANGED <<core, callbacks, oneshot>>

(* A ping takes the lock of the sink for its pong.                         *)
recv_ping ==
    /\ receiver = "reading" /\ link = "up"
    /\ recv("ponging")
    /\ UNCHANGED <<core, callbacks, oneshot>>

pong_ok ==
    /\ receiver = "ponging" /\ sink = "open" /\ link = "up"
    /\ recv("idle")
    /\ UNCHANGED <<core, callbacks, oneshot>>

pong_err ==
    /\ receiver = "ponging"
    /\ recv("ended")
    /\ close(callbacks)

(* A request: signer().unwrap() panics if the connection was closed since, *)
(* verify_signature if the signature cannot be read, params.unwrap() if    *)
(* there are none.                                                         *)
recv_request ==
    /\ receiver = "reading" /\ link = "up"
    /\ \/ core = "open" /\ recv("handling")
       \/ recv("ended")
    /\ UNCHANGED <<core, callbacks, oneshot>>

(* The stream ends, or a close frame or one that does not parse comes in.  *)
recv_err ==
    /\ receiver = "reading"
    /\ recv("ended")
    /\ close(callbacks)

respond_begin ==
    /\ receiver = "handling"
    /\ recv(IF core = "open" THEN "responding" ELSE "ended")
    /\ UNCHANGED <<core, callbacks, oneshot>>

respond_ok ==
    /\ receiver = "responding" /\ core = "open" /\ link = "up"
    /\ recv("idle")
    /\ UNCHANGED <<core, callbacks, oneshot>>

(* The send fails or times out, and exec closes the connection; or it has  *)
(* been closed since, and signer().unwrap() panics.                        *)
respond_err ==
    /\ receiver = "responding"
    /\ recv("ended")
    /\ close(callbacks)

-----------------------------------------------------------------------------
link_drops ==
    /\ link = "up"
    /\ link' = "down"
    /\ UNCHANGED <<core, sink, receiver, reqVars>>

request_timeout(q) ==
    \/ sign(q) \/ clone_core(q) \/ register(q) \/ send(q) \/ send_err(q)
    \/ wake(q) \/ await_timeout(q) \/ leave(q)

\* What the receiving task does when the peer sends and takes nothing.
receiver_alone ==
    \/ recv_next \/ respond_begin \/ respond_ok \/ respond_err
    \/ (link = "down" \/ sink = "closed") /\ (recv_err \/ pong_err)

Next ==
    \/ \E q \in Requests : request_timeout(q) \/ recv_response(q)
    \/ recv_next \/ recv_nothing \/ recv_ping \/ pong_ok \/ pong_err
    \/ recv_request \/ recv_err
    \/ respond_begin \/ respond_ok \/ respond_err
    \/ closer
    \/ link_drops
    \/ (\A q \in Requests : req[q] \in Returned) /\ receiver = "ended"
          /\ UNCHANGED vars

Spec == Init /\ [][Next]_vars

(* Timers fire and tasks are polled.  A peer takes and answers the close   *)
(* frame of a sink that is closed, or its connection breaks; that it takes *)
(* a pong on a connection that is up is not assumed.                       *)
Fairness ==
    /\ \A q \in Requests : WF_vars(req[q] # "idle" /\ request_timeout(q))
    /\ WF_vars(closer)
    /\ WF_vars(receiver_alone)

FairSpec == Spec /\ Fairness

-----------------------------------------------------------------------------
(* "Drop helper to remove our response callback if we timeout"             *)
(* (request_timeout): a call that has returned, in whatever way and        *)
(* whatever races with it, has left no callback behind.                    *)
NoCallbackLeak == \A q \in Requests : req[q] \in Returned => q \notin callbacks

(* A call that waits for its response can be reached: its callback is in   *)
(* the map until its channel has been used.                                *)
NoLostWakeup ==
    \A q \in Requests :
        req[q] = "awaiting" /\ oneshot[q] = "empty" => q \in callbacks

(* What a caller sees of its call: the channel decides until it has left.  *)
CallOf(q) ==
    CASE req[q] = "idle" -> "new"
      [] req[q] \in {"signed", "cloned", "registered", "awaiting"} ->
           IF oneshot[q] = "empty" THEN "pending"
           ELSE IF oneshot[q] = "value" THEN "heard" ELSE "doomed"
      [] req[q] \in {"leaving_ok", "ok"} -> "ok"
      [] req[q] \in {"leaving_err", "err"} -> "err"

(* Callers see RpcCalls: one verdict each, Ok for whoever was sent its own *)
(* response before the connection was closed or the time was up, however   *)
(* responses, closing and timeouts race for the callback.                  *)
Rpc == INSTANCE RpcCalls WITH Calls <- Requests, open <- (core = "open"),
                              asked <- sent,
                              call <- [q \in Requests |-> CallOf(q)]
KeepsRpc == Rpc!RpcSpec

(* Every call returns.                                                     *)
RequestsReturn ==
    \A q \in Requests : req[q] = "signed" ~> req[q] \in Returned

(* When any task closes the connection, the one in recv finds out, which   *)
(* is what makes the operator reconnect; unless a peer that stays connected*)
(* and reads nothing holds it in the pong, which has no timeout.           *)
ReceiverFindsOut ==
    core = "taken" ~> (receiver = "ended" \/ [](receiver = "ponging" /\ link = "up"))
=============================================================================
