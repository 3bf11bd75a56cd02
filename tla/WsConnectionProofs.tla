------------------------- MODULE WsConnectionProofs -------------------------
(***************************************************************************)
(* Proofs about WsConnection, for any number of calls on a connection.     *)
(***************************************************************************)
EXTENDS WsConnection, TLAPS

(* A callback belongs to a call that has registered and not yet left.      *)
OwnerInv ==
    \A q \in callbacks :
        req[q] \in {"registered", "awaiting", "leaving_ok", "leaving_err"}

(* From its registration on, a call can be reached until it has been told. *)
ReachableInv ==
    \A q \in Requests :
        req[q] \in {"registered", "awaiting"} /\ oneshot[q] = "empty"
            => q \in callbacks

(* A request that may be out belongs to a call that has tried to send it.  *)
SentInv ==
    \A q \in sent : req[q] \in {"awaiting", "leaving_ok", "leaving_err"} \union Returned

(* Nobody uses the channel of a call before its callback is in the map,    *)
(* and only a response, which takes a request that is out, gives it a      *)
(* value.                                                                  *)
FreshInv ==
    \A q \in Requests :
        /\ req[q] \in {"idle", "signed", "cloned"} => oneshot[q] = "empty"
        /\ req[q] = "registered" => oneshot[q] \in {"empty", "closed"}

(* A callback is taken out of the map by whoever uses its channel, so the  *)
(* channel of a call that waits is used once.                              *)
OnceInv ==
    \A q \in callbacks :
        req[q] \in {"registered", "awaiting"} => oneshot[q] = "empty"

WsInv == /\ TypeOK /\ OwnerInv /\ ReachableInv
         /\ SentInv /\ FreshInv /\ OnceInv

LEMMA WsInvInit == Init => WsInv
  BY DEF Init, WsInv, TypeOK, OwnerInv, ReachableInv,
         SentInv, FreshInv, OnceInv

LEMMA WsInvStep == WsInv /\ [Next]_vars => WsInv'
<1> SUFFICES ASSUME WsInv, [Next]_vars PROVE WsInv'
  OBVIOUS
<1> USE DEF WsInv, TypeOK, Returned, OwnerInv, ReachableInv,
            SentInv, FreshInv, OnceInv, reqVars, Goto
<1>1. ASSUME NEW q \in Requests, sign(q) PROVE WsInv'
  BY <1>1 DEF sign
<1>2. ASSUME NEW q \in Requests, clone_core(q) PROVE WsInv'
  BY <1>2 DEF clone_core
<1>3. ASSUME NEW q \in Requests, register(q) PROVE WsInv'
  BY <1>3 DEF register
<1>4. ASSUME NEW q \in Requests, send(q) PROVE WsInv'
  BY <1>4 DEF send
<1>5. ASSUME NEW q \in Requests, send_err(q) PROVE WsInv'
  BY <1>5 DEF send_err, close
<1>6. ASSUME NEW q \in Requests, wake(q) PROVE WsInv'
  BY <1>6 DEF wake
<1>7. ASSUME NEW q \in Requests, await_timeout(q) PROVE WsInv'
  BY <1>7 DEF await_timeout
<1>8. ASSUME NEW q \in Requests, leave(q) PROVE WsInv'
  BY <1>8 DEF leave
<1>9. ASSUME NEW q \in Requests, recv_response(q) PROVE WsInv'
  BY <1>9 DEF recv_response, recv
<1>10. CASE recv_next
  BY <1>10 DEF recv_next, recv
<1>11. CASE recv_nothing
  BY <1>11 DEF recv_nothing, recv
<1>12. CASE recv_request
  BY <1>12 DEF recv_request, recv
<1>13. CASE recv_err
  BY <1>13 DEF recv_err, recv, close
<1>14. CASE respond_begin
  BY <1>14 DEF respond_begin, recv
<1>15. CASE respond_ok
  BY <1>15 DEF respond_ok, recv
<1>16. CASE respond_err
  BY <1>16 DEF respond_err, recv, close
<1>17. CASE closer
  BY <1>17 DEF closer
<1>18. CASE link_drops
  BY <1>18 DEF link_drops
<1>19. CASE recv_ping \/ pong_ok
  BY <1>19 DEF recv_ping, pong_ok, recv
<1>20. CASE pong_err
  BY <1>20 DEF pong_err, recv, close
<1>21. CASE UNCHANGED vars
  BY <1>21 DEF vars
<1> QED
  BY <1>1, <1>2, <1>3, <1>4, <1>5, <1>6, <1>7, <1>8, <1>9, <1>10, <1>11,
     <1>12, <1>13, <1>14, <1>15, <1>16, <1>17, <1>18, <1>19, <1>20, <1>21
     DEF Next, request_timeout

LEMMA WsInvariance == Spec => []WsInv
  BY WsInvInit, WsInvStep, PTL DEF Spec

(* Calls, callbacks and the receiving task stay within their states.       *)
THEOREM TypeCorrect == Spec => []TypeOK
<1>1. WsInv => TypeOK
  BY DEF WsInv
<1> QED
  BY WsInvariance, <1>1, PTL

(* A call that has returned has left no callback behind.                   *)
THEOREM NoLeak == Spec => []NoCallbackLeak
<1>1. WsInv => NoCallbackLeak
  BY DEF WsInv, OwnerInv, NoCallbackLeak, Returned
<1> QED
  BY WsInvariance, <1>1, PTL

(* A call that waits can be reached.                                       *)
THEOREM Reachable == Spec => []NoLostWakeup
<1>1. WsInv => NoLostWakeup
  BY DEF WsInv, ReachableInv, NoLostWakeup
<1> QED
  BY WsInvariance, <1>1, PTL

-----------------------------------------------------------------------------
(* The refinement of RpcCalls.                                             *)

(* The verdict of a call, label by label.                                  *)
LEMMA CallIs ==
  ASSUME TypeOK, NEW q \in Requests
  PROVE  /\ req[q] = "idle" => CallOf(q) = "new"
         /\ req[q] \in {"signed", "cloned", "registered", "awaiting"} =>
              /\ oneshot[q] = "empty" => CallOf(q) = "pending"
              /\ oneshot[q] = "value" => CallOf(q) = "heard"
              /\ oneshot[q] \in {"closed", "dropped"} => CallOf(q) = "doomed"
         /\ req[q] \in {"leaving_ok", "ok"} => CallOf(q) = "ok"
         /\ req[q] \in {"leaving_err", "err"} => CallOf(q) = "err"
  BY DEF TypeOK, CallOf, Returned

LEMMA CallIsNext ==
  ASSUME TypeOK', NEW q \in Requests
  PROVE  /\ req'[q] = "idle" => CallOf(q)' = "new"
         /\ req'[q] \in {"signed", "cloned", "registered", "awaiting"} =>
              /\ oneshot'[q] = "empty" => CallOf(q)' = "pending"
              /\ oneshot'[q] = "value" => CallOf(q)' = "heard"
              /\ oneshot'[q] \in {"closed", "dropped"} => CallOf(q)' = "doomed"
         /\ req'[q] \in {"leaving_ok", "ok"} => CallOf(q)' = "ok"
         /\ req'[q] \in {"leaving_err", "err"} => CallOf(q)' = "err"
  BY DEF TypeOK, CallOf, Returned

(* A call whose label and channel stay as they are keeps its verdict.      *)
LEMMA CallStays ==
  ASSUME NEW q \in Requests, UNCHANGED <<req[q], oneshot[q]>>
  PROVE  CallOf(q)' = CallOf(q)
  BY DEF CallOf

(* What callers see of all the calls.                                      *)
Seen == [q \in Requests |-> CallOf(q)]

(* One call moves, and the others look on.                                 *)
LEMMA OneMoves ==
  ASSUME NEW q \in Requests,
         \A p \in Requests \ {q} : UNCHANGED <<req[p], oneshot[p]>>
  PROVE  Seen' = [Seen EXCEPT ![q] = CallOf(q)']
<1>1. \A p \in Requests \ {q} : CallOf(p)' = CallOf(p)
  BY CallStays
<1> QED
  BY <1>1 DEF Seen

(* Nobody's verdict, the connection or what is out changes.                *)
LEMMA NobodyMoves ==
  ASSUME \A q \in Requests : CallOf(q)' = CallOf(q),
         core' = core, sent' = sent
  PROVE  UNCHANGED Rpc!rpcVars
  BY DEF Rpc!rpcVars

LEMMA RpcInit == Init => Rpc!RpcInit
  BY DEF Init, Rpc!RpcInit, CallOf

(* What closing does to the calls that are told: none of them had heard.   *)
LEMMA CloseDooms ==
  ASSUME WsInv, TypeOK', core = "open", NEW failing \in SUBSET Requests,
         close(callbacks \ failing), NEW p \in Requests, p \notin failing,
         req'[p] = req[p]
  PROVE  CallOf(p)' = IF p \in callbacks /\ CallOf(p) = "pending"
                        THEN "doomed" ELSE CallOf(p)
<1> USE DEF WsInv, TypeOK, OnceInv, OwnerInv, close
<1>1. CASE p \notin callbacks
  BY <1>1, CallStays
<1>2. CASE p \in callbacks /\ req[p] \in {"registered", "awaiting"}
  BY <1>2, CallIs, CallIsNext
<1>3. CASE p \in callbacks /\ req[p] \in {"leaving_ok", "leaving_err"}
  BY <1>3, CallIs, CallIsNext
<1> QED
  BY <1>1, <1>2, <1>3

(* Closing a connection that was open breaks it for everyone who waits.    *)
LEMMA CloseBreaks ==
  ASSUME WsInv, TypeOK', core = "open", NEW failing \in SUBSET Requests,
         close(callbacks \ failing),
         \A p \in Requests \ failing : req'[p] = req[p],
         \A p \in failing : CallOf(p)' = "err"
  PROVE  Rpc!Break(failing)
<1> DEFINE told == {p \in callbacks \ failing : CallOf(p) = "pending"}
<1>1. \A p \in Requests \ failing :
         CallOf(p)' = IF p \in callbacks /\ CallOf(p) = "pending"
                        THEN "doomed" ELSE CallOf(p)
  BY CloseDooms
<1>2. \A p \in sent : CallOf(p) = "pending" => p \in callbacks
  <2> SUFFICES ASSUME NEW p \in sent, CallOf(p) = "pending" PROVE p \in callbacks
    OBVIOUS
  <2>1. p \in Requests /\ TypeOK
    BY DEF WsInv, TypeOK
  <2>2. req[p] = "awaiting"
    BY <2>1, CallIs DEF WsInv, SentInv, Returned
  <2>3. oneshot[p] = "empty"
    BY <2>1, <2>2, CallIs DEF TypeOK
  <2> QED
    BY <2>1, <2>2, <2>3 DEF WsInv, ReachableInv
<1>3. callbacks \subseteq Requests
  BY DEF WsInv, TypeOK
<1>4. told \in SUBSET (Rpc!Pending \ failing)
  BY <1>3 DEF Rpc!Pending
<1>5. (sent \intersect Rpc!Pending) \ failing \subseteq told
  BY <1>2 DEF Rpc!Pending
<1>6. [p \in Requests |-> CallOf(p)]'
        = [p \in Requests |-> IF p \in failing THEN "err"
                              ELSE IF p \in told THEN "doomed"
                              ELSE [r \in Requests |-> CallOf(r)][p]]
  BY <1>1
<1>7. core' = "taken"
  BY DEF close
<1> QED
  BY <1>4, <1>5, <1>6, <1>7 DEF Rpc!Break

(* Every step of the connection is a step of RpcCalls or goes unseen.      *)
LEMMA RpcStep == WsInv /\ WsInv' /\ [Next]_vars => [Rpc!RpcNext]_Rpc!rpcVars
<1> SUFFICES ASSUME WsInv, WsInv', [Next]_vars
             PROVE  Rpc!RpcNext \/ UNCHANGED Rpc!rpcVars
  OBVIOUS
<1> TypeOK /\ TypeOK'
  BY DEF WsInv
<1>0. /\ req \in [Requests -> {"idle", "signed", "cloned", "registered",
                               "awaiting", "leaving_ok", "leaving_err", "ok", "err"}]
      /\ oneshot \in [Requests -> {"empty", "value", "closed", "dropped"}]
      /\ callbacks \subseteq Requests /\ sent \subseteq Requests
      /\ core \in {"open", "taken"}
  BY DEF TypeOK, Returned
<1>1. ASSUME NEW q \in Requests, sign(q) PROVE Rpc!Begin(q)
  <2>1. oneshot[q] = "empty" /\ CallOf(q) = "new"
    BY <1>1, CallIs DEF sign, WsInv, FreshInv
  <2>2. CallOf(q)' = IF core = "open" THEN "pending" ELSE "err"
    BY <1>0, <1>1, <2>1, CallIsNext DEF sign, Goto
  <2>3. Seen' = [Seen EXCEPT ![q] = CallOf(q)']
    BY <1>0, <1>1, OneMoves DEF sign, Goto
  <2> QED
    BY <1>1, <2>1, <2>2, <2>3 DEF sign, Rpc!Begin, Rpc!Verdict, Seen
<1>2. ASSUME NEW q \in Requests, clone_core(q)
      PROVE  Rpc!Fail(q) \/ UNCHANGED Rpc!rpcVars
  <2>1. oneshot[q] = "empty" /\ CallOf(q) = "pending"
    BY <1>2, CallIs DEF clone_core, WsInv, FreshInv
  <2>2. CallOf(q)' = IF core = "open" THEN "pending" ELSE "err"
    BY <1>0, <1>2, <2>1, CallIsNext DEF clone_core, Goto
  <2>3. Seen' = [Seen EXCEPT ![q] = CallOf(q)']
    BY <1>0, <1>2, OneMoves DEF clone_core, Goto
  <2>4. CASE core = "open"
    BY <1>2, <2>1, <2>2, <2>3, <2>4 DEF clone_core, Rpc!rpcVars, Seen
  <2>5. CASE core # "open"
    BY <1>2, <2>1, <2>2, <2>3, <2>5
       DEF clone_core, Rpc!Fail, Rpc!Unheard, Rpc!Verdict, Seen
  <2> QED
    BY <2>4, <2>5
<1>3. ASSUME NEW q \in Requests, register(q) PROVE UNCHANGED Rpc!rpcVars
  <2>1. oneshot[q] = "empty" /\ CallOf(q) = "pending"
    BY <1>3, CallIs DEF register, WsInv, FreshInv
  <2>2. CallOf(q)' = "pending"
    BY <1>0, <1>3, <2>1, CallIsNext DEF register, Goto
  <2>3. Seen' = [Seen EXCEPT ![q] = CallOf(q)']
    BY <1>0, <1>3, OneMoves DEF register, Goto
  <2> QED
    BY <1>3, <2>1, <2>2, <2>3 DEF register, Rpc!rpcVars, Seen
<1>4. ASSUME NEW q \in Requests, send(q) PROVE Rpc!Ask(q)
  <2>1. CallOf(q) \in {"pending", "doomed"}
    BY <1>4, CallIs DEF send, WsInv, FreshInv
  <2>2. CallOf(q)' = CallOf(q)
    BY <1>0, <1>4, CallIs, CallIsNext DEF send, Goto
  <2>3. Seen' = [Seen EXCEPT ![q] = CallOf(q)']
    BY <1>0, <1>4, OneMoves DEF send, Goto
  <2> QED
    BY <1>4, <2>1, <2>2, <2>3 DEF send, Rpc!Ask, Rpc!Unheard, Seen
<1>5. ASSUME NEW q \in Requests, send_err(q) PROVE Rpc!SendFails(q)
  <2>1. CallOf(q) \in {"pending", "doomed"}
    BY <1>5, CallIs DEF send_err, WsInv, FreshInv
  <2>2. CallOf(q)' = "err"
    BY <1>0, <1>5, CallIsNext DEF send_err, Goto
  <2>3. CASE core = "open"
    <3>1. Rpc!Break({q})
      BY <1>0, <1>5, <2>2, <2>3, CloseBreaks DEF send_err, Goto
    <3> QED
      BY <1>5, <2>1, <3>1 DEF send_err, Rpc!SendFails, Rpc!Unheard
  <2>4. CASE core # "open"
    <3>1. core' = core /\ oneshot' = oneshot
      BY <1>5, <2>4 DEF send_err, close
    <3>2. Seen' = [Seen EXCEPT ![q] = CallOf(q)']
      BY <1>0, <1>5, <3>1, OneMoves DEF send_err, Goto
    <3> QED
      BY <1>5, <2>1, <2>2, <2>4, <3>1, <3>2
         DEF send_err, Rpc!SendFails, Rpc!Unheard, Rpc!Verdict, Seen
  <2> QED
    BY <2>3, <2>4
<1>6. ASSUME NEW q \in Requests, wake(q) PROVE Rpc!Succeed(q) \/ Rpc!Fail(q)
  <2>1. CallOf(q) = IF oneshot[q] = "value" THEN "heard" ELSE "doomed"
    BY <1>0, <1>6, CallIs DEF wake
  <2>2. CallOf(q)' = IF oneshot[q] = "value" THEN "ok" ELSE "err"
    BY <1>0, <1>6, CallIsNext DEF wake, Goto
  <2>3. Seen' = [Seen EXCEPT ![q] = CallOf(q)']
    BY <1>0, <1>6, OneMoves DEF wake, Goto
  <2> QED
    BY <1>6, <2>1, <2>2, <2>3
       DEF wake, Rpc!Succeed, Rpc!Fail, Rpc!Unheard, Rpc!Verdict, Seen
<1>7. ASSUME NEW q \in Requests, await_timeout(q) PROVE Rpc!Fail(q)
  <2>1. CallOf(q) = "pending"
    BY <1>7, CallIs DEF await_timeout
  <2>2. CallOf(q)' = "err"
    BY <1>0, <1>7, CallIsNext DEF await_timeout, Goto
  <2>3. Seen' = [Seen EXCEPT ![q] = CallOf(q)']
    BY <1>0, <1>7, OneMoves DEF await_timeout, Goto
  <2> QED
    BY <1>7, <2>1, <2>2, <2>3
       DEF await_timeout, Rpc!Fail, Rpc!Unheard, Rpc!Verdict, Seen
<1>8. ASSUME NEW q \in Requests, leave(q) PROVE UNCHANGED Rpc!rpcVars
  <2>1. CallOf(q)' = CallOf(q)
    BY <1>0, <1>8, CallIs, CallIsNext DEF leave, Goto
  <2>2. Seen' = [Seen EXCEPT ![q] = CallOf(q)']
    BY <1>0, <1>8, OneMoves DEF leave, Goto
  <2> QED
    BY <1>8, <2>1, <2>2 DEF leave, Rpc!rpcVars, Seen
<1>9. ASSUME NEW q \in Requests, recv_response(q)
      PROVE  Rpc!Hear(q) \/ UNCHANGED Rpc!rpcVars
  <2>1. core' = core /\ sent' = sent /\ req' = req /\ q \in sent
    BY <1>9 DEF recv_response, recv
  <2>2. CASE q \in callbacks /\ req[q] = "awaiting"
    <3>1. oneshot[q] = "empty" /\ CallOf(q) = "pending"
      BY <2>2, CallIs DEF WsInv, OnceInv
    <3>2. PICK outcome \in {"value", "dropped"} :
             oneshot' = [oneshot EXCEPT ![q] = outcome]
      BY <1>9, <2>2 DEF recv_response
    <3>3. CallOf(q)' \in {"heard", "doomed"}
      BY <1>0, <2>1, <2>2, <3>2, CallIsNext
    <3>4. Seen' = [Seen EXCEPT ![q] = CallOf(q)']
      BY <1>0, <2>1, <3>2, OneMoves
    <3> QED
      BY <2>1, <3>1, <3>3, <3>4 DEF Rpc!Hear, Rpc!Verdict, Seen
  <2>3. CASE q \in callbacks /\ req[q] # "awaiting"
    <3>1. req[q] \in {"leaving_ok", "leaving_err"}
      BY <2>1, <2>3 DEF WsInv, OwnerInv, SentInv, Returned
    <3>2. CallOf(q)' = CallOf(q)
      BY <2>1, <3>1, CallIs, CallIsNext
    <3>3. PICK outcome \in {"value", "dropped"} :
             oneshot' = [oneshot EXCEPT ![q] = outcome]
      BY <1>9, <2>3 DEF recv_response
    <3>4. \A p \in Requests : CallOf(p)' = CallOf(p)
      BY <1>0, <2>1, <3>2, <3>3, CallStays
    <3> QED
      BY <2>1, <3>4, NobodyMoves
  <2>4. CASE q \notin callbacks
    BY <1>9, <2>1, <2>4, CallStays, NobodyMoves DEF recv_response
  <2> QED
    BY <2>2, <2>3, <2>4
<1>10. ASSUME close(callbacks), sent' = sent, req' = req
       PROVE  Rpc!Close \/ UNCHANGED Rpc!rpcVars
  <2>1. CASE core = "open"
    <3>1. close(callbacks \ {})
      BY <1>10
    <3>2. Rpc!Break({})
      BY <1>10, <2>1, <3>1, CloseBreaks
    <3> QED
      BY <1>10, <3>2 DEF Rpc!Close
  <2>2. CASE core # "open"
    BY <1>10, <2>2, CallStays, NobodyMoves DEF close
  <2> QED
    BY <2>1, <2>2
<1>11. CASE recv_err \/ respond_err \/ pong_err
  BY <1>10, <1>11 DEF recv_err, respond_err, pong_err, recv, Rpc!RpcNext
<1>12. ASSUME UNCHANGED <<core, sent, req, oneshot>> PROVE UNCHANGED Rpc!rpcVars
  BY <1>12, CallStays, NobodyMoves
<1>13. CASE \/ recv_next \/ recv_nothing \/ recv_request \/ respond_begin
            \/ respond_ok \/ recv_ping \/ pong_ok
  BY <1>12, <1>13
     DEF recv_next, recv_nothing, recv_request, respond_begin, respond_ok,
         recv_ping, pong_ok, recv
<1>14. CASE closer \/ link_drops \/ UNCHANGED vars
  BY <1>12, <1>14 DEF closer, link_drops, vars, reqVars
<1>15. ASSUME NEW q \in Requests, request_timeout(q) \/ recv_response(q)
       PROVE  Rpc!RpcNext \/ UNCHANGED Rpc!rpcVars
  BY <1>1, <1>2, <1>3, <1>4, <1>5, <1>6, <1>7, <1>8, <1>9, <1>15
     DEF request_timeout, Rpc!RpcNext
<1> QED
  BY <1>11, <1>13, <1>14, <1>15 DEF Next

(* A connection with its tasks, channels and callback map implements       *)
(* RpcCalls: each call has one verdict, and whoever was sent its own       *)
(* response before the connection was closed or its time was up gets Ok.   *)
THEOREM Refinement == Spec => KeepsRpc
<1>1. WsInv /\ WsInv' /\ [Next]_vars => [Rpc!RpcNext]_Rpc!rpcVars
  BY RpcStep
<1> QED
  BY <1>1, RpcInit, WsInvariance, PTL DEF Spec, KeepsRpc, Rpc!RpcSpec
=============================================================================
