------------------------------ MODULE RpcCalls ------------------------------
(***************************************************************************)
(* What request_timeout promises its callers, with no tasks, channels or   *)
(* callback map: a call gets one verdict, and gets Ok exactly if its own   *)
(* response was heard before anything else ended it.  WsConnection         *)
(* implements this specification.                                          *)
(***************************************************************************)
CONSTANT Calls

VARIABLES open,     \* whether the connection takes calls
          asked,    \* calls whose request may have reached the peer
          call      \* new, pending, heard, doomed, ok or err

rpcVars == <<open, asked, call>>

RpcInit ==
    /\ open = TRUE
    /\ asked = {}
    /\ call = [q \in Calls |-> "new"]

Pending == {q \in Calls : call[q] = "pending"}

Unheard(q) == call[q] \in {"pending", "doomed"}

Verdict(q, verdict) == call' = [call EXCEPT ![q] = verdict]

\* A connection that was closed refuses.
Begin(q) ==
    /\ call[q] = "new"
    /\ Verdict(q, IF open THEN "pending" ELSE "err")
    /\ UNCHANGED <<open, asked>>

Ask(q) ==
    /\ Unheard(q)
    /\ asked' = asked \union {q}
    /\ UNCHANGED <<open, call>>

\* The response to a request that is out, with a result or without one.
Hear(q) ==
    /\ call[q] = "pending" /\ q \in asked
    /\ Verdict(q, "heard") \/ Verdict(q, "doomed")
    /\ UNCHANGED <<open, asked>>

\* What was heard is not lost.
Succeed(q) ==
    /\ call[q] = "heard"
    /\ Verdict(q, "ok")
    /\ UNCHANGED <<open, asked>>

Fail(q) ==
    /\ Unheard(q)
    /\ Verdict(q, "err")
    /\ UNCHANGED <<open, asked>>

\* The connection is closed for good.  Every call whose request is out and
\* who has not heard is doomed with it, and none that has.
Break(failing) ==
    /\ open = TRUE /\ open' = FALSE
    /\ \E told \in SUBSET (Pending \ failing) :
         /\ (asked \intersect Pending) \ failing \subseteq told
         /\ call' = [q \in Calls |-> IF q \in failing THEN "err"
                                     ELSE IF q \in told THEN "doomed" ELSE call[q]]

Close == Break({}) /\ UNCHANGED asked

\* A request that could not be sent, or not in time, breaks the connection.
SendFails(q) ==
    /\ Unheard(q)
    /\ asked' \in {asked, asked \union {q}}
    /\ \/ Break({q})
       \/ open = FALSE /\ UNCHANGED open /\ Verdict(q, "err")

RpcNext ==
    \/ \E q \in Calls : \/ Begin(q) \/ Ask(q) \/ Hear(q)
                        \/ Succeed(q) \/ Fail(q) \/ SendFails(q)
    \/ Close

RpcSpec == RpcInit /\ [][RpcNext]_rpcVars
=============================================================================
