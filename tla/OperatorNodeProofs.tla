------------------------- MODULE OperatorNodeProofs -------------------------
(***************************************************************************)
(* Proofs about OperatorNode, for every number of jobs, connections,       *)
(* requests and failures.                                                  *)
(***************************************************************************)
EXTENDS OperatorNode, TLAPS

USE ConstantsAssumption DEF Kinds

(* An s_task that has an entry in its hand.                                *)
Busy == {"run", "store", "send", "ack"}

(* r_task queues only what it received.                                    *)
RJobInv == rtask = "queueing" => rjob \in Jobs

(* What a consumer holds was accepted by Redis, and is handled before it   *)
(* is acknowledged.                                                        *)
HeldInv ==
    \A e \in Epochs : stask[e] \in Busy => held[e] \in Entries

TypeInv == TypeOK /\ RJobInv /\ HeldInv

LEMMA TypeInvInit == Init => TypeInv
  BY DEF Init, QueueInit, Stopped, TypeInv, TypeOK, RJobInv, HeldInv, Busy, Epochs, Ids

LEMMA TypeInvStep == TypeInv /\ [Next]_vars => TypeInv'
<1> SUFFICES ASSUME TypeInv, [Next]_vars PROVE TypeInv'
  OBVIOUS
<1> USE DEF TypeInv, TypeOK, RJobInv, HeldInv, Busy, Epochs, Ids, Entries,
            queueVars, mainVars, rVars, sVars, histVars, boundVars, faultVars
<1>1. CASE redis_pool_ok
  BY <1>1 DEF redis_pool_ok
<1>2. CASE redis_pool_err
  BY <1>2 DEF redis_pool_err, Exit, Fault
<1>3. CASE connect_ok
  BY <1>3 DEF connect_ok
<1>4. CASE connect_err
  BY <1>4 DEF connect_err, backoff
<1>5. CASE connect_dispatcher_ok
  BY <1>5 DEF connect_dispatcher_ok
<1>6. CASE connect_dispatcher_err
  BY <1>6 DEF connect_dispatcher_err, Exit
<1>7. CASE select_s_task
  BY <1>7 DEF select_s_task, Exit
<1>8. CASE select_r_task
  BY <1>8 DEF select_r_task
<1>9. CASE recv_err
  BY <1>9 DEF recv_err
<1>10. CASE add_queue_req
  BY <1>10 DEF add_queue_req, produce, Accepts, RedisMessage
<1>11. CASE add_queue_req_err
  BY <1>11 DEF add_queue_req_err, produce, Accepts, RedisMessage, Fault
<1>12. CASE respond_ok
  BY <1>12 DEF respond_ok
<1>13. CASE respond_err
  BY <1>13 DEF respond_err
<1>14. CASE recv_other
  BY <1>14 DEF recv_other
<1>15. CASE recv_panics
  BY <1>15 DEF recv_panics
<1>16. CASE start
  BY <1>16 DEF start
<1>17. CASE crash
  BY <1>17 DEF crash, Exit, Fault
<1>18. CASE clock_steps_back
  BY <1>18 DEF clock_steps_back, Fault
<1>19. ASSUME NEW e \in Epochs, consume_err(e) PROVE TypeInv'
  BY <1>19 DEF consume_err, Fault
<1>20. ASSUME NEW e \in Epochs, do_job_panics(e) PROVE TypeInv'
  BY <1>20 DEF do_job_panics, Goto
<1>21. ASSUME NEW e \in Epochs, do_job_err(e) PROVE TypeInv'
  BY <1>21 DEF do_job_err, Goto
<1>22. ASSUME NEW e \in Epochs, do_job_result(e) PROVE TypeInv'
  BY <1>22 DEF do_job_result, Goto
<1>23. ASSUME NEW e \in Epochs, sinker_job(e) PROVE TypeInv'
  <2>1. held[e] \in Entries /\ stask' = [stask EXCEPT ![e] = "send"] /\ held' = held
    BY <1>23 DEF sinker_job, Goto
  <2>2. rows' \subseteq Jobs
    BY <1>23, <2>1 DEF sinker_job
  <2>3. faulted' \subseteq FaultKinds /\ faults' \in 0..MaxFaults
    <3>1. CASE UNCHANGED faultVars
      BY <3>1
    <3>2. CASE Fault("pg")
      BY <3>2 DEF Fault
    <3> QED
      BY <1>23, <3>1, <3>2 DEF sinker_job
  <2>4. UNCHANGED <<queueVars, now, mainVars, rVars, held, histVars, sends, fails>>
    BY <1>23 DEF sinker_job
  <2>5. TypeOK'
    BY <2>1, <2>2, <2>3, <2>4
  <2>6. RJobInv' /\ HeldInv'
    BY <2>1, <2>4
  <2> QED
    BY <2>5, <2>6
<1>24. ASSUME NEW e \in Epochs, job_result(e) PROVE TypeInv'
  BY <1>24 DEF job_result, Goto
<1>25. ASSUME NEW e \in Epochs, s_acknowledge(e) PROVE TypeInv'
  BY <1>25 DEF s_acknowledge, Goto, acknowledge
<1>26. ASSUME NEW e \in Epochs, s_acknowledge_err(e) PROVE TypeInv'
  BY <1>26 DEF s_acknowledge_err, Goto, acknowledge, Fault
<1>27. ASSUME NEW j \in Jobs, recv_dispatch_job(j) PROVE TypeInv'
  BY <1>27 DEF recv_dispatch_job, sleep
<1>28. ASSUME NEW e \in Epochs, NEW x \in stream, consume(e, x) PROVE TypeInv'
  BY <1>28 DEF consume, take, Goto, Oldest
<1>29. ASSUME NEW e \in Epochs, link_closes(e) PROVE TypeInv'
  BY <1>29 DEF link_closes
<1>30. CASE UNCHANGED vars
  BY <1>30 DEF vars
<1> QED
  BY <1>1, <1>2, <1>3, <1>4, <1>5, <1>6, <1>7, <1>8, <1>9, <1>10, <1>11,
     <1>12, <1>13, <1>14, <1>15, <1>16, <1>17, <1>18, <1>19, <1>20, <1>21,
     <1>22, <1>23, <1>24, <1>25, <1>26, <1>27, <1>28, <1>29, <1>30
     DEF Next, handle_connection, r_task, dispatcher, handle_dispatchjobs,
         environment

(* The variables keep their types: no counter leaves its bound, and what a *)
(* consumer holds, stores and reports are entries and jobs, never the      *)
(* values for "nothing".                                                   *)
THEOREM TypeCorrect == Spec => []TypeOK
<1>1. TypeInv => TypeOK
  BY DEF TypeInv
<1> QED
  BY TypeInvInit, TypeInvStep, <1>1, PTL DEF Spec

-----------------------------------------------------------------------------
(* The inductive invariant of the queue.                                   *)

(* Redis has handed out every id once, and none above top.                 *)
IdInv ==
    /\ stream \subseteq added
    /\ handled \subseteq added
    /\ \A x \in added : x.id <= top
    /\ \A x, y \in added : x.id = y.id => x = y

(* When a consumer has an entry in its hand, everything older has been     *)
(* handled: the entry was the oldest of the stream when it was read, only  *)
(* handled entries had left the stream, and what came later is younger.    *)
HoldInv ==
    \A e \in Epochs : stask[e] \in Busy =>
        /\ held[e] \in added
        /\ \A y \in added : y.id < held[e].id => y \in handled

(* A consumer acknowledges only what it is done with.                      *)
AckInv == \A e \in Epochs : stask[e] = "ack" => held[e] \in handled

QueueInv == IdInv /\ HoldInv /\ AckInv /\ NoEntryLost /\ HandledInOrder

LEMMA QueueInvInit == Init => QueueInv
  BY DEF Init, QueueInit, Stopped, QueueInv, IdInv, HoldInv, AckInv, Busy,
         NoEntryLost, HandledInOrder

LEMMA QueueInvStep == TypeInv /\ QueueInv /\ [Next]_vars => QueueInv'
<1> SUFFICES ASSUME TypeInv, QueueInv, [Next]_vars PROVE QueueInv'
  OBVIOUS
<1> USE DEF TypeInv, TypeOK, RJobInv, HeldInv, Busy, Epochs, Ids, Entries,
            queueVars, mainVars, rVars, sVars, histVars, boundVars, faultVars,
            QueueInv, IdInv, HoldInv, AckInv, NoEntryLost, HandledInOrder
<1>1. CASE redis_pool_ok
  BY <1>1 DEF redis_pool_ok
<1>2. CASE redis_pool_err
  BY <1>2 DEF redis_pool_err, Exit, Fault
<1>3. CASE connect_ok
  BY <1>3 DEF connect_ok
<1>4. CASE connect_err
  BY <1>4 DEF connect_err, backoff
<1>5. CASE connect_dispatcher_ok
  BY <1>5 DEF connect_dispatcher_ok
<1>6. CASE connect_dispatcher_err
  BY <1>6 DEF connect_dispatcher_err, Exit
<1>7. CASE select_s_task
  BY <1>7 DEF select_s_task, Exit
<1>8. CASE select_r_task
  BY <1>8 DEF select_r_task
<1>9. CASE recv_err
  BY <1>9 DEF recv_err
<1>10. CASE add_queue_req
  BY <1>10 DEF add_queue_req, produce, Accepts, RedisMessage
<1>11. CASE add_queue_req_err
  BY <1>11 DEF add_queue_req_err, produce, Accepts, RedisMessage, Fault
<1>12. CASE respond_ok
  BY <1>12 DEF respond_ok
<1>13. CASE respond_err
  BY <1>13 DEF respond_err
<1>14. CASE recv_other
  BY <1>14 DEF recv_other
<1>15. CASE recv_panics
  BY <1>15 DEF recv_panics
<1>16. CASE start
  BY <1>16 DEF start
<1>17. CASE crash
  BY <1>17 DEF crash, Exit, Fault
<1>18. CASE clock_steps_back
  BY <1>18 DEF clock_steps_back, Fault
<1>19. ASSUME NEW e \in Epochs, consume_err(e) PROVE QueueInv'
  BY <1>19 DEF consume_err, Fault
<1>20. ASSUME NEW e \in Epochs, do_job_panics(e) PROVE QueueInv'
  BY <1>20 DEF do_job_panics, Goto
<1>21. ASSUME NEW e \in Epochs, do_job_err(e) PROVE QueueInv'
  BY <1>21 DEF do_job_err, Goto
<1>22. ASSUME NEW e \in Epochs, do_job_result(e) PROVE QueueInv'
  BY <1>22 DEF do_job_result, Goto
<1>23. ASSUME NEW e \in Epochs, sinker_job(e) PROVE QueueInv'
  BY <1>23 DEF sinker_job, Goto, Fault
<1>24. ASSUME NEW e \in Epochs, job_result(e) PROVE QueueInv'
  BY <1>24 DEF job_result, Goto
<1>25. ASSUME NEW e \in Epochs, s_acknowledge(e) PROVE QueueInv'
  BY <1>25 DEF s_acknowledge, Goto, acknowledge
<1>26. ASSUME NEW e \in Epochs, s_acknowledge_err(e) PROVE QueueInv'
  BY <1>26 DEF s_acknowledge_err, Goto, acknowledge, Fault
<1>27. ASSUME NEW j \in Jobs, recv_dispatch_job(j) PROVE QueueInv'
  BY <1>27 DEF recv_dispatch_job, sleep
<1>28. ASSUME NEW e \in Epochs, NEW x \in stream, consume(e, x) PROVE QueueInv'
  BY <1>28 DEF consume, take, Goto, Oldest
<1>29. ASSUME NEW e \in Epochs, link_closes(e) PROVE QueueInv'
  BY <1>29 DEF link_closes
<1>30. CASE UNCHANGED vars
  BY <1>30 DEF vars
<1> QED
  BY <1>1, <1>2, <1>3, <1>4, <1>5, <1>6, <1>7, <1>8, <1>9, <1>10, <1>11,
     <1>12, <1>13, <1>14, <1>15, <1>16, <1>17, <1>18, <1>19, <1>20, <1>21,
     <1>22, <1>23, <1>24, <1>25, <1>26, <1>27, <1>28, <1>29, <1>30
     DEF Next, handle_connection, r_task, dispatcher, handle_dispatchjobs,
         environment

LEMMA Invariance == Spec => [](TypeInv /\ QueueInv)
  BY TypeInvInit, TypeInvStep, QueueInvInit, QueueInvStep, PTL DEF Spec

(* A queued job is never lost: crashes, reconnections, failing calls to    *)
(* Redis and consumers that were left behind included, an entry leaves the *)
(* stream only after it has been handled.                                  *)
THEOREM NothingLost == Spec => []NoEntryLost
<1>1. QueueInv => NoEntryLost
  BY DEF QueueInv
<1> QED
  BY Invariance, <1>1, PTL

(* Jobs are first handled in the order Redis accepted them, however many   *)
(* consumers run.                                                          *)
THEOREM InOrder == Spec => []HandledInOrder
<1>1. QueueInv => HandledInOrder
  BY DEF QueueInv
<1> QED
  BY Invariance, <1>1, PTL

-----------------------------------------------------------------------------
(* The node implements JobLog.                                             *)

(* What produce does to the queue is an Accept of the log, or nothing.     *)
LEMMA ProduceIsAccept ==
    ASSUME TypeInv, QueueInv, rtask = "queueing",
           produce(RedisMessage(rjob)) \/ UNCHANGED queueVars,
           added' = added \union stream', UNCHANGED handled
    PROVE  Log!LogNext \/ UNCHANGED Log!logVars
<1> DEFINE m == RedisMessage(rjob)
<1> USE DEF TypeInv, QueueInv, IdInv, Log!logVars
<1>1. CASE UNCHANGED queueVars
  BY <1>1 DEF queueVars
<1>2. CASE produce(m) /\ Accepts(m)
  <2>1. m \in Entries
    BY <1>2 DEF Accepts, RedisMessage, TypeOK, RJobInv, Entries, Ids
  <2>2. stream' = stream \union {m} /\ added' = added \union {m}
    BY <1>2 DEF produce
  <2>3. \A y \in added : y.id < m.id
    BY <1>2 DEF Accepts, RedisMessage, TypeOK, RJobInv, Entries, Ids
  <2>4. Log!Accept(m)
    BY <2>2, <2>3 DEF Log!Accept
  <2> QED
    BY <2>1, <2>4 DEF Log!LogNext
<1>3. CASE produce(m) /\ ~Accepts(m)
  BY <1>3 DEF produce, queueVars
<1> QED
  BY <1>1, <1>2, <1>3

LEMMA LogStep == TypeInv /\ QueueInv /\ [Next]_vars => [Log!LogNext]_(Log!logVars)
<1> SUFFICES ASSUME TypeInv, QueueInv, [Next]_vars
             PROVE  Log!LogNext \/ UNCHANGED Log!logVars
  OBVIOUS
<1> USE DEF TypeInv, TypeOK, RJobInv, HeldInv, Busy, Epochs, Ids, Entries,
            queueVars, mainVars, rVars, sVars, histVars, boundVars, faultVars,
            QueueInv, IdInv, HoldInv, AckInv, NoEntryLost, HandledInOrder,
            Log!LogNext, Log!logVars, Log!Accept, Log!Handle, Log!Forget
<1>1. CASE redis_pool_ok
  BY <1>1 DEF redis_pool_ok
<1>2. CASE redis_pool_err
  BY <1>2 DEF redis_pool_err, Exit, Fault
<1>3. CASE connect_ok
  BY <1>3 DEF connect_ok
<1>4. CASE connect_err
  BY <1>4 DEF connect_err, backoff
<1>5. CASE connect_dispatcher_ok
  BY <1>5 DEF connect_dispatcher_ok
<1>6. CASE connect_dispatcher_err
  BY <1>6 DEF connect_dispatcher_err, Exit
<1>7. CASE select_s_task
  BY <1>7 DEF select_s_task, Exit
<1>8. CASE select_r_task
  BY <1>8 DEF select_r_task
<1>9. CASE recv_err
  BY <1>9 DEF recv_err
<1>10. CASE add_queue_req
  BY <1>10, ProduceIsAccept DEF add_queue_req
<1>11. CASE add_queue_req_err
  BY <1>11, ProduceIsAccept DEF add_queue_req_err
<1>12. CASE respond_ok
  BY <1>12 DEF respond_ok
<1>13. CASE respond_err
  BY <1>13 DEF respond_err
<1>14. CASE recv_other
  BY <1>14 DEF recv_other
<1>15. CASE recv_panics
  BY <1>15 DEF recv_panics
<1>16. CASE start
  BY <1>16 DEF start
<1>17. CASE crash
  BY <1>17 DEF crash, Exit, Fault
<1>18. CASE clock_steps_back
  BY <1>18 DEF clock_steps_back, Fault
<1>19. ASSUME NEW e \in Epochs, consume_err(e) PROVE Log!LogNext \/ UNCHANGED Log!logVars
  BY <1>19 DEF consume_err, Fault
<1>20. ASSUME NEW e \in Epochs, do_job_panics(e) PROVE Log!LogNext \/ UNCHANGED Log!logVars
  BY <1>20 DEF do_job_panics, Goto
<1>21. ASSUME NEW e \in Epochs, do_job_err(e) PROVE Log!LogNext \/ UNCHANGED Log!logVars
  BY <1>21 DEF do_job_err, Goto
<1>22. ASSUME NEW e \in Epochs, do_job_result(e) PROVE Log!LogNext \/ UNCHANGED Log!logVars
  BY <1>22 DEF do_job_result, Goto
<1>23. ASSUME NEW e \in Epochs, sinker_job(e) PROVE Log!LogNext \/ UNCHANGED Log!logVars
  BY <1>23 DEF sinker_job, Goto, Fault
<1>24. ASSUME NEW e \in Epochs, job_result(e) PROVE Log!LogNext \/ UNCHANGED Log!logVars
  BY <1>24 DEF job_result, Goto
<1>25. ASSUME NEW e \in Epochs, s_acknowledge(e) PROVE Log!LogNext \/ UNCHANGED Log!logVars
  BY <1>25 DEF s_acknowledge, Goto, acknowledge
<1>26. ASSUME NEW e \in Epochs, s_acknowledge_err(e) PROVE Log!LogNext \/ UNCHANGED Log!logVars
  BY <1>26 DEF s_acknowledge_err, Goto, acknowledge, Fault
<1>27. ASSUME NEW j \in Jobs, recv_dispatch_job(j) PROVE Log!LogNext \/ UNCHANGED Log!logVars
  BY <1>27 DEF recv_dispatch_job, sleep
<1>28. ASSUME NEW e \in Epochs, NEW x \in stream, consume(e, x) PROVE Log!LogNext \/ UNCHANGED Log!logVars
  <2>1. UNCHANGED <<stream, added>> /\ handled' \in {handled, handled \union {x}}
    BY <1>28 DEF consume, take
  <2>2. x \in added /\ \A y \in added : y.id < x.id => y \in handled
    BY <1>28 DEF consume, Oldest
  <2> QED
    BY <2>1, <2>2
<1>29. ASSUME NEW e \in Epochs, link_closes(e) PROVE Log!LogNext \/ UNCHANGED Log!logVars
  BY <1>29 DEF link_closes
<1>30. CASE UNCHANGED vars
  BY <1>30 DEF vars
<1> QED
  BY <1>1, <1>2, <1>3, <1>4, <1>5, <1>6, <1>7, <1>8, <1>9, <1>10, <1>11,
     <1>12, <1>13, <1>14, <1>15, <1>16, <1>17, <1>18, <1>19, <1>20, <1>21,
     <1>22, <1>23, <1>24, <1>25, <1>26, <1>27, <1>28, <1>29, <1>30
     DEF Next, handle_connection, r_task, dispatcher, handle_dispatchjobs,
         environment

(* Every behaviour of the node is one of the log: at-least-once, in order, *)
(* with nothing forgotten that was not handled.                            *)
THEOREM Refinement == Spec => KeepsJobLog
<1>1. Init => Log!LogInit
  BY DEF Init, QueueInit, Log!LogInit
<1> QED
  BY <1>1, Invariance, LogStep, PTL DEF Spec, KeepsJobLog, Log!LogSpec

-----------------------------------------------------------------------------
(* Stored before reported.                                                 *)

StoreInv == "pg" \notin faulted =>
    /\ reported \subseteq rows
    /\ \A e \in Epochs : stask[e] = "send" => held[e].data \in rows

LEMMA StoreInvStep == TypeInv /\ StoreInv /\ [Next]_vars => StoreInv'
<1> SUFFICES ASSUME TypeInv, StoreInv, [Next]_vars PROVE StoreInv'
  OBVIOUS
<1> USE DEF TypeInv, TypeOK, RJobInv, HeldInv, Busy, Epochs, Ids, Entries,
            queueVars, mainVars, rVars, sVars, histVars, boundVars, faultVars,
            StoreInv
<1>1. CASE redis_pool_ok
  BY <1>1 DEF redis_pool_ok
<1>2. CASE redis_pool_err
  BY <1>2 DEF redis_pool_err, Exit, Fault
<1>3. CASE connect_ok
  BY <1>3 DEF connect_ok
<1>4. CASE connect_err
  BY <1>4 DEF connect_err, backoff
<1>5. CASE connect_dispatcher_ok
  BY <1>5 DEF connect_dispatcher_ok
<1>6. CASE connect_dispatcher_err
  BY <1>6 DEF connect_dispatcher_err, Exit
<1>7. CASE select_s_task
  BY <1>7 DEF select_s_task, Exit
<1>8. CASE select_r_task
  BY <1>8 DEF select_r_task
<1>9. CASE recv_err
  BY <1>9 DEF recv_err
<1>10. CASE add_queue_req
  BY <1>10 DEF add_queue_req, produce, Accepts, RedisMessage
<1>11. CASE add_queue_req_err
  BY <1>11 DEF add_queue_req_err, produce, Accepts, RedisMessage, Fault
<1>12. CASE respond_ok
  BY <1>12 DEF respond_ok
<1>13. CASE respond_err
  BY <1>13 DEF respond_err
<1>14. CASE recv_other
  BY <1>14 DEF recv_other
<1>15. CASE recv_panics
  BY <1>15 DEF recv_panics
<1>16. CASE start
  BY <1>16 DEF start
<1>17. CASE crash
  BY <1>17 DEF crash, Exit, Fault
<1>18. CASE clock_steps_back
  BY <1>18 DEF clock_steps_back, Fault
<1>19. ASSUME NEW e \in Epochs, consume_err(e) PROVE StoreInv'
  BY <1>19 DEF consume_err, Fault
<1>20. ASSUME NEW e \in Epochs, do_job_panics(e) PROVE StoreInv'
  BY <1>20 DEF do_job_panics, Goto
<1>21. ASSUME NEW e \in Epochs, do_job_err(e) PROVE StoreInv'
  BY <1>21 DEF do_job_err, Goto
<1>22. ASSUME NEW e \in Epochs, do_job_result(e) PROVE StoreInv'
  BY <1>22 DEF do_job_result, Goto
<1>23. ASSUME NEW e \in Epochs, sinker_job(e) PROVE StoreInv'
  BY <1>23 DEF sinker_job, Goto, Fault
<1>24. ASSUME NEW e \in Epochs, job_result(e) PROVE StoreInv'
  BY <1>24 DEF job_result, Goto
<1>25. ASSUME NEW e \in Epochs, s_acknowledge(e) PROVE StoreInv'
  BY <1>25 DEF s_acknowledge, Goto, acknowledge
<1>26. ASSUME NEW e \in Epochs, s_acknowledge_err(e) PROVE StoreInv'
  BY <1>26 DEF s_acknowledge_err, Goto, acknowledge, Fault
<1>27. ASSUME NEW j \in Jobs, recv_dispatch_job(j) PROVE StoreInv'
  BY <1>27 DEF recv_dispatch_job, sleep
<1>28. ASSUME NEW e \in Epochs, NEW x \in stream, consume(e, x) PROVE StoreInv'
  BY <1>28 DEF consume, take, Goto, Oldest
<1>29. ASSUME NEW e \in Epochs, link_closes(e) PROVE StoreInv'
  BY <1>29 DEF link_closes
<1>30. CASE UNCHANGED vars
  BY <1>30 DEF vars
<1> QED
  BY <1>1, <1>2, <1>3, <1>4, <1>5, <1>6, <1>7, <1>8, <1>9, <1>10, <1>11,
     <1>12, <1>13, <1>14, <1>15, <1>16, <1>17, <1>18, <1>19, <1>20, <1>21,
     <1>22, <1>23, <1>24, <1>25, <1>26, <1>27, <1>28, <1>29, <1>30
     DEF Next, handle_connection, r_task, dispatcher, handle_dispatchjobs,
         environment

(* Until an insert has failed, every job the dispatcher has a result of has  *)
(* its row.                                                                *)
THEOREM StoredFirst == Spec => []ReportedIsStored
<1>1. Init => StoreInv
  BY DEF Init, Stopped, StoreInv, Epochs
<1>2. StoreInv => ReportedIsStored
  BY DEF StoreInv, ReportedIsStored
<1> QED
  BY <1>1, <1>2, Invariance, StoreInvStep, PTL DEF Spec

-----------------------------------------------------------------------------
(* Queued before answered.                                                 *)

(* The clock is never behind the last id, and ahead of it when r_task is   *)
(* about to queue: that is what the sleep is for.                          *)
AnswerInv == QueueSound =>
    /\ top <= now
    /\ rtask = "queueing" => top < now
    /\ rtask = "respond" /\ rjob # NoJob => \E x \in added : x.data = rjob
    /\ \A j \in answered : \E x \in added : x.data = j

LEMMA AnswerInvStep ==
    TypeInv /\ QueueInv /\ AnswerInv /\ [Next]_vars => AnswerInv'
<1> SUFFICES ASSUME TypeInv, QueueInv, AnswerInv, [Next]_vars PROVE AnswerInv'
  OBVIOUS
<1> USE DEF TypeInv, TypeOK, RJobInv, HeldInv, Busy, Epochs, Ids, Entries,
            queueVars, mainVars, rVars, sVars, histVars, boundVars, faultVars,
            QueueInv, IdInv, AnswerInv, QueueSound
<1>1. CASE redis_pool_ok
  BY <1>1 DEF redis_pool_ok
<1>2. CASE redis_pool_err
  BY <1>2 DEF redis_pool_err, Exit, Fault
<1>3. CASE connect_ok
  BY <1>3 DEF connect_ok
<1>4. CASE connect_err
  BY <1>4 DEF connect_err, backoff
<1>5. CASE connect_dispatcher_ok
  BY <1>5 DEF connect_dispatcher_ok
<1>6. CASE connect_dispatcher_err
  BY <1>6 DEF connect_dispatcher_err, Exit
<1>7. CASE select_s_task
  BY <1>7 DEF select_s_task, Exit
<1>8. CASE select_r_task
  BY <1>8 DEF select_r_task
<1>9. CASE recv_err
  BY <1>9 DEF recv_err
<1>10. CASE add_queue_req
  <2> DEFINE m == RedisMessage(rjob)
  <2> SUFFICES ASSUME QueueSound' PROVE AnswerInv'
    BY DEF AnswerInv
  <2>0. QueueSound
    BY <1>10 DEF add_queue_req
  <2>1. Accepts(m)
    BY <1>10, <2>0 DEF add_queue_req, Accepts, RedisMessage
  <2>2. m \in added' /\ m.data = rjob /\ top' = now /\ added \subseteq added'
    BY <1>10, <2>1 DEF add_queue_req, produce, RedisMessage
  <2>3. now' = now /\ rjob' = rjob /\ rtask' = "respond" /\ answered' = answered
    BY <1>10 DEF add_queue_req
  <2> QED
    BY <2>0, <2>2, <2>3
<1>11. CASE add_queue_req_err
  BY <1>11 DEF add_queue_req_err, produce, Accepts, RedisMessage, Fault
<1>12. CASE respond_ok
  BY <1>12 DEF respond_ok
<1>13. CASE respond_err
  BY <1>13 DEF respond_err
<1>14. CASE recv_other
  BY <1>14 DEF recv_other
<1>15. CASE recv_panics
  BY <1>15 DEF recv_panics
<1>16. CASE start
  BY <1>16 DEF start
<1>17. CASE crash
  BY <1>17 DEF crash, Exit, Fault
<1>18. CASE clock_steps_back
  BY <1>18 DEF clock_steps_back, Fault
<1>19. ASSUME NEW e \in Epochs, consume_err(e) PROVE AnswerInv'
  BY <1>19 DEF consume_err, Fault
<1>20. ASSUME NEW e \in Epochs, do_job_panics(e) PROVE AnswerInv'
  BY <1>20 DEF do_job_panics, Goto
<1>21. ASSUME NEW e \in Epochs, do_job_err(e) PROVE AnswerInv'
  BY <1>21 DEF do_job_err, Goto
<1>22. ASSUME NEW e \in Epochs, do_job_result(e) PROVE AnswerInv'
  BY <1>22 DEF do_job_result, Goto
<1>23. ASSUME NEW e \in Epochs, sinker_job(e) PROVE AnswerInv'
  BY <1>23 DEF sinker_job, Goto, Fault
<1>24. ASSUME NEW e \in Epochs, job_result(e) PROVE AnswerInv'
  BY <1>24 DEF job_result, Goto
<1>25. ASSUME NEW e \in Epochs, s_acknowledge(e) PROVE AnswerInv'
  BY <1>25 DEF s_acknowledge, Goto, acknowledge
<1>26. ASSUME NEW e \in Epochs, s_acknowledge_err(e) PROVE AnswerInv'
  BY <1>26 DEF s_acknowledge_err, Goto, acknowledge, Fault
<1>27. ASSUME NEW j \in Jobs, recv_dispatch_job(j) PROVE AnswerInv'
  BY <1>27 DEF recv_dispatch_job, sleep
<1>28. ASSUME NEW e \in Epochs, NEW x \in stream, consume(e, x) PROVE AnswerInv'
  BY <1>28 DEF consume, take, Goto, Oldest
<1>29. ASSUME NEW e \in Epochs, link_closes(e) PROVE AnswerInv'
  BY <1>29 DEF link_closes
<1>30. CASE UNCHANGED vars
  BY <1>30 DEF vars
<1> QED
  BY <1>1, <1>2, <1>3, <1>4, <1>5, <1>6, <1>7, <1>8, <1>9, <1>10, <1>11,
     <1>12, <1>13, <1>14, <1>15, <1>16, <1>17, <1>18, <1>19, <1>20, <1>21,
     <1>22, <1>23, <1>24, <1>25, <1>26, <1>27, <1>28, <1>29, <1>30
     DEF Next, handle_connection, r_task, dispatcher, handle_dispatchjobs,
         environment

(* Until a call to Redis has failed or the clock was set back, "success"   *)
(* means that the job is in the queue for good.                            *)
THEOREM SuccessIsQueued == Spec => []SuccessMeansQueued
<1>1. Init => AnswerInv
  BY DEF Init, QueueInit, Stopped, AnswerInv, QueueSound
<1>2. AnswerInv => SuccessMeansQueued
  BY DEF AnswerInv, SuccessMeansQueued
<1> QED
  BY <1>1, <1>2, Invariance, AnswerInvStep, PTL DEF Spec
=============================================================================
