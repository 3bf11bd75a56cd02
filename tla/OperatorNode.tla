---------------------------- MODULE OperatorNode ----------------------------
(***************************************************************************)
(* The operator process: operator/runer/src/api/msg_handler.rs, with the   *)
(* queue of MsgQueue, the job_result_param table of storage.rs and the     *)
(* dispatcher at the other end of a websocket.                             *)
(*                                                                         *)
(* handle_connection (main) connects to the dispatcher, spawns r_task,     *)
(* which puts dispatched jobs in the queue and answers them, registers     *)
(* (connect_dispatcher), and spawns s_task (handle_dispatchjobs), which    *)
(* consumes the queue and runs do_job.  Every connection is an epoch.      *)
(* When r_task ends, main connects again; nothing aborts the s_task of the *)
(* old epoch, which keeps consuming with the sender of a connection that   *)
(* may be gone.                                                            *)
(*                                                                         *)
(* do_job is here its effects and their order (a result or an error, the   *)
(* row, the report); how the result comes about is left to the worker.     *)
(***************************************************************************)
EXTENDS MsgQueue

CONSTANTS
    NoJob,         \* model value: r_task has nothing in hand
    NoEntry,       \* model value: an s_task has nothing in hand
    Kind,          \* what the payload of a job parses to
    FaultKinds,    \* which failures the environment may produce
    RetryMax,      \* retry_max: 8 in the code
    MaxEpoch,      \* bound: connections in one life of the process
    MaxSends,      \* bound: dispatch_job requests
    MaxFaults,     \* bound: failures of the kinds above
    MaxFails       \* bound: consecutive failed connection attempts

Kinds == {"job",         \* a DispatchJobRequest with at least one parameter
          "malformed",   \* serde_json::from_value refuses it
          "empty"}       \* a DispatchJobRequest with no parameter at all

ASSUME ConstantsAssumption ==
    /\ NoJob \notin Jobs
    /\ Kind \in [Jobs -> Kinds]
    /\ FaultKinds \subseteq {"redis", "pg", "clock", "crash"}
    /\ RetryMax \in Nat /\ MaxSends \in Nat /\ MaxFaults \in Nat
    /\ MaxFails \in Nat /\ MaxEpoch \in Nat \ {0}

VARIABLES
    main,          \* where handle_connection is; "down": no process
    retry_count,   \* its counter
    epoch,         \* connections made in this life of the process
    link,          \* the connection of each epoch
    rtask, rjob,   \* r_task of the current epoch and the request in its hand
    stask, held,   \* s_task of each epoch and the entry in its hand
    rows,          \* job ids that have a row in job_result_param
    added,         \* history: every entry Redis has accepted
    handled,       \* history: entries refused, or that do_job returned from
    oks,           \* history: entries whose do_job returned Ok
    answered,      \* history: jobs whose dispatch was answered 200 "success"
    reported,      \* history: jobs whose job_result reached the dispatcher
    faulted,       \* history: the kinds of failure that have happened
    sends, faults, fails    \* counters of the bounds

mainVars  == <<main, retry_count, epoch, link>>
rVars     == <<rtask, rjob>>
sVars     == <<stask, held>>
histVars  == <<added, handled, oks, answered, reported>>
faultVars == <<faulted, faults>>
boundVars == <<sends, faultVars, fails>>
vars == <<queueVars, now, mainVars, rVars, sVars, rows, histVars, boundVars>>

Epochs  == 1..MaxEpoch
Ids     == 1..MaxSends
Entries == [id : Ids, data : Jobs]

TypeOK ==
    /\ stream \subseteq Entries
    /\ top \in 0..MaxSends
    /\ now \in 0..sends
    /\ main \in {"down", "starting", "connecting", "registering", "serving"}
    /\ retry_count \in 0..RetryMax
    /\ epoch \in 0..MaxEpoch
    /\ link \in [Epochs -> {"unused", "open", "closed"}]
    /\ rtask \in {"none", "recv", "queueing", "respond", "ended"}
    /\ rjob \in Jobs \union {NoJob}
    /\ stask \in [Epochs -> {"none", "consume", "run", "store", "send",
                             "ack", "panicked"}]
    /\ held \in [Epochs -> Entries \union {NoEntry}]
    /\ rows \subseteq Jobs
    /\ added \subseteq Entries /\ handled \subseteq Entries
    /\ oks \subseteq Entries
    /\ answered \subseteq Jobs /\ reported \subseteq Jobs
    /\ faulted \subseteq FaultKinds
    /\ sends \in 0..MaxSends /\ faults \in 0..MaxFaults
    /\ fails \in 0..MaxFails

-----------------------------------------------------------------------------
(* A process that stops loses its tasks and its connections; the queue and *)
(* the table are outside it.                                               *)

Stopped ==
    /\ main = "down"
    /\ retry_count = 0
    /\ epoch = 0
    /\ link = [e \in Epochs |-> "unused"]
    /\ rtask = "none" /\ rjob = NoJob
    /\ stask = [e \in Epochs |-> "none"]
    /\ held = [e \in Epochs |-> NoEntry]

Exit ==
    /\ main' = "down"
    /\ retry_count' = 0
    /\ epoch' = 0
    /\ link' = [e \in Epochs |-> "unused"]
    /\ rtask' = "none" /\ rjob' = NoJob
    /\ stask' = [e \in Epochs |-> "none"]
    /\ held' = [e \in Epochs |-> NoEntry]

Init ==
    /\ QueueInit
    /\ Stopped
    /\ rows = {}
    /\ added = {} /\ handled = {} /\ oks = {} /\ answered = {} /\ reported = {}
    /\ faulted = {} /\ sends = 0 /\ faults = 0 /\ fails = 0

(* A failure of the environment, within the bound.                         *)
Fault(kind) ==
    /\ kind \in FaultKinds
    /\ faults < MaxFaults
    /\ faults' = faults + 1
    /\ faulted' = faulted \union {kind}

-----------------------------------------------------------------------------
(* handle_connection.                                                      *)

start ==
    /\ main = "down"
    /\ main' = "starting"
    /\ UNCHANGED <<queueVars, now, retry_count, epoch, link, rVars, sVars,
                   rows, histVars, boundVars>>

redis_pool_ok ==
    /\ main = "starting"
    /\ main' = "connecting"
    /\ retry_count' = 0
    /\ fails' = 0
    /\ UNCHANGED <<queueVars, now, epoch, link, rVars, sVars, rows, histVars,
                   sends, faultVars>>

redis_pool_err ==
    /\ main = "starting"
    /\ Fault("redis")
    /\ Exit
    /\ UNCHANGED <<queueVars, now, rows, histVars, sends, fails>>

(* A connection is made: the counter starts again and r_task is spawned.   *)
connect_ok ==
    /\ main = "connecting"
    /\ epoch < MaxEpoch
    /\ main' = "registering"
    /\ retry_count' = 0
    /\ fails' = 0
    /\ epoch' = epoch + 1
    /\ link' = [link EXCEPT ![epoch + 1] = "open"]
    /\ rtask' = "recv" /\ rjob' = NoJob
    /\ UNCHANGED <<queueVars, now, sVars, rows, histVars, sends, faultVars>>

(* The counter, which sets the delay of 2^retry_count seconds before the   *)
(* next attempt, stops at retry_max.                                       *)
backoff == IF retry_count < RetryMax THEN retry_count + 1 ELSE retry_count

(* The attempt fails; the counter stops at retry_max, the loop does not.   *)
connect_err ==
    /\ main = "connecting"
    /\ fails < MaxFails
    /\ fails' = fails + 1
    /\ retry_count' = backoff
    /\ UNCHANGED <<queueVars, now, main, epoch, link, rVars, sVars, rows,
                   histVars, sends, faultVars>>

(* The answer to the "connect" request is read by r_task, whatever its     *)
(* code; s_task is spawned.                                                *)
connect_dispatcher_ok ==
    /\ main = "registering"
    /\ link[epoch] = "open"
    /\ rtask = "recv"
    /\ main' = "serving"
    /\ stask' = [stask EXCEPT ![epoch] = "consume"]
    /\ UNCHANGED <<queueVars, now, retry_count, epoch, link, rVars, held, rows,
                   histVars, boundVars>>

(* No answer within five seconds, or a closed connection: the loop breaks, *)
(* run_cli returns and the process ends.                                   *)
connect_dispatcher_err ==
    /\ main = "registering"
    /\ Exit
    /\ UNCHANGED <<queueVars, now, rows, histVars, boundVars>>

(* select!: s_task panicked, break; r_task ended in whatever way, connect  *)
(* again.  The JoinHandle of the other task is dropped, which detaches it. *)
select_s_task ==
    /\ main = "serving"
    /\ stask[epoch] = "panicked"
    /\ Exit
    /\ UNCHANGED <<queueVars, now, rows, histVars, boundVars>>

select_r_task ==
    /\ main = "serving"
    /\ rtask = "ended"
    /\ main' = "connecting"
    /\ rtask' = "none" /\ rjob' = NoJob
    /\ UNCHANGED <<queueVars, now, retry_count, epoch, link, sVars, rows,
                   histVars, boundVars>>

-----------------------------------------------------------------------------
(* r_task.                                                                 *)

\* Mutant: no sleep.
M_no_sleep == now' = IF now = 0 THEN 1 ELSE now

(* sleep(10 ms): the clock the ids are made from moves on.                 *)
sleep == now' = now + 1

(* A "dispatch_job" request arrives; r_task sleeps before it touches the   *)
(* queue.                                                                  *)
recv_dispatch_job(j) ==
    /\ rtask = "recv" /\ link[epoch] = "open"
    /\ sends < MaxSends
    /\ sends' = sends + 1
    /\ rtask' = "queueing" /\ rjob' = j
    /\ sleep
    /\ UNCHANGED <<queueVars, mainVars, sVars, rows, histVars, faultVars, fails>>

(* A request with any other method is logged and answered all the same.    *)
recv_other ==
    /\ rtask = "recv" /\ link[epoch] = "open"
    /\ rtask' = "respond" /\ rjob' = NoJob
    /\ UNCHANGED <<queueVars, now, mainVars, sVars, rows, histVars, boundVars>>

\* Mutant: a failed recv is logged and tried again.
M_recv_err_ignored ==
    /\ rtask = "recv" /\ link[epoch] = "closed"
    /\ UNCHANGED vars

(* recv fails on a closed connection, and r_task panics on purpose.        *)
recv_err ==
    /\ rtask = "recv" /\ link[epoch] = "closed"
    /\ rtask' = "ended" /\ rjob' = NoJob
    /\ UNCHANGED <<queueVars, now, mainVars, sVars, rows, histVars, boundVars>>

(* A request without params is unwrapped: r_task panics while its          *)
(* connection stays open.                                                  *)
recv_panics ==
    /\ rtask = "recv" /\ link[epoch] = "open" /\ epoch < MaxEpoch
    /\ rtask' = "ended" /\ rjob' = NoJob
    /\ UNCHANGED <<queueVars, now, mainVars, sVars, rows, histVars, boundVars>>

(* add_queue_req: produce, whose result r_task ignores.                    *)
add_queue_req ==
    /\ rtask = "queueing"
    /\ produce(RedisMessage(rjob))
    /\ added' = added \union stream'
    /\ rtask' = "respond"
    /\ UNCHANGED <<now, mainVars, rjob, sVars, rows, handled, oks, answered,
                   reported, boundVars>>

(* The call to Redis fails, before or after Redis carried it out.          *)
add_queue_req_err ==
    /\ rtask = "queueing"
    /\ Fault("redis")
    /\ produce(RedisMessage(rjob)) \/ UNCHANGED queueVars
    /\ added' = added \union stream'
    /\ rtask' = "respond"
    /\ UNCHANGED <<now, mainVars, rjob, sVars, rows, handled, oks, answered,
                   reported, sends, fails>>

(* The answer is 200 "success" in every case.                              *)
respond_ok ==
    /\ rtask = "respond" /\ link[epoch] = "open"
    /\ rtask' = "recv" /\ rjob' = NoJob
    /\ answered' = answered \union ({rjob} \ {NoJob})
    /\ UNCHANGED <<queueVars, now, mainVars, sVars, rows, added, handled, oks,
                   reported, boundVars>>

respond_err ==
    /\ rtask = "respond" /\ link[epoch] = "closed"
    /\ rtask' = "ended" /\ rjob' = NoJob
    /\ UNCHANGED <<queueVars, now, mainVars, sVars, rows, histVars, boundVars>>

-----------------------------------------------------------------------------
(* handle_dispatchjobs: the s_task of epoch e, current or left behind.     *)

Goto(e, label) == stask' = [stask EXCEPT ![e] = label]

\* Mutant: an entry that is no DispatchJobRequest is not acknowledged.
M_take_unparsed(e, x) ==
    LET parses == Kind[x.data] # "malformed"
    IN  /\ held' = [held EXCEPT ![e] = IF parses THEN x ELSE NoEntry]
        /\ Goto(e, IF parses THEN "run" ELSE "consume")
        /\ handled' = IF parses THEN handled ELSE handled \union {x}

(* An entry that is no DispatchJobRequest goes straight to its             *)
(* acknowledgement.                                                        *)
take(e, x) ==
    LET parses == Kind[x.data] # "malformed"
    IN  /\ held' = [held EXCEPT ![e] = x]
        /\ Goto(e, IF parses THEN "run" ELSE "ack")
        /\ handled' = IF parses THEN handled ELSE handled \union {x}

\* Mutant: an entry in the hand of another s_task is passed over.
M_consume_unclaimed(e, x) ==
    LET free == {y \in stream : \A f \in Epochs : held[f] # y}
    IN  /\ stask[e] = "consume"
        /\ x \in free /\ \A y \in free : x.id <= y.id
        /\ take(e, x)
        /\ UNCHANGED <<queueVars, now, mainVars, rVars, rows, added, oks,
                       answered, reported, boundVars>>

\* Mutant: the entry is deleted as it is read.
M_consume_deletes(e, x) ==
    /\ stask[e] = "consume" /\ Oldest(x)
    /\ take(e, x)
    /\ acknowledge(x.id)
    /\ UNCHANGED <<now, mainVars, rVars, rows, added, oks, answered, reported,
                   boundVars>>

(* The oldest entry is read, and stays where it is.                        *)
consume(e, x) ==
    /\ stask[e] = "consume" /\ Oldest(x)
    /\ take(e, x)
    /\ UNCHANGED <<queueVars, now, mainVars, rVars, rows, added, oks, answered,
                   reported, boundVars>>

(* A failed consume is logged and tried again a second later.              *)
consume_err(e) ==
    /\ stask[e] = "consume"
    /\ Fault("redis")
    /\ UNCHANGED <<queueVars, now, mainVars, rVars, sVars, rows, histVars,
                   sends, fails>>

\* Mutant: the consumer survives and reads the entry again.
M_do_job_panic_caught(e) ==
    /\ stask[e] = "run" /\ Kind[held[e].data] = "empty"
    /\ Goto(e, "consume")
    /\ held' = [held EXCEPT ![e] = NoEntry]
    /\ UNCHANGED <<queueVars, now, mainVars, rVars, rows, histVars, boundVars>>

(* do_job indexes the first parameter of a request that has none.          *)
do_job_panics(e) ==
    /\ stask[e] = "run" /\ Kind[held[e].data] = "empty"
    /\ Goto(e, "panicked")
    /\ held' = [held EXCEPT ![e] = NoEntry]
    /\ UNCHANGED <<queueVars, now, mainVars, rVars, rows, histVars, boundVars>>

(* The VRF, the worker or the clock of the job fails: do_job returns the   *)
(* error, which is logged.                                                 *)
do_job_err(e) ==
    /\ stask[e] = "run" /\ Kind[held[e].data] = "job"
    /\ Goto(e, "ack")
    /\ handled' = handled \union {held[e]}
    /\ UNCHANGED <<queueVars, now, mainVars, rVars, held, rows, added, oks,
                   answered, reported, boundVars>>

\* Mutant: the result is reported without being stored.
M_do_job_skips_store(e) ==
    /\ stask[e] = "run" /\ Kind[held[e].data] = "job"
    /\ Goto(e, "send")
    /\ UNCHANGED <<queueVars, now, mainVars, rVars, held, rows, histVars,
                   boundVars>>

(* There is a result: the worker's, the empty one of an operator that was  *)
(* not selected, or "unsupported worker type".                             *)
do_job_result(e) ==
    /\ stask[e] = "run" /\ Kind[held[e].data] = "job"
    /\ Goto(e, "store")
    /\ UNCHANGED <<queueVars, now, mainVars, rVars, held, rows, histVars,
                   boundVars>>

(* storage.sinker_job: job_id is a unique key, so a second insert fails,   *)
(* and failures are only logged.                                           *)
sinker_job(e) ==
    /\ stask[e] = "store"
    /\ Goto(e, "send")
    /\ \/ rows' = rows \union {held[e].data} /\ UNCHANGED faultVars
       \/ Fault("pg") /\ UNCHANGED rows
    /\ UNCHANGED <<queueVars, now, mainVars, rVars, held, histVars, sends,
                   fails>>

(* job_result goes out on the connection of epoch e, or is lost with it;   *)
(* an error is logged, and do_job returns Ok.                              *)
job_result(e) ==
    /\ stask[e] = "send"
    /\ Goto(e, "ack")
    /\ handled' = handled \union {held[e]}
    /\ oks' = oks \union {held[e]}
    /\ reported' = IF link[e] = "open" THEN reported \union {held[e].data}
                                       ELSE reported
    /\ UNCHANGED <<queueVars, now, mainVars, rVars, held, rows, added, answered,
                   boundVars>>

s_acknowledge(e) ==
    /\ stask[e] = "ack"
    /\ acknowledge(held[e].id)
    /\ Goto(e, "consume")
    /\ held' = [held EXCEPT ![e] = NoEntry]
    /\ UNCHANGED <<now, mainVars, rVars, rows, histVars, boundVars>>

(* The call to Redis fails, before or after Redis carried it out.          *)
s_acknowledge_err(e) ==
    /\ stask[e] = "ack"
    /\ Fault("redis")
    /\ acknowledge(held[e].id) \/ UNCHANGED queueVars
    /\ Goto(e, "consume")
    /\ held' = [held EXCEPT ![e] = NoEntry]
    /\ UNCHANGED <<now, mainVars, rVars, rows, histVars, sends, fails>>

-----------------------------------------------------------------------------
(* The environment.                                                        *)

(* The connection of epoch e breaks: the dispatcher goes away, or a send   *)
(* that failed has closed the core.                                        *)
link_closes(e) ==
    /\ link[e] = "open" /\ e < MaxEpoch
    /\ link' = [link EXCEPT ![e] = "closed"]
    /\ UNCHANGED <<queueVars, now, main, retry_count, epoch, rVars, sVars,
                   rows, histVars, boundVars>>

crash ==
    /\ main # "down"
    /\ Fault("crash")
    /\ Exit
    /\ UNCHANGED <<queueVars, now, rows, histVars, sends, fails>>

(* The wall clock is set back.                                             *)
clock_steps_back ==
    /\ Fault("clock")
    /\ \E t \in 0..now : t < now /\ now' = t
    /\ UNCHANGED <<queueVars, mainVars, rVars, sVars, rows, histVars, sends,
                   fails>>

-----------------------------------------------------------------------------
handle_connection ==
    \/ redis_pool_ok \/ redis_pool_err
    \/ connect_ok \/ connect_err
    \/ connect_dispatcher_ok \/ connect_dispatcher_err
    \/ select_s_task \/ select_r_task

\* What r_task does by itself, and what the dispatcher makes it do.
r_task ==
    recv_err \/ add_queue_req \/ add_queue_req_err \/ respond_ok \/ respond_err

dispatcher ==
    \/ \E j \in Jobs : recv_dispatch_job(j)
    \/ recv_other
    \/ recv_panics

handle_dispatchjobs(e) ==
    \/ \E x \in stream : consume(e, x)
    \/ consume_err(e)
    \/ do_job_panics(e) \/ do_job_err(e) \/ do_job_result(e)
    \/ sinker_job(e) \/ job_result(e)
    \/ s_acknowledge(e) \/ s_acknowledge_err(e)

environment ==
    \/ start
    \/ \E e \in Epochs : link_closes(e)
    \/ crash \/ clock_steps_back

Next ==
    \/ handle_connection
    \/ r_task
    \/ dispatcher
    \/ \E e \in Epochs : handle_dispatchjobs(e)
    \/ environment

Spec == Init /\ [][Next]_vars

(* The runtime polls every task that can go on.  do_job ends because the   *)
(* worker's status is polled a bounded number of times and its answer is   *)
(* awaited with a timeout; a connection attempt ends, and within MaxFails  *)
(* attempts the dispatcher is back.  Nothing obliges anyone to start the   *)
(* process, to send it anything or to break its connections.               *)
Fairness ==
    /\ WF_vars(handle_connection)
    /\ WF_vars(r_task)
    /\ \A e \in Epochs : WF_vars(handle_dispatchjobs(e))

FairSpec == Spec /\ Fairness

-----------------------------------------------------------------------------
(* Safety.                                                                 *)

(* An entry leaves the stream only after handle_dispatchjobs has finished  *)
(* with it (refused it, or had do_job return): a crash, a reconnection or  *)
(* a second consumer never makes a queued job disappear unhandled.         *)
NoEntryLost == added \ stream \subseteq handled

(* However many consumers are left behind, jobs are first handled in the   *)
(* order Redis accepted them.                                              *)
HandledInOrder ==
    \A x \in handled, y \in added : y.id < x.id => y \in handled

(* do_job stores before it reports: until an insert has failed, every job  *)
(* the dispatcher has a result of has its row, also when the process dies  *)
(* in between or two consumers run the job.                                *)
ReportedIsStored == "pg" \notin faulted => reported \subseteq rows

(* Until a call to Redis has failed or the wall clock was set back, a      *)
(* dispatcher that was answered "success" has its job in the queue: the    *)
(* sleep before add_queue_req keeps the timestamp ids apart, over          *)
(* reconnections and restarts too.                                         *)
QueueSound == {"redis", "clock"} \intersect faulted = {}

SuccessMeansQueued ==
    QueueSound => \A j \in answered : \E x \in added : x.data = j

(* The node keeps the promise of JobLog.                                   *)
Log == INSTANCE JobLog WITH pending <- stream, accepted <- added,
                            handled <- handled, Entries <- Entries
KeepsJobLog == Log!LogSpec

-----------------------------------------------------------------------------
(* Liveness.                                                               *)

(* Every entry is deleted in the end unless the process ends first: an     *)
(* entry that cannot be parsed, a job that fails and a Redis error do not  *)
(* block the queue.                                                        *)
QueueDrains ==
    \A x \in Entries :
        (x \in stream /\ main = "serving") ~> (x \notin stream \/ main = "down")

(* A node whose connection is gone connects and registers again, unless    *)
(* registration fails and the process ends.                                *)
Reconnects ==
    (main = "serving" /\ link[epoch] = "closed")
        ~> (main = "down" \/ (main = "serving" /\ link[epoch] = "open"))

(* A job that was answered "success" is handled, unless the process ends;  *)
(* a failure of Redis or of the clock that comes later changes nothing.    *)
AnsweredIsHandled ==
    \A j \in Jobs :
        (j \in answered /\ QueueSound)
            ~> (main = "down" \/ \E x \in handled : x.data = j)

-----------------------------------------------------------------------------
(* What the comments say of the code, and the code does not do.            *)

(* do_job "will return an error if ... an error occurs when sending the    *)
(* job result over the WebSocket connection".                              *)
OkMeansReported == \A x \in oks : x.data \in reported
=============================================================================
