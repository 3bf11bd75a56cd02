----------------------------- MODULE VerifyHub -----------------------------
(***************************************************************************)
(* The hub between the operator and its workers: operator/verify_hub/src,  *)
(* opml/handler.rs, tee/handler.rs and server/server.rs.                   *)
(*                                                                         *)
(* do_opml_job and do_tee_job call a question handler, which posts the     *)
(* question to the worker and waits for the answer on a channel of         *)
(* capacity one that it puts in the shared Server; the worker answers with *)
(* an HTTP call whose handler looks the channel up.  Server is behind one  *)
(* tokio RwLock, which is fair: whoever asked first is served first.       *)
(*                                                                         *)
(* The lock is held across an await in three places, and only those are    *)
(* states here: the POST of a question (writer), the send of               *)
(* opml_callback (writer) and the send of tee_callback (reader).           *)
(***************************************************************************)
EXTENDS Naturals, Sequences

CONSTANTS
    Questions,       \* questions in flight, each with a fresh req_id
    Kind,            \* "opml" or "tee", for every question
    MaxAnswers,      \* bound: HTTP calls the worker makes for one question
    Workers,         \* callers of register_worker and receive_heart_beat
    Nobody           \* model value: no writer

ASSUME HubAssumption ==
    /\ Kind \in [Questions -> {"opml", "tee"}]
    /\ MaxAnswers \in Nat
    /\ Questions \intersect (Questions \X (1..MaxAnswers)) = {}
    /\ Workers \intersect (Questions \union (Questions \X (1..MaxAnswers))) = {}
    /\ Nobody \notin Questions \union (Questions \X (1..MaxAnswers))

VARIABLES
    handler,         \* where the question handler of every question is
    callback,        \* where every callback of the worker is
    call,            \* the other call every worker has under way
    queue,           \* who waits for the RwLock, in order
    writer, readers, \* who holds it across an await
    asked,           \* questions the worker has received
    channels,        \* questions with a sender in opml_channels/tee_channels
    buffer,          \* answers in the channel of every question
    rx,              \* questions whose receiver is alive
    registered       \* the workers in tee_operator_collections

lockVars == <<queue, writer, readers>>
chanVars == <<channels, buffer, rx>>
vars == <<handler, callback, call, lockVars, asked, chanVars, registered>>

Callbacks == Questions \X (1..MaxAnswers)
Actors == Questions \union Callbacks \union Workers
Final == {"ok", "failed", "timedout"}

TypeOK ==
    /\ handler \in [Questions -> {"idle", "lock1", "post", "asked", "lock2",
                                  "await", "lock3"} \union Final]
    /\ callback \in [Callbacks -> {"idle", "lock", "sending", "stored",
                                   "no_channel", "closed", "cancelled"}]
    /\ call \in [Workers -> {"idle", "lock"}]
    /\ queue \in Seq(Actors)
    /\ writer \in Actors \union {Nobody}
    /\ readers \subseteq Actors
    /\ asked \subseteq Questions /\ channels \subseteq Questions
    /\ buffer \in [Questions -> 0..1]
    /\ rx \subseteq Questions
    /\ registered \subseteq Workers

Init ==
    /\ handler = [r \in Questions |-> "idle"]
    /\ callback = [c \in Callbacks |-> "idle"]
    /\ call = [w \in Workers |-> "idle"]
    /\ queue = <<>> /\ writer = Nobody /\ readers = {}
    /\ asked = {} /\ channels = {} /\ rx = {}
    /\ buffer = [r \in Questions |-> 0]
    /\ registered = {}

-----------------------------------------------------------------------------
(* The RwLock of the runtime: a queue of requests, granted in order.       *)

Request(a) == queue' = Append(queue, a)

(* A request that is dropped gives up its place.                           *)
Withdraw(a) ==
    \/ \E i \in 1..Len(queue) :
         /\ queue[i] = a
         /\ queue' = SubSeq(queue, 1, i - 1) \o SubSeq(queue, i + 1, Len(queue))
    \/ (\A i \in 1..Len(queue) : queue[i] # a) /\ UNCHANGED queue

First(a) == queue # <<>> /\ Head(queue) = a

WriteGranted(a) == First(a) /\ writer = Nobody /\ readers = {}

ReadGranted(a) == First(a) /\ writer = Nobody

-----------------------------------------------------------------------------
(* opml_question_handler and tee_question_handler.                         *)

At(r, label) == handler[r] = label
Goto(r, label) == handler' = [handler EXCEPT ![r] = label]

ask(r) ==
    /\ At(r, "idle")
    /\ Goto(r, "lock1")
    /\ Request(r)
    /\ UNCHANGED <<callback, call, writer, readers, asked, chanVars, registered>>

\* Mutant: the tee channel is there before the question, and the lock is
\* taken a second time all the same.
M_post_inserts(r) ==
    /\ At(r, "lock1") /\ WriteGranted(r)
    /\ Goto(r, "post")
    /\ queue' = Tail(queue) /\ writer' = r
    /\ IF Kind[r] = "tee" THEN rx' = rx \union {r} /\ channels' = channels \union {r}
                           ELSE UNCHANGED <<rx, channels>>
    /\ UNCHANGED <<callback, call, readers, asked, buffer, registered>>

(* The POST goes out under the write lock.                                 *)
post(r) ==
    /\ At(r, "lock1") /\ WriteGranted(r)
    /\ Goto(r, "post")
    /\ queue' = Tail(queue) /\ writer' = r
    /\ UNCHANGED <<callback, call, readers, asked, chanVars, registered>>

(* The worker has the question, and may call back before its own HTTP      *)
(* answer has arrived.                                                     *)
worker_receives(r) ==
    /\ At(r, "post") /\ r \notin asked
    /\ asked' = asked \union {r}
    /\ UNCHANGED <<handler, callback, call, lockVars, chanVars, registered>>

post_ok(r) ==
    /\ At(r, "post") /\ r \in asked
    /\ Goto(r, "asked")
    /\ writer' = Nobody
    /\ UNCHANGED <<callback, call, queue, readers, asked, chanVars, registered>>

(* The POST fails, with or without having reached the worker.  The opml    *)
(* handler returns; the tee handler ignores it.                            *)
post_err(r) ==
    /\ At(r, "post")
    /\ Goto(r, IF Kind[r] = "opml" THEN "failed" ELSE "asked")
    /\ writer' = Nobody
    /\ UNCHANGED <<callback, call, queue, readers, asked, chanVars, registered>>

(* The channel is made only now, and the lock asked for again.             *)
make_channel(r) ==
    /\ At(r, "asked")
    /\ Goto(r, "lock2")
    /\ Request(r)
    /\ rx' = rx \union {r}
    /\ UNCHANGED <<callback, call, writer, readers, asked, channels, buffer,
                   registered>>

insert_channel(r) ==
    /\ At(r, "lock2") /\ WriteGranted(r)
    /\ Goto(r, "await")
    /\ queue' = Tail(queue)
    /\ channels' = channels \union {r}
    /\ UNCHANGED <<callback, call, writer, readers, asked, buffer, rx, registered>>

answered(r) ==
    /\ At(r, "await") /\ buffer[r] = 1
    /\ Goto(r, "ok")
    /\ buffer' = [buffer EXCEPT ![r] = 0]
    /\ UNCHANGED <<callback, call, lockVars, asked, channels, rx, registered>>

\* Mutant: the clean-up that is commented out takes the lock, as in tee.
M_times_out_cleaning(r) ==
    /\ At(r, "await") /\ buffer[r] = 0
    /\ Goto(r, "lock3")
    /\ Request(r)
    /\ UNCHANGED <<callback, call, writer, readers, asked, chanVars, registered>>

(* 600 seconds without an answer.  The opml handler returns and leaves its *)
(* channel behind; the tee handler asks for the write lock.                *)
times_out(r) ==
    /\ At(r, "await") /\ buffer[r] = 0
    /\ IF Kind[r] = "opml" THEN Goto(r, "timedout") /\ UNCHANGED queue
                           ELSE Goto(r, "lock3") /\ Request(r)
    /\ UNCHANGED <<callback, call, writer, readers, asked, chanVars, registered>>

remove_channel(r) ==
    /\ At(r, "lock3") /\ WriteGranted(r)
    /\ Goto(r, "timedout")
    /\ queue' = Tail(queue)
    /\ channels' = channels \ {r}
    /\ UNCHANGED <<callback, call, writer, readers, asked, buffer, rx, registered>>

(* The handler has returned; its receiver is dropped, and what was in the  *)
(* channel with it.                                                        *)
drop_receiver(r) ==
    /\ handler[r] \in Final /\ r \in rx
    /\ rx' = rx \ {r}
    /\ buffer' = [buffer EXCEPT ![r] = 0]
    /\ UNCHANGED <<handler, callback, call, lockVars, asked, channels, registered>>

-----------------------------------------------------------------------------
(* opml_callback and tee_callback, for callback c of question c[1].        *)

CGoto(c, label) == callback' = [callback EXCEPT ![c] = label]

Holds(c) == IF Kind[c[1]] = "opml" THEN writer' = c /\ UNCHANGED readers
                                   ELSE readers' = readers \union {c} /\ UNCHANGED writer

Releases(c) == IF Kind[c[1]] = "opml" THEN writer' = Nobody /\ UNCHANGED readers
                                      ELSE readers' = readers \ {c} /\ UNCHANGED writer

worker_calls_back(c) ==
    /\ callback[c] = "idle" /\ c[1] \in asked
    /\ CGoto(c, "lock")
    /\ Request(c)
    /\ UNCHANGED <<handler, call, writer, readers, asked, chanVars, registered>>

(* The lock is granted and the channel looked up.  Without one there is    *)
(* nothing to do but to answer "stored successfully".                      *)
look_up(c) ==
    /\ callback[c] = "lock"
    /\ IF Kind[c[1]] = "opml" THEN WriteGranted(c) ELSE ReadGranted(c)
    /\ queue' = Tail(queue)
    /\ IF c[1] \in channels
         THEN CGoto(c, "sending") /\ Holds(c)
         ELSE CGoto(c, "no_channel") /\ UNCHANGED <<writer, readers>>
    /\ UNCHANGED <<handler, call, asked, chanVars, registered>>

(* mpsc::channel(1)                                                        *)
HasRoom(r) == buffer[r] < 1

(* tx.send waits for room with the lock in its hand.                       *)
send(c) ==
    /\ callback[c] = "sending" /\ c[1] \in rx /\ HasRoom(c[1])
    /\ CGoto(c, "stored")
    /\ buffer' = [buffer EXCEPT ![c[1]] = buffer[c[1]] + 1]
    /\ Releases(c)
    /\ UNCHANGED <<handler, call, queue, asked, channels, rx, registered>>

send_err(c) ==
    /\ callback[c] = "sending" /\ c[1] \notin rx
    /\ CGoto(c, "closed")
    /\ Releases(c)
    /\ UNCHANGED <<handler, call, queue, asked, chanVars, registered>>

\* Mutant: a callback that is dropped while it sends keeps the lock.
M_layer_timeout_keeps(c) ==
    /\ callback[c] \in {"lock", "sending"}
    /\ CGoto(c, "cancelled")
    /\ Withdraw(c)
    /\ UNCHANGED <<handler, call, writer, readers, asked, chanVars, registered>>

\* Mutant: the router has no timeout layer.
M_layer_timeout_none(c) == FALSE /\ UNCHANGED vars

(* The timeout layer of the router drops a callback that takes 600         *)
(* seconds, with its place in the queue or its hold on the lock.           *)
layer_timeout(c) ==
    /\ callback[c] \in {"lock", "sending"}
    /\ CGoto(c, "cancelled")
    /\ Withdraw(c)
    /\ IF callback[c] = "sending" THEN Releases(c)
                                  ELSE UNCHANGED <<writer, readers>>
    /\ UNCHANGED <<handler, call, asked, chanVars, registered>>

-----------------------------------------------------------------------------
(* register_worker and receive_heart_beat, again and again.  Both ask for  *)
(* the write lock; which of the two a call is shows once it has the lock.  *)

worker_calls(w) ==
    /\ call[w] = "idle"
    /\ call' = [call EXCEPT ![w] = "lock"]
    /\ Request(w)
    /\ UNCHANGED <<handler, callback, writer, readers, asked, chanVars, registered>>

register_worker(w) ==
    /\ call[w] = "lock" /\ WriteGranted(w)
    /\ call' = [call EXCEPT ![w] = "idle"]
    /\ queue' = Tail(queue)
    /\ registered' = registered \union {w}
    /\ UNCHANGED <<handler, callback, writer, readers, asked, chanVars>>

receive_heart_beat(w) ==
    /\ call[w] = "lock" /\ WriteGranted(w)
    /\ call' = [call EXCEPT ![w] = "idle"]
    /\ queue' = Tail(queue)
    /\ UNCHANGED <<handler, callback, writer, readers, asked, chanVars, registered>>

-----------------------------------------------------------------------------
question_handler(r) ==
    \/ post(r) \/ post_ok(r) \/ post_err(r)
    \/ make_channel(r) \/ insert_channel(r)
    \/ answered(r) \/ times_out(r) \/ remove_channel(r)
    \/ drop_receiver(r)

callback_handler(c) == look_up(c) \/ send(c) \/ send_err(c)

worker ==
    \/ \E r \in Questions : worker_receives(r)
    \/ \E c \in Callbacks : worker_calls_back(c)
    \/ \E w \in Workers : worker_calls(w)

Next ==
    \/ \E r \in Questions : ask(r) \/ question_handler(r)
    \/ \E c \in Callbacks : callback_handler(c) \/ layer_timeout(c)
    \/ \E w \in Workers : register_worker(w) \/ receive_heart_beat(w)
    \/ worker

Spec == Init /\ [][Next]_vars

(* The runtime polls what is ready and its timers fire.  A POST ends: the  *)
(* worker's HTTP server answers, or the connection to it breaks (the       *)
(* client has no timeout of its own).  The worker owes nothing else.       *)
Fairness ==
    /\ \A r \in Questions : WF_vars(question_handler(r))
    /\ \A c \in Callbacks : WF_vars(callback_handler(c)) /\ WF_vars(layer_timeout(c))
    /\ \A w \in Workers : WF_vars(register_worker(w) \/ receive_heart_beat(w))

FairSpec == Spec /\ Fairness

-----------------------------------------------------------------------------
HeldByAwaiting ==
    /\ \/ writer = Nobody
       \/ \E r \in Questions : writer = r /\ At(r, "post")
       \/ \E c \in Callbacks :
            writer = c /\ callback[c] = "sending" /\ Kind[c[1]] = "opml"
    /\ readers = {c \in Callbacks : callback[c] = "sending" /\ Kind[c[1]] = "tee"}
    /\ \A r \in Questions : At(r, "post") => writer = r
    /\ \A c \in Callbacks :
         callback[c] = "sending" /\ Kind[c[1]] = "opml" => writer = c
    /\ writer = Nobody \/ readers = {}

Waiters ==
    {r \in Questions : handler[r] \in {"lock1", "lock2", "lock3"}}
        \union {c \in Callbacks : callback[c] = "lock"}
        \union {w \in Workers : call[w] = "lock"}

Places(s) == {s[i] : i \in 1..Len(s)}

OnePlaceEach(s) == \A i, j \in 1..Len(s) : s[i] = s[j] => i = j

(* The lock of the hub is held across an await by nobody but a POST that   *)
(* is out and the callbacks that send: none that failed, returned or was   *)
(* dropped by the timeout layer in the middle of its send still has it,    *)
(* and no answer is sent to a tee channel while a question has it alone.   *)
(* Whoever waits for it has one place in the queue and nobody else has     *)
(* one, so that the lock is never granted to a caller who is gone.         *)
LockHasHolder ==
    /\ HeldByAwaiting
    /\ Places(queue) = Waiters /\ OnePlaceEach(queue)

(* An opml callback that holds the lock while the channel is full waits    *)
(* for a handler that needs the lock no more, to receive or to return:     *)
(* opml questions and callbacks never wait for each other in a circle.     *)
NoOpmlLockCycle ==
    \A c \in Callbacks :
        callback[c] = "sending" /\ Kind[c[1]] = "opml"
            => handler[c[1]] \in {"await"} \union Final

(* The first in the queue gets the lock: a tee callback reads, everyone    *)
(* else writes.                                                            *)
Granted(a) ==
    /\ writer = Nobody
    /\ readers = {} \/ \E c \in Callbacks : a = c /\ Kind[c[1]] = "tee"

(* A callback that has the lock can end its send, at once or after its     *)
(* handler has taken the answer before or let go of the channel.           *)
EndsItsSend(c) ==
    \/ c[1] \notin rx \/ HasRoom(c[1])
    \/ At(c[1], "await") /\ buffer[c[1]] = 1
    \/ handler[c[1]] \in Final

(* The circle that only the timeout layer of the router breaks: the        *)
(* callback has the lock and waits for room, and the handler that would    *)
(* have to make it waits for the lock.                                     *)
InTeeCircle(c) ==
    /\ Kind[c[1]] = "tee" /\ At(c[1], "lock3")
    /\ c[1] \in rx /\ ~HasRoom(c[1])

(* When anyone waits for the lock of the hub, the first in the queue gets  *)
(* it, a POST is out, or a callback can end its send: the only circle is   *)
(* that of a tee callback and its timed-out handler, and two answers of    *)
(* the worker, a late insertion of the channel or an answer that was given *)
(* up by the timeout layer make no other.                                  *)
LockMoves ==
    queue # <<>> =>
        \/ Granted(Head(queue))
        \/ \E r \in Questions : At(r, "post")
        \/ \E c \in Callbacks :
             callback[c] = "sending" /\ (EndsItsSend(c) \/ InTeeCircle(c))

(* Every question comes back to do_job, with an answer, an error or a      *)
(* timeout: not even a worker that answers twice while a tee question      *)
(* times out, or that never stops sending heart beats, holds the lock for  *)
(* ever.                                                                   *)
QuestionsReturn == \A r \in Questions : At(r, "lock1") ~> handler[r] \in Final

-----------------------------------------------------------------------------
(* What the comments and replies say of the code, and it does not do.      *)

(* "OPML answer stored successfully" (the reply of opml_callback): an      *)
(* answer to a question that is still under way goes to its channel.       *)
StoredMeansStored ==
    \A c \in Callbacks :
        Kind[c[1]] = "opml" /\ callback[c] = "no_channel" => handler[c[1]] \in Final
=============================================================================
