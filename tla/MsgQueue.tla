------------------------------ MODULE MsgQueue ------------------------------
(***************************************************************************)
(* The durable job queue of the operator: operator/runer/src/queue/        *)
(* msg_queue.rs over a Redis stream.                                       *)
(*                                                                         *)
(* RedisStreamPool keeps one connection behind a mutex, so every call is   *)
(* one atomic step on the stream; the operators below are those steps, and *)
(* the modules that use the queue take them inside their own actions.      *)
(*                                                                         *)
(*   stream  the entries Redis holds                                       *)
(*   top     the last id Redis has accepted; it survives the deletion of   *)
(*           the entry that had it                                         *)
(*   now     the wall clock in units of the ten-millisecond sleep that     *)
(*           precedes every produce; RedisMessage::new makes the id from   *)
(*           it                                                            *)
(*                                                                         *)
(* Redis itself (XADD refuses an id that is not above the last one, XREAD  *)
(* from "0" returns the oldest entry, XDEL removes by id) is external and  *)
(* modelled from the calls.                                                *)
(***************************************************************************)
EXTENDS Naturals

CONSTANT Jobs      \* payloads a dispatcher can send

VARIABLES stream, top, now

queueVars == <<stream, top>>

QueueInit ==
    /\ stream = {}
    /\ top = 0
    /\ now = 0

(* RedisMessage::new: the id is the time in milliseconds, with "-0" behind *)
(* it, and nothing else.                                                   *)
RedisMessage(data) == [id |-> now, data |-> data]

(* XADD with an explicit id: Redis refuses one that is not above the last. *)
Accepts(m) == m.id > top

produce(m) ==
    IF Accepts(m)
      THEN /\ stream' = stream \union {m}
           /\ top' = m.id
      ELSE UNCHANGED queueVars

\* Mutant: the newest entry is read.
M_Newest(x) == x \in stream /\ \A y \in stream : y.id <= x.id

(* XREAD COUNT 1 from "0": the oldest entry of the stream, whoever has     *)
(* read it before.                                                         *)
Oldest(x) == x \in stream /\ \A y \in stream : x.id <= y.id

(* XDEL: deleting an id that is gone deletes nothing and is no error.      *)
acknowledge(id) ==
    /\ stream' = {y \in stream : y.id # id}
    /\ UNCHANGED top
=============================================================================
