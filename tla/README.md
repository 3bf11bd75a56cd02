# A verification project for the AOS operator

The operator (Rust, `src/operator` and `src/crates`) takes jobs from a dispatcher over a
websocket, queues them in Redis, decides with a VRF whether it has to run them, has an OPML or
TEE worker run them, stores the result in PostgreSQL and reports it. This directory holds TLA+
models of the parts of it where several tasks, processes or failures meet, the TLC runs that
check them on small instances, and TLAPS proofs of the main safety properties for instances of
any size.

## The system

| part | state | operations | talks to |
|---|---|---|---|
| job queue (`runer/src/queue`) | a Redis stream; ids from the wall clock | `produce` (XADD), `consume` (XREAD of the oldest entry), `acknowledge` (XDEL) | Redis, through one connection behind a mutex |
| connection loop (`runer/src/api/msg_handler.rs`) | retry counter, the connection, `r_task`, `s_task` | `handle_connection`, `connect_dispatcher`, `add_queue_req` | dispatcher, queue |
| job execution (same file) | the entry in hand | `handle_dispatchjobs`, `do_job`, `do_opml_job`, `do_tee_job`, `compute_vrf`, `job_result` | queue, hub, contract, storage, dispatcher |
| storage (`runer/src/storage.rs`, `db_sql`) | table `job_result_param`, unique `job_id` | `sinker_job`, `setup_db`, migrations | PostgreSQL |
| verify hub (`verify_hub`) | `Server` behind an `RwLock`: channels of the open questions, known workers | question handlers, callbacks, `register_worker`, `receive_heart_beat` | workers, over HTTP in both directions |
| websocket (`crates/websocket`) | the core (an `Option`), the callback map | `request_timeout`, `recv`, `respond`, `close` | dispatcher |
| VRF (`crates/vrf`, `vrf_key.rs`) | keys | `prove`, `verify`, `run_vrf`, `meets_threshold` | job execution |
| vector clock (`crates/common`) | a map from ids to counters | `merge`, `update`, `partial_cmp`, `dep_cmp`, `reduce` | no caller in the operator |
| start-up (`main.rs`, `cli`, `node_factory.rs`, `node_api`) | the `Operator`, the hub's task | `run_cli`, `construct_node_config`, `create_operator`, `initialize_node`, hub `run` | everything above |
| database set-up (`cli/command.rs`, `db_sql`) | the database itself | `init_db`, `setup_db`, the migrations | PostgreSQL, start-up |
| signing (`crates/signer`, `crates/alloy-wrapper`, `crates/common/src/crypto`) | keys | `sign_message`, `verify_signature`, `recover_signer`, `Crypto::{sign, verify, verify_batch}` | websocket |
| shared lock (`crates/tools/src/rw_share.rs`) | a reader-writer lock | `share_ref`, `share_mut` | no caller in the operator |

What is hard about it, and what the properties are for:

* **Tasks that outlive their connection.** When `r_task` ends, `handle_connection` connects
  again, but the old `s_task` is only detached. Two consumers then read the same oldest entry.
* **Crashes between steps.** A job is consumed, run, stored, reported and deleted in five
  separate steps on three systems; the process can end between any two of them.
* **Errors that are dropped.** The results of `add_queue_req`, `sinker_job`, `job_result` and
  `acknowledge` are logged or ignored, and the next step is taken all the same.
* **Ids from the wall clock.** Redis refuses an id that is not above the last one.
* **A lock held across awaits.** The hub's lock is held during a POST to the worker and during
  a send on a channel of capacity one.
* **Answers that come early, late or twice**, from workers and from the dispatcher.
* **A core that is closed by someone else** while a request or the receiver works on its clone.
* **A start that others can disturb.** The database is dropped and created again by whoever is
  started with `-i`, and the hub publishes its state before it listens.
* **Numbers at their ends.** Clocks, thresholds, chain ids, recovery ids and the digits of the VRF
  are machine integers that are added to, cut off and put together.

Per part, what makes it correct: the queue and its consumers lose nothing, keep order and drain
(`NoEntryLost`, `HandledInOrder`, `QueueDrains`); the connection loop answers "success" only for
queued jobs and reconnects (`SuccessMeansQueued`, `AnsweredIsHandled`, `Reconnects`); storage
comes before the report (`ReportedIsStored`); a job is selected consistently, ends and does not
overload the worker (`NoUnderflow`, `EscalationKeepsSelection`, `JobsEnd`, `LoadBounded`); every question to the hub returns and its lock is
waited for in no circle but one that ends (`QuestionsReturn`, `NoOpmlLockCycle`, `LockMoves`); a websocket request returns,
gets one verdict, cleans up and can be woken (`RequestsReturn`, `KeepsRpc`, `NoCallbackLeak`,
`NoLostWakeup`),
and its receiver notices a close (`ReceiverFindsOut`); a start ends or serves, and a set-up that
succeeded left a whole database (`StartsOrEnds`, `HubBeforeJobs`, `SetupMeansWhole`,
`SettingUpAgainWorks`); the order of clocks is causality (`OrderIsCausality`);
what is signed or drawn can be checked by whoever receives it, in whichever form
(`SelectionCheckable`, `FormsKeepSigner`, `VerifyMeansSigned`, `BatchIsOneByOne`), and a wire
message gets through as it was sent (`IntactIsHandedOn`);
the shared lock lets nested readers through and keeps nobody for ever
(`NestedReadersGetThrough`, `CallsReturn`).

## Modules

```
JobLog          abstract: what the queue promises
  ^ refined by
OperatorNode    EXTENDS MsgQueue         MCOperatorNode   OperatorNodeProofs
DoJob           what OperatorNode leaves open about a job
                                         MCDoJob          DoJobProofs
VerifyHub                                MCVerifyHub      VerifyHubProofs
RpcCalls        abstract: what request_timeout promises
  ^ refined by
WsConnection                             MCWsConnection   WsConnectionProofs
NodeStartup                              MCNodeStartup    NodeStartupProofs
ClockExchange   EXTENDS OrdinaryClock    MCClockExchange  ClockExchangeProofs
RwShare                                  MCRwShare        RwShareProofs
SignedTraffic   EXTENDS EcVrf, EthSignature, CryptoProvider, WireMessages
                                         MCSignedTraffic  SignedTrafficProofs
```

**MsgQueue** models `msg_queue.rs`. `stream` is the set of entries in Redis, `top` its last id,
`now` the wall clock. The pool has one connection behind a mutex, so a call is one atomic step,
and the operators are used inside the actions of the caller. Redis itself is external.

**OperatorNode** models `handle_connection`, `handle_dispatchjobs` and `do_job` in
`msg_handler.rs`, with `sinker_job`. `main`, `rtask` and `stask[e]` are the program counters of
the connection loop, the receiving task and the consumer of connection (epoch) `e`; `held[e]` is
the entry a consumer has in its hand; `link[e]` the connection. One action per step between two
awaits: for the consumer `consume`, `do_job_result` / `do_job_err` / `do_job_panics`,
`sinker_job`, `job_result`, `s_acknowledge`. `select_r_task` leaves `stask` alone, which is how a
consumer is left behind. A crash or an exit resets everything but the stream, the table and the
histories (`added`, `handled`, `oks`, `answered`, `reported`, `faulted`), and `start` begins again. What a
call to Redis does when it fails is left open: it may have been carried out or not. The payload
of a job is abstracted to what it parses to (`Kind`). How the result of a job comes about is left
open here: any job may succeed or fail.

**JobLog** is the abstract specification: entries are accepted with growing ids, handled in order
at least once, and forgotten only after that. `KeepsJobLog` is the refinement.

**DoJob** models `do_job`, `do_opml_job`, `do_tee_job` and `compute_vrf` for several consumers.
`pc[t]` is where the call `t` is and `owner[t]` who makes it; `seen[t]` what the contract said,
`polls[t]` is `retry_send_count`, `working` what the worker works on. Three of its labels are
requests without a timeout, which may never come back (`Untimed`): "vrf", the call to the contract,
"status", the GET of the worker's status, and "post", the POST of the question. Its outcomes "result" and
"err" are the steps `do_job_result` and `do_job_err` of OperatorNode; an empty request panics
before any of this. `Threshold` is the arithmetic of `compute_vrf` in hundredths: the cast to
`u64` cuts off and saturates. The code computes in `f64`, whose rounding is monotone, so the order
of two thresholds, all that is claimed here, is not affected. The contract keeps
`start < end <= MAX_RANGE` and answers (0, 0) for an operator it does not know; that is the
assumption on `Ranges`. The number a prompt gives is an input (`random`). The worker is external:
it says whether it has room, works, answers or not, and may be down.

**VerifyHub** models the question handlers and the callbacks. The tokio lock is a queue of
requests (`queue`) granted in order; it appears as held (`writer`, `readers`) only where the code
holds it across an await. A handler goes `lock1 – post – asked – lock2 – await`, and a tee
handler that times out through `lock3`. A callback waits for the lock, looks its channel up and
sends, with the lock in hand, waiting for room. The 600-second layer of the router may drop a
callback that waits, and with it its place in the queue (`Withdraw`) or its hold on the lock.

**WsConnection** models one connection of `crates/websocket/src/lib.rs`. `request_timeout` is cut
where another task can get in between: `sign`, `clone_core`, `register`, `send`, then `wake` or
`await_timeout`, and `leave` (the drop helper). The receiver answers a ping with a pong, under the
lock of the sink and without a timeout, so it may hang there (`recv_ping`, `pong_ok`, `pong_err`)
and keep every send and the closing of the sink waiting (`SinkFree`). `close` takes the core and drains the callback
map in one step, because the guard of the core's mutex lives to the end of the `if let`.
**RpcCalls** is the abstract specification, with no tasks, channels or map: a call has one verdict,
and Ok exactly if its own response was heard before the connection was closed, its time was up or
its request could not be sent; a call whose request is out is never forgotten by a close.
`KeepsRpc` is the refinement: until a call has left, its verdict is what its channel holds.
OperatorNode sees a connection only as open or closed; `ReceiverFindsOut` is what justifies its
assumption that a receiving task on a closed connection ends.

**NodeStartup** models a process from the command line to the serving node. `pc[p]` is the step of
`run_cli` that comes next, `hub[p]` its `server::run`, `db` the database on the server ("empty" is
one without tables). Two options decide the way: `-i` goes through `init_db` and `setup_db`,
statement by statement, `-c` through `construct_node_config`, `create_operator`, `Storage::new` and
`initialize_node`; an error at any of them ends the process. Only Postgres is modelled, because
only its driver and Sqlite's are built in and `init_db` cannot name a Sqlite file. Three facts of
the code show here and in no test. A connection string with parameters is not shortened to its
server, so the first connection is to the database itself and its DROP is always refused. Postgres
refuses a DROP only while someone is connected, and a node's pool need not keep a connection: with
`min_connect_pool` 0 it lets idle and old ones go (`pool_lets_go`, `held`), so another set-up may
drop the database under an idle node, and no property says that a node keeps its tables. And
`Storage::new` does not look for tables, so a node that starts while another
process sets up, and is killed half-way, serves on an empty database.

**OrdinaryClock** holds the operations of the vector clock as operators: a clock is a function from
a set of ids, so that a missing entry and a zero one differ as they do in the map. `merge_all` is
what folding `merge` comes to (proved). **ClockExchange** lets processes stamp events with it; every
stamp carries, as history, the set of events behind it, and any set of earlier stamps may come in
with an event, so messages are lost, late, repeated and reordered. When a counter is about to wrap
the history says so (`overflowed`) and the behaviour ends.

**RwShare** models `share_ref` and `share_mut` as attempts of threads at one lock, with the two
rules of `parking_lot` that matter: a waiting writer keeps fair readers out, and recursive readers
only when no reader is in. A timeout may fire at any moment after the thread was parked, which
covers every ratio of the four durations.

**EcVrf** is `prove`, `verify_proof`, the bytes of a proof and `run_vrf` over an abstract group,
abstract hash functions and an abstract encoding; the assumptions are what `curve25519-dalek`
guarantees. **EthSignature** has the five forms in which the repository passes a recoverable
signature around, **CryptoProvider** the three schemes of `Crypto`, **WireMessages** what
`request`, `response` and `recv_inner` do with hash and signature. `recv_inner` does not decide by
them: it computes for a request whether the signature is valid (`is_valid`) and what the hash
should be, drops both, and hands the message on; a response it does not check at all; and
`verify_signature` panics when the signature cannot be read. **SignedTraffic** puts all of it
under way: items are made, changed and converted in any order, and carry who made them of what.

Definitions named `M_...` are mutants: what the code would do with a plausible bug. Each replaces
the definition that follows it in one check of one property, which must then fail.

## Runs

| run | checks | bounds |
|---|---|---|
| `node_safety` | `NoEntryLost`, `HandledInOrder`, `ReportedIsStored`, `SuccessMeansQueued`, `KeepsJobLog` | 2 payloads (one unparsable), 2 dispatches, 2 connections, 2 failures of any kind, retry limit 1 with 2 failed attempts |
| `node_liveness` | `QueueDrains`, `Reconnects`, `AnsweredIsHandled` | every kind of payload, 2 dispatches, 2 connections, 1 failure of Redis or the clock, retry limit 1 with 2 failed attempts, so that the counter is at its limit |
| `job_selection` | `NoUnderflow`, `ClockFollows`, `EscalationKeepsSelection` | 2 jobs out of 8 that reach every branch, 4 ranges (unregistered, bottom, middle, top), 2 maxima, widths of 105 and 9 instead of 2^64 and 2^32 |
| `job_worker` | `LoadBounded`, `JobsEnd` | 3 jobs, 2 consumers, room for one question, 2 polls instead of 600 |
| `hub` | `LockHasHolder`, `NoOpmlLockCycle`, `LockMoves`, `QuestionsReturn` | one opml and one tee question, 2 answers each, endless registrations and heart beats of a worker |
| `websocket` | `NoCallbackLeak`, `NoLostWakeup`, `KeepsRpc`, `RequestsReturn`, `ReceiverFindsOut` | 3 requests |
| `startup` | `SetupMeansWhole`, `HubBeforeJobs`, `StartsOrEnds`, `SettingUpAgainWorks` | 2 processes, each started twice with any of 16 command lines, 2 failing calls or kills |
| `clock` | `CountsEvents`, `OrderIsCausality`, `DepComparesOne`, `ReduceIsLamport` | 3 processes, 5 events, counters up to 3, so that one can wrap |
| `rw_share` | `NestedReadersGetThrough`, `CallsReturn` | 3 threads with 2 calls each, nested or not |
| `signing` | `SelectionCheckable`, `FormsKeepSigner`, `VerifyMeansSigned`, `BatchIsOneByOne`, `IntactIsHandedOn` | 2 items under way, lists of up to 2; a group of 40 points with cofactor 8; recovery ids 0 to 2; chain ids on both sides of a `u64` of 8 bits; 2 replicas and one with a random key |

Two properties hold only until the environment fails in a certain way: `ReportedIsStored` until an
insert has failed, `SuccessMeansQueued` and `AnsweredIsHandled` until a call to Redis has failed
or the wall clock was set back. The history variable `faulted` records the kinds of failure so
far, so that other failures, crashes above all, are no excuse.

Why these bounds: two connections are the least with a consumer left behind, and consumers left
behind by several reconnections are interchangeable; two dispatches give an older and a younger
entry in the hands of two consumers; two failures allow one to strike while the first is being
recovered from; two answers to a question are the least that fill a channel and block; two
processes and two kills leave the database dropped, or created and empty, while the other one is
anywhere; three processes are the least for which a clock learns of an event second-hand; three
threads are a nested reader, the writer in between and a reader that comes later; signed items do
not affect each other, except in a batch, which two of them make. The theorems below have no bounds.

Two runs show where the code does not do what a comment or a reply of it says (`findings` in
`PROJECT.json` quotes the lines):

* `node_unreported` – `do_job` returns `Ok` for a result that was lost with its connection, and
  the job is acknowledged;
* `hub_early_answer` – the POST succeeds and the worker calls back before the handler has locked
  the hub a second time: its answer finds no channel, is dropped and acknowledged as stored, and the
  question, which is still under way, has nothing left to wait for but its 600 seconds.

The models show smaller differences too, which have no run of their own because a single step
shows them: the retry limit bounds the delay and not the number of attempts (`backoff`); a request
without parameters panics the consumer instead of being logged (`do_job_panics`); "unique" ids
repeat when the wall clock is set back (`RedisMessage`), which is why `SuccessMeansQueued` excuses
that failure; `recv_inner` makes no use of its own verdict (`recv_inner`); the opml handler leaves
its channel behind (`times_out`).

About the last: the mutant of `NoOpmlLockCycle` puts the clean-up back the way the tee handler
does it, and the run then finds the circular wait that the tee handler has (a second answer holds
the lock and waits for room, the handler waits for the lock). There, only the timeout layer of
the router ends it; without the layer `QuestionsReturn` fails.

## Fairness

`OperatorNode`: the runtime polls every task that can go on (`WF` on the loop, on `r_task` and on
every consumer). `MaxFails` is the assumption that the dispatcher comes back. Nobody is obliged to
start the process again, to send a job or to break a connection, so "the process ends" is an outcome
the liveness properties allow. `DoJob`: every call of `do_job` goes on, except while one of its
requests is out; the worker owes nothing, and which of its answers a poll gets is decided by the
state of the worker, not by fairness.

Four awaits of the code have no timeout, and what is assumed of each is this:

* the call to the contract in `compute_vrf`, the GET of the worker's status and the POST of the
  question: nothing in `DoJob`, where `JobsEnd` says that a call returns or hangs in one of them for
  ever. `QuestionsReturn` in `VerifyHub` assumes that the POST ends, and the liveness of
  `OperatorNode` (`QueueDrains`, `AnsweredIsHandled`) that `do_job` does, which is `JobsEnd` with none
  of the three hanging; everything else in `do_job` is bounded: 600 polls, 600 seconds for the answer,
  50 for the report;
* the pong of the receiver: nothing in `WsConnection`, where `ReceiverFindsOut` says that the receiver
  ends or hangs in a pong on a connection that is up. `Reconnects` in `OperatorNode` assumes that it
  does not hang: the peer takes the pong, or the connection breaks.

`VerifyHub`: handlers, callbacks and timers; the worker owes nothing
but the end of a POST. `WsConnection`: tasks and timers; a peer takes and answers the close frame of a
closed sink, or the connection breaks. `NodeStartup`: a process that was started takes its next
step and its hub is polled; nobody has to start one, and a call to the database answers or fails.
`RwShare`: parked threads wake up and timeouts fire, closures need not return. `ClockExchange` and
`SignedTraffic` have no liveness to speak of.

## Proofs

Checked by TLAPS for every value of the constants, from the assumptions named in the modules
(`...Assumption`), which the runs evaluate on their instances. Most say what a constant is (a set
of ids, a width, a limit). Those that carry weight: the contract keeps `start <= end`
(`DoJobAssumption`); handlers, callbacks and workers are different callers of the hub
(`HubAssumption`); the ids of a clock, `u64`s, are finitely many (`KeysAssumption`, without which
a sum of entries means nothing); the order of secp256k1 is odd, so that a signature and its
mirrored form differ, and what is recovered from a signature is its signer (`EcdsaAssumption`);
the group laws and the encodings of the VRF (`EcVrf`); a message that is hashed does not give the
empty string (`TrafficAssumption`).

* `OperatorNodeProofs`. `NoEntryLost` and `HandledInOrder` are not inductive alone. `TypeInv` adds
  that a busy consumer holds an entry. `QueueInv` adds `IdInv` (ids in `added` are distinct and at
  most `top`), `HoldInv` (everything older than what a consumer holds has been handled: it read
  the oldest entry, only handled entries had left the stream, and later entries are younger) and
  `AckInv` (what is about to be deleted was handled). From it follow `NothingLost`, `InOrder`
  and `Refinement`, the step simulation of `JobLog`. `StoredFirst` needs that a
  consumer about to report has its row, `SuccessIsQueued` that the clock is ahead of `top` when
  `r_task` is about to queue.
* `DoJobProofs`. `NeverUnderflows` and `Escalation` rest on `ThresholdMonotone`: the cast is
  monotone and bounded, a larger percentage moves the ends apart. `VrfInv` carries it to the
  calls: who is selected is who is below the threshold of what it has seen. `LoadIsBounded` is
  inductive only when a consumer that has read "room" counts as load before it asks (`LoadInv`),
  and because a consumer makes one call at a time (`OwnerInv`). `CallsAdvance` is the variant
  behind `JobsEnd`: every step of a call brings it nearer to its end, at most 2 `PollLimit` + 8 steps
  away. `ClockIsSuccessor` needs that the
  guard of `increment_clock` lets nothing through that wraps (`NoWrap`).
* `VerifyHubProofs`. `HubInv`: a channel is in the map only once its handler waits on it, so a
  sending callback's handler is past its lock requests, except for the third, which only tee
  handlers make. Gives `OpmlNeverStuck`. `LockIsHeld` has two halves. Who holds
  the lock is inductive by itself, given where handlers and callbacks can be (`LockInv`): a grant
  finds the lock free, and every way out of an await under the lock, the timeout layer's included,
  gives back what was taken. Who waits for it is `QueueInv`: requesting appends a caller that had no
  place, a grant takes the first, a dropped callback takes out its own, so that waiting and having
  one place in the queue remain the same. `HubInv` and `LockInv` give `OnlyTeeCircle` (`LockMoves`), what
  `QuestionsReturn` needs besides fairness: the lock is never stuck but in the one circle of the
  tee handler.
* `WsConnectionProofs`. `WsInv`: a callback belongs to a call that has registered and not left
  (`OwnerInv`), and a registered call that was not told is in the map (`ReachableInv`). Gives
  `NoLeak` and `Reachable`. `Refinement` needs more: whose request is out is waiting or
  has left (`SentInv`), nobody uses a channel before its callback is in the map (`FreshInv`), and
  a callback still in the map has not been used (`OnceInv`): otherwise a close could overwrite a
  response. `CloseBreaks` shows that closing dooms exactly the calls that wait, each other action
  has its step of `RpcCalls` in `RpcStep`.
* `NodeStartupProofs`. `StartInv`: whoever is connected to the database keeps it from being
  dropped (`Connected`), and who is past the migrations is connected, so what it found whole stays
  whole; the state of the hub is there before `set_hub_state` goes on. Gives `SetupIsWhole` and
  `HubFirst`.
* `RwShareProofs`. `LockInv`: a writer and a reader never hold the lock together, so a recursive
  attempt of a thread with a guard in its hand finds a reader and no writer, is granted and never
  parked; only who is parked panics. Gives `NestedReaders` and `WriterAlone`.
* `SignedTrafficProofs`. `ProofVerifies` is the algebra of the VRF: the two points that
  `verify_proof` computes are the two that `prove` hashed, since multiplication distributes in the
  subgroup, which is where the cofactor puts the hash of the prompt; cutting the challenge to 16
  bytes twice changes nothing. `Checkable` carries it to every reply under way. The other
  theorems say what each conversion and each check does (`ReadBack`, `ChainIdRoundTrip`,
  `WireChecked`, `BatchVerifies`, `PeerBatchVerifies`) and carry it along any sequence of
  conversions: `SignaturesInv` has, for every form, what its bytes look like and what they were
  made of, `VerifiablesInv` and `WiresInv` that an item is a signed one with at most its content
  replaced. `FormsKept` says nothing of a `v` that does not fit its width, nor of recovery ids 2
  and 3, of which a bool keeps one bit; the property says so too.
* `ClockExchangeProofs`. `ClockInv`: every stamp is truthful, which is `CountsEvents` with the
  bound that a clock knows no more events of a process than it has had, and a process knows all of
  its own; without the latter two an increment might skip or repeat a number. The lemmas say what
  `Largest`, `merge_all` and `update` return. `GeIsInclusion` turns the comparison of entries into
  inclusion of pasts, from which `OrderDecides` follows; `DepDecides` does the same for one id.
  `FoldsMerge` justifies `merge_all`. `ReduceCounts` is about a sum over a set, which is defined
  by recursion and would take induction over data. It is proved by a least counterexample instead:
  two functions that both fulfil the recursion agree, because among the sets on which they differ
  one is minimal, strict inclusion of finite sets being well-founded (`FoldIsUnique`); and counting
  the events of the ids in a set fulfils it (`CountFolds`). So `reduce` is the number of events
  behind a clock, and `ReduceGrows` follows, since a larger past has more events.

Only model-checked: what needs fairness (`QueueDrains`, `Reconnects`, `AnsweredIsHandled`,
`JobsEnd`, `QuestionsReturn`, `RequestsReturn`, `ReceiverFindsOut`, `StartsOrEnds`,
`SettingUpAgainWorks`, `CallsReturn`), which is out of the prover's reach; of two of them the part
without fairness is proved (`CallsAdvance`, `OnlyTeeCircle`). All other properties of the passing
runs are theorems. The two runs that find a violation are counterexamples and have no theorem.

## Not modelled

* Hash functions, ECDSA and curve arithmetic are external: the assumptions say what the code uses
  of them. That nobody can make a signature or a VRF proof without the key is not stated.
* `calculate_sha256` of the clock, `sinker_clock`, `get_clocks_counts`, `sign` and `verify` of
  `Server`, the listener side of the websocket and the transaction helpers of the signer: nothing
  in the operator calls them.
* The fields of the configuration, beyond which step refuses them; the parsing of the key and of
  the dispatcher's address at the head of the connection loop, which is assumed to succeed.
* A Redis or Postgres that loses its data. A connection that dies without either side noticing
  stays open in the model until it is noticed; the code sends no pings.
* The result of a job as a value: two runs of a job may give two texts, of which the row keeps the
  first and the dispatcher is told both. No line of the code says which should win.
* The static runtime and the string checks of `crates/tools`, the clients of the contracts beyond
  the range they return, the traits of `crates/vrf` and the build scripts: no state of their own.

## What could come next

1. The outcomes of a job in OperatorNode as an abstraction of DoJob, and the `"asked"` to `"await"`
   part of VerifyHub as an abstraction of DoJob's `wait`, each with its refinement.
2. The variants behind the other liveness properties, as `CallsAdvance` is one behind `JobsEnd`:
   the attempts of `RwShare`, the steps of a start, the entries a consumer has before it.
