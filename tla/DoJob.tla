------------------------------- MODULE DoJob -------------------------------
(***************************************************************************)
(* do_job in detail (operator/runer/src/api/msg_handler.rs): compute_vrf   *)
(* with the range of the contract, the choice of the branch, the polling   *)
(* of the worker's status, the question to the hub and the clock of the    *)
(* result.  OperatorNode has of all this only the outcome: "result" is its *)
(* do_job_result, "err" its do_job_err.                                    *)
(*                                                                         *)
(* A consumer runs one job at a time; there are several consumers when a   *)
(* reconnection has left some behind.  What the hub does with a question   *)
(* is in VerifyHub; here it comes back with the answer or with an error.   *)
(* The worker is outside this repository, and is what the code takes it    *)
(* for: it reports whether it has room for another question.               *)
(***************************************************************************)
EXTENDS Integers, FiniteSets

CONSTANTS
    Tasks,         \* runs of do_job
    Consumers,     \* s_tasks
    Nobody,        \* model value: not taken by a consumer yet
    Dispatches,    \* the jobs that may be dispatched
    NodeType,      \* config.node.node_type
    Ranges,        \* what the contract may answer for this operator
    MaxRanges,     \* MAX_RANGE of the contract, and the default for it
    U64Max, U32Max,
    PollLimit,     \* 600 in the code
    Capacity       \* questions the worker takes at a time

Garbage == -1      \* a clock value that parse::<u32> refuses
NoClock == -2      \* no result yet
NoRange == [start |-> -1, end |-> -1, max |-> -1]

(* The contract keeps start < end <= MAX_RANGE for a registered operator   *)
(* and answers (0, 0) for any other.                                       *)
ASSUME DoJobAssumption ==
    /\ IsFiniteSet(Consumers) /\ Nobody \notin Consumers
    /\ Dispatches \subseteq
         [tag : {"ordinary", "suspicion", "malicious"},
          position : {"before", "after", "other"},
          need : {"opml", "tee", "other"},
          random : Nat,                      \* what the prompt hashes to
          clock : SUBSET (Nat \union {Garbage})]
    /\ Ranges \subseteq {r \in [start : Nat, end : Nat] : r.start <= r.end}
    /\ MaxRanges \subseteq Nat
    /\ U64Max \in Nat /\ U32Max \in Nat
    /\ PollLimit \in Nat /\ Capacity \in Nat \ {0}

VARIABLES
    pc, owner,     \* where every run is, and the consumer that runs it
    job,           \* its params: the first of the request
    seen,          \* history: what the contract said to compute_vrf
    selected,      \* runs whose vrf_result is selected
    polls,         \* retry_send_count
    clk,           \* the clock value its result goes out with
    up,            \* whether the worker's HTTP server answers
    working,       \* questions the worker works on
    replied        \* questions whose answer has reached the hub in time

workerVars == <<up, working, replied>>
vars == <<pc, owner, job, seen, selected, polls, clk, workerVars>>

Final == {"result", "err", "panicked"}

TypeOK ==
    /\ pc \in [Tasks -> {"new", "vrf", "branch", "poll", "status", "ask",
                         "post", "wait", "clock"} \union Final]
    /\ owner \in [Tasks -> Consumers \union {Nobody}]
    /\ job \in [Tasks -> Dispatches]
    /\ seen \in [Tasks -> [start : Nat, end : Nat, max : Nat] \union {NoRange}]
    /\ selected \subseteq Tasks
    /\ polls \in [Tasks -> 0..PollLimit]
    /\ clk \in [Tasks -> Nat \union {NoClock}]
    /\ up \in BOOLEAN
    /\ working \subseteq Tasks /\ replied \subseteq Tasks

-----------------------------------------------------------------------------
(* The range and the threshold.                                            *)

\* Mutant: the arithmetic of u64, which wraps.
M_AsU64_wraps(hundredths) == (hundredths \div 100) % (U64Max + 1)

(* "as u64": the fraction is cut off, and what does not fit saturates.     *)
AsU64(hundredths) ==
    CASE hundredths < 0            -> 0
      [] hundredths > 100 * U64Max -> U64Max
      [] OTHER                     -> hundredths \div 100

\* Mutant: the percentages of "suspicion" and of "malicious" are swapped.
M_Percent_swapped(tag, position) ==
    CASE tag = "suspicion"                           -> 10
      [] tag = "malicious" /\ position = "before" -> 3
      [] tag = "malicious" /\ position = "after"  -> 3
      [] OTHER                                       -> 0

(* By how much of max_range the range is widened at both ends.             *)
Percent(tag, position) ==
    CASE tag = "suspicion"                           -> 3
      [] tag = "malicious" /\ position = "before" -> 10
      [] tag = "malicious" /\ position = "after"  -> 3
      [] OTHER                                       -> 0

Lower(r, percent) == AsU64(100 * r.start - percent * r.max)
Upper(r, percent) == AsU64(100 * r.end + percent * r.max)

Threshold(r, percent) == Upper(r, percent) - Lower(r, percent)

(* What the subtraction leaves when nothing checks it for an underflow.    *)
Wrapped(difference) ==
    IF difference < 0 THEN difference + U64Max + 1 ELSE difference

-----------------------------------------------------------------------------
Goto(t, label) == pc' = [pc EXCEPT ![t] = label]

(* A consumer is free when do_job has returned from what it took before.   *)
Free(c) == \A t \in Tasks : owner[t] = c => pc[t] \in {"result", "err"}

Init ==
    /\ pc = [t \in Tasks |-> "new"]
    /\ owner = [t \in Tasks |-> Nobody]
    /\ job \in [Tasks -> Dispatches]
    /\ seen = [t \in Tasks |-> NoRange]
    /\ selected = {}
    /\ polls = [t \in Tasks |-> 0]
    /\ clk = [t \in Tasks |-> NoClock]
    /\ up = TRUE /\ working = {} /\ replied = {}

call_do_job(t, c) ==
    /\ pc[t] = "new" /\ Free(c)
    /\ Goto(t, "vrf")
    /\ owner' = [owner EXCEPT ![t] = c]
    /\ UNCHANGED <<job, seen, selected, polls, clk, workerVars>>

(* get_range_by_address and, with a default, get_max_range.                *)
ContractAnswers ==
    {[start |-> range.start, end |-> range.end, max |-> max] :
        range \in Ranges, max \in MaxRanges}

(* The last digits of the VRF's output, a number that the prompt and the   *)
(* key determine, against the threshold.                                   *)
meets_threshold(output, threshold) == output < threshold

(* The contract does not answer, or the position is not one that goes with *)
(* "malicious".                                                            *)
compute_vrf_err(t) ==
    /\ pc[t] = "vrf"
    /\ Goto(t, "err")
    /\ UNCHANGED <<owner, job, seen, selected, polls, clk, workerVars>>

(* vrf_threshold is a subtraction of u64s, which panics or wraps when the  *)
(* ends are the wrong way round.                                           *)
compute_vrf(t) ==
    /\ pc[t] = "vrf"
    /\ ~(job[t].tag = "malicious" /\ job[t].position = "other")
    /\ \E r \in ContractAnswers :
         LET threshold == Threshold(r, Percent(job[t].tag, job[t].position))
         IN  /\ seen' = [seen EXCEPT ![t] = r]
             /\ selected' = IF meets_threshold(job[t].random, Wrapped(threshold))
                              THEN selected \union {t} ELSE selected
             /\ \E label \in IF threshold < 0 THEN {"branch", "panicked"}
                                              ELSE {"branch"} : Goto(t, label)
    /\ UNCHANGED <<owner, job, polls, clk, workerVars>>

(* A job for another kind of worker, or one the operator is not selected   *)
(* for, is answered without a worker.                                      *)
chosen(t) ==
    CASE job[t].need # NodeType          -> "clock"
      [] t \notin selected               -> "clock"
      [] job[t].need \in {"opml", "tee"} -> "poll"
      [] OTHER                           -> "err"

branch(t) ==
    /\ pc[t] = "branch"
    /\ Goto(t, chosen(t))
    /\ UNCHANGED <<owner, job, seen, selected, polls, clk, workerVars>>

-----------------------------------------------------------------------------
(* The status of the worker is asked for every ten seconds.                *)

HasRoom == Cardinality(working) < Capacity

poll_limit(t) ==
    /\ pc[t] = "poll" /\ polls[t] >= PollLimit
    /\ Goto(t, "err")
    /\ UNCHANGED <<owner, job, seen, selected, polls, clk, workerVars>>

(* The GET goes out.  Its client has no timeout.                           *)
get_status(t) ==
    /\ pc[t] = "poll" /\ polls[t] < PollLimit
    /\ Goto(t, "status")
    /\ UNCHANGED <<owner, job, seen, selected, polls, clk, workerVars>>

poll_room(t) ==
    /\ pc[t] = "status"
    /\ up /\ HasRoom
    /\ Goto(t, "ask")
    /\ UNCHANGED <<owner, job, seen, selected, polls, clk, workerVars>>

\* Mutant: an attempt is counted only when the status could not be read.
M_poll_again_uncounted(t) ==
    /\ pc[t] = "status"
    /\ ~up \/ ~HasRoom
    /\ polls' = [polls EXCEPT ![t] = IF up THEN @ ELSE @ + 1]
    /\ Goto(t, "poll")
    /\ UNCHANGED <<owner, job, seen, selected, clk, workerVars>>

\* Mutant: a status that could not be read is taken for "free".
M_poll_again_proceeds(t) ==
    /\ pc[t] = "status"
    /\ ~up \/ ~HasRoom
    /\ polls' = [polls EXCEPT ![t] = @ + 1]
    /\ Goto(t, IF up THEN "poll" ELSE "ask")
    /\ UNCHANGED <<owner, job, seen, selected, clk, workerVars>>

(* The GET fails, or the worker has no room: wait and count.               *)
poll_again(t) ==
    /\ pc[t] = "status"
    /\ ~up \/ ~HasRoom
    /\ polls' = [polls EXCEPT ![t] = @ + 1]
    /\ Goto(t, "poll")
    /\ UNCHANGED <<owner, job, seen, selected, clk, workerVars>>

(* The question goes out, on a status that may be out of date.             *)
ask(t) ==
    /\ pc[t] = "ask"
    /\ Goto(t, "post")
    /\ working' = IF up THEN working \union {t} ELSE working
    /\ UNCHANGED <<owner, job, seen, selected, polls, clk, up, replied>>

(* The POST comes back and the hub waits for the answer; one that came     *)
(* before finds nobody waiting.                                            *)
posted(t) ==
    /\ pc[t] = "post"
    /\ Goto(t, "wait")
    /\ UNCHANGED <<owner, job, seen, selected, polls, clk, workerVars>>

answered(t) ==
    /\ pc[t] = "wait" /\ t \in replied
    /\ Goto(t, "clock")
    /\ UNCHANGED <<owner, job, seen, selected, polls, clk, workerVars>>

(* The POST failed, or the hub has waited 600 seconds.  The worker is not  *)
(* told and works on.                                                      *)
question_err(t) ==
    /\ pc[t] \in {"post", "wait"}
    /\ Goto(t, "err")
    /\ UNCHANGED <<owner, job, seen, selected, polls, clk, workerVars>>

(* The clock of the result: any one entry of the job's clock, plus one.    *)
(* Without an entry, or with one that is no u32 or the last u32, there is  *)
(* no result, whatever the worker has done for it.                         *)
\* Mutant: a wrapping addition.
M_Counts_wrapping(v) == v # Garbage /\ v <= U32Max

Counts(v) == v # Garbage /\ v < U32Max

increment_clock(t) ==
    /\ pc[t] = "clock"
    /\ \E v \in job[t].clock :
         Counts(v) /\ clk' = [clk EXCEPT ![t] = (v + 1) % (U32Max + 1)]
    /\ Goto(t, "result")
    /\ UNCHANGED <<owner, job, seen, selected, polls, workerVars>>

increment_clock_err(t) ==
    /\ pc[t] = "clock"
    /\ job[t].clock = {} \/ \E v \in job[t].clock : ~Counts(v)
    /\ Goto(t, "err")
    /\ UNCHANGED <<owner, job, seen, selected, polls, clk, workerVars>>

-----------------------------------------------------------------------------
(* The worker.                                                             *)

worker_answers(t) ==
    /\ up /\ t \in working
    /\ working' = working \ {t}
    /\ replied' = IF pc[t] = "wait" THEN replied \union {t} ELSE replied
    /\ UNCHANGED <<pc, owner, job, seen, selected, polls, clk, up>>

worker_goes_down_or_up ==
    /\ up' = ~up
    /\ UNCHANGED <<pc, owner, job, seen, selected, polls, clk, working, replied>>

-----------------------------------------------------------------------------
do_job(t) ==
    \/ compute_vrf(t) \/ compute_vrf_err(t)
    \/ branch(t)
    \/ poll_limit(t) \/ get_status(t) \/ poll_room(t) \/ poll_again(t)
    \/ ask(t) \/ posted(t) \/ answered(t) \/ question_err(t)
    \/ increment_clock(t) \/ increment_clock_err(t)

Next ==
    \/ \E t \in Tasks, c \in Consumers : call_do_job(t, c)
    \/ \E t \in Tasks : do_job(t) \/ worker_answers(t)
    \/ worker_goes_down_or_up

Spec == Init /\ [][Next]_vars

(* The runtime polls what can go on, and timers fire.  Three requests have *)
(* no timeout and may hang: the call to the contract, the GET of the       *)
(* worker's status and the POST of the question.                           *)
Untimed == {"vrf", "status", "post"}

Fairness == \A t \in Tasks : WF_vars(pc[t] \notin Untimed /\ do_job(t))

FairSpec == Spec /\ Fairness

-----------------------------------------------------------------------------
(* The subtraction of vrf_threshold never panics or wraps: for every tag   *)
(* the widened and saturated range has its ends the right way round.       *)
NoUnderflow ==
    \A t \in Tasks : seen[t] # NoRange =>
        /\ pc[t] # "panicked"
        /\ Threshold(seen[t], Percent(job[t].tag, job[t].position)) >= 0

(* An operator that is selected for a prompt stays selected when the same  *)
(* prompt comes back under more suspicion, as long as the contract gives   *)
(* the same range: widening, cutting off and saturating never make the     *)
(* threshold smaller.                                                      *)
Severity(j) ==
    CASE j.tag = "malicious" /\ j.position = "before" -> 2
      [] j.tag = "ordinary"                            -> 0
      [] OTHER                                         -> 1

EscalationKeepsSelection ==
    \A t, u \in Tasks :
        (/\ seen[t] # NoRange /\ seen[t] = seen[u]
         /\ job[t].random = job[u].random
         /\ Severity(job[t]) <= Severity(job[u])
         /\ t \in selected)
            => u \in selected

(* The dispatcher orders results by their clock: whatever becomes of the   *)
(* worker, a result goes out with the successor of an entry of its job's   *)
(* clock, in no result the counter has wrapped, and a job that is run a    *)
(* second time, after a crash or by a consumer left behind, comes back     *)
(* with the clock of the first when there was one entry to count.          *)
ClockFollows ==
    \A t \in Tasks : pc[t] = "result" =>
        /\ \E v \in job[t].clock : clk[t] = v + 1
        /\ clk[t] \in 1..U32Max
        /\ \A u \in Tasks :
             /\ pc[u] = "result" /\ job[u] = job[t]
             /\ \E v \in job[t].clock : job[t].clock = {v}
             => clk[u] = clk[t]

(* The worker has never more questions than it has room for and, on top,   *)
(* one for every other consumer, which may have read the same status:      *)
(* questions that timed out and are still worked on do not pile up.        *)
LoadBounded ==
    Cardinality(working) <= Capacity + Cardinality(Consumers) - 1

(* Every call of do_job returns, also when the worker is full or down for  *)
(* ever, unless one of its requests without a timeout is never answered:   *)
(* nothing else holds a consumer for ever, the polling included.           *)
JobsEnd ==
    \A t \in Tasks :
        pc[t] = "vrf" ~>
            (pc[t] \in Final \/ \E request \in Untimed : [](pc[t] = request))
=============================================================================
