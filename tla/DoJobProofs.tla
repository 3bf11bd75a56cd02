---------------------------- MODULE DoJobProofs ----------------------------
(***************************************************************************)
(* Proofs about DoJob, for every range, limit and number of consumers.     *)
(***************************************************************************)
EXTENDS DoJob, FiniteSetTheorems, TLAPS

USE DoJobAssumption

(* What the contract may say.                                              *)
Answers == {r \in [start : Nat, end : Nat, max : Nat] : r.start <= r.end}

-----------------------------------------------------------------------------
(* The arithmetic of the threshold.                                        *)

LEMMA AsU64Monotone ==
    ASSUME NEW a \in Int, NEW b \in Int, a <= b
    PROVE  /\ AsU64(a) \in 0..U64Max
           /\ AsU64(a) <= AsU64(b)
<1>1. \A x \in Int : 0 <= x /\ x <= 100 * U64Max => x \div 100 \in 0..U64Max
  OBVIOUS
<1>2. AsU64(a) \in 0..U64Max /\ AsU64(b) \in 0..U64Max
  BY <1>1 DEF AsU64
<1>3. a \div 100 <= b \div 100
  OBVIOUS
<1> QED
  BY <1>2, <1>3 DEF AsU64

LEMMA PercentValues ==
    ASSUME NEW tag, NEW position
    PROVE  Percent(tag, position) \in {0, 3, 10}
  BY DEF Percent

(* A wider percentage never gives a smaller threshold, and a threshold is  *)
(* never negative and fits its width.                                      *)
LEMMA ThresholdMonotone ==
    ASSUME NEW r \in Answers, NEW p \in {0, 3, 10}, NEW q \in {0, 3, 10}, p <= q
    PROVE  /\ Threshold(r, p) \in 0..U64Max
           /\ Threshold(r, p) <= Threshold(r, q)
<1> DEFINE lo(x) == 100 * r.start - x * r.max
           hi(x) == 100 * r.end + x * r.max
<1>1. r.start \in Nat /\ r.end \in Nat /\ r.max \in Nat /\ r.start <= r.end
  BY DEF Answers
<1>2. p * r.max \in Nat /\ q * r.max \in Nat /\ p * r.max <= q * r.max
  BY <1>1
<1>3. /\ lo(p) \in Int /\ lo(q) \in Int /\ hi(p) \in Int /\ hi(q) \in Int
      /\ lo(q) <= lo(p) /\ lo(p) <= hi(p) /\ hi(p) <= hi(q)
  <2>1. \A s, e, m, n \in Nat : s <= e /\ m <= n =>
          /\ 100 * s - m \in Int /\ 100 * e + m \in Int
          /\ 100 * s - n <= 100 * s - m
          /\ 100 * s - m <= 100 * e + m
          /\ 100 * e + m <= 100 * e + n
    OBVIOUS
  <2> DEFINE mp == p * r.max
             mq == q * r.max
  <2>2. mp \in Nat /\ mq \in Nat /\ mp <= mq
    BY <1>2
  <2>3. /\ lo(p) = 100 * r.start - mp /\ lo(q) = 100 * r.start - mq
        /\ hi(p) = 100 * r.end + mp /\ hi(q) = 100 * r.end + mq
    OBVIOUS
  <2> HIDE DEF lo, hi, mp, mq
  <2> QED
    BY <1>1, <2>1, <2>2, <2>3
<1> HIDE DEF lo, hi
<1>4. /\ AsU64(lo(q)) \in 0..U64Max /\ AsU64(lo(q)) <= AsU64(lo(p))
      /\ AsU64(lo(p)) \in 0..U64Max /\ AsU64(lo(p)) <= AsU64(hi(p))
      /\ AsU64(hi(p)) \in 0..U64Max /\ AsU64(hi(p)) <= AsU64(hi(q))
      /\ AsU64(hi(q)) \in 0..U64Max
  BY <1>3, AsU64Monotone
<1>5. /\ Threshold(r, p) = AsU64(hi(p)) - AsU64(lo(p))
      /\ Threshold(r, q) = AsU64(hi(q)) - AsU64(lo(q))
  BY DEF Threshold, Lower, Upper, lo, hi
<1> QED
  BY <1>4, <1>5

-----------------------------------------------------------------------------
(* Selection.                                                              *)

(* The tags and positions compute_vrf goes on with.                        *)
Supported(j) == ~(j.tag = "malicious" /\ j.position = "other")

(* Every run that has its range was selected by exactly the test           *)
(* random < threshold, and did not panic.                                  *)
VrfInv ==
    /\ job \in [Tasks -> Dispatches]
    /\ seen \in [Tasks -> Answers \union {NoRange}]
    /\ selected \subseteq Tasks
    /\ pc \in [Tasks -> {"new", "vrf", "branch", "poll", "status", "ask",
                         "post", "wait", "clock"} \union Final]
    /\ \A t \in Tasks :
         /\ pc[t] \in {"new", "vrf"} => seen[t] = NoRange /\ t \notin selected
         /\ pc[t] # "panicked"
         /\ seen[t] # NoRange =>
              /\ Supported(job[t])
              /\ (t \in selected <=>
                    job[t].random
                      < Threshold(seen[t], Percent(job[t].tag, job[t].position)))

LEMMA ChosenLabels == \A t \in Tasks : chosen(t) \in {"clock", "poll", "err"}
  BY DEF chosen

LEMMA VrfInvInit == Init => VrfInv
  BY DEF Init, VrfInv, Final

LEMMA VrfInvStep == VrfInv /\ [Next]_vars => VrfInv'
<1> SUFFICES ASSUME VrfInv, [Next]_vars PROVE VrfInv'
  OBVIOUS
<1> USE DEF VrfInv, Final, Goto
<1>1. ASSUME NEW t \in Tasks, NEW c \in Consumers, call_do_job(t, c) PROVE VrfInv'
  BY <1>1 DEF call_do_job
<1>2. ASSUME NEW t \in Tasks, compute_vrf(t) PROVE VrfInv'
  <2>1. PICK r \in ContractAnswers :
          LET threshold == Threshold(r, Percent(job[t].tag, job[t].position))
          IN  /\ seen' = [seen EXCEPT ![t] = r]
              /\ selected' = IF meets_threshold(job[t].random, Wrapped(threshold))
                               THEN selected \union {t} ELSE selected
              /\ \E label \in IF threshold < 0 THEN {"branch", "panicked"}
                                               ELSE {"branch"} : Goto(t, label)
    BY <1>2 DEF compute_vrf
  <2> DEFINE th == Threshold(r, Percent(job[t].tag, job[t].position))
  <2>2. r \in Answers
    <3>1. PICK range \in Ranges, max \in MaxRanges :
            r = [start |-> range.start, end |-> range.end, max |-> max]
      BY DEF ContractAnswers
    <3>2. range.start \in Nat /\ range.end \in Nat /\ range.start <= range.end
          /\ max \in Nat
      OBVIOUS
    <3> QED
      BY <3>1, <3>2 DEF Answers
  <2>3. th \in 0..U64Max
    BY <2>2, PercentValues, ThresholdMonotone
  <2>4. Wrapped(th) = th /\ ~(th < 0)
    BY <2>3 DEF Wrapped
  <2> HIDE DEF th
  <2>5. /\ seen' = [seen EXCEPT ![t] = r]
        /\ selected' = IF job[t].random < th THEN selected \union {t} ELSE selected
        /\ pc' = [pc EXCEPT ![t] = "branch"]
    <3>1. /\ seen' = [seen EXCEPT ![t] = r]
          /\ selected' = IF job[t].random < Wrapped(th) THEN selected \union {t} ELSE selected
          /\ \E label \in IF th < 0 THEN {"branch", "panicked"}
                                    ELSE {"branch"} : pc' = [pc EXCEPT ![t] = label]
      BY <2>1 DEF th, meets_threshold
    <3> QED
      BY <2>4, <3>1
  <2>6. job' = job /\ pc[t] = "vrf" /\ t \notin selected /\ Supported(job[t])
    BY <1>2 DEF compute_vrf, Supported
  <2>7. seen'[t] = r /\ r # NoRange
    BY <2>5, <2>2 DEF NoRange, Answers
  <2>8. t \in selected' <=> job'[t].random < Threshold(seen'[t], Percent(job'[t].tag, job'[t].position))
    BY <2>5, <2>6, <2>7 DEF th
  <2>9. \A u \in Tasks : u # t => /\ seen'[u] = seen[u] /\ pc'[u] = pc[u]
                                  /\ (u \in selected' <=> u \in selected)
    BY <2>5
  <2>10. /\ seen' \in [Tasks -> Answers \union {NoRange}] /\ selected' \subseteq Tasks
         /\ pc' \in [Tasks -> {"new", "vrf", "branch", "poll", "status", "ask",
                              "post", "wait", "clock"} \union Final]
    BY <2>2, <2>5
  <2>11. pc'[t] = "branch"
    BY <2>5
  <2> QED
    BY <2>6, <2>8, <2>9, <2>10, <2>11
<1>3. ASSUME NEW t \in Tasks, compute_vrf_err(t) PROVE VrfInv'
  BY <1>3 DEF compute_vrf_err
<1>4. ASSUME NEW t \in Tasks, branch(t) PROVE VrfInv'
  <2>1. pc' = [pc EXCEPT ![t] = chosen(t)] /\ UNCHANGED <<job, seen, selected>>
    BY <1>4 DEF branch
  <2> QED
    BY <1>4, <2>1, ChosenLabels DEF branch
<1>5. ASSUME NEW t \in Tasks, poll_limit(t) PROVE VrfInv'
  BY <1>5 DEF poll_limit
<1>6. ASSUME NEW t \in Tasks, poll_room(t) PROVE VrfInv'
  BY <1>6 DEF poll_room
<1>7. ASSUME NEW t \in Tasks, poll_again(t) PROVE VrfInv'
  BY <1>7 DEF poll_again
<1>8. ASSUME NEW t \in Tasks, ask(t) PROVE VrfInv'
  BY <1>8 DEF ask
<1>9. ASSUME NEW t \in Tasks, answered(t) PROVE VrfInv'
  BY <1>9 DEF answered
<1>10. ASSUME NEW t \in Tasks, question_err(t) PROVE VrfInv'
  BY <1>10 DEF question_err
<1>11. ASSUME NEW t \in Tasks, increment_clock(t) PROVE VrfInv'
  BY <1>11 DEF increment_clock
<1>12. ASSUME NEW t \in Tasks, increment_clock_err(t) PROVE VrfInv'
  BY <1>12 DEF increment_clock_err
<1>13. ASSUME NEW t \in Tasks, worker_answers(t) PROVE VrfInv'
  BY <1>13 DEF worker_answers
<1>14. CASE worker_goes_down_or_up
  BY <1>14 DEF worker_goes_down_or_up
<1>15. CASE UNCHANGED vars
  BY <1>15 DEF vars
<1>16. ASSUME NEW t \in Tasks, get_status(t) PROVE VrfInv'
  BY <1>16 DEF get_status
<1>17. ASSUME NEW t \in Tasks, posted(t) PROVE VrfInv'
  BY <1>17 DEF posted
<1> QED
  BY <1>1, <1>2, <1>3, <1>4, <1>5, <1>6, <1>7, <1>8, <1>9, <1>10, <1>11,
     <1>12, <1>13, <1>14, <1>15, <1>16, <1>17 DEF Next, do_job

LEMMA VrfInvariance == Spec => []VrfInv
  BY VrfInvInit, VrfInvStep, PTL DEF Spec

(* Whatever range the contract gives, the threshold of no tag underflows,  *)
(* and compute_vrf does not panic.                                         *)
THEOREM NeverUnderflows == Spec => []NoUnderflow
<1>1. VrfInv => NoUnderflow
  <2> SUFFICES ASSUME VrfInv, NEW t \in Tasks, seen[t] # NoRange
               PROVE  /\ pc[t] # "panicked"
                      /\ Threshold(seen[t], Percent(job[t].tag, job[t].position)) >= 0
    BY DEF NoUnderflow
  <2>1. seen[t] \in Answers
    BY DEF VrfInv
  <2>2. Threshold(seen[t], Percent(job[t].tag, job[t].position)) \in 0..U64Max
    BY <2>1, PercentValues, ThresholdMonotone
  <2> QED
    BY <2>2 DEF VrfInv
<1> QED
  BY VrfInvariance, <1>1, PTL

(* More suspicion never deselects an operator whose range is unchanged.    *)
THEOREM Escalation == Spec => []EscalationKeepsSelection
<1>1. VrfInv => EscalationKeepsSelection
  <2> SUFFICES ASSUME VrfInv, NEW t \in Tasks, NEW u \in Tasks,
                      seen[t] # NoRange, seen[t] = seen[u],
                      job[t].random = job[u].random,
                      Severity(job[t]) <= Severity(job[u]),
                      t \in selected
               PROVE  u \in selected
    BY DEF EscalationKeepsSelection
  <2> DEFINE p == Percent(job[t].tag, job[t].position)
             q == Percent(job[u].tag, job[u].position)
  <2>1. seen[t] \in Answers /\ job[t].random \in Nat
    BY DEF VrfInv
  <2>2. p \in {0, 3, 10} /\ q \in {0, 3, 10}
    BY PercentValues
  <2>3. job[t] \in Dispatches /\ job[u] \in Dispatches
    BY DEF VrfInv
  <2>4. CASE p <= q
    <3>1. /\ Threshold(seen[t], p) \in Int /\ Threshold(seen[t], q) \in Int
          /\ Threshold(seen[t], p) <= Threshold(seen[t], q)
      BY <2>1, <2>2, <2>4, ThresholdMonotone
    <3>2. job[t].random < Threshold(seen[t], p)
      BY DEF VrfInv
    <3> HIDE DEF p, q
    <3>3. job[u].random < Threshold(seen[u], q)
      BY <2>1, <3>1, <3>2
    <3> QED
      BY <3>3 DEF VrfInv, q
  <2>5. CASE ~(p <= q)
    <3>1. \A j \in Dispatches : Supported(j) =>
            \/ Severity(j) = 2 /\ Percent(j.tag, j.position) = 10
            \/ Severity(j) = 1 /\ Percent(j.tag, j.position) = 3
            \/ Severity(j) = 0 /\ Percent(j.tag, j.position) = 0
      BY DEF Severity, Percent, Supported
    <3>2. Supported(job[t]) /\ Supported(job[u])
      BY DEF VrfInv
    <3> QED
      BY <2>3, <2>5, <3>1, <3>2
  <2> QED
    BY <2>4, <2>5
<1> QED
  BY VrfInvariance, <1>1, PTL
-----------------------------------------------------------------------------
(* The load of the worker.                                                 *)

(* Consumers that have read that there is room and have not asked yet.     *)
Asking == {c \in Consumers : \E t \in Tasks : owner[t] = c /\ pc[t] = "ask"}

(* A consumer is in one call of do_job at a time.                          *)
OwnerInv ==
    /\ pc \in [Tasks -> {"new", "vrf", "branch", "poll", "status", "ask",
                         "post", "wait", "clock"} \union Final]
    /\ owner \in [Tasks -> Consumers \union {Nobody}]
    /\ \A t \in Tasks : pc[t] = "new" <=> owner[t] = Nobody
    /\ \A t, u \in Tasks :
         owner[t] = owner[u] /\ owner[t] # Nobody
           /\ pc[t] \notin {"result", "err"} /\ pc[u] \notin {"result", "err"}
             => t = u

(* Whoever is about to ask counts as load already: when it read that there *)
(* was room, at most Capacity - 1 questions were with the worker and at    *)
(* most the other consumers were about to ask.                             *)
LoadInv ==
    /\ OwnerInv
    /\ IsFiniteSet(working)
    /\ Cardinality(working) + Cardinality(Asking)
         <= Capacity + Cardinality(Consumers) - 1

LEMMA AskingFinite ==
    /\ IsFiniteSet(Asking) /\ Cardinality(Asking) \in Nat
    /\ Cardinality(Asking) <= Cardinality(Consumers)
    /\ Cardinality(Consumers) \in Nat
<1>1. Asking \subseteq Consumers
  BY DEF Asking
<1> QED
  BY <1>1, FS_Subset, FS_CardinalityType

LEMMA AskingFiniteNext ==
    /\ IsFiniteSet(Asking') /\ Cardinality(Asking') \in Nat
    /\ Cardinality(Asking') <= Cardinality(Consumers)
<1>1. Asking' \subseteq Consumers
  BY DEF Asking
<1> QED
  BY <1>1, FS_Subset, FS_CardinalityType

(* A step that makes nobody ask and gives the worker nothing.              *)
LEMMA NoMoreLoad ==
    ASSUME LoadInv, OwnerInv', Asking' \subseteq Asking, working' \subseteq working
    PROVE  LoadInv'
<1>1. IsFiniteSet(working) /\ IsFiniteSet(Asking)
  BY AskingFinite DEF LoadInv
<1>2. IsFiniteSet(working') /\ Cardinality(working') <= Cardinality(working)
  BY <1>1, FS_Subset
<1>3. Cardinality(Asking') <= Cardinality(Asking)
  BY <1>1, FS_Subset
<1>4. /\ Cardinality(working') \in Nat /\ Cardinality(working) \in Nat
      /\ Cardinality(Asking') \in Nat /\ Cardinality(Asking) \in Nat
      /\ Cardinality(Consumers) \in Nat
  BY <1>1, <1>2, AskingFinite, AskingFiniteNext, FS_CardinalityType
<1>5. Cardinality(working) + Cardinality(Asking) <= Capacity + Cardinality(Consumers) - 1
  BY DEF LoadInv
<1>6. Cardinality(working') + Cardinality(Asking') <= Capacity + Cardinality(Consumers) - 1
  BY <1>2, <1>3, <1>4, <1>5
<1> QED
  BY <1>2, <1>6 DEF LoadInv

LEMMA LoadInvInit == Init => LoadInv
<1> SUFFICES ASSUME Init PROVE LoadInv
  OBVIOUS
<1>1. OwnerInv
  BY DEF Init, OwnerInv, Final
<1>2. Asking = {} /\ working = {}
  BY DEF Init, Asking
<1>3. Cardinality(Consumers) \in Nat
  BY FS_CardinalityType
<1> QED
  BY <1>1, <1>2, <1>3, FS_EmptySet DEF LoadInv

LEMMA OwnerInvStep == OwnerInv /\ [Next]_vars => OwnerInv'
<1> SUFFICES ASSUME OwnerInv, [Next]_vars PROVE OwnerInv'
  OBVIOUS
<1> USE DEF OwnerInv, Final, Goto
<1>1. ASSUME NEW t \in Tasks, NEW c \in Consumers, call_do_job(t, c) PROVE OwnerInv'
  BY <1>1 DEF call_do_job, Free
<1>2. ASSUME NEW t \in Tasks, compute_vrf(t) PROVE OwnerInv'
  <2>1. PICK label \in {"branch", "panicked"} : pc' = [pc EXCEPT ![t] = label]
    BY <1>2 DEF compute_vrf
  <2>2. pc[t] = "vrf" /\ owner' = owner
    BY <1>2 DEF compute_vrf
  <2> QED
    BY <2>1, <2>2
<1>3. ASSUME NEW t \in Tasks, compute_vrf_err(t) PROVE OwnerInv'
  BY <1>3 DEF compute_vrf_err
<1>4. ASSUME NEW t \in Tasks, branch(t) PROVE OwnerInv'
  <2>1. PICK label \in {"clock", "poll", "err"} : pc' = [pc EXCEPT ![t] = label]
    BY <1>4, ChosenLabels DEF branch
  <2>2. pc[t] = "branch" /\ owner' = owner
    BY <1>4 DEF branch
  <2> QED
    BY <2>1, <2>2
<1>5. ASSUME NEW t \in Tasks, poll_limit(t) PROVE OwnerInv'
  BY <1>5 DEF poll_limit
<1>6. ASSUME NEW t \in Tasks, poll_room(t) PROVE OwnerInv'
  BY <1>6 DEF poll_room
<1>7. ASSUME NEW t \in Tasks, poll_again(t) PROVE OwnerInv'
  BY <1>7 DEF poll_again
<1>8. ASSUME NEW t \in Tasks, ask(t) PROVE OwnerInv'
  BY <1>8 DEF ask
<1>9. ASSUME NEW t \in Tasks, answered(t) PROVE OwnerInv'
  BY <1>9 DEF answered
<1>10. ASSUME NEW t \in Tasks, question_err(t) PROVE OwnerInv'
  BY <1>10 DEF question_err
<1>11. ASSUME NEW t \in Tasks, increment_clock(t) PROVE OwnerInv'
  BY <1>11 DEF increment_clock
<1>12. ASSUME NEW t \in Tasks, increment_clock_err(t) PROVE OwnerInv'
  BY <1>12 DEF increment_clock_err
<1>13. ASSUME NEW t \in Tasks, worker_answers(t) PROVE OwnerInv'
  BY <1>13 DEF worker_answers
<1>14. CASE worker_goes_down_or_up
  BY <1>14 DEF worker_goes_down_or_up
<1>15. CASE UNCHANGED vars
  BY <1>15 DEF vars
<1>16. ASSUME NEW t \in Tasks, get_status(t) PROVE OwnerInv'
  BY <1>16 DEF get_status
<1>17. ASSUME NEW t \in Tasks, posted(t) PROVE OwnerInv'
  BY <1>17 DEF posted
<1> QED
  BY <1>1, <1>2, <1>3, <1>4, <1>5, <1>6, <1>7, <1>8, <1>9, <1>10, <1>11,
     <1>12, <1>13, <1>14, <1>15, <1>16, <1>17 DEF Next, do_job

LEMMA LoadInvStep == LoadInv /\ [Next]_vars => LoadInv'
<1> SUFFICES ASSUME LoadInv, [Next]_vars PROVE LoadInv'
  OBVIOUS
<1>0. OwnerInv /\ OwnerInv'
  BY OwnerInvStep DEF LoadInv
<1>1. ASSUME NEW t \in Tasks, poll_room(t) PROVE LoadInv'
  <2>1. working' = working /\ Cardinality(working) < Capacity
    BY <1>1 DEF poll_room, HasRoom, workerVars
  <2>2. IsFiniteSet(working) /\ Cardinality(working) \in Nat
    BY FS_CardinalityType DEF LoadInv
  <2> QED
    BY <1>0, <2>1, <2>2, AskingFinite, AskingFiniteNext DEF LoadInv
<1>2. ASSUME NEW t \in Tasks, ask(t) PROVE LoadInv'
  <2> DEFINE c == owner[t]
  <2>1. pc[t] = "ask" /\ c \in Consumers /\ c \in Asking
    BY <1>2, <1>0 DEF ask, OwnerInv, Asking
  <2>2. Asking' = Asking \ {c}
    BY <1>2, <1>0, <2>1 DEF ask, Goto, OwnerInv, Asking, Final
  <2>3. Cardinality(Asking') = Cardinality(Asking) - 1
    BY <2>1, <2>2, AskingFinite, FS_RemoveElement
  <2>4. IsFiniteSet(working) /\ Cardinality(working) \in Nat
    BY FS_CardinalityType DEF LoadInv
  <2>5. /\ IsFiniteSet(working \union {t})
        /\ \/ Cardinality(working \union {t}) = Cardinality(working)
           \/ Cardinality(working \union {t}) = Cardinality(working) + 1
    BY <2>4, FS_AddElement
  <2>6. /\ IsFiniteSet(working')
        /\ \/ Cardinality(working') = Cardinality(working)
           \/ Cardinality(working') = Cardinality(working) + 1
    <3>1. CASE working' = working
      BY <2>4, <3>1
    <3>2. CASE working' = working \union {t}
      BY <2>5, <3>2
    <3> QED
      BY <1>2, <3>1, <3>2 DEF ask
  <2>7. Cardinality(working) + Cardinality(Asking) <= Capacity + Cardinality(Consumers) - 1
    BY DEF LoadInv
  <2>8. Cardinality(working') + Cardinality(Asking') <= Capacity + Cardinality(Consumers) - 1
    BY <2>3, <2>4, <2>6, <2>7, AskingFinite
  <2> QED
    BY <1>0, <2>6, <2>8 DEF LoadInv
<1>3. ASSUME NEW t \in Tasks, NEW c \in Consumers, call_do_job(t, c) PROVE LoadInv'
  <2>1. Asking' \subseteq Asking /\ working' = working
    BY <1>0, <1>3 DEF call_do_job, Goto, Asking, OwnerInv, workerVars
  <2> QED
    BY <1>0, <2>1, NoMoreLoad
<1>4. ASSUME NEW t \in Tasks, compute_vrf(t) PROVE LoadInv'
  <2>1. Asking' \subseteq Asking /\ working' = working
    BY <1>0, <1>4 DEF compute_vrf, Goto, Asking, OwnerInv, workerVars
  <2> QED
    BY <1>0, <2>1, NoMoreLoad
<1>5. ASSUME NEW t \in Tasks, compute_vrf_err(t) PROVE LoadInv'
  <2>1. Asking' \subseteq Asking /\ working' = working
    BY <1>0, <1>5 DEF compute_vrf_err, Goto, Asking, OwnerInv, workerVars
  <2> QED
    BY <1>0, <2>1, NoMoreLoad
<1>6. ASSUME NEW t \in Tasks, branch(t) PROVE LoadInv'
  <2>1. Asking' \subseteq Asking /\ working' = working
    BY <1>0, ChosenLabels, <1>6 DEF branch, Goto, Asking, OwnerInv, workerVars
  <2> QED
    BY <1>0, <2>1, NoMoreLoad
<1>7. ASSUME NEW t \in Tasks, poll_limit(t) PROVE LoadInv'
  <2>1. Asking' \subseteq Asking /\ working' = working
    BY <1>0, <1>7 DEF poll_limit, Goto, Asking, OwnerInv, workerVars
  <2> QED
    BY <1>0, <2>1, NoMoreLoad
<1>8. ASSUME NEW t \in Tasks, poll_again(t) PROVE LoadInv'
  <2>1. Asking' \subseteq Asking /\ working' = working
    BY <1>0, <1>8 DEF poll_again, Goto, Asking, OwnerInv, workerVars
  <2> QED
    BY <1>0, <2>1, NoMoreLoad
<1>9. ASSUME NEW t \in Tasks, answered(t) PROVE LoadInv'
  <2>1. Asking' \subseteq Asking /\ working' = working
    BY <1>0, <1>9 DEF answered, Goto, Asking, OwnerInv, workerVars
  <2> QED
    BY <1>0, <2>1, NoMoreLoad
<1>10. ASSUME NEW t \in Tasks, question_err(t) PROVE LoadInv'
  <2>1. Asking' \subseteq Asking /\ working' = working
    BY <1>0, <1>10 DEF question_err, Goto, Asking, OwnerInv, workerVars
  <2> QED
    BY <1>0, <2>1, NoMoreLoad
<1>11. ASSUME NEW t \in Tasks, increment_clock(t) PROVE LoadInv'
  <2>1. Asking' \subseteq Asking /\ working' = working
    BY <1>0, <1>11 DEF increment_clock, Goto, Asking, OwnerInv, workerVars
  <2> QED
    BY <1>0, <2>1, NoMoreLoad
<1>12. ASSUME NEW t \in Tasks, increment_clock_err(t) PROVE LoadInv'
  <2>1. Asking' \subseteq Asking /\ working' = working
    BY <1>0, <1>12 DEF increment_clock_err, Goto, Asking, OwnerInv, workerVars
  <2> QED
    BY <1>0, <2>1, NoMoreLoad
<1>13. ASSUME NEW t \in Tasks, worker_answers(t) PROVE LoadInv'
  <2>1. Asking' \subseteq Asking /\ working' \subseteq working
    BY <1>13 DEF worker_answers, Asking
  <2> QED
    BY <1>0, <2>1, NoMoreLoad
<1>14. CASE worker_goes_down_or_up \/ UNCHANGED vars
  <2>1. Asking' \subseteq Asking /\ working' = working
    BY <1>14 DEF worker_goes_down_or_up, vars, workerVars, Asking
  <2> QED
    BY <1>0, <2>1, NoMoreLoad
<1>15. ASSUME NEW t \in Tasks, get_status(t) PROVE LoadInv'
  <2>1. Asking' \subseteq Asking /\ working' = working
    BY <1>0, <1>15 DEF get_status, Goto, Asking, OwnerInv, workerVars
  <2> QED
    BY <1>0, <2>1, NoMoreLoad
<1>16. ASSUME NEW t \in Tasks, posted(t) PROVE LoadInv'
  <2>1. Asking' \subseteq Asking /\ working' = working
    BY <1>0, <1>16 DEF posted, Goto, Asking, OwnerInv, workerVars
  <2> QED
    BY <1>0, <2>1, NoMoreLoad
<1> QED
  BY <1>1, <1>2, <1>3, <1>4, <1>5, <1>6, <1>7, <1>8, <1>9, <1>10, <1>11,
     <1>12, <1>13, <1>14, <1>15, <1>16 DEF Next, do_job

(* For any number of calls, however long the worker takes and however      *)
(* many of its questions have timed out, it has at most Capacity questions *)
(* and one more for every other consumer.                                  *)
THEOREM LoadIsBounded == Spec => []LoadBounded
<1>1. LoadInv => LoadBounded
  <2> SUFFICES ASSUME LoadInv PROVE LoadBounded
    OBVIOUS
  <2>1. Cardinality(working) \in Nat
    BY FS_CardinalityType DEF LoadInv
  <2> QED
    BY <2>1, AskingFinite DEF LoadInv, LoadBounded
<1> QED
  BY LoadInvInit, LoadInvStep, <1>1, PTL DEF Spec

-----------------------------------------------------------------------------
(* The clock of a result: a run that has one keeps the job it had.  The    *)
(* status is asked for only below the limit, so counting stays within it.  *)
ClockInv ==
    /\ TypeOK
    /\ \A t \in Tasks : pc[t] = "status" => polls[t] < PollLimit
    /\ \A t \in Tasks : pc[t] = "result" =>
         \E v \in job[t].clock : v \in Nat /\ v < U32Max /\ clk[t] = v + 1

(* What the guard lets through does not wrap.                              *)
LEMMA NoWrap == \A v \in Nat : v < U32Max => (v + 1) % (U32Max + 1) = v + 1
<1> TAKE v \in Nat
<1> HAVE v < U32Max
<1> DEFINE n == v + 1
           m == U32Max + 1
<1>1. n \in Nat /\ m \in Nat /\ m > 0 /\ n < m
  BY DoJobAssumption
<1> HIDE DEF n, m
<1>2. n % m = n
  BY <1>1
<1> QED
  BY <1>2 DEF n, m

LEMMA ClockInvStep == ClockInv /\ [Next]_vars => ClockInv'
<1> SUFFICES ASSUME ClockInv, [Next]_vars PROVE ClockInv'
  OBVIOUS
<1> USE DoJobAssumption DEF ClockInv, TypeOK, Final, Goto
<1>1. ASSUME NEW t \in Tasks, NEW c \in Consumers, call_do_job(t, c) PROVE ClockInv'
  BY <1>1 DEF call_do_job, workerVars
<1>2. ASSUME NEW t \in Tasks, compute_vrf(t) PROVE ClockInv'
  <2>1. PICK r \in ContractAnswers : seen' = [seen EXCEPT ![t] = r]
    BY <1>2 DEF compute_vrf
  <2>2. r \in [start : Nat, end : Nat, max : Nat]
    BY <2>1 DEF ContractAnswers
  <2>3. PICK label \in {"branch", "panicked"} : pc' = [pc EXCEPT ![t] = label]
    BY <1>2 DEF compute_vrf
  <2>4. selected' \subseteq Tasks
    <3>1. selected' = selected \/ selected' = selected \union {t}
      BY <1>2 DEF compute_vrf
    <3> QED
      BY <3>1
  <2>5. UNCHANGED <<owner, job, polls, clk, up, working, replied>>
    BY <1>2 DEF compute_vrf, workerVars
  <2> QED
    BY <2>1, <2>2, <2>3, <2>4, <2>5
<1>3. ASSUME NEW t \in Tasks, compute_vrf_err(t) PROVE ClockInv'
  BY <1>3 DEF compute_vrf_err, workerVars
<1>4. ASSUME NEW t \in Tasks, branch(t) PROVE ClockInv'
  <2>1. PICK label \in {"clock", "poll", "err"} : pc' = [pc EXCEPT ![t] = label]
    BY <1>4, ChosenLabels DEF branch
  <2> QED
    BY <1>4, <2>1 DEF branch, workerVars
<1>5. ASSUME NEW t \in Tasks, poll_limit(t) PROVE ClockInv'
  BY <1>5 DEF poll_limit, workerVars
<1>6. ASSUME NEW t \in Tasks, poll_room(t) PROVE ClockInv'
  BY <1>6 DEF poll_room, workerVars
<1>7. ASSUME NEW t \in Tasks, poll_again(t) PROVE ClockInv'
  BY <1>7 DEF poll_again, workerVars
<1>8. ASSUME NEW t \in Tasks, ask(t) PROVE ClockInv'
  BY <1>8 DEF ask, workerVars
<1>9. ASSUME NEW t \in Tasks, answered(t) PROVE ClockInv'
  BY <1>9 DEF answered, workerVars
<1>10. ASSUME NEW t \in Tasks, question_err(t) PROVE ClockInv'
  BY <1>10 DEF question_err, workerVars
<1>11. ASSUME NEW t \in Tasks, increment_clock(t) PROVE ClockInv'
  <2>1. PICK v \in job[t].clock :
          Counts(v) /\ clk' = [clk EXCEPT ![t] = (v + 1) % (U32Max + 1)]
    BY <1>11 DEF increment_clock
  <2>2. v \in Nat /\ v < U32Max
    <3>1. v \in Nat \union {Garbage}
      BY <2>1
    <3> QED
      BY <3>1, <2>1 DEF Counts
  <2>3. (v + 1) % (U32Max + 1) = v + 1
    BY <2>2, NoWrap
  <2>4. clk' = [clk EXCEPT ![t] = v + 1]
    BY <2>1, <2>3
  <2>5. /\ pc' = [pc EXCEPT ![t] = "result"]
        /\ UNCHANGED <<owner, job, seen, selected, polls, up, working, replied>>
    BY <1>11 DEF increment_clock, workerVars
  <2> QED
    BY <2>2, <2>4, <2>5
<1>12. ASSUME NEW t \in Tasks, increment_clock_err(t) PROVE ClockInv'
  BY <1>12 DEF increment_clock_err, workerVars
<1>13. ASSUME NEW t \in Tasks, worker_answers(t) PROVE ClockInv'
  BY <1>13 DEF worker_answers, workerVars
<1>14. CASE worker_goes_down_or_up
  BY <1>14 DEF worker_goes_down_or_up
<1>15. CASE UNCHANGED vars
  BY <1>15 DEF vars, workerVars
<1>16. ASSUME NEW t \in Tasks, get_status(t) PROVE ClockInv'
  BY <1>16 DEF get_status, workerVars
<1>17. ASSUME NEW t \in Tasks, posted(t) PROVE ClockInv'
  BY <1>17 DEF posted, workerVars
<1> QED
  BY <1>1, <1>2, <1>3, <1>4, <1>5, <1>6, <1>7, <1>8, <1>9, <1>10, <1>11,
     <1>12, <1>13, <1>14, <1>15, <1>16, <1>17 DEF Next, do_job

LEMMA ClockInvariance == Spec => []ClockInv
<1>1. Init => ClockInv
  BY DoJobAssumption DEF Init, ClockInv, TypeOK, Final
<1> QED
  BY <1>1, ClockInvStep, PTL DEF Spec

(* No run leaves the states of do_job, and no counter of attempts its      *)
(* limit.                                                                  *)
THEOREM TypeCorrect == Spec => []TypeOK
<1>1. ClockInv => TypeOK
  BY DEF ClockInv
<1> QED
  BY <1>1, ClockInvariance, PTL

(* A result goes out with the successor of an entry of its job's clock,    *)
(* which has not wrapped, and a second run of the job with the same.       *)
THEOREM ClockIsSuccessor == Spec => []ClockFollows
<1>1. ASSUME ClockInv, NEW t \in Tasks, pc[t] = "result"
      PROVE  /\ \E v \in job[t].clock : clk[t] = v + 1
             /\ clk[t] \in 1..U32Max
  <2>1. PICK v \in job[t].clock : v \in Nat /\ v < U32Max /\ clk[t] = v + 1
    BY <1>1 DEF ClockInv
  <2> QED
    BY <2>1, DoJobAssumption
<1>2. ASSUME ClockInv, NEW t \in Tasks, NEW u \in Tasks,
             pc[t] = "result", pc[u] = "result",
             job[u] = job[t], NEW x \in job[t].clock, job[t].clock = {x}
      PROVE  clk[u] = clk[t]
  <2>1. PICK v \in job[t].clock : clk[t] = v + 1
    BY <1>1, <1>2
  <2>2. PICK w \in job[t].clock : clk[u] = w + 1
    BY <1>1, <1>2
  <2>3. v = w
    BY <1>2
  <2> QED
    BY <2>1, <2>2, <2>3
<1>3. ClockInv => ClockFollows
  BY <1>1, <1>2 DEF ClockFollows
<1> QED
  BY <1>3, ClockInvariance, PTL

-----------------------------------------------------------------------------
(* What JobsEnd rests on: how many steps a call of do_job has left at      *)
(* most.  Only the polling goes round, and retry_send_count counts it.     *)
StepsLeft(t) ==
    CASE pc[t] = "vrf"    -> 2 * PollLimit + 8
      [] pc[t] = "branch" -> 2 * PollLimit + 7
      [] pc[t] = "poll"   -> 2 * (PollLimit - polls[t]) + 6
      [] pc[t] = "status" -> 2 * (PollLimit - polls[t]) + 5
      [] pc[t] = "ask"    -> 4
      [] pc[t] = "post"   -> 3
      [] pc[t] = "wait"   -> 2
      [] pc[t] = "clock"  -> 1
      [] OTHER            -> 0

(* A call that has begun and moves comes nearer to its end.                *)
Advances ==
    \A t \in Tasks : pc[t] # "new" =>
        \/ pc'[t] = pc[t] /\ polls'[t] = polls[t]
        \/ StepsLeft(t)' < StepsLeft(t)

LEMMA StepsLeftIs ==
  ASSUME TypeOK, NEW t \in Tasks
  PROVE  /\ StepsLeft(t) \in 0..(2 * PollLimit + 8)
         /\ pc[t] = "vrf" => StepsLeft(t) = 2 * PollLimit + 8
         /\ pc[t] = "branch" => StepsLeft(t) = 2 * PollLimit + 7
         /\ pc[t] = "poll" => StepsLeft(t) = 2 * (PollLimit - polls[t]) + 6
         /\ pc[t] = "status" => StepsLeft(t) = 2 * (PollLimit - polls[t]) + 5
         /\ pc[t] = "ask" => StepsLeft(t) = 4
         /\ pc[t] = "post" => StepsLeft(t) = 3
         /\ pc[t] = "wait" => StepsLeft(t) = 2
         /\ pc[t] = "clock" => StepsLeft(t) = 1
         /\ pc[t] \in Final => StepsLeft(t) = 0
<1>1. polls[t] \in 0..PollLimit /\ PollLimit \in Nat
  BY DEF TypeOK
<1> QED
  BY <1>1 DEF StepsLeft, Final

LEMMA StepsLeftNext ==
  ASSUME TypeOK', NEW t \in Tasks
  PROVE  /\ StepsLeft(t)' \in 0..(2 * PollLimit + 8)
         /\ pc'[t] = "branch" => StepsLeft(t)' = 2 * PollLimit + 7
         /\ pc'[t] = "poll" => StepsLeft(t)' = 2 * (PollLimit - polls'[t]) + 6
         /\ pc'[t] = "status" => StepsLeft(t)' = 2 * (PollLimit - polls'[t]) + 5
         /\ pc'[t] = "ask" => StepsLeft(t)' = 4
         /\ pc'[t] = "post" => StepsLeft(t)' = 3
         /\ pc'[t] = "wait" => StepsLeft(t)' = 2
         /\ pc'[t] = "clock" => StepsLeft(t)' = 1
         /\ pc'[t] \in Final => StepsLeft(t)' = 0
<1>1. polls'[t] \in 0..PollLimit /\ PollLimit \in Nat
  BY DEF TypeOK
<1> QED
  BY <1>1 DEF StepsLeft, Final

LEMMA AdvancesStep == TypeOK /\ TypeOK' /\ [Next]_vars => [Advances]_vars
<1> SUFFICES ASSUME TypeOK, TypeOK', Next, NEW u \in Tasks, pc[u] # "new",
                    ~(pc'[u] = pc[u] /\ polls'[u] = polls[u])
             PROVE  StepsLeft(u)' < StepsLeft(u)
  BY DEF Advances
<1>0. /\ pc \in [Tasks -> {"new", "vrf", "branch", "poll", "status", "ask", "post",
                           "wait", "clock", "result", "err", "panicked"}]
      /\ polls \in [Tasks -> 0..PollLimit] /\ PollLimit \in Nat
  BY DEF TypeOK, Final
<1> DEFINE Moves(t, from, to) == pc[t] = from /\ pc' = [pc EXCEPT ![t] = to]
                                 /\ polls' = polls
<1>1. ASSUME NEW t \in Tasks,
             \/ \E to \in {"branch", "panicked", "err"} : Moves(t, "vrf", to)
             \/ \E to \in {"clock", "poll", "err"} : Moves(t, "branch", to)
             \/ \E to \in {"status", "err"} : Moves(t, "poll", to)
             \/ Moves(t, "status", "ask")
             \/ Moves(t, "ask", "post")
             \/ \E to \in {"wait", "err"} : Moves(t, "post", to)
             \/ \E to \in {"clock", "err"} : Moves(t, "wait", to)
             \/ \E to \in {"result", "err"} : Moves(t, "clock", to)
      PROVE  StepsLeft(u)' < StepsLeft(u)
  <2>1. u = t
    BY <1>0, <1>1
  <2>2. polls'[u] = polls[u] /\ polls[u] \in 0..PollLimit
    BY <1>0, <1>1
  <2> QED
    BY <1>0, <1>1, <2>1, <2>2, StepsLeftIs, StepsLeftNext DEF Final
<1>2. ASSUME NEW t \in Tasks, poll_again(t) PROVE StepsLeft(u)' < StepsLeft(u)
  <2>1. u = t /\ pc'[u] = "poll" /\ pc[u] = "status" /\ polls'[u] = polls[u] + 1
    BY <1>0, <1>2 DEF poll_again, Goto
  <2> QED
    BY <1>0, <2>1, StepsLeftIs, StepsLeftNext
<1>3. ASSUME NEW t \in Tasks, do_job(t), ~poll_again(t)
      PROVE  StepsLeft(u)' < StepsLeft(u)
  <2>1. CASE compute_vrf(t)
    <3>1. PICK label \in {"branch", "panicked"} : pc' = [pc EXCEPT ![t] = label]
      BY <2>1 DEF compute_vrf, Goto
    <3> QED
      BY <1>1, <2>1, <3>1 DEF compute_vrf
  <2>2. CASE branch(t)
    <3>1. PICK label \in {"clock", "poll", "err"} : pc' = [pc EXCEPT ![t] = label]
      BY <2>2, ChosenLabels DEF branch, Goto
    <3> QED
      BY <1>1, <2>2, <3>1 DEF branch
  <2>3. CASE compute_vrf_err(t) \/ poll_limit(t) \/ poll_room(t) \/ ask(t)
                \/ get_status(t) \/ posted(t)
    BY <1>1, <2>3 DEF compute_vrf_err, poll_limit, poll_room, ask, get_status,
                      posted, Goto
  <2>4. CASE answered(t) \/ question_err(t) \/ increment_clock(t) \/ increment_clock_err(t)
    BY <1>1, <2>4 DEF answered, question_err, increment_clock, increment_clock_err, Goto
  <2> QED
    BY <1>3, <2>1, <2>2, <2>3, <2>4 DEF do_job
<1>4. ASSUME NEW t \in Tasks, NEW c \in Consumers, call_do_job(t, c) PROVE FALSE
  BY <1>0, <1>4 DEF call_do_job, Goto
<1>5. ASSUME NEW t \in Tasks, worker_answers(t) PROVE FALSE
  BY <1>5 DEF worker_answers
<1>6. CASE worker_goes_down_or_up
  BY <1>6 DEF worker_goes_down_or_up
<1> QED
  BY <1>2, <1>3, <1>4, <1>5, <1>6 DEF Next

(* However full, slow or dead the worker, every step of a call of do_job   *)
(* brings it nearer to its end, which is at most 2 * PollLimit + 8 steps   *)
(* away: the part of JobsEnd that needs no fairness.                       *)
THEOREM CallsAdvance == Spec => [][Advances]_vars
  BY TypeCorrect, AdvancesStep, PTL DEF Spec
=============================================================================
