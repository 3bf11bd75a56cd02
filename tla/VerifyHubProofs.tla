--------------------------- MODULE VerifyHubProofs ---------------------------
(***************************************************************************)
(* Proofs about VerifyHub, for any number of questions, answers and other  *)
(* calls of the worker.                                                    *)
(***************************************************************************)
EXTENDS VerifyHub, SequenceTheorems, TLAPS

Waiting == {"await", "lock3"} \union Final

(* The part of the type invariant the argument needs.                      *)
PcInv ==
    /\ handler \in [Questions -> {"idle", "lock1", "post", "asked", "lock2",
                                  "await", "lock3"} \union Final]
    /\ callback \in [Callbacks -> {"idle", "lock", "sending", "stored",
                                   "no_channel", "closed", "cancelled"}]

(* A channel is in the map only once its handler waits on it, and a        *)
(* callback that sends has found one.                                      *)
ChannelInv == channels \subseteq {r \in Questions : handler[r] \in Waiting}
SendingInv == \A c \in Callbacks :
                  callback[c] = "sending" => handler[c[1]] \in Waiting

(* Only a tee handler asks for the lock a third time.                      *)
CleanUpInv == \A r \in Questions : handler[r] = "lock3" => Kind[r] = "tee"

HubInv == PcInv /\ ChannelInv /\ SendingInv /\ CleanUpInv

LEMMA HubInvInit == Init => HubInv
  BY DEF Init, HubInv, PcInv, ChannelInv, SendingInv, CleanUpInv

LEMMA HubInvStep == HubInv /\ [Next]_vars => HubInv'
<1> SUFFICES ASSUME HubInv, [Next]_vars PROVE HubInv'
  OBVIOUS
<1> USE HubAssumption DEF HubInv, PcInv, ChannelInv, SendingInv, CleanUpInv,
        Waiting, Final, Callbacks, At, Goto, CGoto,
        lockVars, chanVars
<1>1. ASSUME NEW r \in Questions, ask(r) PROVE HubInv'
  BY <1>1 DEF ask
<1>2. ASSUME NEW r \in Questions, post(r) PROVE HubInv'
  BY <1>2 DEF post
<1>3. ASSUME NEW r \in Questions, worker_receives(r) PROVE HubInv'
  BY <1>3 DEF worker_receives
<1>4. ASSUME NEW r \in Questions, post_ok(r) PROVE HubInv'
  BY <1>4 DEF post_ok
<1>5. ASSUME NEW r \in Questions, post_err(r) PROVE HubInv'
  BY <1>5 DEF post_err
<1>6. ASSUME NEW r \in Questions, make_channel(r) PROVE HubInv'
  BY <1>6 DEF make_channel
<1>7. ASSUME NEW r \in Questions, insert_channel(r) PROVE HubInv'
  BY <1>7 DEF insert_channel
<1>8. ASSUME NEW r \in Questions, answered(r) PROVE HubInv'
  BY <1>8 DEF answered
<1>9. ASSUME NEW r \in Questions, times_out(r) PROVE HubInv'
  BY <1>9 DEF times_out
<1>10. ASSUME NEW r \in Questions, remove_channel(r) PROVE HubInv'
  BY <1>10 DEF remove_channel
<1>11. ASSUME NEW r \in Questions, drop_receiver(r) PROVE HubInv'
  BY <1>11 DEF drop_receiver
<1>12. ASSUME NEW c \in Callbacks, worker_calls_back(c) PROVE HubInv'
  BY <1>12 DEF worker_calls_back
<1>13. ASSUME NEW c \in Callbacks, look_up(c) PROVE HubInv'
  <2>1. UNCHANGED <<handler, channels>>
    BY <1>13 DEF look_up
  <2>2. CASE c[1] \in channels
    <3>1. callback' = [callback EXCEPT ![c] = "sending"]
      BY <1>13, <2>2 DEF look_up
    <3> QED
      BY <2>1, <2>2, <3>1
  <2>3. CASE c[1] \notin channels
    <3>1. callback' = [callback EXCEPT ![c] = "no_channel"]
      BY <1>13, <2>3 DEF look_up
    <3> QED
      BY <2>1, <3>1
  <2> QED
    BY <2>2, <2>3
<1>14. ASSUME NEW c \in Callbacks, send(c) PROVE HubInv'
  BY <1>14 DEF send
<1>15. ASSUME NEW c \in Callbacks, send_err(c) PROVE HubInv'
  BY <1>15 DEF send_err
<1>16. ASSUME NEW c \in Callbacks, layer_timeout(c) PROVE HubInv'
  BY <1>16 DEF layer_timeout
<1>17. ASSUME NEW w \in Workers, worker_calls(w) PROVE HubInv'
  BY <1>17 DEF worker_calls
<1>18. ASSUME NEW w \in Workers, register_worker(w) PROVE HubInv'
  BY <1>18 DEF register_worker
<1>19. ASSUME NEW w \in Workers, receive_heart_beat(w) PROVE HubInv'
  BY <1>19 DEF receive_heart_beat
<1>20. CASE UNCHANGED vars
  BY <1>20 DEF vars
<1> QED
  BY <1>1, <1>2, <1>3, <1>4, <1>5, <1>6, <1>7, <1>8, <1>9, <1>10, <1>11,
     <1>12, <1>13, <1>14, <1>15, <1>16, <1>17, <1>18, <1>19, <1>20
     DEF Next, question_handler, callback_handler, worker

LEMMA HubInvariance == Spec => []HubInv
  BY HubInvInit, HubInvStep, PTL DEF Spec

(* No opml callback holds the lock while it waits for a handler that needs *)
(* the lock.                                                               *)
THEOREM OpmlNeverStuck == Spec => []NoOpmlLockCycle
<1>1. HubInv => NoOpmlLockCycle
  BY DEF HubInv, SendingInv, CleanUpInv, NoOpmlLockCycle, Waiting, Callbacks
<1> QED
  BY HubInvariance, <1>1, PTL

-----------------------------------------------------------------------------
(* The lock.  Who holds it does not depend on its queue: whoever is        *)
(* granted it was first, and that is all this argument needs.              *)
LockInv == PcInv /\ HeldByAwaiting

LEMMA LockInvInit == Init => LockInv
  BY HubAssumption DEF Init, LockInv, PcInv, HeldByAwaiting, At, Final

LEMMA LockInvStep == LockInv /\ [Next]_vars => LockInv'
<1> SUFFICES ASSUME LockInv, [Next]_vars PROVE LockInv'
  OBVIOUS
<1> USE HubAssumption DEF LockInv, PcInv, HeldByAwaiting, Final, Callbacks, At,
        Goto, CGoto, lockVars, WriteGranted, ReadGranted, Holds, Releases
<1>1. ASSUME NEW r \in Questions, ask(r) PROVE LockInv'
  BY <1>1 DEF ask
<1>2. ASSUME NEW r \in Questions, post(r) PROVE LockInv'
  BY <1>2 DEF post
<1>3. ASSUME NEW r \in Questions, worker_receives(r) PROVE LockInv'
  BY <1>3 DEF worker_receives
<1>4. ASSUME NEW r \in Questions, post_ok(r) PROVE LockInv'
  BY <1>4 DEF post_ok
<1>5. ASSUME NEW r \in Questions, post_err(r) PROVE LockInv'
  BY <1>5 DEF post_err
<1>6. ASSUME NEW r \in Questions, make_channel(r) PROVE LockInv'
  BY <1>6 DEF make_channel
<1>7. ASSUME NEW r \in Questions, insert_channel(r) PROVE LockInv'
  BY <1>7 DEF insert_channel
<1>8. ASSUME NEW r \in Questions, answered(r) PROVE LockInv'
  BY <1>8 DEF answered
<1>9. ASSUME NEW r \in Questions, times_out(r) PROVE LockInv'
  BY <1>9 DEF times_out
<1>10. ASSUME NEW r \in Questions, remove_channel(r) PROVE LockInv'
  BY <1>10 DEF remove_channel
<1>11. ASSUME NEW r \in Questions, drop_receiver(r) PROVE LockInv'
  BY <1>11 DEF drop_receiver
<1>12. ASSUME NEW c \in Callbacks, worker_calls_back(c) PROVE LockInv'
  BY <1>12 DEF worker_calls_back
<1>13. ASSUME NEW c \in Callbacks, look_up(c) PROVE LockInv'
  BY <1>13 DEF look_up
<1>14. ASSUME NEW c \in Callbacks, send(c) PROVE LockInv'
  BY <1>14 DEF send
<1>15. ASSUME NEW c \in Callbacks, send_err(c) PROVE LockInv'
  BY <1>15 DEF send_err
<1>16. ASSUME NEW c \in Callbacks, layer_timeout(c) PROVE LockInv'
  BY <1>16 DEF layer_timeout
<1>17. ASSUME NEW w \in Workers, worker_calls(w) PROVE LockInv'
  BY <1>17 DEF worker_calls
<1>18. ASSUME NEW w \in Workers, register_worker(w) PROVE LockInv'
  BY <1>18 DEF register_worker
<1>19. ASSUME NEW w \in Workers, receive_heart_beat(w) PROVE LockInv'
  BY <1>19 DEF receive_heart_beat
<1>20. CASE UNCHANGED vars
  BY <1>20 DEF vars
<1> QED
  BY <1>1, <1>2, <1>3, <1>4, <1>5, <1>6, <1>7, <1>8, <1>9, <1>10, <1>11,
     <1>12, <1>13, <1>14, <1>15, <1>16, <1>17, <1>18, <1>19, <1>20
     DEF Next, question_handler, callback_handler, worker

-----------------------------------------------------------------------------
(* The queue.                                                              *)

(* A new request is one more place at the end.                             *)
LEMMA AppendPlace ==
    ASSUME NEW S, NEW q \in Seq(S), NEW a \in S, OnePlaceEach(q), a \notin Places(q)
    PROVE  /\ Append(q, a) \in Seq(S)
           /\ Places(Append(q, a)) = Places(q) \union {a}
           /\ OnePlaceEach(Append(q, a))
<1> DEFINE t == Append(q, a)
<1>1. /\ t \in Seq(S) /\ Len(q) \in Nat /\ Len(t) = Len(q) + 1
      /\ \A i \in 1..Len(q) : t[i] = q[i]
      /\ t[Len(q) + 1] = a
  BY AppendProperties, LenProperties
<1> HIDE DEF t
<1>2. 1..Len(t) = (1..Len(q)) \union {Len(q) + 1}
  BY <1>1
<1>3. Places(t) = Places(q) \union {a}
  BY <1>1, <1>2 DEF Places
<1>4. \A i \in 1..Len(q) : t[i] # a
  BY <1>1 DEF Places
<1>5. OnePlaceEach(t)
  BY <1>1, <1>2, <1>4 DEF OnePlaceEach
<1> QED
  BY <1>1, <1>3, <1>5 DEF t

(* Whoever is served gives up the first place.                             *)
LEMMA TailPlaces ==
    ASSUME NEW S, NEW q \in Seq(S), q # <<>>, OnePlaceEach(q)
    PROVE  /\ Tail(q) \in Seq(S)
           /\ Places(Tail(q)) = Places(q) \ {Head(q)}
           /\ OnePlaceEach(Tail(q))
           /\ Head(q) \in Places(q)
<1> DEFINE t == Tail(q)
<1>1. /\ t \in Seq(S) /\ Len(q) \in Nat /\ Len(q) >= 1 /\ Len(t) = Len(q) - 1
      /\ \A i \in 1..Len(t) : t[i] = q[i + 1]
      /\ Head(q) = q[1]
  BY HeadTailProperties, LenProperties, EmptySeq
<1> HIDE DEF t
<1>2. \A i \in 1..Len(t) : i + 1 \in 2..Len(q)
  BY <1>1
<1>3. \A k \in 2..Len(q) : k - 1 \in 1..Len(t) /\ t[k - 1] = q[k]
  BY <1>1
<1>4. \A k \in 2..Len(q) : k \in 1..Len(q) /\ q[k] # q[1]
  BY <1>1 DEF OnePlaceEach
<1>5. 1..Len(q) = {1} \union 2..Len(q)
  BY <1>1
<1>6. Places(t) = {q[k] : k \in 2..Len(q)}
  <2>1. ASSUME NEW x \in Places(t) PROVE x \in {q[k] : k \in 2..Len(q)}
    <3>1. PICK i \in 1..Len(t) : x = t[i]
      BY DEF Places
    <3> QED
      BY <1>1, <1>2, <3>1
  <2>2. ASSUME NEW k \in 2..Len(q) PROVE q[k] \in Places(t)
    BY <1>3 DEF Places
  <2> QED
    BY <2>1, <2>2
<1>7. Places(q) = {q[1]} \union {q[k] : k \in 2..Len(q)}
  BY <1>5 DEF Places
<1>8. OnePlaceEach(t)
  <2> SUFFICES ASSUME NEW i \in 1..Len(t), NEW j \in 1..Len(t), t[i] = t[j]
               PROVE  i = j
    BY DEF OnePlaceEach
  <2>1. q[i + 1] = q[j + 1] /\ i + 1 \in 1..Len(q) /\ j + 1 \in 1..Len(q)
    BY <1>1, <1>2, <1>4
  <2>2. i + 1 = j + 1
    BY <2>1 DEF OnePlaceEach
  <2> QED
    BY <2>2
<1> QED
  BY <1>1, <1>4, <1>6, <1>7, <1>8 DEF t

(* Whoever withdraws leaves the others in their order.                     *)
LEMMA CutPlace ==
    ASSUME NEW S, NEW q \in Seq(S), OnePlaceEach(q), NEW i \in 1..Len(q)
    PROVE  LET t == SubSeq(q, 1, i - 1) \o SubSeq(q, i + 1, Len(q))
           IN  /\ t \in Seq(S)
               /\ Places(t) = Places(q) \ {q[i]}
               /\ OnePlaceEach(t)
<1> DEFINE n == Len(q)
           a == SubSeq(q, 1, i - 1)
           b == SubSeq(q, i + 1, n)
           t == a \o b
           at(k) == IF k < i THEN k ELSE k + 1
<1>1. n \in Nat /\ i \in 1..n
  BY LenProperties
<1>2. a \in Seq(S) /\ Len(a) = i - 1 /\ \A k \in 1..(i - 1) : a[k] = q[k]
  OBVIOUS
<1>3. b \in Seq(S) /\ Len(b) = n - i /\ \A k \in 1..(n - i) : b[k] = q[k + i]
  OBVIOUS
<1> HIDE DEF a, b
<1>4. t \in Seq(S) /\ Len(t) = n - 1
  <2>1. t \in Seq(S) /\ Len(t) = Len(a) + Len(b)
    BY <1>2, <1>3, ConcatProperties
  <2>2. (i - 1) + (n - i) = n - 1
    BY <1>1
  <2> QED
    BY <1>2, <1>3, <2>1, <2>2
<1>5. \A k \in 1..(n - 1) : t[k] = q[at(k)]
  <2> TAKE k \in 1..(n - 1)
  <2>1. CASE k < i
    <3>1. k \in 1..(i - 1)
      BY <1>1, <2>1
    <3>2. t[k] = a[k]
      BY <1>1, <1>2, <1>3, <3>1
    <3> QED
      BY <1>2, <2>1, <3>1, <3>2
  <2>2. CASE ~(k < i)
    <3>1. k - (i - 1) \in 1..(n - i) /\ (k - (i - 1)) + i = k + 1
      BY <1>1, <2>2
    <3>2. t[k] = b[k - (i - 1)]
      BY <1>1, <1>2, <1>3, <2>2, <3>1
    <3> QED
      BY <1>3, <2>2, <3>1, <3>2
  <2> QED
    BY <2>1, <2>2
<1> HIDE DEF t, n
<1>6. \A k \in 1..(n - 1) : at(k) \in 1..n /\ at(k) # i
  BY <1>1
<1>7. \A k, l \in 1..(n - 1) : at(k) = at(l) => k = l
  BY <1>1
<1>8. \A m \in 1..n : m # i => \E k \in 1..(n - 1) : at(k) = m
  <2> TAKE m \in 1..n
  <2>1. CASE m < i
    <3>1. m \in 1..(n - 1) /\ at(m) = m
      BY <1>1, <2>1
    <3> QED
      BY <3>1
  <2>2. CASE m > i
    <3>1. m - 1 \in 1..(n - 1) /\ at(m - 1) = m
      BY <1>1, <2>2
    <3> QED
      BY <3>1
  <2> QED
    BY <1>1, <2>1, <2>2
<1> HIDE DEF at
<1>9. \A m \in 1..n : q[m] = q[i] => m = i
  BY <1>1 DEF OnePlaceEach, n
<1>10. Places(t) = Places(q) \ {q[i]}
  <2>1. \A x \in Places(t) : x \in Places(q) \ {q[i]}
    BY <1>4, <1>5, <1>6, <1>9 DEF Places, n
  <2>2. ASSUME NEW x \in Places(q) \ {q[i]} PROVE x \in Places(t)
    <3>1. PICK m \in 1..n : x = q[m] /\ m # i
      BY DEF Places, n
    <3>2. PICK k \in 1..(n - 1) : at(k) = m
      BY <1>8, <3>1
    <3>3. t[k] = x
      BY <1>5, <3>1, <3>2
    <3> QED
      BY <1>4, <3>3 DEF Places
  <2> QED
    BY <2>1, <2>2
<1>11. OnePlaceEach(t)
  BY <1>4, <1>5, <1>6, <1>7 DEF OnePlaceEach, n
<1> QED
  BY <1>4, <1>10, <1>11, Zenon DEF t, n, a, b

(* The inductive invariant of the queue.                                   *)
QueueInv ==
    /\ PcInv /\ call \in [Workers -> {"idle", "lock"}]
    /\ queue \in Seq(Actors)
    /\ Places(queue) = Waiters /\ OnePlaceEach(queue)

(* Someone begins to wait, is served, or gives up: the three ways in which *)
(* the queue changes.                                                      *)
LEMMA QueueGrows ==
    ASSUME QueueInv, NEW a \in Actors, a \notin Waiters, Request(a),
           Waiters' = Waiters \union {a}
    PROVE  queue' \in Seq(Actors) /\ Places(queue)' = Waiters' /\ OnePlaceEach(queue)'
<1>1. a \notin Places(queue)
  BY DEF QueueInv
<1>2. queue' = Append(queue, a)
  BY DEF Request
<1>3. /\ Append(queue, a) \in Seq(Actors)
      /\ Places(Append(queue, a)) = Places(queue) \union {a}
      /\ OnePlaceEach(Append(queue, a))
  BY <1>1, AppendPlace DEF QueueInv
<1>4. Places(queue') = Places(queue) \union {a} /\ OnePlaceEach(queue')
  BY <1>2, <1>3
<1> QED
  BY <1>2, <1>3, <1>4 DEF QueueInv, Places, OnePlaceEach

LEMMA QueueServes ==
    ASSUME QueueInv, NEW a, First(a), queue' = Tail(queue),
           Waiters' = Waiters \ {a}
    PROVE  queue' \in Seq(Actors) /\ Places(queue)' = Waiters' /\ OnePlaceEach(queue)'
<1>1. queue # <<>> /\ Head(queue) = a
  BY DEF First
<1>2. /\ Tail(queue) \in Seq(Actors)
      /\ Places(Tail(queue)) = Places(queue) \ {a}
      /\ OnePlaceEach(Tail(queue))
  BY <1>1, TailPlaces DEF QueueInv
<1>3. Places(queue') = Places(queue) \ {a} /\ OnePlaceEach(queue')
  BY <1>2
<1> QED
  BY <1>2, <1>3 DEF QueueInv, Places, OnePlaceEach

LEMMA QueueShrinks ==
    ASSUME QueueInv, NEW a, Withdraw(a), Waiters' = Waiters \ {a}
    PROVE  queue' \in Seq(Actors) /\ Places(queue)' = Waiters' /\ OnePlaceEach(queue)'
<1>1. ASSUME NEW i \in 1..Len(queue), queue[i] = a,
             queue' = SubSeq(queue, 1, i - 1) \o SubSeq(queue, i + 1, Len(queue))
      PROVE  queue' \in Seq(Actors) /\ Places(queue)' = Waiters' /\ OnePlaceEach(queue)'
  <2>1. /\ queue' \in Seq(Actors)
        /\ Places(queue') = Places(queue) \ {a}
        /\ OnePlaceEach(queue')
    BY <1>1, CutPlace DEF QueueInv
  <2> QED
    BY <2>1 DEF QueueInv, Places, OnePlaceEach
<1>2. ASSUME \A i \in 1..Len(queue) : queue[i] # a, UNCHANGED queue
      PROVE  queue' \in Seq(Actors) /\ Places(queue)' = Waiters' /\ OnePlaceEach(queue)'
  <2>1. a \notin Places(queue)
    BY <1>2 DEF Places
  <2>2. Places(queue)' = Places(queue) /\ OnePlaceEach(queue)'
    BY <1>2 DEF QueueInv, Places, OnePlaceEach
  <2> QED
    BY <1>2, <2>1, <2>2 DEF QueueInv
<1> QED
  BY <1>1, <1>2 DEF Withdraw

LEMMA QueueStays ==
    ASSUME QueueInv, UNCHANGED queue, Waiters' = Waiters
    PROVE  queue' \in Seq(Actors) /\ Places(queue)' = Waiters' /\ OnePlaceEach(queue)'
BY DEF QueueInv, Places, OnePlaceEach

LEMMA QueueInvInit == Init => QueueInv
<1> SUFFICES ASSUME Init PROVE QueueInv
  OBVIOUS
<1>1. PcInv /\ call \in [Workers -> {"idle", "lock"}] /\ queue = <<>>
  BY DEF Init, PcInv, Final
<1>2. Waiters = {}
  BY DEF Init, Waiters
<1>3. Places(<<>>) = {} /\ OnePlaceEach(<<>>) /\ <<>> \in Seq(Actors)
  BY DEF Places, OnePlaceEach
<1> QED
  BY <1>1, <1>2, <1>3 DEF QueueInv

(* Questions, callbacks and workers are told apart.                        *)
LEMMA Disjoint ==
    /\ Questions \intersect Callbacks = {}
    /\ Workers \intersect Questions = {}
    /\ Workers \intersect Callbacks = {}
BY HubAssumption DEF Callbacks

(* What a step of one of them does to the set of those who wait.           *)
LEMMA HandlerMoves ==
    ASSUME QueueInv, NEW r \in Questions, NEW label, Goto(r, label),
           UNCHANGED <<callback, call>>
    PROVE  /\ r \in Actors
           /\ r \in Waiters <=> handler[r] \in {"lock1", "lock2", "lock3"}
           /\ Waiters' = IF label \in {"lock1", "lock2", "lock3"}
                           THEN Waiters \union {r} ELSE Waiters \ {r}
<1> USE Disjoint DEF QueueInv, PcInv, Waiters, Goto, Actors
<1>1. handler' = [handler EXCEPT ![r] = label]
  OBVIOUS
<1>2. DOMAIN handler = Questions
  OBVIOUS
<1>3. \A x \in Questions : handler'[x] = IF x = r THEN label ELSE handler[x]
  BY <1>1, <1>2
<1>4. {w \in Workers : call[w] = "lock"}' = {w \in Workers : call[w] = "lock"}
  OBVIOUS
<1>5. {c \in Callbacks : callback[c] = "lock"}' = {c \in Callbacks : callback[c] = "lock"}
  BY DEF Callbacks
<1>6. r \in Waiters <=> handler[r] \in {"lock1", "lock2", "lock3"}
  OBVIOUS
<1>7. Waiters' = {x \in Questions : handler'[x] \in {"lock1", "lock2", "lock3"}}
        \union {c \in Callbacks : callback[c] = "lock"}
        \union {w \in Workers : call[w] = "lock"}
  BY <1>4, <1>5
<1> QED
  BY <1>3, <1>6, <1>7

LEMMA CallbackMoves ==
    ASSUME QueueInv, NEW c \in Callbacks, NEW label, CGoto(c, label),
           UNCHANGED <<handler, call>>
    PROVE  /\ c \in Actors
           /\ c \in Waiters <=> callback[c] = "lock"
           /\ Waiters' = IF label = "lock" THEN Waiters \union {c} ELSE Waiters \ {c}
<1> USE Disjoint DEF QueueInv, PcInv, Waiters, CGoto, Actors
<1>1. callback' = [callback EXCEPT ![c] = label]
  OBVIOUS
<1>2. DOMAIN callback = Callbacks
  OBVIOUS
<1>3. \A x \in Callbacks : callback'[x] = IF x = c THEN label ELSE callback[x]
  BY <1>1, <1>2
<1>4. c \in Waiters <=> callback[c] = "lock"
  OBVIOUS
<1>5. Waiters' = {r \in Questions : handler[r] \in {"lock1", "lock2", "lock3"}}
        \union {x \in Callbacks : callback'[x] = "lock"}
        \union {w \in Workers : call[w] = "lock"}
  BY DEF Callbacks
<1> QED
  BY <1>3, <1>4, <1>5

LEMMA WorkerMoves ==
    ASSUME QueueInv, NEW w \in Workers, NEW label \in {"idle", "lock"},
           call' = [call EXCEPT ![w] = label], UNCHANGED <<handler, callback>>
    PROVE  /\ w \in Actors
           /\ w \in Waiters <=> call[w] = "lock"
           /\ Waiters' = IF label = "lock" THEN Waiters \union {w} ELSE Waiters \ {w}
           /\ call' \in [Workers -> {"idle", "lock"}]
<1> USE Disjoint DEF QueueInv, PcInv, Waiters, Actors
<1>1. \A x \in Workers : call'[x] = IF x = w THEN label ELSE call[x]
  OBVIOUS
<1>2. w \in Waiters <=> call[w] = "lock"
  OBVIOUS
<1>3. Waiters' = {r \in Questions : handler[r] \in {"lock1", "lock2", "lock3"}}
        \union {c \in Callbacks : callback[c] = "lock"}
        \union {x \in Workers : call'[x] = "lock"}
  BY DEF Callbacks
<1>4. call' \in [Workers -> {"idle", "lock"}]
  OBVIOUS
<1> QED
  BY <1>1, <1>2, <1>3, <1>4

(* The queue keeps up with those who wait.                                 *)
LEMMA QueueInvStep == QueueInv /\ PcInv' /\ [Next]_vars => QueueInv'
<1> DEFINE Calls == call' \in [Workers -> {"idle", "lock"}]
           Queue == queue' \in Seq(Actors) /\ Places(queue)' = Waiters' /\ OnePlaceEach(queue)'
<1> SUFFICES ASSUME QueueInv, PcInv', [Next]_vars PROVE Calls /\ Queue
  BY DEF QueueInv
<1>0. UNCHANGED call => Calls
  BY DEF QueueInv
<1> HIDE DEF Calls, Queue
<1>1. ASSUME NEW r \in Questions, ask(r) PROVE Calls /\ Queue
  <2>1. Goto(r, "lock1") /\ UNCHANGED <<callback, call>>
    BY <1>1 DEF ask
  <2>2. r \in Actors /\ r \notin Waiters /\ Waiters' = Waiters \union {r}
    BY <1>1, <2>1, HandlerMoves DEF ask, At
  <2>3. Request(r)
    BY <1>1 DEF ask
  <2>4. Queue
    BY <2>2, <2>3, QueueGrows DEF Queue
  <2>5. Calls
    BY <2>1, <1>0
  <2> QED
    BY <2>4, <2>5
<1>2. ASSUME NEW r \in Questions, post(r) PROVE Calls /\ Queue
  <2>1. Goto(r, "post") /\ UNCHANGED <<callback, call>>
    BY <1>2 DEF post
  <2>2. Waiters' = Waiters \ {r}
    BY <1>2, <2>1, HandlerMoves DEF post, At
  <2>3. First(r) /\ queue' = Tail(queue)
    BY <1>2 DEF post, WriteGranted
  <2>4. Queue
    BY <2>2, <2>3, QueueServes DEF Queue
  <2>5. Calls
    BY <2>1, <1>0
  <2> QED
    BY <2>4, <2>5
<1>3. ASSUME NEW r \in Questions, post_ok(r) PROVE Calls /\ Queue
  <2>1. Goto(r, "asked") /\ UNCHANGED <<callback, call>>
    BY <1>3 DEF post_ok
  <2>2. Waiters' = Waiters
    BY <1>3, <2>1, HandlerMoves DEF post_ok, At
  <2>3. UNCHANGED queue
    BY <1>3 DEF post_ok, lockVars
  <2>4. Queue
    BY <2>2, <2>3, QueueStays DEF Queue
  <2>5. Calls
    BY <2>1, <1>0
  <2> QED
    BY <2>4, <2>5
<1>4. ASSUME NEW r \in Questions, make_channel(r) PROVE Calls /\ Queue
  <2>1. Goto(r, "lock2") /\ UNCHANGED <<callback, call>>
    BY <1>4 DEF make_channel
  <2>2. r \in Actors /\ r \notin Waiters /\ Waiters' = Waiters \union {r}
    BY <1>4, <2>1, HandlerMoves DEF make_channel, At
  <2>3. Request(r)
    BY <1>4 DEF make_channel
  <2>4. Queue
    BY <2>2, <2>3, QueueGrows DEF Queue
  <2>5. Calls
    BY <2>1, <1>0
  <2> QED
    BY <2>4, <2>5
<1>5. ASSUME NEW r \in Questions, insert_channel(r) PROVE Calls /\ Queue
  <2>1. Goto(r, "await") /\ UNCHANGED <<callback, call>>
    BY <1>5 DEF insert_channel
  <2>2. Waiters' = Waiters \ {r}
    BY <1>5, <2>1, HandlerMoves DEF insert_channel, At
  <2>3. First(r) /\ queue' = Tail(queue)
    BY <1>5 DEF insert_channel, WriteGranted
  <2>4. Queue
    BY <2>2, <2>3, QueueServes DEF Queue
  <2>5. Calls
    BY <2>1, <1>0
  <2> QED
    BY <2>4, <2>5
<1>6. ASSUME NEW r \in Questions, answered(r) PROVE Calls /\ Queue
  <2>1. Goto(r, "ok") /\ UNCHANGED <<callback, call>>
    BY <1>6 DEF answered
  <2>2. Waiters' = Waiters
    BY <1>6, <2>1, HandlerMoves DEF answered, At
  <2>3. UNCHANGED queue
    BY <1>6 DEF answered, lockVars
  <2>4. Queue
    BY <2>2, <2>3, QueueStays DEF Queue
  <2>5. Calls
    BY <2>1, <1>0
  <2> QED
    BY <2>4, <2>5
<1>7. ASSUME NEW r \in Questions, remove_channel(r) PROVE Calls /\ Queue
  <2>1. Goto(r, "timedout") /\ UNCHANGED <<callback, call>>
    BY <1>7 DEF remove_channel
  <2>2. Waiters' = Waiters \ {r}
    BY <1>7, <2>1, HandlerMoves DEF remove_channel, At
  <2>3. First(r) /\ queue' = Tail(queue)
    BY <1>7 DEF remove_channel, WriteGranted
  <2>4. Queue
    BY <2>2, <2>3, QueueServes DEF Queue
  <2>5. Calls
    BY <2>1, <1>0
  <2> QED
    BY <2>4, <2>5
<1>8. ASSUME NEW c \in Callbacks, worker_calls_back(c) PROVE Calls /\ Queue
  <2>1. CGoto(c, "lock") /\ UNCHANGED <<handler, call>>
    BY <1>8 DEF worker_calls_back
  <2>2. c \in Actors /\ c \notin Waiters /\ Waiters' = Waiters \union {c}
    BY <1>8, <2>1, CallbackMoves DEF worker_calls_back
  <2>3. Request(c)
    BY <1>8 DEF worker_calls_back
  <2>4. Queue
    BY <2>2, <2>3, QueueGrows DEF Queue
  <2>5. Calls
    BY <2>1, <1>0
  <2> QED
    BY <2>4, <2>5
<1>9. ASSUME NEW c \in Callbacks, send(c) PROVE Calls /\ Queue
  <2>1. CGoto(c, "stored") /\ UNCHANGED <<handler, call>>
    BY <1>9 DEF send
  <2>2. Waiters' = Waiters
    BY <1>9, <2>1, CallbackMoves DEF send
  <2>3. UNCHANGED queue
    BY <1>9 DEF send, lockVars
  <2>4. Queue
    BY <2>2, <2>3, QueueStays DEF Queue
  <2>5. Calls
    BY <2>1, <1>0
  <2> QED
    BY <2>4, <2>5
<1>10. ASSUME NEW c \in Callbacks, send_err(c) PROVE Calls /\ Queue
  <2>1. CGoto(c, "closed") /\ UNCHANGED <<handler, call>>
    BY <1>10 DEF send_err
  <2>2. Waiters' = Waiters
    BY <1>10, <2>1, CallbackMoves DEF send_err
  <2>3. UNCHANGED queue
    BY <1>10 DEF send_err, lockVars
  <2>4. Queue
    BY <2>2, <2>3, QueueStays DEF Queue
  <2>5. Calls
    BY <2>1, <1>0
  <2> QED
    BY <2>4, <2>5
<1>11. ASSUME NEW w \in Workers, worker_calls(w) PROVE Calls /\ Queue
  <2>1. call' = [call EXCEPT ![w] = "lock"] /\ UNCHANGED <<handler, callback>>
    BY <1>11 DEF worker_calls
  <2>2. w \in Actors /\ w \notin Waiters /\ Waiters' = Waiters \union {w}
    BY <1>11, <2>1, WorkerMoves DEF worker_calls
  <2>3. Request(w)
    BY <1>11 DEF worker_calls
  <2>4. Queue
    BY <2>2, <2>3, QueueGrows DEF Queue
  <2>5. Calls
    BY <2>1, WorkerMoves DEF Calls
  <2> QED
    BY <2>4, <2>5
<1>12. ASSUME NEW w \in Workers, register_worker(w) PROVE Calls /\ Queue
  <2>1. call' = [call EXCEPT ![w] = "idle"] /\ UNCHANGED <<handler, callback>>
    BY <1>12 DEF register_worker
  <2>2. Waiters' = Waiters \ {w}
    BY <1>12, <2>1, WorkerMoves DEF register_worker
  <2>3. First(w) /\ queue' = Tail(queue)
    BY <1>12 DEF register_worker, WriteGranted
  <2>4. Queue
    BY <2>2, <2>3, QueueServes DEF Queue
  <2>5. Calls
    BY <2>1, WorkerMoves DEF Calls
  <2> QED
    BY <2>4, <2>5
<1>13. ASSUME NEW w \in Workers, receive_heart_beat(w) PROVE Calls /\ Queue
  <2>1. call' = [call EXCEPT ![w] = "idle"] /\ UNCHANGED <<handler, callback>>
    BY <1>13 DEF receive_heart_beat
  <2>2. Waiters' = Waiters \ {w}
    BY <1>13, <2>1, WorkerMoves DEF receive_heart_beat
  <2>3. First(w) /\ queue' = Tail(queue)
    BY <1>13 DEF receive_heart_beat, WriteGranted
  <2>4. Queue
    BY <2>2, <2>3, QueueServes DEF Queue
  <2>5. Calls
    BY <2>1, WorkerMoves DEF Calls
  <2> QED
    BY <2>4, <2>5
<1>14. ASSUME NEW r \in Questions, post_err(r) PROVE Calls /\ Queue
  <2> DEFINE label == IF Kind[r] = "opml" THEN "failed" ELSE "asked"
  <2>1. /\ Goto(r, label) /\ UNCHANGED <<callback, call, queue>>
        /\ label \notin {"lock1", "lock2", "lock3"} /\ handler[r] = "post"
    BY <1>14 DEF post_err, At
  <2> HIDE DEF label
  <2>2. Waiters' = Waiters
    BY <2>1, HandlerMoves
  <2> QED
    BY <2>1, <2>2, <1>0, QueueStays DEF Queue
<1>15. ASSUME NEW r \in Questions, times_out(r) PROVE Calls /\ Queue
  <2>1. UNCHANGED <<callback, call>> /\ handler[r] = "await"
    BY <1>15 DEF times_out, At
  <2>2. CASE Kind[r] = "opml"
    <3>1. Goto(r, "timedout") /\ UNCHANGED queue
      BY <1>15, <2>2 DEF times_out
    <3>2. Waiters' = Waiters
      BY <2>1, <3>1, HandlerMoves
    <3> QED
      BY <2>1, <3>1, <3>2, <1>0, QueueStays DEF Queue
  <2>3. CASE Kind[r] # "opml"
    <3>1. Goto(r, "lock3") /\ Request(r)
      BY <1>15, <2>3 DEF times_out
    <3>2. r \in Actors /\ r \notin Waiters /\ Waiters' = Waiters \union {r}
      BY <2>1, <3>1, HandlerMoves
    <3> QED
      BY <2>1, <3>1, <3>2, <1>0, QueueGrows DEF Queue
  <2> QED
    BY <2>2, <2>3
<1>16. ASSUME NEW c \in Callbacks, look_up(c) PROVE Calls /\ Queue
  <2>1. /\ UNCHANGED <<handler, call>> /\ queue' = Tail(queue)
        /\ CGoto(c, "sending") \/ CGoto(c, "no_channel")
    BY <1>16 DEF look_up
  <2>2. First(c)
    BY <1>16 DEF look_up, WriteGranted, ReadGranted
  <2>3. Waiters' = Waiters \ {c}
    BY <2>1, CallbackMoves
  <2> QED
    BY <2>1, <2>2, <2>3, <1>0, QueueServes DEF Queue
<1>17. ASSUME NEW c \in Callbacks, layer_timeout(c) PROVE Calls /\ Queue
  <2>1. UNCHANGED <<handler, call>> /\ CGoto(c, "cancelled") /\ Withdraw(c)
    BY <1>17 DEF layer_timeout
  <2>2. Waiters' = Waiters \ {c}
    BY <2>1, CallbackMoves
  <2> QED
    BY <2>1, <2>2, <1>0, QueueShrinks DEF Queue
<1>18. CASE UNCHANGED <<handler, callback, call, queue>>
  <2>1. Waiters' = Waiters
    BY <1>18 DEF Waiters, Callbacks
  <2> QED
    BY <1>18, <2>1, <1>0, QueueStays DEF Queue
<1>19. ASSUME NEW r \in Questions, worker_receives(r) PROVE Calls /\ Queue
  BY <1>19, <1>18 DEF worker_receives, lockVars
<1>20. ASSUME NEW r \in Questions, drop_receiver(r) PROVE Calls /\ Queue
  BY <1>20, <1>18 DEF drop_receiver, lockVars
<1>21. CASE UNCHANGED vars
  BY <1>21, <1>18 DEF vars, lockVars
<1> QED
  BY <1>1, <1>2, <1>3, <1>4, <1>5, <1>6, <1>7, <1>8, <1>9, <1>10, <1>11,
     <1>12, <1>13, <1>14, <1>15, <1>16, <1>17, <1>19, <1>20, <1>21
     DEF Next, question_handler, callback_handler, worker

LEMMA LockInvariance == Spec => []LockInv
  BY LockInvInit, LockInvStep, PTL DEF Spec

LEMMA QueueInvariance == Spec => []QueueInv
<1>1. LockInv => PcInv
  BY DEF LockInv
<1> QED
  BY <1>1, LockInvariance, QueueInvInit, QueueInvStep, PTL DEF Spec

(* For any number of questions, answers and cancelled callbacks, the lock  *)
(* is with a POST that is out or with callbacks that send, and whoever     *)
(* waits for it has one place in its queue, and nobody else.               *)
THEOREM LockIsHeld == Spec => []LockHasHolder
<1>1. LockInv /\ QueueInv => LockHasHolder
  BY DEF LockInv, QueueInv, LockHasHolder
<1> QED
  BY <1>1, LockInvariance, QueueInvariance, PTL

-----------------------------------------------------------------------------
(* The rest of the state.                                                  *)
RestInv ==
    /\ asked \subseteq Questions /\ rx \subseteq Questions
    /\ buffer \in [Questions -> 0..1]
    /\ registered \subseteq Workers

LEMMA RestInvStep == RestInv /\ [Next]_vars => RestInv'
<1> SUFFICES ASSUME RestInv, [Next]_vars PROVE RestInv'
  OBVIOUS
<1> USE DEF RestInv, chanVars
<1>1. ASSUME NEW r \in Questions, ask(r) PROVE RestInv'
  BY <1>1 DEF ask
<1>2. ASSUME NEW r \in Questions, post(r) PROVE RestInv'
  BY <1>2 DEF post
<1>3. ASSUME NEW r \in Questions, worker_receives(r) PROVE RestInv'
  BY <1>3 DEF worker_receives
<1>4. ASSUME NEW r \in Questions, post_ok(r) PROVE RestInv'
  BY <1>4 DEF post_ok
<1>5. ASSUME NEW r \in Questions, post_err(r) PROVE RestInv'
  BY <1>5 DEF post_err
<1>6. ASSUME NEW r \in Questions, make_channel(r) PROVE RestInv'
  BY <1>6 DEF make_channel
<1>7. ASSUME NEW r \in Questions, insert_channel(r) PROVE RestInv'
  BY <1>7 DEF insert_channel
<1>8. ASSUME NEW r \in Questions, answered(r) PROVE RestInv'
  BY <1>8 DEF answered
<1>9. ASSUME NEW r \in Questions, times_out(r) PROVE RestInv'
  BY <1>9 DEF times_out
<1>10. ASSUME NEW r \in Questions, remove_channel(r) PROVE RestInv'
  BY <1>10 DEF remove_channel
<1>11. ASSUME NEW r \in Questions, drop_receiver(r) PROVE RestInv'
  BY <1>11 DEF drop_receiver
<1>12. ASSUME NEW c \in Callbacks, worker_calls_back(c) PROVE RestInv'
  BY <1>12 DEF worker_calls_back
<1>13. ASSUME NEW c \in Callbacks, look_up(c) PROVE RestInv'
  BY <1>13 DEF look_up
<1>14. ASSUME NEW c \in Callbacks, send(c) PROVE RestInv'
  BY <1>14 DEF send, Callbacks, HasRoom
<1>15. ASSUME NEW c \in Callbacks, send_err(c) PROVE RestInv'
  BY <1>15 DEF send_err
<1>16. ASSUME NEW c \in Callbacks, layer_timeout(c) PROVE RestInv'
  BY <1>16 DEF layer_timeout
<1>17. ASSUME NEW w \in Workers, worker_calls(w) PROVE RestInv'
  BY <1>17 DEF worker_calls
<1>18. ASSUME NEW w \in Workers, register_worker(w) PROVE RestInv'
  BY <1>18 DEF register_worker
<1>19. ASSUME NEW w \in Workers, receive_heart_beat(w) PROVE RestInv'
  BY <1>19 DEF receive_heart_beat
<1>20. CASE UNCHANGED vars
  BY <1>20 DEF vars
<1> QED
  BY <1>1, <1>2, <1>3, <1>4, <1>5, <1>6, <1>7, <1>8, <1>9, <1>10, <1>11,
     <1>12, <1>13, <1>14, <1>15, <1>16, <1>17, <1>18, <1>19, <1>20
     DEF Next, question_handler, callback_handler, worker

LEMMA RestInvariance == Spec => []RestInv
<1>1. Init => RestInv
  BY DEF Init, RestInv
<1> QED
  BY <1>1, RestInvStep, PTL DEF Spec

(* Handlers, callbacks and calls stay within their steps, a channel holds  *)
(* one answer at most, and only callers of the hub hold its lock or wait   *)
(* for it.                                                                 *)
THEOREM TypeCorrect == Spec => []TypeOK
<1>1. HubInv /\ LockInv /\ QueueInv /\ RestInv => TypeOK
  <2> SUFFICES ASSUME HubInv, LockInv, QueueInv, RestInv PROVE TypeOK
    OBVIOUS
  <2>1. writer \in Actors \union {Nobody} /\ readers \subseteq Actors
    BY DEF LockInv, HeldByAwaiting, Actors
  <2>2. channels \subseteq Questions
    BY DEF HubInv, ChannelInv
  <2> QED
    BY <2>1, <2>2 DEF TypeOK, QueueInv, PcInv, RestInv
<1> QED
  BY <1>1, RestInvariance, HubInvariance, LockInvariance, QueueInvariance, PTL

-----------------------------------------------------------------------------
(* What QuestionsReturn rests on: who can go on when someone waits.        *)

(* When anyone waits for the lock of the hub, the first in the queue gets  *)
(* it, a POST is out, or a callback can end its send; the only other state *)
(* is a tee callback that waits for room while its handler waits for the   *)
(* lock, which the timeout layer of the router ends.                       *)
THEOREM OnlyTeeCircle == Spec => []LockMoves
<1>1. ASSUME HubInv, RestInv, NEW c \in Callbacks, callback[c] = "sending"
      PROVE  EndsItsSend(c) \/ InTeeCircle(c)
  <2>1. c[1] \in Questions
    BY DEF Callbacks
  <2>2. handler[c[1]] \in {"await", "lock3"} \union Final
    BY <1>1 DEF HubInv, SendingInv, Waiting
  <2>3. buffer[c[1]] \in 0..1
    BY <1>1, <2>1 DEF RestInv
  <2>4. HasRoom(c[1]) \/ buffer[c[1]] = 1
    BY <2>3 DEF HasRoom
  <2>5. CASE handler[c[1]] = "lock3"
    <3>1. Kind[c[1]] = "tee"
      BY <1>1, <2>1, <2>5 DEF HubInv, CleanUpInv
    <3> QED
      BY <2>5, <3>1 DEF EndsItsSend, InTeeCircle, At
  <2> QED
    BY <2>2, <2>4, <2>5 DEF EndsItsSend, At
<1>2. ASSUME LockInv
      PROVE  \/ writer = Nobody /\ readers = {}
             \/ \E r \in Questions : At(r, "post")
             \/ \E c \in Callbacks : callback[c] = "sending"
  BY <1>2 DEF LockInv, HeldByAwaiting
<1>3. HubInv /\ RestInv /\ LockInv => LockMoves
  BY <1>1, <1>2 DEF LockMoves, Granted
<1> QED
  BY <1>3, HubInvariance, RestInvariance, LockInvariance, PTL
=============================================================================
