--------------------------- MODULE RwShareProofs ---------------------------
(***************************************************************************)
(* Proofs about RwShare, for any number of threads and calls.              *)
(***************************************************************************)
EXTENDS RwShare, TLAPS

USE NobodyAssumption, MaxCallsAssumption

Calls == [mode : {"none", "read", "write"}, attempt : 0..4, parked : BOOLEAN]

(* A writer excludes readers, so a recursive attempt of a thread that      *)
(* holds a read guard finds a reader and no writer: it is never parked.    *)
LockInv ==
    /\ TypeOK
    /\ writer # Nobody => \A t \in Threads : reads[t] = 0
    /\ \A t \in Threads :
         /\ call[t].mode = "none" => call[t] = NoCall
         /\ call[t].mode = "write" => call[t].attempt <= 3
         /\ call[t].parked /\ Recursive(call[t]) => reads[t] = 0
         /\ panicked[t].mode = "read" => panicked[t].reads = 0

LEMMA LockInvInit == Init => LockInv
  BY DEF Init, LockInv, TypeOK, NoCall, NoPanic, Recursive

LEMMA LockInvStep == LockInv /\ [Next]_vars => LockInv'
<1> SUFFICES ASSUME LockInv, [Next]_vars PROVE LockInv'
  OBVIOUS
<1>1. ASSUME NEW t \in Threads, NEW mode \in {"read", "write"}, begin(t, mode)
      PROVE  LockInv'
  <2> DEFINE c == [mode |-> mode, attempt |-> 1, parked |-> FALSE]
  <2>1. c \in Calls /\ ~c.parked /\ c.attempt = 1 /\ c.mode # "none"
    BY DEF Calls
  <2>2. /\ call' = [call EXCEPT ![t] = c] /\ calls[t] < MaxCalls
        /\ calls' = [calls EXCEPT ![t] = @ + 1]
        /\ UNCHANGED <<reads, writer, pending, panicked>>
    BY <1>1 DEF begin
  <2> HIDE DEF c
  <2> QED
    BY <2>1, <2>2 DEF LockInv, TypeOK, Recursive, Calls
<1>2. ASSUME NEW t \in Threads, acquire(t) PROVE LockInv'
  <2>1. /\ call' = [call EXCEPT ![t] = NoCall] /\ writer = Nobody
        /\ UNCHANGED <<calls, panicked>>
    BY <1>2 DEF acquire, Available
  <2>2. CASE call[t].mode = "read"
    <3>1. reads' = [reads EXCEPT ![t] = @ + 1] /\ UNCHANGED <<writer, pending>>
      BY <1>2, <2>2 DEF acquire
    <3> QED
      BY <2>1, <3>1 DEF LockInv, TypeOK, Recursive, NoCall
  <2>3. CASE call[t].mode # "read"
    <3>1. writer' = t /\ pending' = Nobody /\ UNCHANGED reads /\ ~SomeReader
      BY <1>2, <2>3 DEF acquire, Available
    <3>2. \A u \in Threads : reads[u] = 0
      BY <3>1 DEF SomeReader, LockInv, TypeOK
    <3> QED
      BY <2>1, <3>1, <3>2 DEF LockInv, TypeOK, Recursive, NoCall
  <2> QED
    BY <2>2, <2>3
<1>3. ASSUME NEW t \in Threads, park(t) PROVE LockInv'
  <2>1. /\ call' = [call EXCEPT ![t].parked = TRUE] /\ ~Available(t)
        /\ call[t] # NoCall /\ UNCHANGED <<reads, writer, pending, calls, panicked>>
    BY <1>3 DEF park
  <2>2. call[t].mode # "none"
    BY <2>1 DEF LockInv
  <2>3. Recursive(call[t]) => reads[t] = 0
    BY <2>1 DEF Available, Recursive, SomeReader, LockInv, TypeOK
  <2> DEFINE c == [call[t] EXCEPT !.parked = TRUE]
  <2>4. call[t] \in Calls
    BY DEF LockInv, TypeOK, Calls
  <2>5. /\ c \in Calls /\ c.mode = call[t].mode /\ c.attempt = call[t].attempt
        /\ call' = [call EXCEPT ![t] = c]
    BY <2>1, <2>4 DEF Calls, LockInv, TypeOK
  <2> HIDE DEF c
  <2>6. /\ c.mode # "none" /\ (c.mode = "write" => c.attempt <= 3)
        /\ Recursive(c) => reads[t] = 0
    BY <2>2, <2>3, <2>5 DEF Recursive, LockInv
  <2> QED
    BY <2>1, <2>5, <2>6 DEF LockInv, TypeOK, Calls
<1>4. ASSUME NEW t \in Threads, next_attempt(t) PROVE LockInv'
  <2>1. /\ call[t].parked /\ ~Last(call[t])
        /\ call' = [call EXCEPT ![t] = [mode |-> call[t].mode, attempt |-> call[t].attempt + 1,
                                        parked |-> FALSE]]
        /\ UNCHANGED <<reads, writer, calls, panicked>>
    BY <1>4 DEF next_attempt
  <2>2. pending' \in Threads \union {Nobody}
    BY <1>4 DEF next_attempt, Leaves, LockInv, TypeOK
  <2>3. call[t] \in Calls
    BY DEF LockInv, TypeOK, Calls
  <2>4. call[t].mode # "none"
    BY <2>1 DEF LockInv, NoCall
  <2>5. /\ call[t].attempt \in 0..3
        /\ call[t].mode = "write" => call[t].attempt + 1 <= 3
    BY <2>1, <2>3, <2>4 DEF Last, LockInv, Calls
  <2> DEFINE n == call[t].attempt + 1
             c == [mode |-> call[t].mode, attempt |-> n, parked |-> FALSE]
  <2>6. n \in 0..4
    BY <2>5
  <2>7. call' = [call EXCEPT ![t] = c]
    BY <2>1
  <2> HIDE DEF n
  <2>8. /\ c \in Calls /\ ~c.parked /\ c.mode # "none"
        /\ c.mode = "write" => c.attempt <= 3
    BY <2>3, <2>4, <2>5, <2>6 DEF Calls, n
  <2> HIDE DEF c
  <2> QED
    BY <2>1, <2>2, <2>7, <2>8 DEF LockInv, TypeOK, Calls
<1>5. ASSUME NEW t \in Threads, panic(t) PROVE LockInv'
  <2>1. /\ call[t].parked /\ Last(call[t])
        /\ panicked' = [panicked EXCEPT ![t] = [mode |-> call[t].mode, reads |-> reads[t]]]
        /\ call' = [call EXCEPT ![t] = NoCall]
        /\ reads' = [reads EXCEPT ![t] = 0]
        /\ writer' \in {writer, Nobody}
        /\ calls' = calls
    BY <1>5 DEF panic
  <2>2. pending' \in Threads \union {Nobody}
    BY <1>5 DEF panic, Leaves, LockInv, TypeOK
  <2>3. call[t].mode = "read" => reads[t] = 0
    BY <2>1 DEF Last, Recursive, LockInv
  <2>4. /\ call[t].mode \in {"none", "read", "write"} /\ reads[t] \in Nat
    BY DEF LockInv, TypeOK
  <2> DEFINE record == [mode |-> call[t].mode, reads |-> reads[t]]
  <2>5. /\ record \in [mode : {"none", "read", "write"}, reads : Nat]
        /\ record.mode = "read" => record.reads = 0
        /\ panicked' = [panicked EXCEPT ![t] = record]
    BY <2>1, <2>3, <2>4
  <2> HIDE DEF record
  <2> QED
    BY <2>1, <2>2, <2>5 DEF LockInv, TypeOK, NoCall, Recursive
<1>6. ASSUME NEW t \in Threads, return(t) PROVE LockInv'
  <2>1. call[t] = NoCall /\ UNCHANGED <<pending, call, calls, panicked>>
    BY <1>6 DEF return
  <2>2. CASE reads[t] > 0 /\ reads' = [reads EXCEPT ![t] = @ - 1] /\ UNCHANGED writer
    BY <2>1, <2>2 DEF LockInv, TypeOK, NoCall, Recursive
  <2>3. CASE writer = t /\ writer' = Nobody /\ UNCHANGED reads
    BY <2>1, <2>3 DEF LockInv, TypeOK
  <2> QED
    BY <1>6, <2>2, <2>3 DEF return
<1>7. ASSUME NEW t \in Threads, wait_for_readers(t) PROVE LockInv'
  BY <1>7 DEF wait_for_readers, LockInv, TypeOK
<1>8. CASE UNCHANGED vars
  BY <1>8 DEF vars, LockInv, TypeOK
<1> QED
  BY <1>1, <1>2, <1>3, <1>4, <1>5, <1>6, <1>7, <1>8
     DEF Next, attempts, share_ref, share_mut

LEMMA Locking == Spec => []LockInv
  BY LockInvInit, LockInvStep, PTL DEF Spec

(* No call makes more attempts than its code has.                          *)
THEOREM TypeCorrect == Spec => []TypeOK
  BY Locking, PTL DEF LockInv

(* However many threads read, wait to write and nest their calls, nobody   *)
(* who holds a read guard panics in share_ref.                             *)
THEOREM NestedReaders == Spec => []NestedReadersGetThrough
<1>1. LockInv => NestedReadersGetThrough
  BY DEF LockInv, NestedReadersGetThrough
<1> QED
  BY Locking, <1>1, PTL

(* A writer has the lock alone, and no thread reads while another writes.  *)
THEOREM WriterAlone == Spec => [](writer # Nobody => \A t \in Threads : reads[t] = 0)
  BY Locking, PTL DEF LockInv
=============================================================================
