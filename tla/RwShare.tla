------------------------------ MODULE RwShare ------------------------------
(***************************************************************************)
(* RwShare (crates/tools/src/rw_share.rs): a reader-writer lock whose      *)
(* callers try with growing timeouts and panic at the end.  Threads call   *)
(* share_ref and share_mut, also from within the closure they passed to    *)
(* one.  The lock is parking_lot's: a writer that waits for the readers to *)
(* leave keeps fair readers out, and recursive ones only when there is no  *)
(* reader left.                                                            *)
(***************************************************************************)
EXTENDS Integers

CONSTANTS
    Threads,
    Nobody,
    MaxCalls       \* bound on the calls of a thread

ASSUME NobodyAssumption == Nobody \notin Threads
ASSUME MaxCallsAssumption == MaxCalls \in Nat

VARIABLES
    reads,     \* how many read guards a thread holds
    writer,    \* who holds the write guard
    pending,   \* the writer that waits for the readers to leave
    call,      \* the call a thread is in: [mode, attempt, parked]
    calls,     \* how many calls a thread has made
    panicked   \* history: the call a thread panicked in, and its read guards

vars == <<reads, writer, pending, call, calls, panicked>>

NoCall == [mode |-> "none", attempt |-> 0, parked |-> FALSE]
NoPanic == [mode |-> "none", reads |-> 0]

TypeOK ==
    /\ reads \in [Threads -> Nat]
    /\ writer \in Threads \union {Nobody}
    /\ pending \in Threads \union {Nobody}
    /\ call \in [Threads -> [mode : {"none", "read", "write"}, attempt : 0..4,
                             parked : BOOLEAN]]
    /\ calls \in [Threads -> 0..MaxCalls]
    /\ panicked \in [Threads -> [mode : {"none", "read", "write"}, reads : Nat]]

Init ==
    /\ reads = [t \in Threads |-> 0]
    /\ writer = Nobody
    /\ pending = Nobody
    /\ call = [t \in Threads |-> NoCall]
    /\ calls = [t \in Threads |-> 0]
    /\ panicked = [t \in Threads |-> NoPanic]

\* Mutant: every attempt is for a fair reader.
M_Recursive_never(c) == FALSE

(* The third and the fourth attempt of share_ref.                          *)
Recursive(c) == c.mode = "read" /\ c.attempt > 2

Last(c) == c.attempt = IF c.mode = "read" THEN 4 ELSE 3

SomeReader == \E t \in Threads : reads[t] > 0

(* Whether the lock is to be had (external: parking_lot).                  *)
Available(t) ==
    /\ writer = Nobody
    /\ IF call[t].mode = "read"
         THEN pending = Nobody \/ (Recursive(call[t]) /\ SomeReader)
         ELSE pending \in {Nobody, t} /\ ~SomeReader

-----------------------------------------------------------------------------
(* The first attempt of share_ref or share_mut begins.                     *)
begin(t, mode) ==
    /\ call[t] = NoCall /\ panicked[t] = NoPanic
    /\ calls[t] < MaxCalls
    /\ calls' = [calls EXCEPT ![t] = @ + 1]
    /\ call' = [call EXCEPT ![t] = [mode |-> mode, attempt |-> 1, parked |-> FALSE]]
    /\ UNCHANGED <<reads, writer, pending, panicked>>

(* A try_..._for gets the lock, at once or after it was parked.            *)
acquire(t) ==
    /\ call[t] # NoCall
    /\ Available(t)
    /\ IF call[t].mode = "read"
         THEN reads' = [reads EXCEPT ![t] = @ + 1] /\ UNCHANGED <<writer, pending>>
         ELSE writer' = t /\ pending' = Nobody /\ UNCHANGED reads
    /\ call' = [call EXCEPT ![t] = NoCall]
    /\ UNCHANGED <<calls, panicked>>

(* It does not, and the thread is parked, a writer perhaps as the one that *)
(* keeps readers out.                                                      *)
park(t) ==
    /\ call[t] # NoCall /\ ~call[t].parked
    /\ ~Available(t)
    /\ call' = [call EXCEPT ![t].parked = TRUE]
    /\ UNCHANGED <<reads, writer, pending, calls, panicked>>

wait_for_readers(t) ==
    /\ call[t].mode = "write" /\ call[t].parked
    /\ writer = Nobody /\ pending = Nobody /\ SomeReader
    /\ pending' = t
    /\ UNCHANGED <<reads, writer, call, calls, panicked>>

Leaves(t) == pending' = IF pending = t THEN Nobody ELSE pending

(* The time of an attempt is over: or_else makes the next.                 *)
next_attempt(t) ==
    /\ call[t].parked /\ ~Last(call[t])
    /\ call' = [call EXCEPT ![t] = [mode |-> @.mode, attempt |-> @.attempt + 1,
                                    parked |-> FALSE]]
    /\ Leaves(t)
    /\ UNCHANGED <<reads, writer, calls, panicked>>

\* Mutant: the last attempt has no timeout.
M_panic_never(t) == FALSE /\ UNCHANGED vars

(* expect panics, and every guard of the thread is dropped.                *)
panic(t) ==
    /\ call[t].parked /\ Last(call[t])
    /\ panicked' = [panicked EXCEPT ![t] = [mode |-> call[t].mode, reads |-> reads[t]]]
    /\ call' = [call EXCEPT ![t] = NoCall]
    /\ reads' = [reads EXCEPT ![t] = 0]
    /\ writer' = IF writer = t THEN Nobody ELSE writer
    /\ Leaves(t)
    /\ UNCHANGED calls

(* The closure returns, the innermost first.                               *)
return(t) ==
    /\ call[t] = NoCall
    /\ \/ reads[t] > 0 /\ reads' = [reads EXCEPT ![t] = @ - 1] /\ UNCHANGED writer
       \/ writer = t /\ writer' = Nobody /\ UNCHANGED reads
    /\ UNCHANGED <<pending, call, calls, panicked>>

share_ref(t) == begin(t, "read")

share_mut(t) == begin(t, "write")

attempts(t) == acquire(t) \/ park(t) \/ next_attempt(t) \/ panic(t)

Next ==
    \E t \in Threads :
        share_ref(t) \/ share_mut(t) \/ attempts(t) \/ wait_for_readers(t) \/ return(t)

Spec == Init /\ [][Next]_vars

(* Timeouts fire and threads run; closures need not return.                *)
FairSpec == Spec /\ \A t \in Threads : WF_vars(attempts(t))

-----------------------------------------------------------------------------
(* share_ref within share_ref gets its guard: a writer that waits in       *)
(* between holds up the fair attempts for both their timeouts and no       *)
(* longer, so whoever panics in share_ref holds no read guard.             *)
NestedReadersGetThrough ==
    \A t \in Threads : panicked[t].mode = "read" => panicked[t].reads = 0

(* "Hard to create dead locks": every call returns or panics, however the  *)
(* calls are nested and however long a closure takes.                      *)
CallsReturn == \A t \in Threads : call[t] # NoCall ~> call[t] = NoCall
=============================================================================
