--------------------------- MODULE ClockExchange ---------------------------
(***************************************************************************)
(* Processes that stamp their events with OrdinaryClock and tell each      *)
(* other: an event is one call of update, with the clocks of any messages  *)
(* that have come in.  A message may be lost, late, taken twice or         *)
(* overtaken by another.  Next to every clock stands what it stands for:   *)
(* the set of events that led to it.                                       *)
(***************************************************************************)
EXTENDS OrdinaryClock

CONSTANT MaxEvents       \* bound on the events of a behaviour

VARIABLES
    count,         \* how many events every process has had
    stamp,         \* [clock, past] of every process
    stamps,        \* those of every event so far, which are also messages
    overflowed     \* history: a counter has wrapped

vars == <<count, stamp, stamps, overflowed>>

Stamps == [clock : OrdinaryClocks, past : SUBSET (Keys \X Nat)]

TypeOK ==
    /\ count \in [Keys -> Nat]
    /\ stamp \in [Keys -> Stamps]
    /\ stamps \subseteq Stamps
    /\ overflowed \in BOOLEAN

(* A clock is made empty, or with a zero for everyone (clock_sha256).      *)
Init ==
    /\ count = [p \in Keys |-> 0]
    /\ stamp \in [Keys -> {[clock |-> new, past |-> {}],
                           [clock |-> [id \in Keys |-> 0], past |-> {}]}]
    /\ stamps = {}
    /\ overflowed = FALSE

Clocks(S) == {s.clock : s \in S}

event(p, others) ==
    /\ count' = [count EXCEPT ![p] = @ + 1]
    /\ overflowed' = (overflowed
                        \/ Overflows(stamp[p].clock, Clocks(others), p))
    /\ LET here == [clock |-> update(stamp[p].clock, Clocks(others), p),
                    past |-> (UNION {s.past : s \in others \union {stamp[p]}})
                               \union {<<p, count[p] + 1>>}]
       IN  /\ stamp' = [stamp EXCEPT ![p] = here]
           /\ stamps' = stamps \union {here}

Next ==
    \E p \in Keys : \E others \in SUBSET stamps :
        /\ Cardinality(stamps) < MaxEvents
        /\ ~overflowed
        /\ event(p, others)

Spec == Init /\ [][Next]_vars

-----------------------------------------------------------------------------
Known == stamps \union {stamp[p] : p \in Keys}

(* A clock counts the events behind it: its entry for a process is the     *)
(* number of events of that process that happened before, first to last.   *)
CountsEvents ==
    ~overflowed =>
        \A s \in Known, id \in Keys, n \in 1..U32Max :
            <<id, n>> \in s.past <=> n <= Entry(s.clock, id)

(* partial_cmp is causality: one clock is Greater than another exactly     *)
(* when the events behind it include the other's and more, and None when   *)
(* neither includes the other, whichever zero entries either carries; a    *)
(* genesis clock is one that nothing led to.                               *)
OrderIsCausality ==
    ~overflowed =>
        \A s, t \in Known :
            /\ partial_cmp(s.clock, t.clock) =
                CASE s.past = t.past -> "Equal"
                  [] t.past \subseteq s.past /\ s.past # t.past -> "Greater"
                  [] s.past \subseteq t.past /\ s.past # t.past -> "Less"
                  [] OTHER -> "None"
            /\ is_genesis(s.clock) <=> s.past = {}

EventsOf(s, id) == {e \in s.past : e[1] = id}

(* dep_cmp compares what two clocks know of one process, as long as either *)
(* knows anything: an entry that is zero against one that is missing is    *)
(* the only case in which it tells equals apart.                           *)
DepComparesOne ==
    ~overflowed =>
        \A s, t \in Known, id \in Keys :
            EventsOf(s, id) \union EventsOf(t, id) # {} =>
                dep_cmp(s.clock, t.clock, id) =
                    CASE EventsOf(s, id) = EventsOf(t, id) -> "Equal"
                      [] /\ EventsOf(t, id) \subseteq EventsOf(s, id)
                         /\ EventsOf(s, id) # EventsOf(t, id) -> "Greater"
                      [] OTHER -> "Less"

(* reduce is a Lamport clock: it grows along causality, until the sum does *)
(* not fit, which may be long before an entry overflows.                   *)
ReduceIsLamport ==
    ~overflowed =>
        \A s, t \in Known :
            /\ s.past \subseteq t.past /\ s.past # t.past
            /\ Cardinality(t.past) <= U32Max
            => reduce(s.clock) < reduce(t.clock)
=============================================================================
