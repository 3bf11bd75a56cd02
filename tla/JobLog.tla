------------------------------- MODULE JobLog -------------------------------
(***************************************************************************)
(* What the job queue of an operator promises whoever puts a job in it,    *)
(* with no connections, tasks, crashes or clocks: a log of entries, each   *)
(* handled at least once and in the order they came before it leaves the   *)
(* log.  OperatorNode implements this specification.                       *)
(***************************************************************************)
EXTENDS Naturals

CONSTANT Entries          \* records with a field id in Nat

VARIABLES pending,        \* entries in the log
          accepted,       \* every entry the log ever took
          handled         \* entries that have been handled at least once

logVars == <<pending, accepted, handled>>

LogInit ==
    /\ pending = {}
    /\ accepted = {}
    /\ handled = {}

\* An entry is younger than every entry taken before it.
Accept(x) ==
    /\ \A y \in accepted : y.id < x.id
    /\ pending' = pending \union {x}
    /\ accepted' = accepted \union {x}
    /\ UNCHANGED handled

\* Entries are handled in the order they came; handling one again is allowed.
Handle(x) ==
    /\ x \in accepted
    /\ \A y \in accepted : y.id < x.id => y \in handled
    /\ handled' = handled \union {x}
    /\ UNCHANGED <<pending, accepted>>

\* Only what has been handled leaves the log.
Forget(x) ==
    /\ x \in handled
    /\ pending' = pending \ {x}
    /\ UNCHANGED <<accepted, handled>>

LogNext == \E x \in Entries : Accept(x) \/ Handle(x) \/ Forget(x)

LogSpec == LogInit /\ [][LogNext]_logVars
=============================================================================
