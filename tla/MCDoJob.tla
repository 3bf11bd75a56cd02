------------------------------ MODULE MCDoJob ------------------------------
(***************************************************************************)
(* Instances of DoJob for TLC.                                             *)
(***************************************************************************)
EXTENDS DoJob, TLC

CONSTANTS t1, t2, t3,    \* calls of do_job
          c1, c2         \* consumers

Job(tag, position, need, random, clock) ==
    [tag |-> tag, position |-> position, need |-> need, random |-> random,
     clock |-> clock]

\* One prompt under every tag, and what do_job refuses or answers itself.
EveryBranch ==
    {Job("ordinary", "other", "opml", 12, {1}),
     Job("suspicion", "other", "opml", 12, {1}),
     Job("malicious", "after", "opml", 12, {1}),
     Job("malicious", "before", "opml", 12, {1}),
     Job("malicious", "other", "opml", 12, {1}),
     Job("malicious", "before", "opml", 12, {U32Max, 1}),
     Job("malicious", "before", "tee", 12, {}),
     Job("ordinary", "other", "opml", 0, {Garbage})}

\* A job that needs the worker.
OneJob == {Job("ordinary", "other", "opml", 0, {1})}

\* At the bottom of the range, in it, at its top, and not registered.
SomeRanges == {[start |-> 2, end |-> 6], [start |-> 40, end |-> 55],
               [start |-> 90, end |-> 100], [start |-> 0, end |-> 0]}
OneRange == {[start |-> 2, end |-> 6]}
=============================================================================
