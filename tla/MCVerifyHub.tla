---------------------------- MODULE MCVerifyHub ----------------------------
(***************************************************************************)
(* Instances of VerifyHub for TLC.                                         *)
(***************************************************************************)
EXTENDS VerifyHub, TLC

CONSTANTS q1, q2,      \* two questions
          w1           \* a worker

\* One question for either kind of worker.
OneOfEach == [r \in Questions |-> IF r = q1 THEN "opml" ELSE "tee"]
=============================================================================
