--------------------------- MODULE MCOperatorNode ---------------------------
(***************************************************************************)
(* Instances of OperatorNode for TLC.                                      *)
(***************************************************************************)
EXTENDS OperatorNode, TLC

CONSTANTS j1, j2, j3     \* payloads

\* One payload runs, one is not a DispatchJobRequest, one is an empty one.
OneOfEach == [j \in Jobs |-> CASE j = j1 -> "job"
                               [] j = j2 -> "malformed"
                               [] j = j3 -> "empty"]
=============================================================================
