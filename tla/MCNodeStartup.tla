--------------------------- MODULE MCNodeStartup ---------------------------
(***************************************************************************)
(* Two processes, each started twice with any options, and two failures.   *)
(***************************************************************************)
EXTENDS NodeStartup
=============================================================================
