-------------------------- MODULE MCClockExchange --------------------------
(***************************************************************************)
(* An instance of ClockExchange for TLC: three processes and counters of   *)
(* two bits, so that a counter wraps within MaxEvents events.              *)
(***************************************************************************)
EXTENDS ClockExchange
=============================================================================
