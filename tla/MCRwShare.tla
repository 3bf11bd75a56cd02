----------------------------- MODULE MCRwShare -----------------------------
(***************************************************************************)
(* Three threads of two calls each: a nested reader, a writer that comes   *)
(* in between, and another of either kind.                                 *)
(***************************************************************************)
EXTENDS RwShare
=============================================================================
