--------------------------- MODULE MCWsConnection ---------------------------
(***************************************************************************)
(* The instance of WsConnection for TLC.                                   *)
(***************************************************************************)
EXTENDS WsConnection, TLC

CONSTANTS q1, q2, q3    \* calls of request_timeout
=============================================================================
