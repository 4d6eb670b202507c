---------------------------- MODULE MCWsTransport ----------------------------
(***************************************************************************)
(* WsTransport with two requests, a channel of one frame and a budget of   *)
(* three bytes, for TLC: enough for a stale answer of the first request to *)
(* meet the second, for a full channel and for an exhausted budget.        *)
(***************************************************************************)
EXTENDS WsTransport
=============================================================================
