---------------------------- MODULE MCAcceptLoop ----------------------------
(***************************************************************************)
(* Instances of AcceptLoop for TLC: two connections more than the limit,   *)
(* so that the loop has to wait for a permit and a connection is queued    *)
(* while it does.                                                          *)
(***************************************************************************)
EXTENDS AcceptLoop
=============================================================================
