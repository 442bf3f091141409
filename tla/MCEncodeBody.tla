---------------------------- MODULE MCEncodeBody ----------------------------
(***************************************************************************)
(* Instances of EncodeBody for TLC: every source of at most MaxLen         *)
(* elements drawn from two message sizes that batch differently, a message *)
(* the codec refuses, one over the send limit, one too long for the frame  *)
(* header, and two errors.                                                 *)
(***************************************************************************)
EXTENDS EncodeBody

CONSTANT MaxLen

Msg(n) == [kind |-> "msg", encodable |-> TRUE, size |-> n]
Elements ==
    { Msg(0), Msg(4), Msg(9), Msg(8),
      [kind |-> "msg", encodable |-> FALSE, size |-> 1],
      [kind |-> "err", code |-> "Aborted"],
      [kind |-> "err", code |-> "NotFound"] }

MCScripts == UNION { [1..n -> Elements] : n \in 0..MaxLen }
=============================================================================
