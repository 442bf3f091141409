---------------------------- MODULE MessageStream ----------------------------
(***************************************************************************)
(* What a stream of messages promises to a consumer that reads it up to    *)
(* the first result that is not a message: it receives the messages that   *)
(* were sent, in order, and the stream ends only after the last of them    *)
(* and only in one of the ways the peer's ending allows.  There are no     *)
(* bytes, buffers or chunks here.                                          *)
(***************************************************************************)
EXTENDS Integers, Sequences

VARIABLES
    sent,       \* the messages the peer sent whole; never changes
    verdicts,   \* the final results that are justified; never changes
    yielded,    \* the messages received so far
    outcome     \* Open, or the final result

Open == [kind |-> "open"]

Init ==
    /\ yielded = <<>>
    /\ outcome = Open

Yield ==
    /\ outcome = Open
    /\ Len(yielded) < Len(sent)
    /\ yielded' = Append(yielded, sent[Len(yielded) + 1])
    /\ UNCHANGED <<sent, verdicts, outcome>>

Finish ==
    /\ outcome = Open
    /\ yielded = sent
    /\ outcome' \in verdicts
    /\ UNCHANGED <<sent, verdicts, yielded>>

Next == Yield \/ Finish

Spec == Init /\ [][Next]_<<sent, verdicts, yielded, outcome>>
=============================================================================
