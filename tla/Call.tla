-------------------------------- MODULE Call --------------------------------
(***************************************************************************)
(* What one call promises its caller, whatever happens to either end and   *)
(* between them: messages arrive in order and none is made up; the caller  *)
(* has one result; success means that the server ended the call as a       *)
(* success and that every message has arrived; an error is the one the     *)
(* server ended the call with, or one of the failures of the caller's own  *)
(* side.  An answer that is silent about the outcome comes in the place of *)
(* the server's whole answer, and may be taken for an empty success.       *)
(***************************************************************************)
EXTENDS Integers, Sequences

CONSTANTS
    Code,       \* outcomes a server can give
    Silent,     \* the outcome of an answer that gives none
    Local       \* outcomes that may arise on the caller's side

VARIABLES
    sent,       \* messages of the response so far
    verdict,    \* Undecided, Silent, or the code the server ended the call with
    got,        \* messages the caller has got
    result      \* Undecided, or what the caller was told

Undecided == "none"
vars == <<sent, verdict, got, result>>

Init == sent = <<>> /\ verdict = Undecided /\ got = <<>> /\ result = Undecided

Send ==
    /\ verdict = Undecided
    /\ sent' = Append(sent, Len(sent) + 1)
    /\ UNCHANGED <<verdict, got, result>>

Decide ==
    /\ verdict = Undecided
    /\ verdict' \in Code
    /\ UNCHANGED <<sent, got, result>>

Intercept ==
    /\ verdict = Undecided /\ sent = <<>>
    /\ verdict' = Silent
    /\ UNCHANGED <<sent, got, result>>

Receive ==
    /\ result = Undecided
    /\ Len(got) < Len(sent)
    /\ got' = Append(got, sent[Len(got) + 1])
    /\ UNCHANGED <<sent, verdict, result>>

Outcome == IF verdict = Silent THEN "Ok" ELSE verdict

Finish ==
    /\ result = Undecided
    /\ result' \in Local \cup {Outcome}
    /\ result' # Undecided
    /\ result' = "Ok" => got = sent
    /\ UNCHANGED <<sent, verdict, got>>

Next == Send \/ Decide \/ Intercept \/ Receive \/ Finish
Spec == Init /\ [][Next]_vars
=============================================================================
