----------------------------- MODULE MCGrpcWeb -----------------------------
(***************************************************************************)
(* Instances of GrpcWeb for TLC: a text that ends within a group, one that *)
(* is base64, with a character before its padding that must be the last of *)
(* its group, two that were encoded one by one, and one that is not base64.*)
(* They are cut anywhere.  One data frame in the response leaves room      *)
(* before and behind it.                                                   *)
(***************************************************************************)
EXTENDS GrpcWeb

F == "full"
E == "even"
R == "round"
P == "pad"
MCTexts == { <<F, F, F, F, F, F>>,
             <<F, R, F, F, F, R, P, P>>,
             <<F, F, F, F, F, F, E, P>>,
             <<F, R, P, P, F, F, F>>,
             <<F, "bad", F, F, F>> }
=============================================================================
