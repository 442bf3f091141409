------------------------------ MODULE MCHealth ------------------------------
(***************************************************************************)
(* Instances of Health for TLC.  One setter shows what the code guarantees *)
(* where one task sets the statuses.  Two watchers may race to create the  *)
(* channel of a service, or one may find it abandoned by the other; the    *)
(* second service shows that they do not mix.                              *)
(***************************************************************************)
EXTENDS Health
=============================================================================
