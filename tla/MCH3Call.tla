------------------------------ MODULE MCH3Call ------------------------------
(* Bodies longer than both windows and the reader between them hold.       *)
EXTENDS H3Call

Data(n) == [i \in 1..n |-> "data"]
MCBodies == { <<>>, Data(2) \o <<"trailers">>, Data(1) \o <<"error">>, Data(4) }
MCReplies == { <<"trailers">>, <<"data", "error">>, <<"data", "data", "trailers">> }
MCTimeouts == { {}, {"client"}, {"server"} }
=============================================================================
