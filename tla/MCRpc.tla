-------------------------------- MODULE MCRpc --------------------------------
(***************************************************************************)
(* Instances of Rpc for TLC: for each pattern, requests of no, one and two *)
(* messages, one of which may be impossible to encode; every refusal; each *)
(* timeout with and without the other.                                     *)
(***************************************************************************)
EXTENDS Rpc

With(patterns, counts, bads, refusals, timeouts) ==
    [pattern : patterns, requests : counts, bad : bads, refusal : refusals,
     channelTimeout : timeouts, serverTimeout : timeouts]

MCCalls ==
    { c \in With(Pattern, 0..2, 0..2, {"none"}, {"yes", "no"}) : c.bad <= c.requests }
    \cup With(Pattern, {1}, {0}, {"uri", "interceptor", "router", "encoding"}, {"yes"})
=============================================================================
