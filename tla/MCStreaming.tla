----------------------------- MODULE MCStreaming -----------------------------
(***************************************************************************)
(* Instances of StreamingSpec for TLC.  A wire is one or two frames, cut   *)
(* anywhere.  The frames cover each way through                            *)
(* decode_chunk: plain, empty and compressed messages, a payload the       *)
(* decompressor refuses, one the codec refuses, an invalid flag and a      *)
(* length over the limit.  Bytes stay below 128 so that a length fits      *)
(* TLC's 32-bit integers.                                                  *)
(***************************************************************************)
EXTENDS StreamingSpec

CONSTANTS Endings, Kinds

MCByte == 0..127
Limit == 1

Frame(flag, payload) == <<flag, 0, 0, 0, Len(payload)>> \o payload
GoodFrames == { Frame(0, <<>>), Frame(0, <<7>>), Frame(1, <<1>>) }
BadFrames == { Frame(1, <<2>>), Frame(0, <<9>>), Frame(2, <<7>>),
               Frame(0, <<7, 0>>) }

MCInflate(payload) == IF payload = <<1>> THEN <<8>> ELSE Corrupt
MCDecodable(payload) == payload # <<9>>

(* One frame, two of which the first is good, or a bad one and a good one. *)
Scripts ==
    { f : f \in GoodFrames \cup BadFrames }
    \cup { g \o f : g \in GoodFrames, f \in GoodFrames \cup BadFrames }
    \cup { b \o Frame(0, <<7>>) : b \in BadFrames }
Wires == UNION { { SubSeq(w, 1, n) : n \in 0..Len(w) } : w \in Scripts }

Eof == [kind |-> "eof"]
WithTrailers(status) == [kind |-> "trailers", status |-> status]
WithError(code) == [kind |-> "error", code |-> code]
AllEndings == { Eof, WithTrailers("Ok"), WithTrailers(NoStatus),
                WithTrailers("NotFound"), WithError("Cancelled"),
                WithError("Internal") }

(* How the stream was constructed.                                         *)
Kind(direction, http, encoding) ==
    [direction |-> direction, http |-> http, encoding |-> encoding]
AllKinds == { Kind("Request", 200, TRUE), Kind("Request", 200, FALSE),
              Kind("Response", 200, TRUE), Kind("Response", 503, TRUE),
              Kind("EmptyResponse", 200, FALSE) }

MCCalls ==
    { [wire |-> w, ending |-> e, direction |-> k.direction, http |-> k.http,
       encoding |-> k.encoding, limit |-> Limit] :
      w \in Wires, e \in Endings, k \in Kinds }
=============================================================================
