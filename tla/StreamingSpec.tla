---------------------------- MODULE StreamingSpec ----------------------------
(***************************************************************************)
(* What `Streaming` must achieve.  The reference point is the wire parsed  *)
(* as a whole, without state, buffer or chunks: which messages lie on it,  *)
(* where the parse stops and why.                                          *)
(***************************************************************************)
EXTENDS Streaming

(* The frame of call c that starts after its first p bytes.                *)
HasHeader(c, p) == Len(c.wire) - p >= HEADER_SIZE
GoodFlag(c, p) == c.wire[p + 1] = 0 \/ (c.wire[p + 1] = 1 /\ c.encoding)
FrameLen(c, p) == Be32(c.wire, p + 1)
GoodHeader(c, p) ==
    HasHeader(c, p) /\ GoodFlag(c, p) /\ FrameLen(c, p) <= c.limit
Whole(c, p) ==
    GoodHeader(c, p) /\ Len(c.wire) - p - HEADER_SIZE >= FrameLen(c, p)
MessageAt(c, p) ==
    LET raw == SubSeq(c.wire, p + HEADER_SIZE + 1, p + HEADER_SIZE + FrameLen(c, p))
    IN  IF c.wire[p + 1] = 1 THEN Inflate(raw) ELSE raw
Readable(c, p) ==
    /\ Whole(c, p)
    /\ MessageAt(c, p) # Corrupt
    /\ Decodable(MessageAt(c, p))

(* The messages on the wire of c from position p on, and where they end.   *)
Parsing(c) ==
    LET parse[p \in 0..Len(c.wire)] ==
            IF Readable(c, p)
            THEN LET next == parse[p + HEADER_SIZE + FrameLen(c, p)]
                 IN  [msgs |-> <<MessageAt(c, p)>> \o next.msgs, stop |-> next.stop]
            ELSE [msgs |-> <<>>, stop |-> p]
    IN  parse

Sent(c) == Parsing(c)[0].msgs
Stop(c) == Parsing(c)[0].stop
Leftover(c) == Len(c.wire) - Stop(c)

(* How the peer's ending reads when nothing is wrong with the wire.        *)
Ended(c, now) ==
    LET status == InferGrpcStatus(now, c.http)
    IN  IF c.direction = "Response" /\ status \notin {"Ok", NoStatus}
        THEN Err(status)
        ELSE End
EndingVerdict(c) ==
    CASE c.ending.kind = "eof" -> Ended(c, NoTrailers)
      [] c.ending.kind = "trailers" -> Ended(c, c.ending.status)
      [] c.ending.kind = "error" ->
           IF c.direction = "Request" /\ c.ending.code = "Cancelled"
           THEN Ended(c, NoTrailers)
           ELSE Err(c.ending.code)

(* A message that is cut short: its beginning is on the wire, the rest     *)
(* never comes.                                                            *)
Truncated(c) ==
    /\ Leftover(c) > 0
    /\ HasHeader(c, Stop(c)) => GoodHeader(c, Stop(c)) /\ ~Whole(c, Stop(c))

(* The bytes of the cut message that are still buffered once its header,   *)
(* if complete, has been consumed: all that decode.rs:249 looks at.        *)
Unconsumed(c) ==
    IF HasHeader(c, Stop(c)) THEN Leftover(c) - HEADER_SIZE ELSE Leftover(c)

(* The final results the code may give.                                    *)
Verdicts(c) ==
    CASE HasHeader(c, Stop(c)) /\ ~GoodFlag(c, Stop(c)) -> {Err("Internal")}
      [] HasHeader(c, Stop(c)) /\ GoodFlag(c, Stop(c))
            /\ FrameLen(c, Stop(c)) > c.limit -> {Err("OutOfRange")}
      [] Whole(c, Stop(c)) -> {Err("Internal")}
      [] Truncated(c) /\ c.ending.kind = "eof" /\ Unconsumed(c) > 0 ->
            {Err("Internal")}
      [] OTHER -> {EndingVerdict(c)}

(***************************************************************************)
(* Refinement.  However the body is cut into frames, and wherever it is    *)
(* pending, the consumer receives the messages of the wire in order, and   *)
(* how the stream ends is determined by the wire and its ending.           *)
(***************************************************************************)
Abstract == INSTANCE MessageStream WITH
    sent <- Sent(call),
    verdicts <- Verdicts(call),
    yielded <- items,
    outcome <- IF after = <<>> THEN [kind |-> "open"] ELSE after[1]
ImplementsMessageStream == Abstract!Spec

(***************************************************************************)
(* A response ends as a success only if the server said so: by trailers    *)
(* with status Ok, or, on HTTP 200, by saying nothing at all.              *)
(* (decode.rs:273, status.rs:422)                                          *)
(***************************************************************************)
StatusSurfaced ==
    Outcome = "end" /\ call.direction = "Response" =>
        /\ body = "ended"
        /\ call.ending.kind = "trailers" =>
              InferGrpcStatus(call.ending.status, call.http) \in {"Ok", NoStatus}
        /\ call.ending.kind = "eof" => call.http = 200
        /\ call.ending.kind # "error"

(***************************************************************************)
(* Backpressure: bytes are taken from the body only when those buffered    *)
(* cannot make up a message, so what waits in `buf` before a frame is      *)
(* added is less than one message of the largest size.  (decode.rs:293)    *)
(***************************************************************************)
Backpressure == [][taken' # taken => Buffered < HEADER_SIZE + call.limit]_vars

(***************************************************************************)
(* A consumer that keeps polling gets to the end, by success or error,     *)
(* after every message the wire holds whole.  (decode.rs:287)              *)
(***************************************************************************)
Terminates == <>(Outcome # "open" /\ items = Sent(call))
=============================================================================
