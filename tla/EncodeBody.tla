----------------------------- MODULE EncodeBody -----------------------------
(***************************************************************************)
(* `EncodeBody` (grpc-core/src/codec/encode.rs): the HTTP body that frames *)
(* the items of a stream, batches them into data frames and, on a server,  *)
(* ends with the status as trailers; together with the loop that writes    *)
(* the body's frames to the connection.                                    *)
(*                                                                         *)
(* There are two such loops.  Over HTTP/2 it is hyper's (external): it     *)
(* stops at the trailers frame and resets the stream on a body error.      *)
(* Over HTTP/3 it is the repository's own: `send_h3_response` on the       *)
(* server keeps polling until None and sends the last trailers it saw at   *)
(* the end; `send_h3_request` on the client finishes the stream however    *)
(* the body ended.                                                         *)
(*                                                                         *)
(* An action is one turn of the loop in `EncodedBytes::poll_next`: the     *)
(* source yields an item, an error, its end, or is pending.  Messages are  *)
(* their positions in the source, so that order, loss and duplication are  *)
(* visible.                                                                *)
(***************************************************************************)
EXTENDS GrpcStatus, Sequences

CONSTANTS
    Scripts,            \* what sources yield before they end
    Roles,              \* subset of {"Client", "Server"}
    Senders,            \* subset of {"hyper", "h3"}
    YieldThreshold,     \* BufferSettings::yield_threshold, in bytes
    MaxMessageSize,     \* the send limit
    U32Max              \* the largest length a frame header can carry

HEADER_SIZE == 5

(* A message has the size it is encoded (and compressed) to, unless the    *)
(* codec fails on it.                                                      *)
Element ==   [kind : {"msg"}, encodable : BOOLEAN, size : Nat]
        \cup [kind : {"err"}, code : Code \ {"Ok"}]

ASSUME ScriptsAssumption == Scripts \subseteq Seq(Element)
ASSUME SizesAssumption ==
    YieldThreshold \in Nat \ {0} /\ MaxMessageSize \in Nat /\ U32Max \in Nat
ASSUME RolesAssumption ==
    Roles \subseteq {"Client", "Server"} /\ Senders \subseteq {"hyper", "h3"}

VARIABLES
    script,     \* what the source yields; never changes
    role,       \* EncodeState::role; never changes
    sender,     \* the loop that polls this body; never changes
    pos,        \* how many elements the source has yielded
    buf,        \* the messages framed in `buf`
    size,       \* buf.len()
    deferred,   \* EncodedBytes::error, or NoStatus
    isEnd,      \* "yes" once EncodeState::is_end_stream is set
    seen,       \* trailers the sender holds back, or NoTrailers (h3 server)
    delivered,  \* the messages written to the connection
    ended       \* "open", or how the connection's stream was ended

vars == <<script, role, sender, pos, buf, size, deferred, isEnd, seen, delivered,
          ended>>

(* "finished": END_STREAM without trailers; "reset": RST_STREAM; a code:   *)
(* trailers with that grpc-status.                                         *)
Endings == {"open", "finished", "reset"} \cup Code

TypeOK ==
    /\ script \in Scripts
    /\ role \in Roles
    /\ sender \in Senders
    /\ pos \in 0..Len(script)
    /\ buf \in Seq(1..pos)
    /\ size \in Nat
    /\ deferred \in HeaderStatus
    /\ isEnd \in {"yes", "no"}
    /\ seen \in Code \cup {NoTrailers}
    /\ delivered \in Seq(1..pos)
    /\ ended \in Endings

-----------------------------------------------------------------------------
(* encode_item and finish_encoding.                                        *)
EncodeResult(m) ==
    IF ~m.encodable THEN "Internal"
    ELSE IF m.size > MaxMessageSize THEN "OutOfRange"
    ELSE IF m.size > U32Max THEN "ResourceExhausted"
    ELSE "Ok"

FrameSize(m) == HEADER_SIZE + m.size

IsMessage(i) == script[i].kind = "msg"
Good(i) == IsMessage(i) /\ EncodeResult(script[i]) = "Ok"
FailureCode(i) ==
    IF IsMessage(i) THEN EncodeResult(script[i]) ELSE script[i].code

(* A client's stream has no errors: it is `s.map(Ok)`.                     *)
Init ==
    /\ script \in Scripts
    /\ role \in Roles
    /\ sender \in Senders
    /\ role = "Client" => \A i \in DOMAIN script : IsMessage(i)
    /\ pos = 0
    /\ buf = <<>>
    /\ size = 0
    /\ deferred = NoStatus
    /\ isEnd = "no"
    /\ seen = NoTrailers
    /\ delivered = <<>>
    /\ ended = "open"
-----------------------------------------------------------------------------
(* What the sender does with the frame poll_frame returns.                 *)

(* A data frame is written at once.                                        *)
SendData(chunk) ==
    /\ delivered' = delivered \o chunk
    /\ UNCHANGED <<seen, ended>>

(* Mutant of SendTrailers: the h3 loop drops the trailers frame.           *)
SendTrailersDropped(code) ==
    /\ IF sender = "hyper"
       THEN ended' = code /\ UNCHANGED seen
       ELSE UNCHANGED <<seen, ended>>
    /\ UNCHANGED delivered

(* hyper sends a trailers frame and is done; send_h3_response keeps it and *)
(* polls on.                                                               *)
SendTrailers(code) ==
    /\ IF sender = "hyper"
       THEN ended' = code /\ UNCHANGED seen
       ELSE seen' = code /\ UNCHANGED ended
    /\ UNCHANGED delivered

(* None: the stream is finished, with the trailers that were held back.    *)
SendEnd ==
    /\ ended' = IF seen = NoTrailers THEN "finished" ELSE seen
    /\ UNCHANGED <<seen, delivered>>

(* A body error, on a client: hyper resets the stream, the h3 loop breaks  *)
(* and finishes it.                                                        *)
SendError ==
    /\ ended' = IF sender = "hyper" THEN "reset" ELSE "finished"
    /\ UNCHANGED <<seen, delivered>>
-----------------------------------------------------------------------------
(* Mutant of Flush: the batch is sent but stays in the buffer.             *)
KeepBatch(batch) ==
    /\ SendData(batch)
    /\ UNCHANGED <<buf, size>>

(* Yield the batch: `buf.split_to(buf.len())`.                             *)
Flush(batch) ==
    /\ SendData(batch)
    /\ buf' = <<>>
    /\ size' = 0

(* poll_frame's treatment of an error of EncodedBytes: an Err on a client, *)
(* the trailers on a server.                                               *)
FailWith(code) ==
    IF role = "Client"
    THEN SendError /\ UNCHANGED isEnd
    ELSE SendTrailers(code) /\ isEnd' = "yes"

Polled == ended = "open"
SourceTurn == Polled /\ deferred = NoStatus
Yields(kind) == pos < Len(script) /\ script[pos + 1].kind = kind

(* Mutant of YieldDeferred: read with clone() where take() is meant.       *)
YieldDeferredCloned ==
    /\ Polled
    /\ deferred # NoStatus
    /\ FailWith(deferred)
    /\ UNCHANGED <<script, role, sender, pos, buf, size, deferred>>

(* The error saved by SourceErrorDeferred is returned by the next poll.    *)
YieldDeferred ==
    /\ Polled
    /\ deferred # NoStatus
    /\ FailWith(deferred)
    /\ deferred' = NoStatus
    /\ UNCHANGED <<script, role, sender, pos, buf, size>>

(* A message is framed at the end of buf; a batch that has reached the     *)
(* threshold is yielded.                                                   *)
EncodeItem ==
    /\ SourceTurn
    /\ Yields("msg")
    /\ Good(pos + 1)
    /\ pos' = pos + 1
    /\ IF size + FrameSize(script[pos + 1]) >= YieldThreshold
       THEN Flush(Append(buf, pos + 1))
       ELSE /\ buf' = Append(buf, pos + 1)
            /\ size' = size + FrameSize(script[pos + 1])
            /\ UNCHANGED <<seen, delivered, ended>>
    /\ UNCHANGED <<script, role, sender, deferred, isEnd>>

(* encode_item fails: buf is truncated to where the message began and the  *)
(* error is returned at once, ahead of what is in buf.                     *)
EncodeFails ==
    /\ SourceTurn
    /\ Yields("msg")
    /\ ~Good(pos + 1)
    /\ pos' = pos + 1
    /\ FailWith(EncodeResult(script[pos + 1]))
    /\ UNCHANGED <<script, role, sender, buf, size, deferred>>

(* The source yields an error and nothing is buffered.                     *)
SourceError ==
    /\ SourceTurn
    /\ Yields("err")
    /\ buf = <<>>
    /\ pos' = pos + 1
    /\ FailWith(script[pos + 1].code)
    /\ UNCHANGED <<script, role, sender, buf, size, deferred>>

(* Mutant of SourceErrorDeferred: the error overtakes what is buffered.    *)
SourceErrorOvertakes ==
    /\ SourceTurn
    /\ Yields("err")
    /\ buf # <<>>
    /\ pos' = pos + 1
    /\ FailWith(script[pos + 1].code)
    /\ UNCHANGED <<script, role, sender, buf, size, deferred>>

(* The source yields an error: what is buffered goes first.                *)
SourceErrorDeferred ==
    /\ SourceTurn
    /\ Yields("err")
    /\ buf # <<>>
    /\ pos' = pos + 1
    /\ deferred' = script[pos + 1].code
    /\ Flush(buf)
    /\ UNCHANGED <<script, role, sender, isEnd>>

(* The source is pending, or done, and something is buffered.              *)
FlushIdle ==
    /\ SourceTurn
    /\ buf # <<>>
    /\ Flush(buf)
    /\ UNCHANGED <<script, role, sender, pos, deferred, isEnd>>

(* Mutant of SourceDone: the end of the source is taken for the end of the *)
(* body although a batch is still buffered.                                *)
SourceDoneEarly ==
    /\ SourceTurn
    /\ pos = Len(script)
    /\ IF role = "Server" /\ isEnd = "no"
       THEN SendTrailers("Ok") /\ isEnd' = "yes"
       ELSE SendEnd /\ UNCHANGED isEnd
    /\ UNCHANGED <<script, role, sender, pos, buf, size, deferred>>

(* The source is done and nothing is buffered.  EncodeState::error is      *)
(* never set, so `trailers()` always says Ok, once; after trailers it says *)
(* None, and so it does on a client.                                       *)
SourceDone ==
    /\ SourceTurn
    /\ pos = Len(script)
    /\ buf = <<>>
    /\ IF role = "Server" /\ isEnd = "no"
       THEN SendTrailers("Ok") /\ isEnd' = "yes"
       ELSE SendEnd /\ UNCHANGED isEnd
    /\ UNCHANGED <<script, role, sender, pos, buf, size, deferred>>

PollFrame ==
    \/ YieldDeferred
    \/ EncodeItem
    \/ EncodeFails
    \/ SourceError
    \/ SourceErrorDeferred
    \/ FlushIdle
    \/ SourceDone

(* The connection fails or the peer resets the stream.                     *)
Disconnect ==
    /\ Polled
    /\ ended' = "reset"
    /\ UNCHANGED <<script, role, sender, pos, buf, size, deferred, isEnd, seen,
                   delivered>>

Next == PollFrame \/ Disconnect

Spec == Init /\ [][Next]_vars

(* A source that keeps yielding and a connection that keeps accepting.     *)
FairSpec == Spec /\ WF_vars(PollFrame)
-----------------------------------------------------------------------------
(***************************************************************************)
(* Every message the source has yielded and that could be framed is either *)
(* in the buffer or on the wire, once, in the order of the source.  The    *)
(* batching of encode.rs:71-102 must not lose, repeat or reorder, nor must *)
(* the truncation of a failed frame (encode.rs:145-154).                   *)
(***************************************************************************)
Accounted ==
    LET out == delivered \o buf
    IN  /\ \A i, j \in DOMAIN out : i < j => out[i] < out[j]
        /\ { out[i] : i \in DOMAIN out } = { i \in 1..pos : Good(i) }

(***************************************************************************)
(* Between polls less than one batch waits in the buffer: EncodedBytes     *)
(* never reads ahead of its consumer by more than yield_threshold bytes    *)
(* (encode.rs:91), and size is the number of bytes buffered.               *)
(***************************************************************************)
BufBelowThreshold ==
    /\ size < YieldThreshold
    /\ size = 0 <=> buf = <<>>

Failures == { i \in DOMAIN script : ~Good(i) }
FirstFailure(i) == i \in Failures /\ \A j \in Failures : i <= j
LastFailure(i) == i \in Failures /\ \A j \in Failures : j <= i
Wire(i) == \E k \in DOMAIN delivered : delivered[k] = i

(***************************************************************************)
(* What the peer may conclude from the status a server ends with.  Ok: it  *)
(* has every message of the handler's stream and nothing failed.  An       *)
(* error: it is the handler's, or the encoder's, own; over HTTP/2 it is    *)
(* the first one, nothing after it was sent, and if the handler itself     *)
(* reported it everything before it was sent; over HTTP/3 it is the last   *)
(* one and every message that could be framed was sent.                    *)
(* (encode.rs:276-295, h3_server.rs:336-360)                               *)
(***************************************************************************)
StatusTruthful ==
    role = "Server" /\ ended \in Code =>
        /\ ended = "Ok" <=> Failures = {}
        /\ ended = "Ok" => \A i \in DOMAIN script : Wire(i)
        /\ sender = "hyper" =>
              \A f \in DOMAIN script : FirstFailure(f) =>
                 /\ ended = FailureCode(f)
                 /\ \A i \in DOMAIN script : Wire(i) => i < f
                 /\ ~IsMessage(f) => \A i \in 1..(f - 1) : Wire(i)
        /\ sender = "h3" =>
              /\ \A f \in DOMAIN script : LastFailure(f) => ended = FailureCode(f)
              /\ \A i \in DOMAIN script : Good(i) => Wire(i)

(***************************************************************************)
(* A request that ends cleanly over HTTP/2 is whole: a client whose        *)
(* message cannot be encoded resets the stream instead of cutting the      *)
(* request short (encode.rs:283).                                          *)
(***************************************************************************)
CleanRequestIsWhole ==
    role = "Client" /\ sender = "hyper" /\ ended = "finished" =>
        \A i \in DOMAIN script : Good(i) /\ Wire(i)

(***************************************************************************)
(* A server's stream is never ended without a status (encode.rs:248-262).  *)
(***************************************************************************)
StatusIsSent == role = "Server" => ended # "finished"

(***************************************************************************)
(* Every body comes to an end, whatever the source yields (encode.rs:276). *)
(***************************************************************************)
BodyEnds == <>(ended # "open")
=============================================================================
