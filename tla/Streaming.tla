------------------------------ MODULE Streaming ------------------------------
(***************************************************************************)
(* `Streaming<T>` (grpc-core/src/codec/decode.rs): the state machine that  *)
(* turns the frames of an HTTP body into a stream of decoded messages.     *)
(*                                                                         *)
(* `poll_next` is a loop.  Each action below that is not TakeTrailers is   *)
(* one turn of that loop: what `decode_chunk` does with the bytes already  *)
(* buffered and, when they are not enough, the frame `poll_frame` takes    *)
(* from the body.  The body is the environment: it may hand over its bytes *)
(* in chunks of any size and may be pending at any time.                   *)
(*                                                                         *)
(* Bytes are numbers, so a stream that has lost its place reads payload    *)
(* bytes as a header, exactly as the code does.                            *)
(***************************************************************************)
EXTENDS GrpcStatus, Sequences

CONSTANTS
    Byte,           \* the byte values in use, a set of naturals below 256
    Calls,          \* the calls explored: what the peer sends, and how the
                    \* stream was constructed (see CallType)
    Inflate(_),     \* external: decompress(payload), or Corrupt
    Corrupt,        \* what Inflate gives for a payload it rejects
    Decodable(_),   \* external: does the codec accept this payload? (It
                    \* gives a message or fails, as prost's and FlatBuffers' do.)
    MaxAfter        \* bound: results recorded after the first final result

HEADER_SIZE == 5

Direction == {"Request", "Response", "EmptyResponse"}

(* The peer may end its body cleanly, with trailers, or by an error.       *)
Ending ==   [kind : {"eof"}]
       \cup [kind : {"trailers"}, status : HeaderStatus]
       \cup [kind : {"error"}, code : Code \ {"Ok"}]

CallType ==
    [wire      : Seq(Byte),     \* every byte of the body
     ending    : Ending,        \* what the body yields after those bytes
     direction : Direction,     \* new_request, new_response or new_empty
     http      : Nat,           \* HTTP status of the response
     encoding  : BOOLEAN,       \* was a grpc-encoding negotiated?
     limit     : Nat]           \* max_message_size

ASSUME ByteAssumption == Byte \subseteq 0..255
ASSUME CallsAssumption == Calls \subseteq CallType
ASSUME InflateAssumption ==
    \A c \in Calls : \A i, j \in 0..Len(c.wire) :
        Inflate(SubSeq(c.wire, i + 1, j)) \in Seq(Byte) \cup {Corrupt}
ASSUME MaxAfterAssumption == MaxAfter \in Nat \ {0}

VARIABLES
    call,       \* the call being decoded; never changes
    read,       \* how many bytes of call.wire have left `buf` again
    taken,      \* how many bytes of call.wire have been put into `buf`
    body,       \* "open", or "ended" once it has yielded its ending
    state,      \* `StreamingInner::state`
    trailers,   \* `StreamingInner::trailers`
    items,      \* history: messages yielded before the first final result
    after       \* history: the results of poll_next from the first one that
                \* is not a message (an error or the end of the stream) on

vars == <<call, read, taken, body, state, trailers, items, after>>
-----------------------------------------------------------------------------
(* `enum State`                                                            *)
ReadHeader == [name |-> "ReadHeader"]
ReadBody(compressed, len) ==
    [name |-> "ReadBody", compressed |-> compressed, len |-> len]
Errored(status) == [name |-> "Error", status |-> status]

State ==   [name : {"ReadHeader"}]
      \cup [name : {"ReadBody"}, compressed : BOOLEAN, len : Nat]
      \cup [name : {"Error"}, status : HeaderStatus]

(* What one call of poll_next can return, Pending apart.                   *)
Item(msg) == [kind |-> "item", msg |-> msg]
Err(code) == [kind |-> "err", code |-> code]
End == [kind |-> "end"]
Result ==   [kind : {"item"}, msg : Seq(Byte)]
       \cup [kind : {"err"}, code : Code]
       \cup [kind : {"end"}]

(* How the stream ended for a consumer that stops at the first final       *)
(* result.                                                                 *)
Outcome == IF after = <<>> THEN "open" ELSE after[1].kind

TypeOK ==
    /\ call \in CallType
    /\ taken \in 0..Len(call.wire)
    /\ read \in 0..taken
    /\ body \in {"open", "ended"}
    /\ state \in State
    /\ trailers \in Trailers
    /\ items \in Seq(Seq(Byte))
    /\ after \in Seq(Result)

Init ==
    /\ call \in Calls
    /\ read = 0
    /\ taken = 0
    /\ body = "open"
    /\ state = ReadHeader
    /\ trailers = NoTrailers
    /\ items = <<>>
    /\ after = <<>>
-----------------------------------------------------------------------------
(* Return(r): poll_next returns r; the history records it.                 *)
Return(r) ==
    IF after = <<>> /\ r.kind = "item"
    THEN items' = Append(items, r.msg) /\ UNCHANGED after
    ELSE /\ Len(after) < MaxAfter
         /\ after' = Append(after, r)
         /\ UNCHANGED items

NoResult == UNCHANGED <<items, after>>

(* `buf` is the part of the wire between the two cursors.                  *)
Buffered == taken - read

(* The five header bytes: a flag and a big-endian u32.                     *)
Be32(s, at) ==
    ((s[at + 1] * 256 + s[at + 2]) * 256 + s[at + 3]) * 256 + s[at + 4]
HeaderReady == state.name = "ReadHeader" /\ Buffered >= HEADER_SIZE
Flag == call.wire[read + 1]
FlagAccepted == Flag = 0 \/ (Flag = 1 /\ call.encoding)
BodyLen == Be32(call.wire, read + 1)

(* Where decode_chunk stands once it has dealt with the header.            *)
HeaderParsed == HeaderReady /\ FlagAccepted /\ BodyLen <= call.limit
Parsed == IF HeaderReady THEN ReadBody(Flag = 1, BodyLen) ELSE state
BodyAt == IF HeaderReady THEN read + HEADER_SIZE ELSE read

(* decode_chunk goes on to the body of the message / wants more bytes.     *)
InBody == HeaderParsed \/ state.name = "ReadBody"
PayloadReady == InBody /\ taken - BodyAt >= Parsed.len
NeedMore ==
    \/ state.name = "ReadHeader" /\ Buffered < HEADER_SIZE
    \/ InBody /\ taken - BodyAt < Parsed.len

Payload == SubSeq(call.wire, BodyAt + 1, BodyAt + Parsed.len)
Inflated == IF Parsed.compressed THEN Inflate(Payload) ELSE Payload
-----------------------------------------------------------------------------
(* A stream in the Error state yields its status once, then None.          *)
PollError ==
    /\ state.name = "Error"
    /\ Return(IF state.status = NoStatus THEN End ELSE Err(state.status))
    /\ state' = Errored(NoStatus)
    /\ UNCHANGED <<call, read, taken, body, trailers>>

(* decode_chunk fails on the flag: one byte is gone, the state is not      *)
(* changed, and the error is returned through `?`.                         *)
RejectFlag ==
    /\ HeaderReady
    /\ ~FlagAccepted
    /\ Return(Err("Internal"))
    /\ read' = read + 1
    /\ UNCHANGED <<call, taken, body, state, trailers>>

(* decode_chunk fails on the length: the header is gone, the state is not  *)
(* changed.                                                                *)
RejectLength ==
    /\ HeaderReady
    /\ FlagAccepted
    /\ BodyLen > call.limit
    /\ Return(Err("OutOfRange"))
    /\ read' = read + HEADER_SIZE
    /\ UNCHANGED <<call, taken, body, state, trailers>>

(* decompress fails: its `?` comes before `advance`, so the payload stays. *)
FailInflate ==
    /\ PayloadReady
    /\ Inflated = Corrupt
    /\ Return(Err("Internal"))
    /\ state' = Parsed
    /\ read' = BodyAt
    /\ UNCHANGED <<call, taken, body, trailers>>

(* The codec refuses the payload.  A compressed payload has already left   *)
(* buf; of a plain one the codec has consumed some part (prost) or nothing *)
(* (FlatBuffers).  The state remains ReadBody.                             *)
FailDecode ==
    /\ PayloadReady
    /\ Inflated # Corrupt
    /\ ~Decodable(Inflated)
    /\ Return(Err("Internal"))
    /\ state' = Parsed
    /\ \E used \in IF Parsed.compressed THEN {Parsed.len} ELSE 0..Parsed.len :
          read' = BodyAt + used
    /\ UNCHANGED <<call, taken, body, trailers>>

(* A whole message is decoded and yielded.                                 *)
YieldMessage ==
    /\ PayloadReady
    /\ Inflated # Corrupt
    /\ Decodable(Inflated)
    /\ Return(Item(Inflated))
    /\ state' = ReadHeader
    /\ read' = BodyAt + Parsed.len
    /\ UNCHANGED <<call, taken, body, trailers>>

(* Mutant of PollPending: the header is consumed but the state not saved.  *)
PollPendingForgets ==
    /\ NeedMore
    /\ HeaderReady
    /\ body = "open"
    /\ read' = BodyAt
    /\ NoResult
    /\ UNCHANGED <<call, taken, body, state, trailers>>

(* The header is parsed but the body is pending: the progress is kept.     *)
PollPending ==
    /\ NeedMore
    /\ HeaderReady
    /\ body = "open"
    /\ state' = Parsed
    /\ read' = BodyAt
    /\ NoResult
    /\ UNCHANGED <<call, taken, body, trailers>>

(* Mutant of PollData: reads ahead although a message is ready.            *)
PollDataEager ==
    /\ state.name # "Error"
    /\ \E n \in 1..(Len(call.wire) - taken) :
          taken' = taken + n
    /\ NoResult
    /\ UNCHANGED <<call, read, body, state, trailers>>

(* poll_frame: a data frame, of any size.                                  *)
PollData ==
    /\ NeedMore
    /\ \E n \in 1..(Len(call.wire) - taken) :
          taken' = taken + n
    /\ read' = BodyAt
    /\ state' = Parsed
    /\ NoResult
    /\ UNCHANGED <<call, body, trailers>>

(* Mutant of Response: the HTTP status is not consulted when no trailers   *)
(* came.                                                                   *)
ResponseTrailersOnly(now) ==
    LET failed == call.direction = "Response" /\ now \notin {"Ok", NoStatus, NoTrailers}
    IN  IF failed
        THEN /\ state' = Errored(now)
             /\ trailers' = NoTrailers
             /\ NoResult
        ELSE /\ state' = Parsed
             /\ trailers' = now
             /\ Return(End)

(* `response()` after poll_frame returned None, with `now` as trailers: a  *)
(* status that is not Ok becomes the Error state, to be yielded by the     *)
(* next turn of the loop; otherwise the stream ends.                       *)
Response(now) ==
    LET status == InferGrpcStatus(now, call.http)
        failed == call.direction = "Response" /\ status \notin {"Ok", NoStatus}
    IN  IF failed
        THEN /\ state' = Errored(status)
             /\ trailers' = NoTrailers
             /\ NoResult
        ELSE /\ state' = Parsed
             /\ trailers' = now
             /\ Return(End)

AllTaken == taken = Len(call.wire)

(* poll_frame: the trailers frame.  It ends the stream whatever is left in *)
(* buf.                                                                    *)
PollTrailers ==
    /\ NeedMore
    /\ AllTaken
    /\ body = "open"
    /\ call.ending.kind = "trailers"
    /\ body' = "ended"
    /\ read' = BodyAt
    /\ Response(call.ending.status)
    /\ UNCHANGED <<call, taken>>

(* Mutant of PollEof: leftover bytes at the end of the body make the       *)
(* stream wait for more.                                                   *)
PollEofWaits ==
    /\ NeedMore
    /\ AllTaken
    /\ taken = BodyAt
    /\ \/ call.ending.kind = "eof"
       \/ call.ending.kind = "trailers" /\ body = "ended"
    /\ body' = "ended"
    /\ read' = BodyAt
    /\ Response(trailers)
    /\ UNCHANGED <<call, taken>>

(* poll_frame: the body is over, now or since an earlier poll.             *)
PollEof ==
    /\ NeedMore
    /\ AllTaken
    /\ \/ call.ending.kind = "eof"
       \/ call.ending.kind = "trailers" /\ body = "ended"
    /\ body' = "ended"
    /\ read' = BodyAt
    /\ IF taken > BodyAt
       THEN Return(Err("Internal")) /\ state' = Parsed /\ UNCHANGED trailers
       ELSE Response(trailers)
    /\ UNCHANGED <<call, taken>>

(* poll_frame: the body fails.  A cancelled request is taken for its end;  *)
(* any other failure is stored and returned at once.                       *)
PollBodyError ==
    /\ NeedMore
    /\ AllTaken
    /\ call.ending.kind = "error"
    /\ body' = "ended"
    /\ read' = BodyAt
    /\ IF call.direction = "Request" /\ call.ending.code = "Cancelled"
       THEN Response(trailers)
       ELSE /\ state' = Errored(call.ending.code)
            /\ Return(Err(call.ending.code))
            /\ UNCHANGED trailers
    /\ UNCHANGED <<call, taken>>

(* The `take()` of the `trailers()` method; the rest of that method is     *)
(* polls.                                                                  *)
TakeTrailers ==
    /\ trailers # NoTrailers
    /\ trailers' = NoTrailers
    /\ UNCHANGED <<call, read, taken, body, state, items, after>>

PollNext ==
    \/ PollError
    \/ RejectFlag
    \/ RejectLength
    \/ FailInflate
    \/ FailDecode
    \/ YieldMessage
    \/ PollPending
    \/ PollData
    \/ PollTrailers
    \/ PollEof
    \/ PollBodyError

Next == PollNext \/ TakeTrailers

Spec == Init /\ [][Next]_vars

(* A consumer that keeps polling, over a body that keeps delivering.       *)
FairSpec == Spec /\ WF_vars(PollNext)
=============================================================================
