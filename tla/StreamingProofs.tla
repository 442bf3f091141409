--------------------------- MODULE StreamingProofs ---------------------------
(***************************************************************************)
(* Theorems about `Streaming` for every set of calls, every decompressor   *)
(* and every codec: its type invariant, that the server's status is        *)
(* surfaced, that reading is driven by demand, and that it implements      *)
(* `MessageStream` over the messages on the wire.                          *)
(***************************************************************************)
EXTENDS StreamingSpec, WellFoundedInduction, TLAPS

(* A parsed header has passed the length check.                            *)
LengthChecked == state.name = "ReadBody" => state.len <= call.limit

(* Trailers are stored only once the body has handed them over, and they   *)
(* are the ones it ended with.                                             *)
TrailersFromBody ==
    trailers # NoTrailers =>
        /\ body = "ended"
        /\ call.ending.kind = "trailers"
        /\ trailers = call.ending.status

(* A closed body has been answered: by a final result, or by an error      *)
(* status that the next poll will yield.                                   *)
Answered ==
    after = <<>> =>
        /\ body = "ended" => state.name = "Error"
        /\ state.name = "Error" => state.status # NoStatus

IInv ==
    /\ TypeOK
    /\ call \in Calls
    /\ LengthChecked
    /\ TrailersFromBody
    /\ Answered
    /\ StatusSurfaced
-----------------------------------------------------------------------------
(* A length is a natural number (`get_u32` of four bytes).                 *)
LEMMA BodyLenNat ==
    ASSUME TypeOK, HeaderReady
    PROVE  /\ BodyLen \in Nat
           /\ read + HEADER_SIZE <= taken
           /\ read + HEADER_SIZE \in 0..taken
<1>1. /\ call.wire \in Seq(Byte) /\ Byte \subseteq 0..255
      /\ read \in Nat /\ taken \in Nat /\ read + 5 <= taken
      /\ taken <= Len(call.wire)
  BY ByteAssumption DEF TypeOK, CallType, HeaderReady, Buffered, HEADER_SIZE
<1>2. ASSUME NEW i \in 1..Len(call.wire)
      PROVE  call.wire[i] \in Nat
  <2>1. call.wire[i] \in Byte
    BY <1>1
  <2>2. \A b \in Byte : b \in Nat
    BY ByteAssumption
  <2> QED
    BY <2>1, <2>2
<1>3. read + 2 \in 1..Len(call.wire) /\ read + 3 \in 1..Len(call.wire)
      /\ read + 4 \in 1..Len(call.wire) /\ read + 5 \in 1..Len(call.wire)
  BY <1>1
<1>4. /\ call.wire[read + 1 + 1] \in Nat /\ call.wire[read + 1 + 2] \in Nat
      /\ call.wire[read + 1 + 3] \in Nat /\ call.wire[read + 1 + 4] \in Nat
  BY <1>1, <1>2, <1>3
<1>5. BodyLen \in Nat
  BY <1>4 DEF BodyLen, Be32
<1> QED
  BY <1>1, <1>5 DEF HEADER_SIZE

(* What decode_chunk leaves behind: a position inside the buffer, and a    *)
(* state whose length has been checked.                                    *)
LEMMA ParsedOK ==
    ASSUME IInv, InBody \/ NeedMore
    PROVE  /\ BodyAt \in 0..taken
           /\ Parsed \in State
           /\ Parsed.name \in {"ReadHeader", "ReadBody"}
           /\ Parsed.name = "ReadBody" => Parsed.len \in 0..call.limit
           /\ InBody => Parsed.name = "ReadBody"
<1> USE DEF HEADER_SIZE
<1>1. CASE HeaderReady
  <2>1. HeaderParsed
    BY <1>1 DEF InBody, NeedMore, HeaderReady, Buffered, IInv, TypeOK, CallType
  <2>2. BodyLen \in Nat /\ BodyLen <= call.limit /\ call.limit \in Nat
    BY <1>1, <2>1, BodyLenNat DEF HeaderParsed, IInv, TypeOK, CallType
  <2>3. Parsed = ReadBody(Flag = 1, BodyLen) /\ BodyAt = read + HEADER_SIZE
    BY <1>1 DEF Parsed, BodyAt
  <2>4. Parsed \in State
    BY <2>2, <2>3 DEF State, ReadBody
  <2> QED
    BY <1>1, <2>2, <2>3, <2>4, BodyLenNat DEF IInv, ReadBody
<1>2. CASE ~HeaderReady
  <2>1. Parsed = state /\ BodyAt = read
    BY <1>2 DEF Parsed, BodyAt
  <2>2. state.name \in {"ReadHeader", "ReadBody"}
    BY <1>2 DEF InBody, NeedMore, HeaderParsed
  <2>3. state.name = "ReadBody" => state.len \in Nat
    BY DEF IInv, TypeOK, State
  <2>4. InBody => state.name = "ReadBody"
    BY <1>2 DEF InBody, HeaderParsed
  <2> QED
    BY <2>1, <2>2, <2>3, <2>4 DEF IInv, TypeOK, LengthChecked, CallType
<1> QED
  BY <1>1, <1>2

(* A message that is yielded is a sequence of bytes.                       *)
LEMMA InflatedOK ==
    ASSUME IInv, PayloadReady, Inflated # Corrupt
    PROVE  Inflated \in Seq(Byte)
<1>1. InBody
  BY DEF PayloadReady
<1>2. BodyAt \in 0..taken /\ Parsed.len \in Nat /\ BodyAt + Parsed.len <= taken
  <2>1. Parsed.len \in 0..call.limit /\ BodyAt \in 0..taken
    BY <1>1, ParsedOK
  <2> QED
    BY <2>1 DEF PayloadReady, IInv, TypeOK, CallType
<1>3. call.wire \in Seq(Byte) /\ taken <= Len(call.wire) /\ taken \in Nat
  BY DEF IInv, TypeOK, CallType
<1>4. Payload = SubSeq(call.wire, BodyAt + 1, BodyAt + Parsed.len)
  BY DEF Payload
<1>5. Payload \in Seq(Byte)
  BY <1>2, <1>3, <1>4
<1>6. Inflate(Payload) \in Seq(Byte) \cup {Corrupt}
  <2>1. \A i, j \in 0..Len(call.wire) :
            Inflate(SubSeq(call.wire, i + 1, j)) \in Seq(Byte) \cup {Corrupt}
    BY InflateAssumption DEF IInv
  <2>2. BodyAt \in 0..Len(call.wire) /\ BodyAt + Parsed.len \in 0..Len(call.wire)
    BY <1>2, <1>3
  <2> QED
    BY <1>4, <2>1, <2>2
<1> QED
  BY <1>5, <1>6 DEF Inflated

(* Returning a result keeps the histories well formed.                     *)
LEMMA ReturnOK ==
    ASSUME items \in Seq(Seq(Byte)), after \in Seq(Result),
           NEW r \in Result, Return(r)
    PROVE  /\ items' \in Seq(Seq(Byte))
           /\ after' \in Seq(Result)
           /\ after = <<>> /\ r.kind # "item" => after' = <<r>>
           /\ r.kind # "item" => after' # <<>>
           /\ after = <<>> /\ r.kind = "item" => after' = <<>>
           /\ after # <<>> => after' # <<>> /\ after'[1] = after[1]
<1>1. CASE after = <<>> /\ r.kind = "item"
  BY <1>1 DEF Return, Result
<1>2. CASE ~(after = <<>> /\ r.kind = "item")
  <2>1. after' = Append(after, r) /\ items' = items
    BY <1>2 DEF Return
  <2>2. after # <<>> => Len(after) >= 1
    OBVIOUS
  <2>3. after = <<>> => after' = <<r>>
    BY <2>1
  <2>4. after # <<>> => after' # <<>> /\ after'[1] = after[1]
    BY <2>1, <2>2
  <2>5. after' \in Seq(Result)
    BY <2>1
  <2> QED
    BY <1>2, <2>1, <2>3, <2>4, <2>5
<1> QED
  BY <1>1, <1>2
-----------------------------------------------------------------------------
LEMMA InitInv == Init => IInv
<1> SUFFICES ASSUME Init PROVE IInv
  OBVIOUS
<1>1. call \in CallType /\ call.wire \in Seq(Byte)
  BY CallsAssumption DEF Init, CallType
<1>2. Len(call.wire) \in Nat
  BY <1>1
<1>3. TypeOK
  <2>1. body \in {"open", "ended"}
    BY DEF Init
  <2>2. state \in State
    BY DEF Init, State, ReadHeader
  <2>3. trailers \in Trailers
    BY DEF Init, Trailers
  <2>4. taken \in 0..Len(call.wire) /\ read \in 0..taken
    BY <1>2 DEF Init
  <2>5. items \in Seq(Seq(Byte)) /\ after \in Seq(Result)
    BY DEF Init
  <2> QED
    BY <1>1, <2>1, <2>2, <2>3, <2>4, <2>5 DEF TypeOK
<1>4. LengthChecked /\ TrailersFromBody /\ Answered /\ StatusSurfaced
  BY DEF Init, LengthChecked, TrailersFromBody, Answered, StatusSurfaced,
         Outcome, ReadHeader
<1> QED
  BY <1>3, <1>4 DEF Init, IInv

(* What is inferred is a code or nothing, and nothing or success is        *)
(* inferred from missing trailers only for HTTP 200.                       *)
LEMMA InferOK ==
    ASSUME NEW now \in Trailers, NEW http
    PROVE  /\ InferGrpcStatus(now, http) \in HeaderStatus
           /\ now = NoTrailers /\ InferGrpcStatus(now, http) \in {"Ok", NoStatus}
                => http = 200
<1>1. CodeOfHttp(http) \in Code \ {"Ok", NoStatus}
  BY DEF CodeOfHttp, Code, NoStatus
<1>2. NoTrailers \notin Code
  BY DEF NoTrailers, Code
<1> QED
  BY <1>1, <1>2 DEF InferGrpcStatus, HeaderStatus

(* The pieces of TypeOK'.                                                  *)
LEMMA TypeStep ==
    ASSUME IInv, call' = call, taken' \in 0..Len(call.wire), read' \in 0..taken',
           body' \in {"open", "ended"}, state' \in State, trailers' \in Trailers,
           items' \in Seq(Seq(Byte)), after' \in Seq(Result)
    PROVE  TypeOK' /\ call' \in Calls
BY DEF IInv, TypeOK

(* How a stream may end when the body has ended, or a request was          *)
(* cancelled, and `now` are its trailers.                                  *)
LEMMA ResponseOK ==
    ASSUME IInv, NeedMore, body' = "ended",
           NEW now \in Trailers, Response(now),
           call' = call, taken' = taken, read' = BodyAt,
           call.direction = "Response" => call.ending.kind # "error",
           now # NoTrailers => call.ending.kind = "trailers" /\ now = call.ending.status,
           after = <<>> /\ call.ending.kind = "trailers" => now # NoTrailers
    PROVE  IInv'
<1> DEFINE status == InferGrpcStatus(now, call.http)
           failed == call.direction = "Response" /\ status \notin {"Ok", NoStatus}
<1>1. status \in HeaderStatus
  BY InferOK
<1>2. /\ BodyAt \in 0..taken
      /\ Parsed \in State
      /\ Parsed.name \in {"ReadHeader", "ReadBody"}
      /\ Parsed.name = "ReadBody" => Parsed.len \in 0..call.limit
  BY ParsedOK
<1>0. /\ call' = call /\ taken' \in 0..Len(call.wire) /\ read' \in 0..taken'
      /\ body' \in {"open", "ended"}
  <2>1. body' \in {"open", "ended"}
    OBVIOUS
  <2>2. call' = call /\ taken' \in 0..Len(call.wire) /\ read' \in 0..taken'
    BY <1>2 DEF IInv, TypeOK
  <2> QED
    BY <2>1, <2>2
<1>3. CASE failed
  <2>1. /\ state' = Errored(status) /\ trailers' = NoTrailers
        /\ UNCHANGED <<items, after>>
    BY <1>3 DEF Response, NoResult
  <2>2. TypeOK' /\ call' \in Calls
    <3>1. state' \in State /\ trailers' \in Trailers
      BY <1>1, <2>1 DEF Errored, State, Trailers
    <3>2. items' \in Seq(Seq(Byte)) /\ after' \in Seq(Result)
      BY <2>1 DEF IInv, TypeOK
    <3> QED
      BY <1>0, <1>2, <3>1, <3>2, TypeStep
  <2>3. LengthChecked' /\ TrailersFromBody' /\ Answered'
    BY <1>0, <1>3, <2>1 DEF LengthChecked, TrailersFromBody, Answered, Errored
  <2> QED
    BY <1>3, <2>1, <2>2, <2>3
    DEF IInv, LengthChecked, TrailersFromBody, Answered, StatusSurfaced, Outcome, Errored
<1>4. CASE ~failed
  <2>1. state' = Parsed /\ trailers' = now /\ Return(End)
    BY <1>4 DEF Response
  <2>2. /\ items' \in Seq(Seq(Byte)) /\ after' \in Seq(Result)
        /\ after' # <<>>
        /\ after = <<>> => after' = <<End>>
        /\ after # <<>> => after' # <<>> /\ after'[1] = after[1]
    <3>1. End \in Result /\ End.kind # "item"
      BY DEF Result, End
    <3>2. items \in Seq(Seq(Byte)) /\ after \in Seq(Result)
      BY DEF IInv, TypeOK
    <3> QED
      BY <2>1, <3>1, <3>2, ReturnOK
  <2>3. TypeOK' /\ call' \in Calls
    BY <1>0, <1>2, <2>1, <2>2, TypeStep
  <2>4. LengthChecked' /\ TrailersFromBody' /\ Answered'
    BY <1>0, <1>2, <2>1, <2>2 DEF LengthChecked, TrailersFromBody, Answered
  <2>5. CASE after = <<>>
    <3>1. ASSUME call.ending.kind = "eof", call.direction = "Response"
          PROVE  call.http = 200
      BY <1>4, <3>1, InferOK
    <3> QED
      BY <1>4, <2>2, <2>3, <2>4, <2>5, <3>1 DEF IInv, StatusSurfaced, Outcome, End
  <2>6. CASE after # <<>>
    BY <2>2, <2>3, <2>4, <2>6 DEF IInv, StatusSurfaced, Outcome
  <2> QED
    BY <2>5, <2>6
<1> QED
  BY <1>3, <1>4

(* A turn of the loop that returns a result and leaves the body alone.     *)
LEMMA ResultStep ==
    ASSUME IInv, NEW r \in Result, Return(r),
           call' = call, taken' = taken, body' = body, trailers' = trailers,
           read' \in 0..taken, state' \in State,
           state'.name = "ReadBody" => state'.len <= call.limit,
           r.kind = "end" => after # <<>>,
           r.kind = "item" => state.name # "Error" /\ state'.name # "Error"
    PROVE  IInv'
<1>1. items \in Seq(Seq(Byte)) /\ after \in Seq(Result)
  BY DEF IInv, TypeOK
<1>2. /\ items' \in Seq(Seq(Byte))
      /\ after' \in Seq(Result)
      /\ after = <<>> /\ r.kind # "item" => after' = <<r>>
      /\ after = <<>> /\ r.kind = "item" => after' = <<>>
      /\ r.kind # "item" => after' # <<>>
      /\ after # <<>> => after' # <<>> /\ after'[1] = after[1]
  BY <1>1, ReturnOK
<1>3. /\ taken' \in 0..Len(call.wire)
      /\ read' \in 0..taken'
      /\ body' \in {"open", "ended"}
      /\ trailers' \in Trailers
  BY DEF IInv, TypeOK
<1>4. TypeOK' /\ call' \in Calls
  BY <1>2, <1>3, TypeStep
<1>5. LengthChecked' /\ TrailersFromBody'
  BY DEF IInv, LengthChecked, TrailersFromBody
<1>6. Answered'
  BY <1>2 DEF IInv, Answered
<1>7. StatusSurfaced'
  <2>1. CASE after # <<>>
    BY <1>2, <2>1 DEF IInv, StatusSurfaced, Outcome
  <2>2. CASE after = <<>>
    <3>1. after' = <<>> \/ after' = <<r>>
      BY <1>2, <2>2
    <3> QED
      BY <2>2, <3>1 DEF StatusSurfaced, Outcome
  <2> QED
    BY <2>1, <2>2
<1> QED
  BY <1>4, <1>5, <1>6, <1>7 DEF IInv

(* A turn of the loop that ends the body with an error.                    *)
LEMMA FailStep ==
    ASSUME IInv, NeedMore, NEW r \in Result, Return(r), r.kind = "err",
           call' = call, taken' = taken, body' = "ended", trailers' = trailers,
           read' = BodyAt,
           state' = Parsed \/ (state' \in State /\ state'.name = "Error")
    PROVE  IInv'
<1>1. items \in Seq(Seq(Byte)) /\ after \in Seq(Result)
  BY DEF IInv, TypeOK
<1>2. /\ items' \in Seq(Seq(Byte))
      /\ after' \in Seq(Result)
      /\ after' # <<>>
      /\ after = <<>> => after' = <<r>>
      /\ after # <<>> => after'[1] = after[1]
  BY <1>1, ReturnOK
<1>3. /\ BodyAt \in 0..taken
      /\ state' \in State
      /\ state'.name = "ReadBody" => state'.len <= call.limit
  BY ParsedOK
<1>4. /\ taken' \in 0..Len(call.wire)
      /\ read' \in 0..taken'
      /\ body' \in {"open", "ended"}
      /\ trailers' \in Trailers
  BY <1>3 DEF IInv, TypeOK
<1>5. TypeOK' /\ call' \in Calls
  BY <1>2, <1>3, <1>4, TypeStep
<1>6. LengthChecked' /\ TrailersFromBody' /\ Answered'
  BY <1>2, <1>3 DEF IInv, LengthChecked, TrailersFromBody, Answered
<1>7. StatusSurfaced'
  <2>1. CASE after # <<>>
    BY <1>2, <2>1 DEF IInv, StatusSurfaced, Outcome
  <2>2. CASE after = <<>>
    BY <1>2, <2>2 DEF StatusSurfaced, Outcome
  <2> QED
    BY <2>1, <2>2
<1> QED
  BY <1>5, <1>6, <1>7 DEF IInv

(* A turn of the loop that has no result: the header may be parsed, bytes  *)
(* may be added.                                                           *)
LEMMA QuietStep ==
    ASSUME IInv, NeedMore, call' = call, body' = body, trailers' = trailers,
           state' = Parsed, read' = BodyAt, items' = items, after' = after,
           taken' \in taken..Len(call.wire)
    PROVE  IInv'
<1>1. /\ BodyAt \in 0..taken
      /\ Parsed \in State
      /\ Parsed.name \in {"ReadHeader", "ReadBody"}
      /\ Parsed.name = "ReadBody" => Parsed.len \in 0..call.limit
  BY ParsedOK
<1>2. /\ taken' \in 0..Len(call.wire)
      /\ read' \in 0..taken'
      /\ body' \in {"open", "ended"}
      /\ trailers' \in Trailers
      /\ items' \in Seq(Seq(Byte))
      /\ after' \in Seq(Result)
  BY <1>1 DEF IInv, TypeOK
<1>3. TypeOK' /\ call' \in Calls
  BY <1>1, <1>2, TypeStep
<1>4. LengthChecked' /\ TrailersFromBody'
  BY <1>1 DEF IInv, TypeOK, CallType, LengthChecked, TrailersFromBody
<1>5. state.name # "Error"
  BY DEF NeedMore, InBody, HeaderParsed, HeaderReady
<1>6. Answered' /\ StatusSurfaced'
  BY <1>1, <1>5 DEF IInv, Answered, StatusSurfaced, Outcome
<1> QED
  BY <1>3, <1>4, <1>6 DEF IInv
-----------------------------------------------------------------------------
(* Every step preserves the inductive invariant.                           *)
LEMMA StepInv == IInv /\ [Next]_vars => IInv'
<1> SUFFICES ASSUME IInv, [Next]_vars PROVE IInv'
  OBVIOUS
<1>a. /\ taken \in Nat /\ read \in 0..taken /\ state \in State
      /\ taken \in 0..Len(call.wire)
  BY DEF IInv, TypeOK, CallType
<1>1. CASE PollError
  <2> DEFINE r == IF state.status = NoStatus THEN End ELSE Err(state.status)
  <2>1. /\ Return(r) /\ state' = Errored(NoStatus) /\ state.name = "Error"
        /\ call' = call /\ read' = read /\ taken' = taken /\ body' = body
        /\ trailers' = trailers
    BY <1>1 DEF PollError
  <2>2. state.status \in HeaderStatus
    BY <1>a, <2>1 DEF State
  <2>3. r \in Result /\ r.kind # "item"
    BY <2>2 DEF Result, End, Err, HeaderStatus
  <2>4. r.kind = "end" => after # <<>>
    BY <2>1 DEF IInv, Answered, Err
  <2>5. state' \in State /\ state'.name = "Error"
    BY <2>1 DEF State, Errored, HeaderStatus
  <2> HIDE DEF r
  <2> QED
    BY <1>a, <2>1, <2>3, <2>4, <2>5, ResultStep
<1>b. Err("Internal") \in Result /\ Err("Internal").kind = "err"
      /\ Err("OutOfRange") \in Result /\ Err("OutOfRange").kind = "err"
  BY DEF Result, Err, Code
<1>2. CASE RejectFlag
  <2>1. /\ Return(Err("Internal")) /\ HeaderReady /\ read' = read + 1
        /\ call' = call /\ taken' = taken /\ body' = body /\ state' = state
        /\ trailers' = trailers
    BY <1>2 DEF RejectFlag
  <2>2. read' \in 0..taken /\ state' \in State /\ state'.name = "ReadHeader"
    BY <1>a, <2>1 DEF HeaderReady, Buffered, HEADER_SIZE
  <2> QED
    BY <1>b, <2>1, <2>2, ResultStep
<1>3. CASE RejectLength
  <2>1. /\ Return(Err("OutOfRange")) /\ HeaderReady /\ read' = read + HEADER_SIZE
        /\ call' = call /\ taken' = taken /\ body' = body /\ state' = state
        /\ trailers' = trailers
    BY <1>3 DEF RejectLength
  <2>2. read' \in 0..taken /\ state' \in State /\ state'.name = "ReadHeader"
    BY <1>a, <2>1 DEF HeaderReady, Buffered, HEADER_SIZE
  <2> QED
    BY <1>b, <2>1, <2>2, ResultStep
<1>c. ASSUME PayloadReady
      PROVE  /\ BodyAt \in 0..taken
             /\ BodyAt + Parsed.len \in 0..taken
             /\ Parsed.len \in Nat
             /\ Parsed \in State /\ Parsed.name = "ReadBody"
             /\ Parsed.len <= call.limit
             /\ state.name # "Error"
  <2>1. InBody /\ taken - BodyAt >= Parsed.len
    BY <1>c DEF PayloadReady
  <2>2. /\ BodyAt \in 0..taken /\ Parsed \in State /\ Parsed.name = "ReadBody"
        /\ Parsed.len \in 0..call.limit
    BY <2>1, ParsedOK
  <2>3. state.name # "Error"
    BY <2>1 DEF InBody, HeaderParsed, HeaderReady
  <2> QED
    BY <1>a, <2>1, <2>2, <2>3 DEF IInv, TypeOK, CallType
<1>4. CASE FailInflate
  <2>1. /\ PayloadReady /\ Return(Err("Internal")) /\ read' = BodyAt
        /\ state' = Parsed /\ call' = call /\ taken' = taken /\ body' = body
        /\ trailers' = trailers
    BY <1>4 DEF FailInflate
  <2> QED
    BY <1>b, <1>c, <2>1, ResultStep
<1>5. CASE FailDecode
  <2>1. /\ PayloadReady /\ Return(Err("Internal"))
        /\ state' = Parsed /\ call' = call /\ taken' = taken /\ body' = body
        /\ trailers' = trailers
    BY <1>5 DEF FailDecode
  <2>2. PICK used \in 0..Parsed.len : read' = BodyAt + used
    BY <1>5, <1>c, <2>1 DEF FailDecode
  <2>3. read' \in 0..taken
    BY <1>a, <1>c, <2>1, <2>2
  <2> QED
    BY <1>b, <1>c, <2>1, <2>3, ResultStep
<1>6. CASE YieldMessage
  <2>1. /\ PayloadReady /\ Inflated # Corrupt /\ Return(Item(Inflated))
        /\ read' = BodyAt + Parsed.len /\ state' = ReadHeader /\ call' = call
        /\ taken' = taken /\ body' = body /\ trailers' = trailers
    BY <1>6 DEF YieldMessage
  <2>2. Inflated \in Seq(Byte)
    BY <2>1, InflatedOK
  <2>3. Item(Inflated) \in Result /\ Item(Inflated).kind = "item"
    BY <2>2 DEF Item, Result
  <2>4. state' \in State /\ state'.name = "ReadHeader"
    BY <2>1 DEF ReadHeader, State
  <2> QED
    BY <1>c, <2>1, <2>3, <2>4, ResultStep
<1>7. CASE PollPending
  BY <1>7, <1>a, QuietStep DEF PollPending, NoResult
<1>8. CASE PollData
  <2>1. PICK n \in 1..(Len(call.wire) - taken) : taken' = taken + n
    BY <1>8 DEF PollData
  <2>2. taken' \in taken..Len(call.wire)
    BY <1>a, <2>1
  <2> QED
    BY <1>8, <2>2, QuietStep DEF PollData, NoResult
<1>d. ASSUME NeedMore PROVE BodyAt \in 0..taken
  BY <1>d, ParsedOK
<1>9. CASE PollTrailers
  <2>1. /\ NeedMore /\ body' = "ended" /\ read' = BodyAt /\ body = "open"
        /\ call' = call /\ taken' = taken
        /\ call.ending.kind = "trailers" /\ Response(call.ending.status)
    BY <1>9 DEF PollTrailers
  <2>2. call.ending.status \in HeaderStatus
    BY <2>1 DEF IInv, TypeOK, CallType, Ending
  <2>3. call.ending.status \in Trailers /\ call.ending.status # NoTrailers
    BY <2>2 DEF Trailers, HeaderStatus, Code, NoStatus, NoTrailers
  <2> QED
    BY <2>1, <2>3, ResponseOK
<1>10. CASE PollEof
  <2>1. /\ NeedMore /\ body' = "ended" /\ read' = BodyAt
        /\ call' = call /\ taken' = taken
        /\ call.ending.kind \in {"eof", "trailers"}
        /\ call.ending.kind = "trailers" => body = "ended"
    BY <1>10 DEF PollEof
  <2>2. state.name # "Error"
    BY <2>1 DEF NeedMore, InBody, HeaderParsed, HeaderReady
  <2>3. CASE taken > BodyAt
    <3>1. Return(Err("Internal")) /\ state' = Parsed /\ trailers' = trailers
      BY <1>10, <2>3 DEF PollEof
    <3> QED
      BY <1>b, <2>1, <3>1, FailStep
  <2>4. CASE ~(taken > BodyAt)
    <3>1. Response(trailers)
      BY <1>10, <2>4 DEF PollEof
    <3>2. /\ trailers \in Trailers
          /\ trailers # NoTrailers =>
               call.ending.kind = "trailers" /\ trailers = call.ending.status
      BY DEF IInv, TypeOK, TrailersFromBody
    <3>3. after = <<>> => body = "open"
      BY <2>2 DEF IInv, TypeOK, Answered
    <3> QED
      BY <2>1, <3>1, <3>2, <3>3, ResponseOK
  <2> QED
    BY <2>3, <2>4
<1>11. CASE PollBodyError
  <2>1. /\ NeedMore /\ body' = "ended" /\ read' = BodyAt
        /\ call' = call /\ taken' = taken /\ call.ending.kind = "error"
    BY <1>11 DEF PollBodyError
  <2>2. CASE call.direction = "Request" /\ call.ending.code = "Cancelled"
    <3>1. Response(trailers) /\ trailers \in Trailers
      BY <1>11, <2>2 DEF PollBodyError, IInv, TypeOK
    <3>2. trailers = NoTrailers
      BY <2>1 DEF IInv, TrailersFromBody
    <3> QED
      BY <2>1, <2>2, <3>1, <3>2, ResponseOK
  <2>3. CASE ~(call.direction = "Request" /\ call.ending.code = "Cancelled")
    <3>1. /\ Return(Err(call.ending.code)) /\ state' = Errored(call.ending.code)
          /\ trailers' = trailers
      BY <1>11, <2>3 DEF PollBodyError
    <3>2. call.ending.code \in Code
      BY <2>1 DEF IInv, TypeOK, CallType, Ending
    <3>3. Err(call.ending.code) \in Result /\ Err(call.ending.code).kind = "err"
      BY <3>2 DEF Err, Result
    <3>4. state' \in State /\ state'.name = "Error"
      BY <3>1, <3>2 DEF State, Errored, HeaderStatus
    <3> QED
      BY <2>1, <3>1, <3>3, <3>4, FailStep
  <2> QED
    BY <2>2, <2>3
<1>12. CASE TakeTrailers
  <2>1. /\ trailers' = NoTrailers /\ call' = call /\ taken' = taken /\ body' = body
        /\ state' = state /\ items' = items /\ after' = after /\ read' = read
    BY <1>12 DEF TakeTrailers
  <2>2. trailers' \in Trailers
    BY <2>1 DEF Trailers
  <2>3. TypeOK' /\ call' \in Calls
    BY <2>1, <2>2 DEF IInv, TypeOK
  <2> QED
    BY <2>1, <2>3
    DEF IInv, LengthChecked, TrailersFromBody, Answered, StatusSurfaced, Outcome
<1>13. CASE UNCHANGED vars
  BY <1>13
  DEF vars, IInv, TypeOK, LengthChecked, TrailersFromBody, Answered,
      StatusSurfaced, Outcome
<1> QED
  BY <1>1, <1>2, <1>3, <1>4, <1>5, <1>6, <1>7, <1>8, <1>9, <1>10, <1>11, <1>12,
     <1>13
  DEF Next, PollNext

LEMMA Invariance == Spec => []IInv
BY InitInv, StepInv, PTL DEF Spec

(* Every variable of the decoder keeps its type whatever the peer sends:   *)
(* in particular the cursors stay inside the buffer, so no read or advance *)
(* of decode_chunk goes past its end.                                      *)
THEOREM TypeCorrect == Spec => []TypeOK
<1>1. IInv => TypeOK
  BY DEF IInv
<1> QED
  BY <1>1, Invariance, PTL

(* A response stream never ends as a success unless the server's trailers, *)
(* or in their absence the HTTP status, allow it.                          *)
THEOREM StatusAlwaysSurfaced == Spec => []StatusSurfaced
<1>1. IInv => StatusSurfaced
  BY DEF IInv
<1> QED
  BY <1>1, Invariance, PTL

(* Bytes are taken from the body only on demand of the consumer.           *)
THEOREM ReadsOnDemand == Spec => Backpressure
<1>1. IInv /\ [Next]_vars => [taken' # taken => Buffered < HEADER_SIZE + call.limit]_vars
  <2> SUFFICES ASSUME IInv, Next, taken' # taken
               PROVE  Buffered < HEADER_SIZE + call.limit
    OBVIOUS
  <2>1. NeedMore
    BY DEF Next, PollNext, PollError, RejectFlag, RejectLength, FailInflate,
           FailDecode, YieldMessage, PollPending, PollData, PollTrailers,
           PollEof, PollBodyError, TakeTrailers
  <2>2. call.limit \in Nat /\ taken \in Nat /\ read \in 0..taken
    BY DEF IInv, TypeOK, CallType
  <2>3. CASE HeaderReady
    <3>1. HeaderParsed /\ taken - BodyAt < Parsed.len
      BY <2>1, <2>3, <2>2 DEF NeedMore, InBody, HeaderReady, Buffered, HEADER_SIZE
    <3>2. Parsed.len = BodyLen /\ BodyAt = read + HEADER_SIZE /\ BodyLen <= call.limit
      BY <2>3, <3>1 DEF Parsed, ReadBody, BodyAt, HeaderParsed
    <3>3. BodyLen \in Nat
      BY <2>3, BodyLenNat DEF IInv
    <3> QED
      BY <2>2, <3>1, <3>2, <3>3 DEF Buffered, HEADER_SIZE
  <2>4. CASE ~HeaderReady
    <3>1. Parsed = state /\ BodyAt = read
      BY <2>4 DEF Parsed, BodyAt
    <3>2. CASE Buffered < HEADER_SIZE
      BY <2>2, <3>2 DEF Buffered, HEADER_SIZE
    <3>3. CASE state.name = "ReadBody" /\ taken - BodyAt < Parsed.len
      <4>1. state.len \in Nat /\ state.len <= call.limit
        BY <3>3 DEF IInv, TypeOK, State, LengthChecked
      <4> QED
        BY <2>2, <3>1, <3>3, <4>1 DEF Buffered, HEADER_SIZE
    <3> QED
      BY <2>1, <2>4, <3>2, <3>3 DEF NeedMore, InBody, HeaderParsed
  <2> QED
    BY <2>3, <2>4
<1> QED
  BY <1>1, Invariance, PTL DEF Spec, Backpressure
-----------------------------------------------------------------------------
(* Induction over the naturals, for a set instead of a predicate.          *)
LEMMA Induction ==
    ASSUME NEW T, 0 \in T, \A n \in Nat : n \in T => n + 1 \in T
    PROVE  Nat \subseteq T
<1> DEFINE R == {q \in Nat \X Nat : q[1] < q[2]}
           F == Nat \ T
<1>1. IsWellFoundedOn(R, Nat)
  BY NatLessThanWellFounded DEF OpToRel
<1>2. SUFFICES ASSUME F # {} PROVE FALSE
  OBVIOUS
<1>3. F \subseteq Nat
  OBVIOUS
<1> HIDE DEF R, F
<1>4. PICK x \in F : \A y \in F : <<y, x>> \notin R
  BY <1>1, <1>2, <1>3, WFMin
<1>5. x \in Nat /\ x # 0 /\ x \notin T
  BY <1>4 DEF F
<1>6. x - 1 \in Nat /\ (x - 1) + 1 = x /\ x - 1 < x
  BY <1>5
<1>7. <<x - 1, x>> \in R
  BY <1>5, <1>6 DEF R
<1>8. x - 1 \in T
  BY <1>4, <1>6, <1>7 DEF F
<1> QED
  BY <1>5, <1>6, <1>8

(* One step of the parse: what it finds at p, given what f finds further   *)
(* on, and where the frame at p ends.                                      *)
Past(c, p) == p + HEADER_SIZE + FrameLen(c, p)
From(c, f, p) ==
    IF Readable(c, p)
    THEN [msgs |-> <<MessageAt(c, p)>> \o f[Past(c, p)].msgs,
          stop |-> f[Past(c, p)].stop]
    ELSE [msgs |-> <<>>, stop |-> p]

(* A function that satisfies the recursion of the parse is the parse.      *)
LEMMA ParsingIs ==
    ASSUME NEW c, NEW f, f = [p \in 0..Len(c.wire) |-> From(c, f, p)]
    PROVE  Parsing(c) = [p \in 0..Len(c.wire) |-> From(c, Parsing(c), p)]
<1> DEFINE P(g) == g = [p \in 0..Len(c.wire) |-> From(c, g, p)]
<1>1. P(f)
  OBVIOUS
<1>2. Parsing(c) = CHOOSE g : P(g)
  BY DEF Parsing, From, Past
<1> HIDE DEF P
<1>3. P(Parsing(c))
  BY <1>1, <1>2
<1> QED
  BY <1>3 DEF P

LEMMA CallIs ==
    ASSUME NEW c \in Calls
    PROVE  /\ c \in CallType /\ c.wire \in Seq(Byte) /\ Len(c.wire) \in Nat
           /\ c.limit \in Nat
           /\ \A i \in 1..Len(c.wire) : c.wire[i] \in Nat
<1>1. c \in CallType
  BY CallsAssumption
<1>2. c.wire \in Seq(Byte) /\ c.limit \in Nat
  BY <1>1 DEF CallType
<1>3. Len(c.wire) \in Nat
  BY <1>2
<1>4. \A i \in 1..Len(c.wire) : c.wire[i] \in Byte
  BY <1>2
<1>5. \A b \in Byte : b \in Nat
  BY ByteAssumption
<1> QED
  BY <1>1, <1>2, <1>3, <1>4, <1>5

(* The length in a header is a natural number.                             *)
LEMMA FrameLenNat ==
    ASSUME NEW c \in Calls, NEW p \in Nat, HasHeader(c, p)
    PROVE  FrameLen(c, p) \in Nat
<1>1. Len(c.wire) \in Nat /\ \A i \in 1..Len(c.wire) : c.wire[i] \in Nat
  BY CallIs
<1>2. p + 5 <= Len(c.wire)
  BY <1>1 DEF HasHeader, HEADER_SIZE
<1>3. p + 2 \in 1..Len(c.wire) /\ p + 3 \in 1..Len(c.wire)
      /\ p + 4 \in 1..Len(c.wire) /\ p + 5 \in 1..Len(c.wire)
  BY <1>1, <1>2
<1>4. /\ c.wire[p + 1 + 1] \in Nat /\ c.wire[p + 1 + 2] \in Nat
      /\ c.wire[p + 1 + 3] \in Nat /\ c.wire[p + 1 + 4] \in Nat
  BY <1>1, <1>3
<1> QED
  BY <1>4 DEF FrameLen, Be32

(* A message that can be read lies within the wire and is made of bytes.   *)
LEMMA ReadableIs ==
    ASSUME NEW c \in Calls, NEW p \in 0..Len(c.wire), Readable(c, p)
    PROVE  /\ FrameLen(c, p) \in Nat
           /\ Past(c, p) \in 0..Len(c.wire) /\ p + 1 <= Past(c, p)
           /\ MessageAt(c, p) \in Seq(Byte)
<1>1. c.wire \in Seq(Byte) /\ Len(c.wire) \in Nat /\ p \in Nat
  BY CallIs
<1>2. HasHeader(c, p) /\ Len(c.wire) - p - 5 >= FrameLen(c, p)
      /\ MessageAt(c, p) # Corrupt
  BY DEF Readable, Whole, GoodHeader, HEADER_SIZE
<1>3. FrameLen(c, p) \in Nat
  BY <1>1, <1>2, FrameLenNat
<1>4. p + 5 \in 0..Len(c.wire) /\ p + 5 + FrameLen(c, p) \in 0..Len(c.wire)
      /\ p + 1 <= p + 5 + FrameLen(c, p)
  BY <1>1, <1>2, <1>3
<1> DEFINE raw == SubSeq(c.wire, p + 5 + 1, p + 5 + FrameLen(c, p))
<1>5. raw \in Seq(Byte)
  BY <1>1, <1>3, <1>4
<1>6. Inflate(raw) \in Seq(Byte) \cup {Corrupt}
  BY <1>4, InflateAssumption
<1>7. MessageAt(c, p) = IF c.wire[p + 1] = 1 THEN Inflate(raw) ELSE raw
  BY DEF MessageAt, HEADER_SIZE
<1> HIDE DEF raw
<1>8. MessageAt(c, p) \in Seq(Byte)
  BY <1>2, <1>5, <1>6, <1>7
<1> QED
  BY <1>3, <1>4, <1>8 DEF Past, HEADER_SIZE
(* The recursion of the parse has a solution: one that is right from       *)
(* position Len(c.wire) - k on can be mended at the position before.       *)
LEMMA ParseExists ==
    ASSUME NEW c \in Calls
    PROVE  \E f : f = [p \in 0..Len(c.wire) |-> From(c, f, p)]
<1> DEFINE L == Len(c.wire)
           D == 0..L
           Right(f, k) == /\ f = [p \in D |-> f[p]]
                          /\ \A p \in D : p >= L - k => f[p] = From(c, f, p)
           T == {k \in Nat : \E f : Right(f, k)}
<1>1. L \in Nat
  BY CallIs
<1>2. \A p \in D : Readable(c, p) => Past(c, p) \in D /\ Past(c, p) >= p + 1
  BY <1>1, ReadableIs
<1> HIDE DEF L
<1>3. 0 \in T
  <2> DEFINE f == [p \in D |-> From(c, <<>>, p)]
  <2>1. ~Readable(c, L)
    <3>1. L \in D
      BY <1>1
    <3>2. Readable(c, L) => Past(c, L) \in D /\ Past(c, L) >= L + 1
      BY <1>2, <3>1
    <3> QED
      BY <1>1, <3>2
  <2>2. ASSUME NEW p \in D, p >= L - 0 PROVE f[p] = From(c, f, p)
    <3>1. p = L
      BY <1>1, <2>2
    <3>2. From(c, f, p) = From(c, <<>>, p)
      BY <2>1, <3>1 DEF From
    <3> QED
      BY <3>2
  <2>3. f = [p \in D |-> f[p]]
    OBVIOUS
  <2> HIDE DEF f
  <2>4. Right(f, 0)
    BY <2>2, <2>3
  <2> QED
    BY <2>4
<1>4. ASSUME NEW k \in Nat, k \in T PROVE k + 1 \in T
  <2>1. PICK f : Right(f, k)
    BY <1>4
  <2> DEFINE g == [p \in D |-> IF p >= L - k THEN f[p] ELSE From(c, f, p)]
  <2>2. ASSUME NEW p \in D, p >= L - (k + 1) PROVE g[p] = From(c, g, p)
    <3>1. g[p] = From(c, f, p)
      BY <2>1
    <3>2. Readable(c, p) => g[Past(c, p)] = f[Past(c, p)]
      <4>1. Readable(c, p) => Past(c, p) \in D /\ Past(c, p) >= L - k
        <5>1. L \in Int /\ k \in Int /\ p \in Int
          BY <1>1
        <5>2. SUFFICES ASSUME Readable(c, p) PROVE Past(c, p) \in D /\ Past(c, p) >= L - k
          OBVIOUS
        <5>3. Past(c, p) \in D /\ Past(c, p) \in Int /\ Past(c, p) >= p + 1
          BY <1>1, <1>2, <5>2
        <5> QED
          BY <2>2, <5>1, <5>3
      <4> QED
        BY <4>1
    <3> HIDE DEF g
    <3>3. From(c, g, p) = From(c, f, p)
      BY <3>2 DEF From
    <3> QED
      BY <3>1, <3>3
  <2>3. g = [p \in D |-> g[p]]
    OBVIOUS
  <2> HIDE DEF g
  <2>4. Right(g, k + 1)
    BY <2>2, <2>3
  <2> HIDE DEF Right
  <2>5. k + 1 \in Nat /\ \E h : Right(h, k + 1)
    BY <2>4
  <2> QED
    BY <2>5
<1> HIDE DEF T
<1>5. L \in T
  BY <1>1, <1>3, <1>4, Induction
<1>6. PICK f : Right(f, L)
  BY <1>5 DEF T
<1>7. \A p \in D : f[p] = From(c, f, p)
  <2>1. \A p \in D : p >= L - L
    BY <1>1
  <2> QED
    BY <1>6, <2>1
<1>8. f = [p \in D |-> From(c, f, p)]
  BY <1>6, <1>7
<1> QED
  BY <1>8 DEF L

(* What the parse finds from p on.                                         *)
LEMMA ParseAt ==
    ASSUME NEW c \in Calls, NEW p \in 0..Len(c.wire)
    PROVE  Parsing(c)[p] = From(c, Parsing(c), p)
<1>1. PICK f : f = [q \in 0..Len(c.wire) |-> From(c, f, q)]
  BY ParseExists
<1>2. Parsing(c) = [q \in 0..Len(c.wire) |-> From(c, Parsing(c), q)]
  BY <1>1, ParsingIs
<1> QED
  BY <1>2

(* It is a sequence of byte strings and a position of the wire.            *)
LEMMA ParseTyped ==
    ASSUME NEW c \in Calls, NEW p \in 0..Len(c.wire)
    PROVE  /\ Parsing(c)[p].msgs \in Seq(Seq(Byte))
           /\ Parsing(c)[p].stop \in 0..Len(c.wire)
<1> DEFINE L == Len(c.wire)
           D == 0..L
           Typed(q) == Parsing(c)[q].msgs \in Seq(Seq(Byte)) /\ Parsing(c)[q].stop \in D
           T == {k \in Nat : \A q \in D : q >= L - k => Typed(q)}
<1>1. L \in Nat /\ p \in D
  BY CallIs
<1>2. ASSUME NEW q \in D, Readable(c, q) => Typed(Past(c, q)) PROVE Typed(q)
  <2>1. Parsing(c)[q] = From(c, Parsing(c), q)
    BY ParseAt
  <2>2. CASE Readable(c, q)
    <3>1. /\ Parsing(c)[q].msgs = <<MessageAt(c, q)>> \o Parsing(c)[Past(c, q)].msgs
          /\ Parsing(c)[q].stop = Parsing(c)[Past(c, q)].stop
      BY <2>1, <2>2 DEF From
    <3>2. <<MessageAt(c, q)>> \in Seq(Seq(Byte))
      BY <2>2, ReadableIs
    <3>3. /\ Parsing(c)[Past(c, q)].msgs \in Seq(Seq(Byte))
          /\ Parsing(c)[Past(c, q)].stop \in D
      BY <1>2, <2>2
    <3> QED
      BY <3>1, <3>2, <3>3
  <2>3. CASE ~Readable(c, q)
    BY <2>1, <2>3 DEF From
  <2> QED
    BY <2>2, <2>3
<1>3. \A q \in D : Readable(c, q) => Past(c, q) \in D /\ Past(c, q) >= q + 1
  BY <1>1, ReadableIs
<1>4. ~Readable(c, L)
  <2>1. L \in D
    BY <1>1
  <2>2. Readable(c, L) => Past(c, L) \in D /\ Past(c, L) >= L + 1
    BY <1>3, <2>1
  <2> QED
    BY <1>1, <2>2
<1> HIDE DEF L, Typed
<1>5. 0 \in T
  <2>1. ASSUME NEW q \in D, q >= L - 0 PROVE Typed(q)
    <3>1. q = L
      BY <1>1, <2>1
    <3> QED
      BY <1>2, <1>4, <3>1
  <2> QED
    BY <2>1
<1>6. ASSUME NEW k \in Nat, k \in T PROVE k + 1 \in T
  <2>1. ASSUME NEW q \in D, q >= L - (k + 1) PROVE Typed(q)
    <3>1. SUFFICES ASSUME Readable(c, q) PROVE Typed(Past(c, q))
      BY <1>2
    <3>2. Past(c, q) \in D /\ Past(c, q) >= q + 1
      BY <1>3, <3>1
    <3>3. Past(c, q) >= L - k
      BY <1>1, <2>1, <3>2
    <3> QED
      BY <1>6, <3>2, <3>3
  <2> QED
    BY <2>1
<1>7. L \in T
  <2> HIDE DEF T
  <2> QED
    BY <1>1, <1>5, <1>6, Induction
<1>8. Typed(p)
  <2>1. p >= L - L
    BY <1>1
  <2> QED
    BY <1>1, <1>7, <2>1
<1> QED
  BY <1>8 DEF Typed, L
-----------------------------------------------------------------------------
(* Where the frame begins that the decoder is working on.                  *)
Start == IF state.name = "ReadBody" THEN read - HEADER_SIZE ELSE read

(* While no final result is out, what was yielded and what the wire still  *)
(* holds from Start on are what was sent; a parsed header is the one found *)
(* at Start.                                                               *)
OnTrack ==
    after = <<>> /\ state.name # "Error" =>
        /\ Start \in 0..Len(call.wire)
        /\ items \o Parsing(call)[Start].msgs = Sent(call)
        /\ Parsing(call)[Start].stop = Stop(call)
        /\ state.name = "ReadBody" =>
              /\ GoodHeader(call, Start)
              /\ state.compressed <=> call.wire[Start + 1] = 1
              /\ state.len = FrameLen(call, Start)

(* An error status that waits for the next poll is justified.              *)
Condemned ==
    after = <<>> /\ state.name = "Error" =>
        items = Sent(call) /\ Err(state.status) \in Verdicts(call)

Track == IInv /\ OnTrack /\ Condemned

Here(p) ==
    /\ p \in 0..Len(call.wire)
    /\ items \o Parsing(call)[p].msgs = Sent(call)
    /\ Parsing(call)[p].stop = Stop(call)

LEMMA TypesOf ==
    ASSUME IInv
    PROVE  /\ call \in Calls /\ call.wire \in Seq(Byte) /\ Len(call.wire) \in Nat
           /\ call.limit \in Nat
           /\ taken \in Nat /\ taken <= Len(call.wire)
           /\ read \in Nat /\ read <= taken
           /\ state \in State
           /\ items \in Seq(Seq(Byte)) /\ after \in Seq(Result)
<1>1. call \in Calls /\ call.wire \in Seq(Byte) /\ Len(call.wire) \in Nat
      /\ call.limit \in Nat
  BY CallIs DEF IInv
<1>2. taken \in 0..Len(call.wire) /\ read \in 0..taken
  BY DEF IInv, TypeOK
<1>3. state \in State /\ items \in Seq(Seq(Byte)) /\ after \in Seq(Result)
  BY DEF IInv, TypeOK
<1> QED
  BY <1>1, <1>2, <1>3

(* The frame whose payload decode_chunk has come to.                       *)
LEMMA InBodyIs ==
    ASSUME Track, after = <<>>, InBody
    PROVE  \E p \in 0..Len(call.wire) :
              /\ Here(p)
              /\ BodyAt = p + HEADER_SIZE
              /\ GoodHeader(call, p)
              /\ Parsed.name = "ReadBody"
              /\ Parsed.compressed <=> call.wire[p + 1] = 1
              /\ Parsed.len = FrameLen(call, p)
              /\ FrameLen(call, p) \in Nat
<1>1. /\ call \in Calls /\ Len(call.wire) \in Nat
      /\ taken \in Nat /\ taken <= Len(call.wire)
      /\ read \in Nat /\ read <= taken
  BY TypesOf DEF Track
<1>2. CASE HeaderReady
  <2>1. /\ state.name = "ReadHeader" /\ taken - read >= 5 /\ FlagAccepted
        /\ BodyLen <= call.limit
    BY <1>2 DEF InBody, HeaderParsed, HeaderReady, Buffered, HEADER_SIZE
  <2>2. Start = read
    BY <2>1 DEF Start
  <2>3. Here(read)
    BY <2>1, <2>2 DEF Track, OnTrack, Here
  <2>4. HasHeader(call, read)
    BY <1>1, <2>1 DEF HasHeader, HEADER_SIZE
  <2>5. FrameLen(call, read) = BodyLen /\ GoodHeader(call, read)
    BY <2>1, <2>4 DEF FrameLen, BodyLen, GoodHeader, GoodFlag, FlagAccepted, Flag
  <2>6. FrameLen(call, read) \in Nat
    BY <1>1, <2>4, FrameLenNat
  <2>7. Parsed = ReadBody(Flag = 1, BodyLen) /\ BodyAt = read + HEADER_SIZE
    BY <1>2 DEF Parsed, BodyAt
  <2>8. /\ Parsed.name = "ReadBody" /\ Parsed.len = BodyLen
        /\ Parsed.compressed <=> call.wire[read + 1] = 1
    BY <2>7 DEF ReadBody, Flag
  <2>9. read \in 0..Len(call.wire)
    BY <1>1
  <2> QED
    BY <2>3, <2>5, <2>6, <2>7, <2>8, <2>9
<1>3. CASE ~HeaderReady
  <2>1. state.name = "ReadBody" /\ Parsed = state /\ BodyAt = read
    BY <1>3 DEF InBody, HeaderParsed, Parsed, BodyAt
  <2>2. /\ Here(Start) /\ GoodHeader(call, Start)
        /\ state.compressed <=> call.wire[Start + 1] = 1
        /\ state.len = FrameLen(call, Start)
    BY <2>1 DEF Track, OnTrack, Here
  <2>3. Start = read - 5
    BY <2>1 DEF Start, HEADER_SIZE
  <2>4. Start \in 0..Len(call.wire)
    BY <2>2 DEF Here
  <2>5. FrameLen(call, Start) \in Nat
    BY <1>1, <2>2, <2>4, FrameLenNat DEF GoodHeader
  <2>6. BodyAt = Start + HEADER_SIZE
    BY <1>1, <2>1, <2>3 DEF HEADER_SIZE
  <2> QED
    BY <2>1, <2>2, <2>4, <2>5, <2>6
<1> QED
  BY <1>2, <1>3

(* Its payload, once it is there, is the frame's message.                  *)
LEMMA PayloadIs ==
    ASSUME Track, after = <<>>, PayloadReady
    PROVE  \E p \in 0..Len(call.wire) :
              /\ Here(p)
              /\ Whole(call, p)
              /\ Inflated = MessageAt(call, p)
              /\ BodyAt + Parsed.len = Past(call, p)
<1>1. InBody /\ taken - BodyAt >= Parsed.len
  BY DEF PayloadReady
<1>2. PICK p \in 0..Len(call.wire) :
              /\ Here(p)
              /\ BodyAt = p + HEADER_SIZE
              /\ GoodHeader(call, p)
              /\ Parsed.compressed <=> call.wire[p + 1] = 1
              /\ Parsed.len = FrameLen(call, p)
              /\ FrameLen(call, p) \in Nat
  BY <1>1, InBodyIs
<1>3. taken \in Nat /\ taken <= Len(call.wire) /\ Len(call.wire) \in Nat
  BY TypesOf DEF Track
<1>4. Len(call.wire) - p - HEADER_SIZE >= FrameLen(call, p)
  BY <1>1, <1>2, <1>3 DEF HEADER_SIZE
<1>5. Payload = SubSeq(call.wire, p + HEADER_SIZE + 1,
                       p + HEADER_SIZE + FrameLen(call, p))
  BY <1>2 DEF Payload
<1>6. Inflated = MessageAt(call, p)
  BY <1>2, <1>5 DEF Inflated, MessageAt
<1> QED
  BY <1>2, <1>4, <1>6 DEF Whole, Past

(* Where nothing can be read the parse stops, and everything that was sent *)
(* has been yielded.                                                       *)
LEMMA StopsHere ==
    ASSUME IInv, NEW p, Here(p), ~Readable(call, p)
    PROVE  Stop(call) = p /\ items = Sent(call)
<1>1. call \in Calls /\ items \in Seq(Seq(Byte)) /\ p \in 0..Len(call.wire)
  BY TypesOf DEF Here
<1>2. Parsing(call)[p].msgs = <<>> /\ Parsing(call)[p].stop = p
  <2>1. Parsing(call)[p] = From(call, Parsing(call), p)
    BY <1>1, ParseAt
  <2>2. From(call, Parsing(call), p) = [msgs |-> <<>>, stop |-> p]
    BY DEF From
  <2> QED
    BY <2>1, <2>2
<1>3. items \o <<>> = items
  BY <1>1
<1> QED
  BY <1>2, <1>3 DEF Here

(* What the stopping place says about the final result.                    *)
LEMMA BadFlag ==
    ASSUME NEW c, HasHeader(c, Stop(c)), ~GoodFlag(c, Stop(c))
    PROVE  Verdicts(c) = {Err("Internal")}
BY DEF Verdicts

LEMMA TooLong ==
    ASSUME NEW c \in Calls, NEW p \in 0..Len(c.wire), Stop(c) = p, HasHeader(c, p),
           GoodFlag(c, p), FrameLen(c, p) > c.limit
    PROVE  Verdicts(c) = {Err("OutOfRange")}
<1>1. FrameLen(c, p) \in Nat /\ c.limit \in Nat
  BY FrameLenNat, CallIs
<1>2. ~Whole(c, p) /\ ~Truncated(c)
  BY <1>1 DEF Whole, GoodHeader, Truncated
<1> QED
  BY <1>2 DEF Verdicts

LEMMA Unreadable ==
    ASSUME NEW c \in Calls, NEW p \in 0..Len(c.wire), Stop(c) = p, Whole(c, p)
    PROVE  Verdicts(c) = {Err("Internal")}
<1>1. GoodHeader(c, p) /\ HasHeader(c, p) /\ GoodFlag(c, p) /\ FrameLen(c, p) <= c.limit
  BY DEF Whole, GoodHeader
<1>2. FrameLen(c, p) \in Nat /\ c.limit \in Nat
  BY <1>1, FrameLenNat, CallIs
<1>3. ~(FrameLen(c, p) > c.limit)
  BY <1>1, <1>2
<1> QED
  BY <1>1, <1>3 DEF Verdicts

LEMMA CutShort ==
    ASSUME NEW c \in Calls, NEW p \in 0..Len(c.wire), Stop(c) = p, ~Whole(c, p),
           HasHeader(c, p) => GoodHeader(c, p)
    PROVE  Verdicts(c) = IF c.ending.kind = "eof" /\ Unconsumed(c) > 0
                         THEN {Err("Internal")}
                         ELSE {EndingVerdict(c)}
<1>1. Len(c.wire) \in Nat /\ c.limit \in Nat
  BY CallIs
<1>2. Unconsumed(c) > 0 => Leftover(c) > 0
  BY <1>1 DEF Unconsumed, Leftover, HEADER_SIZE
<1>3. Unconsumed(c) > 0 => Truncated(c)
  BY <1>2 DEF Truncated
<1>4. HasHeader(c, p) => GoodFlag(c, p) /\ ~(FrameLen(c, p) > c.limit)
  <2>1. SUFFICES ASSUME HasHeader(c, p)
                 PROVE  GoodFlag(c, p) /\ ~(FrameLen(c, p) > c.limit)
    OBVIOUS
  <2>2. FrameLen(c, p) \in Nat
    BY <2>1, FrameLenNat
  <2> QED
    BY <1>1, <2>1, <2>2 DEF GoodHeader
<1> QED
  BY <1>3, <1>4 DEF Verdicts
-----------------------------------------------------------------------------
(* The abstract step, or none.                                             *)
Progress ==
    [Abstract!Next]_<<Sent(call), Verdicts(call), items,
                      IF after = <<>> THEN [kind |-> "open"] ELSE after[1]>>

LEMMA InitTrack == Init => OnTrack /\ Condemned /\ Abstract!Init
<1> SUFFICES ASSUME Init PROVE OnTrack /\ Condemned /\ Abstract!Init
  OBVIOUS
<1>1. call \in Calls /\ read = 0 /\ items = <<>> /\ after = <<>>
      /\ state.name = "ReadHeader"
  BY DEF Init, ReadHeader
<1>2. Len(call.wire) \in Nat
  BY <1>1, CallIs
<1>3. 0 \in 0..Len(call.wire)
  BY <1>2
<1>4. Parsing(call)[0].msgs \in Seq(Seq(Byte))
  BY <1>1, <1>3, ParseTyped
<1>5. <<>> \o Parsing(call)[0].msgs = Parsing(call)[0].msgs
  BY <1>4
<1>6. Start = 0
  BY <1>1 DEF Start
<1>7. OnTrack
  BY <1>1, <1>3, <1>5, <1>6 DEF OnTrack, Sent, Stop
<1> QED
  BY <1>1, <1>7 DEF Condemned, Abstract!Init, Abstract!Open

(* Once a final result is out, nothing more is told.                       *)
LEMMA AfterTheEnd ==
    ASSUME IInv, after # <<>>, call' = call, items' = items, after' # <<>>,
           after'[1] = after[1]
    PROVE  OnTrack' /\ Condemned' /\ Progress
BY DEF OnTrack, Condemned, Progress

(* A step that returns nothing.                                            *)
LEMMA SilentStep ==
    ASSUME call' = call, items' = items, after' = after
    PROVE  Progress
BY DEF Progress

(* A final result, when all messages have been yielded and the wire        *)
(* justifies it.                                                           *)
LEMMA FinalStep ==
    ASSUME IInv, after = <<>>, NEW r \in Result, r.kind # "item", Return(r),
           call' = call, items = Sent(call), r \in Verdicts(call)
    PROVE  OnTrack' /\ Condemned' /\ Progress
<1>1. after' = <<r>> /\ items' = items
  <2>1. after' = Append(after, r) /\ items' = items
    BY DEF Return
  <2> QED
    BY <2>1
<1>2. after' # <<>> /\ after'[1] = r
  BY <1>1
<1>3. Abstract!Finish
  BY <1>1, <1>2 DEF Abstract!Finish, Abstract!Open
<1> QED
  BY <1>2, <1>3 DEF OnTrack, Condemned, Progress, Abstract!Next

LEMMA Prefixed ==
    ASSUME NEW S, NEW s \in Seq(S), NEW m \in S, NEW t \in Seq(S)
    PROVE  /\ s \o (<<m>> \o t) = Append(s, m) \o t
           /\ Len(s) < Len(s \o (<<m>> \o t))
           /\ (s \o (<<m>> \o t))[Len(s) + 1] = m
<1>1. s \o (<<m>> \o t) = Append(s, m) \o t
  OBVIOUS
<1>2. Len(<<m>> \o t) = Len(t) + 1
  OBVIOUS
<1> QED
  BY <1>1, <1>2

(* A message: the first of those still on the wire.                        *)
LEMMA MessageStep ==
    ASSUME IInv, after = <<>>, NEW p \in 0..Len(call.wire), Here(p), Readable(call, p),
           Return(Item(MessageAt(call, p))), call' = call, state' = ReadHeader,
           read' = Past(call, p)
    PROVE  OnTrack' /\ Condemned' /\ Progress
<1> DEFINE m == MessageAt(call, p)
           q == Past(call, p)
           rest == Parsing(call)[q].msgs
<1>1. call \in Calls /\ items \in Seq(Seq(Byte))
  BY TypesOf
<1>2. m \in Seq(Byte) /\ q \in 0..Len(call.wire)
  BY <1>1, ReadableIs
<1>3. rest \in Seq(Seq(Byte))
  BY <1>1, <1>2, ParseTyped
<1>4. /\ Parsing(call)[p].msgs = <<m>> \o rest
      /\ Parsing(call)[p].stop = Parsing(call)[q].stop
  <2>1. Parsing(call)[p] = From(call, Parsing(call), p)
    BY <1>1, ParseAt
  <2>2. From(call, Parsing(call), p) =
            [msgs |-> <<m>> \o rest, stop |-> Parsing(call)[q].stop]
    BY DEF From
  <2> QED
    BY <2>1, <2>2
<1>5. items' = Append(items, m) /\ after' = <<>>
  BY DEF Return, Item
<1> HIDE DEF m, q, rest
<1>6. Sent(call) = items \o (<<m>> \o rest) /\ Parsing(call)[q].stop = Stop(call)
  BY <1>4 DEF Here
<1>7. /\ items \o (<<m>> \o rest) = Append(items, m) \o rest
      /\ Len(items) < Len(items \o (<<m>> \o rest))
      /\ (items \o (<<m>> \o rest))[Len(items) + 1] = m
  BY <1>1, <1>2, <1>3, Prefixed
<1>8. Start' = q /\ q \in 0..Len(call'.wire)
  BY <1>2 DEF Start, ReadHeader, q
<1>9. OnTrack'
  BY <1>3, <1>5, <1>6, <1>7, <1>8 DEF OnTrack, ReadHeader, rest
<1>10. Condemned'
  BY DEF Condemned, ReadHeader
<1>11. Abstract!Yield
  BY <1>5, <1>6, <1>7 DEF Abstract!Yield, Abstract!Open
<1> QED
  BY <1>9, <1>10, <1>11 DEF Progress, Abstract!Next
-----------------------------------------------------------------------------
(* The header may be parsed and bytes may be added: the frame is the same. *)
LEMMA StaysOnTrack ==
    ASSUME Track, NeedMore, call' = call, state' = Parsed, read' = BodyAt,
           items' = items, after' = after
    PROVE  OnTrack' /\ Condemned' /\ Progress
<1>1. CASE after # <<>>
  BY <1>1 DEF OnTrack, Condemned, Progress
<1>2. CASE after = <<>> /\ InBody
  <2>1. PICK p \in 0..Len(call.wire) :
              /\ Here(p)
              /\ BodyAt = p + HEADER_SIZE
              /\ GoodHeader(call, p)
              /\ Parsed.name = "ReadBody"
              /\ Parsed.compressed <=> call.wire[p + 1] = 1
              /\ Parsed.len = FrameLen(call, p)
    BY <1>2, InBodyIs
  <2>2. p \in Int
    BY TypesOf DEF Track
  <2>3. Start' = p
    BY <2>1, <2>2 DEF Start, HEADER_SIZE
  <2>4. OnTrack'
    BY <2>1, <2>3 DEF OnTrack, Here
  <2>5. Condemned'
    BY <2>1 DEF Condemned
  <2> QED
    BY <2>4, <2>5, SilentStep
<1>3. CASE after = <<>> /\ ~InBody
  <2>1. state.name = "ReadHeader" /\ ~HeaderReady
    BY <1>3 DEF NeedMore, HeaderReady, Buffered, Track, IInv, TypeOK, HEADER_SIZE
  <2>2. state' = state /\ read' = read
    BY <2>1 DEF Parsed, BodyAt
  <2>3. OnTrack' /\ Condemned'
    BY <2>1, <2>2 DEF Track, OnTrack, Condemned, Start
  <2> QED
    BY <2>3, SilentStep
<1> QED
  BY <1>1, <1>2, <1>3

(* The body has no more bytes, and those buffered do not make a message:   *)
(* everything sent has been yielded, and what is left in the buffer is     *)
(* what the parse leaves of a message that is cut short.                   *)
LEMMA Exhausted ==
    ASSUME Track, after = <<>>, NeedMore, AllTaken
    PROVE  /\ items = Sent(call)
           /\ Verdicts(call) = IF call.ending.kind = "eof" /\ taken > BodyAt
                               THEN {Err("Internal")}
                               ELSE {EndingVerdict(call)}
<1>1. /\ call \in Calls /\ Len(call.wire) \in Nat /\ taken = Len(call.wire)
      /\ read \in Nat /\ read <= taken
  BY TypesOf DEF Track, AllTaken
<1>2. CASE InBody
  <2>1. PICK p \in 0..Len(call.wire) :
              /\ Here(p)
              /\ BodyAt = p + HEADER_SIZE
              /\ GoodHeader(call, p)
              /\ Parsed.name = "ReadBody"
              /\ Parsed.len = FrameLen(call, p)
              /\ FrameLen(call, p) \in Nat
    BY <1>2, InBodyIs
  <2>2. taken - BodyAt < Parsed.len
    <3>1. CASE HeaderReady
      BY <1>1, <3>1 DEF NeedMore, HeaderReady, Buffered, HEADER_SIZE
    <3>2. CASE ~HeaderReady
      <4>1. state.name = "ReadBody"
        BY <1>2, <3>2 DEF InBody, HeaderParsed
      <4> QED
        BY <4>1 DEF NeedMore
    <3> QED
      BY <3>1, <3>2
  <2>3. ~Whole(call, p)
    BY <1>1, <2>1, <2>2 DEF Whole, HEADER_SIZE
  <2>4. Stop(call) = p /\ items = Sent(call)
    BY <2>1, <2>3, StopsHere DEF Track, Readable
  <2>5. HasHeader(call, p)
    BY <2>1 DEF GoodHeader
  <2>6. Unconsumed(call) > 0 <=> taken > BodyAt
    <3>1. Unconsumed(call) = Len(call.wire) - p - 5
      BY <2>4, <2>5 DEF Unconsumed, Leftover, HEADER_SIZE
    <3> QED
      BY <1>1, <2>1, <3>1 DEF HEADER_SIZE
  <2> QED
    BY <1>1, <2>1, <2>3, <2>4, <2>6, CutShort
<1>3. CASE ~InBody
  <2>1. state.name = "ReadHeader" /\ taken - read < 5 /\ BodyAt = read
    <3>1. state.name = "ReadHeader" /\ taken - read < 5
      BY <1>3 DEF NeedMore, Buffered, HEADER_SIZE
    <3>2. ~HeaderReady
      BY <1>1, <3>1 DEF HeaderReady, Buffered, HEADER_SIZE
    <3> QED
      BY <3>1, <3>2 DEF BodyAt
  <2>2. Here(read) /\ read \in 0..Len(call.wire)
    BY <1>1, <2>1 DEF Track, OnTrack, Start, Here
  <2>3. ~HasHeader(call, read)
    BY <1>1, <2>1 DEF HasHeader, HEADER_SIZE
  <2>4. ~Whole(call, read)
    BY <2>3 DEF Whole, GoodHeader
  <2>5. Stop(call) = read /\ items = Sent(call)
    BY <2>2, <2>4, StopsHere DEF Track, Readable
  <2>6. Unconsumed(call) > 0 <=> taken > BodyAt
    <3>1. Unconsumed(call) = Len(call.wire) - read
      BY <2>3, <2>5 DEF Unconsumed, Leftover
    <3> QED
      BY <1>1, <2>1, <3>1
  <2> QED
    BY <1>1, <2>2, <2>3, <2>4, <2>5, <2>6, CutShort
<1> QED
  BY <1>2, <1>3

(* The ending of the body is read as the specification reads it.           *)
LEMMA ResponseTold ==
    ASSUME Track, after = <<>>, NeedMore, AllTaken, NEW now \in Trailers, Response(now),
           call' = call, EndingVerdict(call) = Ended(call, now),
           call.ending.kind = "eof" => ~(taken > BodyAt)
    PROVE  OnTrack' /\ Condemned' /\ Progress
<1> DEFINE status == InferGrpcStatus(now, call.http)
           failed == call.direction = "Response" /\ status \notin {"Ok", NoStatus}
<1>1. items = Sent(call) /\ Verdicts(call) = {EndingVerdict(call)}
  BY Exhausted
<1>2. CASE failed
  <2>1. state' = Errored(status) /\ UNCHANGED <<items, after>>
    BY <1>2 DEF Response, NoResult
  <2>2. EndingVerdict(call) = Err(status)
    BY <1>2 DEF Ended
  <2>3. OnTrack'
    BY <2>1 DEF OnTrack, Errored
  <2>4. state'.status = status
    BY <2>1 DEF Errored
  <2> HIDE DEF status
  <2>5. Err(status) \in Verdicts(call)
    BY <1>1, <2>2
  <2>6. Condemned'
    BY <1>1, <2>1, <2>4, <2>5 DEF Condemned
  <2> QED
    BY <2>1, <2>3, <2>6, SilentStep
<1>3. CASE ~failed
  <2>1. Return(End) /\ EndingVerdict(call) = End
    BY <1>3 DEF Response, Ended
  <2>2. End \in Result /\ End.kind # "item"
    BY DEF End, Result
  <2> QED
    BY <1>1, <2>1, <2>2, FinalStep DEF Track
<1> QED
  BY <1>2, <1>3
-----------------------------------------------------------------------------
LEMMA AppendKeepsFirst ==
    ASSUME NEW S, NEW s \in Seq(S), Len(s) >= 1, NEW e
    PROVE  Append(s, e) # <<>> /\ Append(s, e)[1] = s[1]
OBVIOUS

(* No step leaves the track after the first final result.                  *)
LEMMA ReturnKeepsFirst ==
    ASSUME IInv, after # <<>>, NEW r, Return(r)
    PROVE  items' = items /\ after' # <<>> /\ after'[1] = after[1]
<1>1. after' = Append(after, r) /\ items' = items
  BY DEF Return
<1>2. after \in Seq(Result) /\ Len(after) >= 1
  BY TypesOf
<1>3. after' # <<>> /\ after'[1] = after[1]
  BY <1>1, <1>2, AppendKeepsFirst
<1> QED
  BY <1>1, <1>3

LEMMA FinishedStep ==
    ASSUME IInv, after # <<>>, Next
    PROVE  OnTrack' /\ Condemned' /\ Progress
<1>1. call' = call
  BY DEF Next, PollNext, PollError, RejectFlag, RejectLength, FailInflate, FailDecode,
         YieldMessage, PollPending, PollData, PollTrailers, PollEof, PollBodyError,
         TakeTrailers
<1>2. (\E r : Return(r)) \/ (items' = items /\ after' = after)
  BY DEF Next, PollNext, PollError, RejectFlag, RejectLength, FailInflate, FailDecode,
         YieldMessage, PollPending, PollData, PollTrailers, PollEof, PollBodyError,
         TakeTrailers, Response, NoResult
<1>3. items' = items /\ after' # <<>> /\ after'[1] = after[1]
  BY <1>2, ReturnKeepsFirst
<1> QED
  BY <1>1, <1>3, AfterTheEnd

(* While no final result is out, every step stays on track.                *)
LEMMA OpenStep ==
    ASSUME Track, after = <<>>, Next
    PROVE  OnTrack' /\ Condemned' /\ Progress
<1>1. /\ IInv /\ call \in Calls /\ Len(call.wire) \in Nat /\ taken \in Nat
      /\ taken <= Len(call.wire) /\ read \in Nat /\ read <= taken /\ state \in State
  BY TypesOf DEF Track
<1>2. Err("Internal") \in Result /\ Err("Internal").kind # "item"
      /\ Err("OutOfRange") \in Result /\ Err("OutOfRange").kind # "item"
  BY DEF Result, Err, Code
<1>3. CASE PollError
  <2>1. state.name = "Error" /\ state.status # NoStatus /\ call' = call
    BY <1>1, <1>3 DEF PollError, IInv, Answered
  <2>2. Return(Err(state.status))
    BY <1>3, <2>1 DEF PollError
  <2>3. state.status \in Code
    BY <1>1, <2>1 DEF State, HeaderStatus
  <2>4. Err(state.status) \in Result /\ Err(state.status).kind # "item"
    BY <2>3 DEF Err, Result
  <2>5. items = Sent(call) /\ Err(state.status) \in Verdicts(call)
    BY <2>1 DEF Track, Condemned
  <2> QED
    BY <1>1, <2>1, <2>2, <2>4, <2>5, FinalStep
<1>4. ASSUME HeaderReady
      PROVE  Here(read) /\ HasHeader(call, read)
             /\ GoodFlag(call, read) = FlagAccepted /\ FrameLen(call, read) = BodyLen
  <2>1. state.name = "ReadHeader" /\ taken - read >= 5
    BY <1>4 DEF HeaderReady, Buffered, HEADER_SIZE
  <2>2. Here(read)
    BY <1>1, <2>1 DEF Track, OnTrack, Start, Here
  <2>3. HasHeader(call, read)
    BY <1>1, <2>1 DEF HasHeader, HEADER_SIZE
  <2>4. GoodFlag(call, read) = FlagAccepted /\ FrameLen(call, read) = BodyLen
    BY DEF GoodFlag, FlagAccepted, Flag, FrameLen, BodyLen
  <2> QED
    BY <2>2, <2>3, <2>4
<1>5. CASE RejectFlag
  <2>1. HeaderReady /\ ~FlagAccepted /\ Return(Err("Internal")) /\ call' = call
    BY <1>5 DEF RejectFlag
  <2>2. Here(read) /\ HasHeader(call, read) /\ ~GoodFlag(call, read)
    BY <1>4, <2>1
  <2>3. Stop(call) = read /\ items = Sent(call)
    BY <1>1, <2>2, StopsHere DEF Readable, Whole, GoodHeader
  <2>4. Err("Internal") \in Verdicts(call)
    BY <2>2, <2>3, BadFlag
  <2> QED
    BY <1>1, <1>2, <2>1, <2>3, <2>4, FinalStep
<1>6. CASE RejectLength
  <2>1. /\ HeaderReady /\ FlagAccepted /\ BodyLen > call.limit
        /\ Return(Err("OutOfRange")) /\ call' = call
    BY <1>6 DEF RejectLength
  <2>2. /\ Here(read) /\ HasHeader(call, read) /\ GoodFlag(call, read)
        /\ FrameLen(call, read) > call.limit
    BY <1>4, <2>1
  <2>3. FrameLen(call, read) \in Nat /\ call.limit \in Nat
    BY <1>1, <2>2, FrameLenNat, CallIs
  <2>4. ~Readable(call, read)
    BY <2>2, <2>3 DEF Readable, Whole, GoodHeader
  <2>5. Stop(call) = read /\ items = Sent(call)
    BY <1>1, <2>2, <2>4, StopsHere
  <2>6. Err("OutOfRange") \in Verdicts(call)
    BY <1>1, <2>2, <2>5, TooLong DEF Here
  <2> QED
    BY <1>1, <1>2, <2>1, <2>5, <2>6, FinalStep
<1>7. CASE FailInflate \/ FailDecode
  <2>1. /\ PayloadReady /\ Return(Err("Internal")) /\ call' = call
        /\ Inflated = Corrupt \/ ~Decodable(Inflated)
    BY <1>7 DEF FailInflate, FailDecode
  <2>2. PICK p \in 0..Len(call.wire) :
            Here(p) /\ Whole(call, p) /\ Inflated = MessageAt(call, p)
    BY <2>1, PayloadIs
  <2>3. ~Readable(call, p)
    BY <2>1, <2>2 DEF Readable
  <2>4. Stop(call) = p /\ items = Sent(call)
    BY <1>1, <2>2, <2>3, StopsHere
  <2>5. Err("Internal") \in Verdicts(call)
    BY <1>1, <2>2, <2>4, Unreadable
  <2> QED
    BY <1>1, <1>2, <2>1, <2>4, <2>5, FinalStep
<1>8. CASE YieldMessage
  <2>1. /\ PayloadReady /\ Inflated # Corrupt /\ Decodable(Inflated)
        /\ Return(Item(Inflated)) /\ state' = ReadHeader
        /\ read' = BodyAt + Parsed.len /\ call' = call
    BY <1>8 DEF YieldMessage
  <2>2. PICK p \in 0..Len(call.wire) :
            /\ Here(p) /\ Whole(call, p) /\ Inflated = MessageAt(call, p)
            /\ BodyAt + Parsed.len = Past(call, p)
    BY <2>1, PayloadIs
  <2>3. Readable(call, p)
    BY <2>1, <2>2 DEF Readable
  <2> QED
    BY <1>1, <2>1, <2>2, <2>3, MessageStep
<1>9. CASE PollPending \/ PollData
  BY <1>9, StaysOnTrack DEF PollPending, PollData, NoResult
<1>10. ASSUME NeedMore PROVE body = "open" /\ trailers = NoTrailers
  <2>1. state.name # "Error"
    BY <1>10 DEF NeedMore, InBody, HeaderParsed, HeaderReady
  <2>2. body = "open"
    BY <1>1, <2>1 DEF IInv, TypeOK, Answered
  <2> QED
    BY <1>1, <2>2 DEF IInv, TrailersFromBody
<1>11. CASE PollTrailers
  <2>1. /\ NeedMore /\ AllTaken /\ call.ending.kind = "trailers" /\ call' = call
        /\ Response(call.ending.status)
    BY <1>11 DEF PollTrailers
  <2>2. call.ending.status \in Trailers
    BY <1>1, <2>1 DEF IInv, TypeOK, CallType, Ending, Trailers
  <2>3. EndingVerdict(call) = Ended(call, call.ending.status)
    BY <2>1 DEF EndingVerdict
  <2> QED
    BY <2>1, <2>2, <2>3, ResponseTold
<1>12. CASE PollEof
  <2>1. NeedMore /\ AllTaken /\ call' = call
    BY <1>12 DEF PollEof
  <2>2. call.ending.kind = "eof" /\ trailers = NoTrailers
    BY <1>10, <1>12, <2>1 DEF PollEof
  <2>3. CASE taken > BodyAt
    <3>1. Return(Err("Internal"))
      BY <1>12, <2>3 DEF PollEof
    <3>2. items = Sent(call) /\ Err("Internal") \in Verdicts(call)
      BY <2>1, <2>2, <2>3, Exhausted
    <3> QED
      BY <1>1, <1>2, <2>1, <3>1, <3>2, FinalStep
  <2>4. CASE ~(taken > BodyAt)
    <3>1. Response(NoTrailers) /\ NoTrailers \in Trailers
      BY <1>12, <2>2, <2>4 DEF PollEof, Trailers
    <3>2. EndingVerdict(call) = Ended(call, NoTrailers)
      BY <2>2 DEF EndingVerdict
    <3> QED
      BY <2>1, <2>4, <3>1, <3>2, ResponseTold
  <2> QED
    BY <2>3, <2>4
<1>13. CASE PollBodyError
  <2>1. NeedMore /\ AllTaken /\ call.ending.kind = "error" /\ call' = call
    BY <1>13 DEF PollBodyError
  <2>2. CASE call.direction = "Request" /\ call.ending.code = "Cancelled"
    <3>1. Response(NoTrailers) /\ NoTrailers \in Trailers
      BY <1>10, <1>13, <2>1, <2>2 DEF PollBodyError, Trailers
    <3>2. EndingVerdict(call) = Ended(call, NoTrailers)
      BY <2>1, <2>2 DEF EndingVerdict
    <3> QED
      BY <2>1, <3>1, <3>2, ResponseTold
  <2>3. CASE ~(call.direction = "Request" /\ call.ending.code = "Cancelled")
    <3>1. Return(Err(call.ending.code))
      BY <1>13, <2>3 DEF PollBodyError
    <3>2. EndingVerdict(call) = Err(call.ending.code)
      BY <2>1, <2>3 DEF EndingVerdict
    <3>3. items = Sent(call) /\ Err(call.ending.code) \in Verdicts(call)
      BY <2>1, <3>2, Exhausted
    <3>4. call.ending.code \in Code
      BY <1>1, <2>1 DEF IInv, TypeOK, CallType, Ending
    <3>5. Err(call.ending.code) \in Result /\ Err(call.ending.code).kind # "item"
      BY <3>4 DEF Err, Result
    <3> QED
      BY <1>1, <2>1, <3>1, <3>3, <3>5, FinalStep
  <2> QED
    BY <2>2, <2>3
<1>14. CASE TakeTrailers
  <2>1. UNCHANGED <<call, read, taken, body, state, items, after>>
    BY <1>14 DEF TakeTrailers
  <2>2. OnTrack' /\ Condemned'
    BY <2>1 DEF Track, OnTrack, Condemned, Start
  <2> QED
    BY <2>1, <2>2, SilentStep
<1> QED
  BY <1>3, <1>5, <1>6, <1>7, <1>8, <1>9, <1>11, <1>12, <1>13, <1>14 DEF Next, PollNext

LEMMA TrackStep == Track /\ [Next]_vars => Track' /\ Progress
<1> SUFFICES ASSUME Track, [Next]_vars PROVE Track' /\ Progress
  OBVIOUS
<1>1. IInv'
  BY StepInv DEF Track
<1>2. CASE Next /\ after = <<>>
  BY <1>1, <1>2, OpenStep DEF Track
<1>3. CASE Next /\ after # <<>>
  BY <1>1, <1>3, FinishedStep DEF Track
<1>4. CASE UNCHANGED vars
  <2>1. OnTrack' /\ Condemned'
    BY <1>4 DEF vars, Track, OnTrack, Condemned, Start
  <2>2. call' = call /\ items' = items /\ after' = after
    BY <1>4 DEF vars
  <2> QED
    BY <1>1, <2>1, <2>2, SilentStep DEF Track
<1> QED
  BY <1>2, <1>3, <1>4

(* However the body is cut into frames and wherever it is pending, the     *)
(* consumer receives exactly the messages that lie whole on the wire, in   *)
(* their order, and only then the one final result that the wire and the   *)
(* peer's ending justify (`poll_next`, `decode_chunk`, `response`).        *)
THEOREM DecodesTheWire == Spec => ImplementsMessageStream
<1>1. Init => Track /\ Abstract!Init
  BY InitInv, InitTrack DEF Track
<1>2. Track /\ [Next]_vars =>
        Track' /\ [Abstract!Next]_<<Sent(call), Verdicts(call), items,
                      IF after = <<>> THEN [kind |-> "open"] ELSE after[1]>>
  BY TrackStep DEF Progress
<1> QED
  BY <1>1, <1>2, PTL DEF Spec, ImplementsMessageStream, Abstract!Spec
=============================================================================
