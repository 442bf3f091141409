-------------------------- MODULE EncodeBodyProofs --------------------------
(***************************************************************************)
(* Theorems about `EncodeBody` for any sources, sizes and limits: its type *)
(* invariant, the bound on what it buffers, that no server ends a stream   *)
(* without a status, that what the encoder frames is delivered once and in *)
(* order, and that the end of the stream tells the truth about it, whichever*)
(* loop writes the body.                                                   *)
(***************************************************************************)
EXTENDS EncodeBody, TLAPS, SequenceTheorems

(* A server's body that has yielded its trailers frame is over, or the     *)
(* sender holds the frame back.                                            *)
StatusKept ==
    role = "Server" /\ isEnd = "yes" => ended # "open" \/ seen # NoTrailers

IInv ==
    /\ TypeOK
    /\ BufBelowThreshold
    /\ StatusKept
    /\ StatusIsSent
-----------------------------------------------------------------------------
LEMMA InitInv == Init => IInv
<1> SUFFICES ASSUME Init PROVE IInv
  OBVIOUS
<1>1. TypeOK
  BY DEF Init, TypeOK, HeaderStatus, Endings
<1>2. BufBelowThreshold
  BY SizesAssumption DEF Init, BufBelowThreshold
<1> QED
  BY <1>1, <1>2 DEF Init, IInv, StatusKept, StatusIsSent

(* A sequence of positions remains one when the source has moved on.       *)
LEMMA PositionsGrow ==
    ASSUME NEW p \in Nat, NEW s \in Seq(1..p)
    PROVE  /\ s \in Seq(1..(p + 1))
           /\ Append(s, p + 1) \in Seq(1..(p + 1))
<1>1. \A i \in 1..Len(s) : s[i] \in 1..(p + 1)
  OBVIOUS
<1>2. s \in Seq(1..(p + 1))
  BY <1>1
<1>3. p + 1 \in 1..(p + 1)
  OBVIOUS
<1> QED
  BY <1>2, <1>3

LEMMA FrameSizeNat ==
    ASSUME NEW m \in Element, m.kind = "msg"
    PROVE  FrameSize(m) \in Nat /\ FrameSize(m) >= HEADER_SIZE
BY DEF Element, FrameSize, HEADER_SIZE

LEMMA CodesOK ==
    /\ \A m : EncodeResult(m) \in Code
    /\ NoTrailers \notin Code /\ "finished" \notin Code /\ "open" \notin Code
BY DEF EncodeResult, Code, NoTrailers

(* What the source yields is an element of the script.                     *)
LEMMA YieldsOK ==
    ASSUME TypeOK, NEW kind, Yields(kind)
    PROVE  /\ pos + 1 \in 1..Len(script) /\ pos + 1 \in 0..Len(script)
           /\ script[pos + 1] \in Element
           /\ script[pos + 1].kind = kind
           /\ pos \in Nat
<1>1. script \in Seq(Element)
  BY ScriptsAssumption DEF TypeOK
<1> QED
  BY <1>1 DEF TypeOK, Yields

(* A data frame: the status is where it was.                               *)
LEMMA DataStep ==
    ASSUME IInv, ended = "open",
           UNCHANGED <<script, role, sender, isEnd, seen, ended>>,
           pos' \in 0..Len(script),
           buf' \in Seq(1..pos'),
           delivered' \in Seq(1..pos'),
           size' \in Nat, BufBelowThreshold',
           deferred' \in HeaderStatus
    PROVE  IInv'
<1>1. TypeOK'
  BY DEF IInv, TypeOK
<1> QED
  BY <1>1 DEF IInv, StatusKept, StatusIsSent

(* Yielding a batch empties the buffer and loses nothing from it.          *)
LEMMA FlushOK ==
    ASSUME NEW p \in Nat, delivered \in Seq(1..p),
           NEW batch \in Seq(1..p), Flush(batch)
    PROVE  /\ delivered' \in Seq(1..p)
           /\ buf' = <<>> /\ size' = 0
           /\ UNCHANGED <<seen, ended>>
           /\ BufBelowThreshold'
BY SizesAssumption DEF Flush, SendData, BufBelowThreshold

(* A trailers frame: sent or held back, the status is not lost.            *)
LEMMA TrailersStep ==
    ASSUME IInv, ended = "open", NEW code \in Code,
           role = "Server", isEnd' = "yes", SendTrailers(code),
           UNCHANGED <<script, role, sender, buf, size>>,
           pos' \in pos..Len(script), pos' \in {pos, pos + 1},
           deferred' \in HeaderStatus
    PROVE  IInv'
<1>1. /\ delivered' = delivered
      /\ \/ ended' = code /\ seen' = seen
         \/ ended' = ended /\ seen' = code
  BY DEF SendTrailers
<1>2. buf' \in Seq(1..pos') /\ delivered' \in Seq(1..pos') /\ pos' \in 0..Len(script)
  <2>1. pos \in Nat /\ buf \in Seq(1..pos) /\ delivered \in Seq(1..pos)
    BY DEF IInv, TypeOK
  <2> QED
    BY <1>1, <2>1, PositionsGrow
<1>3. TypeOK'
  BY <1>1, <1>2 DEF IInv, TypeOK, Endings
<1>4. BufBelowThreshold'
  BY DEF IInv, BufBelowThreshold
<1>5. StatusKept' /\ StatusIsSent'
  BY <1>1, CodesOK DEF StatusKept, StatusIsSent
<1> QED
  BY <1>3, <1>4, <1>5 DEF IInv

(* A client's body error ends its stream, by a reset or not.               *)
LEMMA ClientErrorStep ==
    ASSUME IInv, role = "Client", SendError,
           UNCHANGED <<script, role, sender, buf, size, isEnd>>,
           pos' \in pos..Len(script), pos' \in {pos, pos + 1},
           deferred' \in HeaderStatus
    PROVE  IInv'
<1>1. /\ delivered' = delivered /\ seen' = seen
      /\ ended' \in {"reset", "finished"}
  BY DEF SendError
<1>2. buf' \in Seq(1..pos') /\ delivered' \in Seq(1..pos') /\ pos' \in 0..Len(script)
  <2>1. pos \in Nat /\ buf \in Seq(1..pos) /\ delivered \in Seq(1..pos)
    BY DEF IInv, TypeOK
  <2> QED
    BY <1>1, <2>1, PositionsGrow
<1>3. TypeOK'
  BY <1>1, <1>2 DEF IInv, TypeOK, Endings
<1>4. BufBelowThreshold'
  BY DEF IInv, BufBelowThreshold
<1> QED
  BY <1>3, <1>4 DEF IInv, StatusKept, StatusIsSent

LEMMA FailStep ==
    ASSUME IInv, Polled, NEW code \in Code, FailWith(code),
           UNCHANGED <<script, role, sender, buf, size>>,
           pos' \in pos..Len(script), pos' \in {pos, pos + 1},
           deferred' \in HeaderStatus
    PROVE  IInv'
<1>1. role \in {"Client", "Server"}
  BY RolesAssumption DEF IInv, TypeOK
<1>2. CASE role = "Client"
  BY <1>2, ClientErrorStep DEF FailWith
<1>3. CASE role = "Server"
  BY <1>3, TrailersStep DEF FailWith, Polled
<1> QED
  BY <1>1, <1>2, <1>3
-----------------------------------------------------------------------------
LEMMA EncodeItemStep ==
    ASSUME IInv, EncodeItem
    PROVE  IInv'
<1> DEFINE m == script[pos + 1]
<1>1. /\ TypeOK /\ ended = "open" /\ Yields("msg")
      /\ pos' = pos + 1
      /\ UNCHANGED <<script, role, sender, deferred, isEnd>>
  BY DEF EncodeItem, SourceTurn, Polled, IInv
<1>2. /\ pos + 1 \in 0..Len(script) /\ pos \in Nat
      /\ FrameSize(m) \in Nat /\ FrameSize(m) >= 5
  BY <1>1, YieldsOK, FrameSizeNat DEF HEADER_SIZE
<1>3. /\ buf \in Seq(1..(pos + 1)) /\ Append(buf, pos + 1) \in Seq(1..(pos + 1))
      /\ delivered \in Seq(1..(pos + 1))
      /\ size \in Nat /\ deferred \in HeaderStatus
  BY <1>1, PositionsGrow DEF TypeOK
<1>4. CASE size + FrameSize(m) >= YieldThreshold
  <2>1. Flush(Append(buf, pos + 1))
    BY <1>4 DEF EncodeItem
  <2>2. /\ delivered' \in Seq(1..(pos + 1)) /\ buf' = <<>> /\ size' = 0
        /\ UNCHANGED <<seen, ended>> /\ BufBelowThreshold'
    <3>1. pos + 1 \in Nat
      BY <1>2
    <3> QED
      BY <1>3, <2>1, <3>1, FlushOK
  <2> QED
    BY <1>1, <1>2, <1>3, <2>2, DataStep
<1>5. CASE ~(size + FrameSize(m) >= YieldThreshold)
  <2>1. /\ buf' = Append(buf, pos + 1) /\ size' = size + FrameSize(m)
        /\ UNCHANGED <<seen, delivered, ended>>
    BY <1>5 DEF EncodeItem
  <2>2. buf' # <<>>
    BY <1>3, <2>1
  <2>3. BufBelowThreshold'
    <3>1. size' \in Nat /\ size' # 0 /\ size' < YieldThreshold
      BY <1>2, <1>3, <1>5, <2>1, SizesAssumption
    <3> QED
      BY <2>2, <3>1 DEF BufBelowThreshold
  <2> QED
    BY <1>1, <1>2, <1>3, <2>1, <2>3, DataStep
<1> QED
  BY <1>4, <1>5

LEMMA FlushStep ==
    ASSUME IInv, ended = "open", Flush(buf),
           UNCHANGED <<script, role, sender, isEnd>>,
           pos' \in pos..Len(script), pos' \in {pos, pos + 1},
           deferred' \in HeaderStatus
    PROVE  IInv'
<1>1. /\ pos' \in Nat /\ pos' \in 0..Len(script)
      /\ buf \in Seq(1..pos') /\ delivered \in Seq(1..pos')
  <2>1. pos \in Nat /\ buf \in Seq(1..pos) /\ delivered \in Seq(1..pos)
    BY DEF IInv, TypeOK
  <2> QED
    BY <2>1, PositionsGrow
<1>2. /\ delivered' \in Seq(1..pos') /\ buf' = <<>> /\ size' = 0
      /\ UNCHANGED <<seen, ended>> /\ BufBelowThreshold'
  BY <1>1, FlushOK
<1> QED
  BY <1>1, <1>2, DataStep

(* The body is polled to its end: with the status held back, if any, which *)
(* on a server there is.                                                   *)
LEMMA SourceDoneStep ==
    ASSUME IInv, SourceDone
    PROVE  IInv'
<1>1. /\ TypeOK /\ ended = "open"
      /\ UNCHANGED <<script, role, sender, pos, buf, size, deferred>>
      /\ pos \in 0..Len(script) /\ deferred \in HeaderStatus
  BY DEF SourceDone, SourceTurn, Polled, IInv, TypeOK
<1>2. CASE role = "Server" /\ isEnd = "no"
  <2>1. SendTrailers("Ok") /\ isEnd' = "yes" /\ "Ok" \in Code
    BY <1>2 DEF SourceDone, Code
  <2> QED
    BY <1>1, <1>2, <2>1, TrailersStep
<1>3. CASE ~(role = "Server" /\ isEnd = "no")
  <2>1. /\ ended' = IF seen = NoTrailers THEN "finished" ELSE seen
        /\ UNCHANGED <<seen, delivered, isEnd>>
    BY <1>3 DEF SourceDone, SendEnd
  <2>2. TypeOK'
    BY <1>1, <2>1 DEF TypeOK, Endings
  <2>3. BufBelowThreshold'
    BY <1>1 DEF IInv, BufBelowThreshold
  <2>4. ended' # "open"
    BY <1>1, <2>1, CodesOK DEF TypeOK
  <2>5. role = "Server" => seen # NoTrailers /\ seen \in Code
    BY <1>1, <1>3 DEF IInv, StatusKept, TypeOK
  <2>6. StatusIsSent'
    BY <1>1, <2>1, <2>5, CodesOK DEF StatusIsSent
  <2> QED
    BY <2>2, <2>3, <2>4, <2>6 DEF IInv, StatusKept
<1> QED
  BY <1>2, <1>3

LEMMA StepInv == IInv /\ [Next]_vars => IInv'
<1> SUFFICES ASSUME IInv, [Next]_vars PROVE IInv'
  OBVIOUS
<1>1. /\ TypeOK /\ pos \in 0..Len(script) /\ pos \in Nat /\ Len(script) \in Nat
      /\ deferred \in HeaderStatus
  <2>1. script \in Seq(Element)
    BY ScriptsAssumption DEF IInv, TypeOK
  <2> QED
    BY <2>1 DEF IInv, TypeOK
<1>2. NoStatus \in HeaderStatus /\ HeaderStatus = Code \cup {NoStatus}
  BY DEF HeaderStatus
<1>3. CASE YieldDeferred
  <2>1. deferred \in Code
    BY <1>1, <1>2, <1>3 DEF YieldDeferred
  <2> QED
    BY <1>1, <1>2, <1>3, <2>1, FailStep DEF YieldDeferred
<1>4. CASE EncodeItem
  BY <1>4, EncodeItemStep
<1>5. CASE EncodeFails
  <2>1. pos + 1 \in 0..Len(script)
    BY <1>1, <1>5, YieldsOK DEF EncodeFails
  <2>2. EncodeResult(script[pos + 1]) \in Code
    BY CodesOK
  <2> QED
    BY <1>1, <1>5, <2>1, <2>2, FailStep DEF EncodeFails, SourceTurn
<1>6. ASSUME Yields("err")
      PROVE  pos + 1 \in 0..Len(script) /\ script[pos + 1].code \in Code
  <2>1. script[pos + 1] \in Element /\ script[pos + 1].kind = "err"
    BY <1>1, <1>6, YieldsOK
  <2>2. script[pos + 1].code \in Code
    BY <2>1 DEF Element
  <2> QED
    BY <1>1, <1>6, <2>2, YieldsOK
<1>7. CASE SourceError
  BY <1>1, <1>6, <1>7, FailStep DEF SourceError, SourceTurn
<1>8. CASE SourceErrorDeferred
  BY <1>1, <1>2, <1>6, <1>8, FlushStep DEF SourceErrorDeferred, SourceTurn, Polled
<1>9. CASE FlushIdle
  BY <1>1, <1>9, FlushStep DEF FlushIdle, SourceTurn, Polled
<1>10. CASE SourceDone
  BY <1>10, SourceDoneStep
<1>11. CASE Disconnect
  <2>1. /\ ended' = "reset"
        /\ UNCHANGED <<script, role, sender, pos, buf, size, deferred, isEnd, seen,
                       delivered>>
    BY <1>11 DEF Disconnect
  <2>2. TypeOK'
    BY <1>1, <2>1 DEF TypeOK, Endings
  <2> QED
    BY <2>1, <2>2 DEF IInv, BufBelowThreshold, StatusKept, StatusIsSent
<1>12. CASE UNCHANGED vars
  BY <1>12 DEF vars, IInv, TypeOK, BufBelowThreshold, StatusKept, StatusIsSent
<1> QED
  BY <1>3, <1>4, <1>5, <1>7, <1>8, <1>9, <1>10, <1>11, <1>12 DEF Next, PollFrame

LEMMA Invariance == Spec => []IInv
BY InitInv, StepInv, PTL DEF Spec

(* The encoder's state is always well formed; in particular its sender     *)
(* never ends a stream with anything but a status, a reset or its end.     *)
THEOREM TypeCorrect == Spec => []TypeOK
<1>1. IInv => TypeOK
  BY DEF IInv
<1> QED
  BY <1>1, Invariance, PTL

(* EncodedBytes never reads ahead of its consumer by a whole batch,        *)
(* whatever the sizes of the messages and of the threshold (encode.rs:91). *)
THEOREM BufferBounded == Spec => []BufBelowThreshold
<1>1. IInv => BufBelowThreshold
  BY DEF IInv
<1> QED
  BY <1>1, Invariance, PTL

(* A server's stream is never ended without a grpc-status                  *)
(* (encode.rs:248-262), over HTTP/2 and over HTTP/3.                       *)
THEOREM StatusAlwaysSent == Spec => []StatusIsSent
<1>1. IInv => StatusIsSent
  BY DEF IInv
<1> QED
  BY <1>1, Invariance, PTL
-----------------------------------------------------------------------------
Increasing(s) == \A i, j \in DOMAIN s : i < j => s[i] < s[j]
Elements(s) == { s[i] : i \in DOMAIN s }
GoodUpTo(p) == { i \in 1..p : Good(i) }
Out == delivered \o buf

(* What the source has yielded so far: nothing that failed; a failure, as  *)
(* the last and first; and the code of the last failure.                   *)
AllGood == \A i \in 1..pos : Good(i)
FailedNow ==
    /\ pos >= 1 /\ ~Good(pos)
    /\ \A i \in 1..pos : i # pos => Good(i)
LastCode(code) ==
    \E f \in 1..pos :
        /\ ~Good(f) /\ code = FailureCode(f)
        /\ \A i \in 1..pos : i > f => Good(i)
AllSent == pos = Len(script) /\ buf = <<>>

ClientHasNoErrors ==
    role = "Client" =>
        /\ \A i \in DOMAIN script : IsMessage(i)
        /\ deferred = NoStatus

DeferredIsLast ==
    deferred # NoStatus =>
        /\ pos >= 1 /\ ~IsMessage(pos) /\ deferred = FailureCode(pos)
        /\ buf = <<>>

(* A body that ends with its first failure: a client's, and a server's     *)
(* over HTTP/2.                                                            *)
OpenUntilFailure ==
    (role = "Client" \/ sender = "hyper") /\ ended = "open" =>
        /\ isEnd = "no" /\ seen = NoTrailers
        /\ deferred = NoStatus => AllGood
        /\ deferred # NoStatus => FailedNow

RequestEnded ==
    role = "Client" /\ sender = "hyper" /\ ended = "finished" =>
        AllSent /\ AllGood

ReplyEndedH2 ==
    role = "Server" /\ sender = "hyper" /\ ended \in Code =>
        \/ ended = "Ok" /\ AllSent /\ AllGood
        \/ /\ FailedNow /\ ended = FailureCode(pos)
           /\ ~IsMessage(pos) => buf = <<>>

(* Over HTTP/3 a server's body goes on, and the last status is kept.       *)
SeenIsLast ==
    \/ isEnd = "no" /\ AllGood
    \/ isEnd = "yes" /\ LastCode(seen)
    \/ isEnd = "yes" /\ seen = "Ok" /\ AllSent /\ AllGood

OpenH3 ==
    role = "Server" /\ sender = "h3" /\ ended = "open" /\ deferred = NoStatus =>
        SeenIsLast

ReplyEndedH3 ==
    role = "Server" /\ sender = "h3" /\ ended \in Code =>
        /\ AllSent
        /\ LastCode(ended) \/ (ended = "Ok" /\ AllGood)

Told ==
    /\ ClientHasNoErrors
    /\ DeferredIsLast
    /\ OpenUntilFailure
    /\ RequestEnded
    /\ ReplyEndedH2
    /\ OpenH3
    /\ ReplyEndedH3
-----------------------------------------------------------------------------
LEMMA AccountedParts ==
    Accounted <=> Increasing(Out) /\ Elements(Out) = GoodUpTo(pos)
BY DEF Accounted, Increasing, Elements, GoodUpTo, Out

(* Adding the next position at the end of an increasing sequence.          *)
LEMMA IncreasingAppend ==
    ASSUME NEW p \in Nat, NEW s \in Seq(1..p), Increasing(s)
    PROVE  /\ Increasing(Append(s, p + 1))
           /\ Elements(Append(s, p + 1)) = Elements(s) \cup {p + 1}
<1> DEFINE t == Append(s, p + 1)
<1>1. /\ Len(s) \in Nat /\ DOMAIN s = 1..Len(s)
      /\ \A i \in 1..Len(s) : s[i] \in 1..p
  OBVIOUS
<1>2. /\ Len(t) = Len(s) + 1 /\ DOMAIN t = 1..(Len(s) + 1)
      /\ t[Len(s) + 1] = p + 1
      /\ \A i \in 1..Len(s) : t[i] = s[i]
  OBVIOUS
<1> HIDE DEF t
<1>3. Increasing(t)
  <2> SUFFICES ASSUME NEW i \in 1..(Len(s) + 1), NEW j \in 1..(Len(s) + 1), i < j
               PROVE  t[i] < t[j]
    BY <1>2 DEF Increasing
  <2>1. i \in 1..Len(s) /\ t[i] = s[i] /\ s[i] \in 1..p
    BY <1>1, <1>2
  <2>2. CASE j = Len(s) + 1
    BY <1>2, <2>1, <2>2
  <2>3. CASE j # Len(s) + 1
    <3>1. j \in 1..Len(s) /\ t[j] = s[j]
      BY <1>1, <1>2, <2>3
    <3>2. s[i] < s[j]
      BY <1>1, <2>1, <3>1 DEF Increasing
    <3> QED
      BY <2>1, <3>1, <3>2
  <2> QED
    BY <2>2, <2>3
<1>4. Elements(t) = Elements(s) \cup {p + 1}
  <2>1. ASSUME NEW i \in 1..(Len(s) + 1)
        PROVE  t[i] \in Elements(s) \cup {p + 1}
    BY <1>1, <1>2 DEF Elements
  <2>2. ASSUME NEW i \in 1..Len(s)
        PROVE  s[i] \in Elements(t)
    <3>1. i \in DOMAIN t /\ t[i] = s[i]
      BY <1>1, <1>2
    <3> QED
      BY <3>1 DEF Elements
  <2>3. p + 1 \in Elements(t)
    <3>1. Len(s) + 1 \in DOMAIN t
      BY <1>1, <1>2
    <3> QED
      BY <1>2, <3>1 DEF Elements
  <2> QED
    BY <1>1, <1>2, <2>1, <2>2, <2>3 DEF Elements
<1> QED
  BY <1>3, <1>4 DEF t

LEMMA OutPositions ==
    ASSUME TypeOK
    PROVE  /\ pos \in Nat /\ delivered \in Seq(1..pos) /\ buf \in Seq(1..pos)
           /\ Out \in Seq(1..pos)
<1>1. script \in Seq(Element)
  BY ScriptsAssumption DEF TypeOK
<1>2. pos \in Nat /\ delivered \in Seq(1..pos) /\ buf \in Seq(1..pos)
  BY <1>1 DEF TypeOK
<1> QED
  BY <1>2, ConcatProperties DEF Out

(* Nothing framed: what is out stays out, and the source may have yielded  *)
(* something that cannot be.                                               *)
LEMMA AccountedStays ==
    ASSUME TypeOK, Accounted, script' = script, Out' = Out,
           pos' = pos \/ (pos' = pos + 1 /\ ~Good(pos + 1))
    PROVE  Accounted'
<1>1. pos \in Nat
  BY OutPositions
<1>2. GoodUpTo(pos)' = GoodUpTo(pos)
  BY <1>1 DEF GoodUpTo, Good, IsMessage
<1>3. Increasing(Out) /\ Elements(Out) = GoodUpTo(pos)
  BY AccountedParts
<1>4. Increasing(Out)' /\ Elements(Out)' = Elements(Out)
  BY <1>3 DEF Increasing, Elements
<1> QED
  BY <1>2, <1>3, <1>4, AccountedParts DEF Accounted, Increasing, Elements, GoodUpTo, Out

LEMMA AccountedGrows ==
    ASSUME TypeOK, Accounted, script' = script, Good(pos + 1),
           pos' = pos + 1, Out' = Append(Out, pos + 1)
    PROVE  Accounted'
<1>1. pos \in Nat /\ Out \in Seq(1..pos)
  BY OutPositions
<1>2. GoodUpTo(pos)' = GoodUpTo(pos) \cup {pos + 1}
  BY <1>1 DEF GoodUpTo, Good, IsMessage
<1>3. Increasing(Out) /\ Elements(Out) = GoodUpTo(pos)
  BY AccountedParts
<1>4. /\ Increasing(Append(Out, pos + 1))
      /\ Elements(Append(Out, pos + 1)) = Elements(Out) \cup {pos + 1}
  BY <1>1, <1>3, IncreasingAppend
<1>5. Increasing(Out)' /\ Elements(Out)' = GoodUpTo(pos)'
  BY <1>2, <1>3, <1>4 DEF Increasing, Elements
<1> QED
  BY <1>5 DEF Accounted, Increasing, Elements, GoodUpTo, Out

(* Where a batch is yielded, what was buffered is out as before.           *)
LEMMA OutOfFlush ==
    ASSUME NEW p \in Nat, delivered \in Seq(1..p), NEW batch \in Seq(1..p), Flush(batch)
    PROVE  Out' = delivered \o batch
<1>1. delivered' = delivered \o batch /\ buf' = <<>>
  BY DEF Flush, SendData
<1>2. delivered \o batch \in Seq(1..p)
  BY ConcatProperties
<1> QED
  BY <1>1, <1>2, ConcatEmptySeq DEF Out

LEMMA OutOfFail ==
    ASSUME NEW code, FailWith(code), UNCHANGED buf
    PROVE  Out' = Out
BY DEF FailWith, SendError, SendTrailers, Out

LEMMA AccountedEncodeItem ==
    ASSUME TypeOK, Accounted, EncodeItem
    PROVE  Accounted'
<1>1. /\ script' = script /\ pos' = pos + 1 /\ Good(pos + 1)
  BY DEF EncodeItem
<1>2. /\ pos \in Nat /\ delivered \in Seq(1..pos) /\ buf \in Seq(1..pos)
      /\ pos + 1 \in Nat
  BY OutPositions
<1>3. /\ delivered \in Seq(1..(pos + 1)) /\ buf \in Seq(1..(pos + 1))
      /\ Append(buf, pos + 1) \in Seq(1..(pos + 1))
  BY <1>2, PositionsGrow
<1>4. delivered \o Append(buf, pos + 1) = Append(delivered \o buf, pos + 1)
  BY <1>3
<1>5. Out' = Append(Out, pos + 1)
  <2>1. CASE Flush(Append(buf, pos + 1))
    <3>1. Out' = delivered \o Append(buf, pos + 1)
      BY <1>2, <1>3, <2>1, OutOfFlush
    <3> QED
      BY <1>4, <3>1 DEF Out
  <2>2. CASE buf' = Append(buf, pos + 1) /\ UNCHANGED delivered
    BY <1>4, <2>2 DEF Out
  <2> QED
    BY <2>1, <2>2 DEF EncodeItem
<1> QED
  BY <1>1, <1>5, AccountedGrows

LEMMA AccountedFlush ==
    ASSUME TypeOK, Accounted, Flush(buf), script' = script,
           pos' = pos \/ (pos' = pos + 1 /\ ~Good(pos + 1))
    PROVE  Accounted'
<1>1. pos \in Nat /\ delivered \in Seq(1..pos) /\ buf \in Seq(1..pos)
  BY OutPositions
<1>2. Out' = Out
  BY <1>1, OutOfFlush DEF Out
<1> QED
  BY <1>2, AccountedStays

LEMMA AccountedStep == IInv /\ Accounted /\ [Next]_vars => Accounted'
<1> SUFFICES ASSUME TypeOK, Accounted, [Next]_vars PROVE Accounted'
  BY DEF IInv
<1>1. CASE YieldDeferred
  <2>1. FailWith(deferred) /\ UNCHANGED <<buf, script, pos>>
    BY <1>1 DEF YieldDeferred
  <2> QED
    BY <2>1, OutOfFail, AccountedStays
<1>2. CASE EncodeItem
  BY <1>2, AccountedEncodeItem
<1>3. CASE EncodeFails
  <2>1. /\ FailWith(EncodeResult(script[pos + 1])) /\ UNCHANGED <<buf, script>>
        /\ pos' = pos + 1 /\ ~Good(pos + 1)
    BY <1>3 DEF EncodeFails
  <2> QED
    BY <2>1, OutOfFail, AccountedStays
<1>4. ASSUME Yields("err") PROVE ~Good(pos + 1)
  BY <1>4 DEF Yields, Good, IsMessage
<1>5. CASE SourceError
  <2>1. /\ FailWith(script[pos + 1].code) /\ UNCHANGED <<buf, script>>
        /\ pos' = pos + 1 /\ ~Good(pos + 1)
    BY <1>4, <1>5 DEF SourceError
  <2> QED
    BY <2>1, OutOfFail, AccountedStays
<1>6. CASE SourceErrorDeferred
  BY <1>4, <1>6, AccountedFlush DEF SourceErrorDeferred
<1>7. CASE FlushIdle
  BY <1>7, AccountedFlush DEF FlushIdle
<1>8. CASE SourceDone
  <2>1. Out' = Out /\ UNCHANGED <<script, pos>>
    BY <1>8 DEF SourceDone, SendTrailers, SendEnd, Out
  <2> QED
    BY <2>1, AccountedStays
<1>9. CASE Disconnect
  <2>1. Out' = Out /\ UNCHANGED <<script, pos>>
    BY <1>9 DEF Disconnect, Out
  <2> QED
    BY <2>1, AccountedStays
<1>10. CASE UNCHANGED vars
  <2>1. Out' = Out /\ UNCHANGED <<script, pos>>
    BY <1>10 DEF vars, Out
  <2> QED
    BY <2>1, AccountedStays
<1> QED
  BY <1>1, <1>2, <1>3, <1>5, <1>6, <1>7, <1>8, <1>9, <1>10 DEF Next, PollFrame

LEMMA AccountedInit == Init => Accounted
<1> SUFFICES ASSUME Init PROVE Accounted
  OBVIOUS
<1>1. Out = <<>> /\ pos = 0
  <2>1. <<>> \o <<>> = <<>>
    BY EmptySeq, ConcatEmptySeq
  <2> QED
    BY <2>1 DEF Init, Out
<1>2. Increasing(Out) /\ Elements(Out) = {} /\ GoodUpTo(pos) = {}
  BY <1>1 DEF Increasing, Elements, GoodUpTo
<1> QED
  BY <1>2, AccountedParts

(* Every message that could be framed is in the buffer or on the wire,     *)
(* once and in the order of the source, for every source, every size and   *)
(* every threshold (encode.rs:71-102, 145-154).                            *)
THEOREM NothingLostOrReordered == Spec => []Accounted
BY AccountedInit, AccountedStep, Invariance, PTL DEF Spec
-----------------------------------------------------------------------------
LEMMA ScriptFacts ==
    ASSUME TypeOK
    PROVE  /\ script \in Seq(Element) /\ DOMAIN script = 1..Len(script)
           /\ Len(script) \in Nat /\ pos \in Nat /\ pos <= Len(script)
           /\ role \in {"Client", "Server"} /\ sender \in {"hyper", "h3"}
<1>1. script \in Seq(Element)
  BY ScriptsAssumption DEF TypeOK
<1> QED
  BY <1>1, RolesAssumption DEF TypeOK

LEMMA StatusFacts ==
    /\ NoStatus \notin Code /\ NoTrailers \notin Code
    /\ "open" \notin Code /\ "reset" \notin Code /\ "finished" \notin Code
    /\ "Ok" \in Code
BY DEF NoStatus, NoTrailers, Code

LEMMA FailureCodes ==
    ASSUME TypeOK, NEW i \in 1..Len(script), ~Good(i)
    PROVE  FailureCode(i) \in Code \ {"Ok"}
<1>1. script[i] \in Element
  BY ScriptFacts
<1>2. CASE IsMessage(i)
  BY <1>2, CodesOK DEF FailureCode, Good
<1>3. CASE ~IsMessage(i)
  <2>1. script[i].code \in Code \ {"Ok"}
    BY <1>1, <1>3 DEF Element, IsMessage
  <2> QED
    BY <1>3, <2>1 DEF FailureCode
<1> QED
  BY <1>2, <1>3

(* What a position of the source is does not change.                       *)
LEMMA SameScript ==
    ASSUME script' = script
    PROVE  /\ \A i : Good(i)' <=> Good(i)
           /\ \A i : IsMessage(i)' <=> IsMessage(i)
           /\ \A i : FailureCode(i)' = FailureCode(i)
BY DEF Good, IsMessage, FailureCode

LEMMA ToldInit == Init => Told
<1> SUFFICES ASSUME Init PROVE Told
  OBVIOUS
<1> USE DEF Init
<1>1. AllGood
  BY DEF AllGood
<1>2. ClientHasNoErrors /\ DeferredIsLast
  BY DEF ClientHasNoErrors, DeferredIsLast
<1>3. OpenUntilFailure /\ OpenH3
  BY <1>1 DEF OpenUntilFailure, OpenH3, SeenIsLast
<1>4. RequestEnded /\ ReplyEndedH2 /\ ReplyEndedH3
  BY StatusFacts DEF RequestEnded, ReplyEndedH2, ReplyEndedH3
<1> QED
  BY <1>2, <1>3, <1>4 DEF Told

(* The source has yielded something and the body goes on.                  *)
LEMMA ToldEncodeItem ==
    ASSUME TypeOK, Told, EncodeItem
    PROVE  Told'
<1>1. /\ UNCHANGED <<script, role, sender, deferred, isEnd, seen, ended>>
      /\ ended = "open" /\ deferred = NoStatus
      /\ pos' = pos + 1 /\ pos < Len(script) /\ Good(pos + 1)
  BY DEF EncodeItem, SourceTurn, Polled, Yields, Flush, SendData
<1>2. pos \in Nat /\ Len(script) \in Nat
  BY ScriptFacts
<1>3. AllGood => AllGood'
  BY <1>1, <1>2 DEF AllGood, Good, IsMessage
<1>4. ASSUME NEW code, LastCode(code)
      PROVE  LastCode(code)'
  <2>1. PICK f \in 1..pos : /\ ~Good(f) /\ code = FailureCode(f)
                            /\ \A i \in 1..pos : i > f => Good(i)
    BY <1>4 DEF LastCode
  <2>2. /\ f \in 1..pos' /\ \A i \in 1..pos' : i > f => Good(i)
    BY <1>1, <1>2, <2>1
  <2> QED
    BY <1>1, <2>1, <2>2 DEF LastCode, Good, IsMessage, FailureCode
<1>5. ClientHasNoErrors' /\ DeferredIsLast' /\ OpenUntilFailure'
  BY <1>1, <1>3 DEF Told, ClientHasNoErrors, DeferredIsLast, OpenUntilFailure, IsMessage
<1>6. RequestEnded' /\ ReplyEndedH2' /\ ReplyEndedH3'
  BY <1>1, StatusFacts DEF RequestEnded, ReplyEndedH2, ReplyEndedH3
<1>7. OpenH3'
  <2> SUFFICES ASSUME role = "Server", sender = "h3"
               PROVE  SeenIsLast'
    BY <1>1 DEF OpenH3
  <2>1. SeenIsLast /\ pos # Len(script)
    BY <1>1, <1>2 DEF Told, OpenH3
  <2> QED
    BY <1>1, <1>3, <1>4, <2>1 DEF SeenIsLast, AllSent
<1> QED
  BY <1>5, <1>6, <1>7 DEF Told

(* A failure ends the body, or is kept as the last one.                    *)
LEMMA ToldFail ==
    ASSUME TypeOK, Told, ended = "open", NEW code \in Code, FailWith(code),
           UNCHANGED <<script, role, sender, buf>>, deferred' = NoStatus,
           pos' \in 1..Len(script), ~Good(pos'), code = FailureCode(pos'),
           ~IsMessage(pos') => buf = <<>>,
           role = "Client" \/ sender = "hyper" =>
               \A i \in 1..pos' : i # pos' => Good(i)
    PROVE  Told'
<1>1. role \in {"Client", "Server"} /\ sender \in {"hyper", "h3"}
  BY ScriptFacts
<1>2. ClientHasNoErrors' /\ DeferredIsLast'
  BY DEF Told, ClientHasNoErrors, DeferredIsLast, IsMessage
<1>3. CASE role = "Client"
  <2>1. ended' = IF sender = "hyper" THEN "reset" ELSE "finished"
    BY <1>3 DEF FailWith, SendError
  <2>2. OpenUntilFailure' /\ RequestEnded'
    BY <2>1 DEF OpenUntilFailure, RequestEnded
  <2>3. ReplyEndedH2' /\ ReplyEndedH3' /\ OpenH3'
    BY <1>3 DEF ReplyEndedH2, ReplyEndedH3, OpenH3
  <2> QED
    BY <1>2, <2>2, <2>3 DEF Told
<1>4. CASE role = "Server" /\ sender = "hyper"
  <2>1. ended' = code
    BY <1>4 DEF FailWith, SendTrailers
  <2>2. FailedNow'
    BY <1>4, ScriptFacts DEF FailedNow, Good, IsMessage
  <2>3. ReplyEndedH2'
    BY <1>4, <2>1, <2>2 DEF ReplyEndedH2, FailureCode, IsMessage
  <2>4. OpenUntilFailure' /\ RequestEnded' /\ ReplyEndedH3' /\ OpenH3'
    BY <1>4, <2>1, StatusFacts
      DEF OpenUntilFailure, RequestEnded, ReplyEndedH3, OpenH3
  <2> QED
    BY <1>2, <2>3, <2>4 DEF Told
<1>5. CASE role = "Server" /\ sender = "h3"
  <2>1. ended' = "open" /\ seen' = code /\ isEnd' = "yes"
    BY <1>5 DEF FailWith, SendTrailers
  <2>2. LastCode(code)'
    <3>1. /\ pos' \in 1..pos' /\ (~Good(pos))' /\ code = FailureCode(pos)'
          /\ \A i \in 1..pos' : ~(i > pos')
      BY ScriptFacts DEF Good, IsMessage, FailureCode
    <3> QED
      BY <3>1 DEF LastCode
  <2>3. OpenH3'
    BY <2>1, <2>2 DEF OpenH3, SeenIsLast
  <2>4. OpenUntilFailure' /\ RequestEnded' /\ ReplyEndedH2' /\ ReplyEndedH3'
    BY <1>5, <2>1, StatusFacts
      DEF OpenUntilFailure, RequestEnded, ReplyEndedH2, ReplyEndedH3
  <2> QED
    BY <1>2, <2>3, <2>4 DEF Told
<1> QED
  BY <1>1, <1>3, <1>4, <1>5

LEMMA ToldYieldDeferred ==
    ASSUME TypeOK, Told, YieldDeferred
    PROVE  Told'
<1>1. /\ ended = "open" /\ deferred # NoStatus /\ FailWith(deferred)
      /\ deferred' = NoStatus
      /\ UNCHANGED <<script, role, sender, buf, pos>>
  BY DEF YieldDeferred, Polled
<1>2. deferred \in Code
  BY <1>1 DEF TypeOK, HeaderStatus
<1>3. /\ pos >= 1 /\ ~IsMessage(pos) /\ deferred = FailureCode(pos) /\ buf = <<>>
      /\ pos \in 1..Len(script) /\ ~Good(pos)
  BY <1>1, ScriptFacts DEF Told, DeferredIsLast, Good
<1>4. role = "Client" \/ sender = "hyper" => \A i \in 1..pos : i # pos => Good(i)
  BY <1>1 DEF Told, OpenUntilFailure, FailedNow
<1> QED
  BY <1>1, <1>2, <1>3, <1>4, ToldFail

(* The source yields what fails at once.                                   *)
LEMMA ToldFailNext ==
    ASSUME TypeOK, Told, SourceTurn, pos < Len(script), ~Good(pos + 1),
           ~IsMessage(pos + 1) => buf = <<>>, pos' = pos + 1,
           FailWith(FailureCode(pos + 1)),
           UNCHANGED <<script, role, sender, buf, deferred>>
    PROVE  Told'
<1>1. /\ pos \in Nat /\ Len(script) \in Nat /\ pos' \in 1..Len(script)
      /\ ended = "open" /\ deferred = NoStatus
  BY ScriptFacts DEF SourceTurn, Polled
<1>2. FailureCode(pos + 1) \in Code
  BY <1>1, FailureCodes
<1>3. ASSUME role = "Client" \/ sender = "hyper"
      PROVE  \A i \in 1..pos' : i # pos' => Good(i)
  BY <1>1, <1>3 DEF Told, OpenUntilFailure, AllGood
<1> QED
  BY <1>1, <1>2, <1>3, ToldFail

LEMMA ToldEncodeFails ==
    ASSUME TypeOK, Told, EncodeFails
    PROVE  Told'
<1>1. /\ SourceTurn /\ pos < Len(script) /\ ~Good(pos + 1) /\ pos' = pos + 1
      /\ IsMessage(pos + 1) /\ FailWith(EncodeResult(script[pos + 1]))
      /\ UNCHANGED <<script, role, sender, buf, deferred>>
  BY DEF EncodeFails, Yields, IsMessage
<1>2. EncodeResult(script[pos + 1]) = FailureCode(pos + 1)
  BY <1>1 DEF FailureCode
<1> QED
  BY <1>1, <1>2, ToldFailNext

LEMMA ToldSourceError ==
    ASSUME TypeOK, Told, SourceError
    PROVE  Told'
<1>1. /\ SourceTurn /\ pos < Len(script) /\ pos' = pos + 1 /\ buf = <<>>
      /\ ~IsMessage(pos + 1) /\ FailWith(script[pos + 1].code)
      /\ UNCHANGED <<script, role, sender, buf, deferred>>
  BY DEF SourceError, Yields, IsMessage
<1>2. script[pos + 1].code = FailureCode(pos + 1) /\ ~Good(pos + 1)
  BY <1>1 DEF FailureCode, Good
<1> QED
  BY <1>1, <1>2, ToldFailNext

LEMMA ToldSourceErrorDeferred ==
    ASSUME TypeOK, Told, SourceErrorDeferred
    PROVE  Told'
<1>1. /\ ended = "open" /\ deferred = NoStatus /\ pos < Len(script)
      /\ ~IsMessage(pos + 1) /\ pos' = pos + 1 /\ buf' = <<>>
      /\ deferred' = script[pos + 1].code
      /\ UNCHANGED <<script, role, sender, isEnd, seen, ended>>
  BY DEF SourceErrorDeferred, SourceTurn, Polled, Yields, IsMessage, Flush, SendData
<1>2. /\ pos \in Nat /\ Len(script) \in Nat /\ pos + 1 \in DOMAIN script
      /\ pos + 1 \in 1..Len(script)
  BY <1>1, ScriptFacts
<1>3. deferred' = FailureCode(pos + 1) /\ ~Good(pos + 1)
  BY <1>1 DEF FailureCode, Good
<1>4. deferred' # NoStatus
  BY <1>2, <1>3, FailureCodes, StatusFacts
<1>5. role # "Client"
  BY <1>1, <1>2 DEF Told, ClientHasNoErrors
<1>6. ClientHasNoErrors' /\ DeferredIsLast'
  BY <1>1, <1>2, <1>3, <1>5 DEF ClientHasNoErrors, DeferredIsLast, IsMessage, FailureCode
<1>7. OpenUntilFailure'
  <2>1. AllGood => FailedNow'
    BY <1>1, <1>2, <1>3 DEF AllGood, FailedNow, Good, IsMessage
  <2> QED
    BY <1>1, <1>4, <2>1 DEF Told, OpenUntilFailure
<1>8. OpenH3' /\ RequestEnded' /\ ReplyEndedH2' /\ ReplyEndedH3'
  BY <1>1, <1>4, StatusFacts DEF OpenH3, RequestEnded, ReplyEndedH2, ReplyEndedH3
<1> QED
  BY <1>6, <1>7, <1>8 DEF Told

(* The body is over, or nothing that Told speaks of has changed but the    *)
(* buffer.                                                                 *)
LEMMA ToldFlushIdle ==
    ASSUME TypeOK, Told, FlushIdle
    PROVE  Told'
<1>1. /\ ended = "open" /\ deferred = NoStatus /\ buf' = <<>>
      /\ UNCHANGED <<script, role, sender, pos, deferred, isEnd, seen, ended>>
  BY DEF FlushIdle, SourceTurn, Polled, Flush, SendData
<1>2. /\ AllGood => AllGood'
      /\ \A code : LastCode(code) => LastCode(code)'
  BY <1>1 DEF AllGood, LastCode, Good, IsMessage, FailureCode
<1>3. ClientHasNoErrors' /\ DeferredIsLast' /\ OpenUntilFailure'
  BY <1>1, <1>2 DEF Told, ClientHasNoErrors, DeferredIsLast, OpenUntilFailure, IsMessage
<1>4. SeenIsLast => SeenIsLast'
  BY <1>1, <1>2 DEF SeenIsLast, AllSent
<1>5. OpenH3' /\ RequestEnded' /\ ReplyEndedH2' /\ ReplyEndedH3'
  BY <1>1, <1>4, StatusFacts DEF Told, OpenH3, RequestEnded, ReplyEndedH2, ReplyEndedH3
<1> QED
  BY <1>3, <1>5 DEF Told

LEMMA ToldSourceDone ==
    ASSUME TypeOK, Told, SourceDone
    PROVE  Told'
<1>1. /\ ended = "open" /\ deferred = NoStatus /\ pos = Len(script) /\ buf = <<>>
      /\ UNCHANGED <<script, role, sender, pos, buf, deferred>>
  BY DEF SourceDone, SourceTurn, Polled
<1>2. role \in {"Client", "Server"} /\ sender \in {"hyper", "h3"}
  BY ScriptFacts
<1>3. /\ AllGood => AllGood'
      /\ \A code : LastCode(code) => LastCode(code)'
      /\ AllSent /\ AllSent'
  BY <1>1 DEF AllGood, LastCode, Good, IsMessage, FailureCode, AllSent
<1>4. ClientHasNoErrors' /\ DeferredIsLast'
  BY <1>1 DEF Told, ClientHasNoErrors, DeferredIsLast, IsMessage
<1>5. CASE role = "Client"
  <2>1. seen = NoTrailers /\ AllGood
    BY <1>1, <1>5 DEF Told, OpenUntilFailure
  <2>2. ended' = "finished"
    BY <1>5, <2>1 DEF SourceDone, SendEnd
  <2>3. RequestEnded'
    BY <1>3, <2>1 DEF RequestEnded
  <2>4. OpenUntilFailure' /\ ReplyEndedH2' /\ ReplyEndedH3' /\ OpenH3'
    BY <1>1, <1>5, <2>2 DEF OpenUntilFailure, ReplyEndedH2, ReplyEndedH3, OpenH3
  <2> QED
    BY <1>4, <2>3, <2>4 DEF Told
<1>6. CASE role = "Server" /\ sender = "hyper"
  <2>1. isEnd = "no" /\ AllGood
    BY <1>1, <1>6 DEF Told, OpenUntilFailure
  <2>2. ended' = "Ok"
    BY <1>6, <2>1 DEF SourceDone, SendTrailers
  <2>3. ReplyEndedH2'
    BY <1>3, <2>1, <2>2 DEF ReplyEndedH2
  <2>4. OpenUntilFailure' /\ RequestEnded' /\ ReplyEndedH3' /\ OpenH3'
    BY <1>1, <1>6, <2>2 DEF OpenUntilFailure, RequestEnded, ReplyEndedH3, OpenH3
  <2> QED
    BY <1>4, <2>3, <2>4 DEF Told
<1>7. CASE role = "Server" /\ sender = "h3"
  <2>1. SeenIsLast
    BY <1>1, <1>7 DEF Told, OpenH3
  <2>2. OpenUntilFailure' /\ RequestEnded' /\ ReplyEndedH2'
    BY <1>1, <1>7 DEF OpenUntilFailure, RequestEnded, ReplyEndedH2
  <2>3. CASE isEnd = "no"
    <3>1. ended' = "open" /\ seen' = "Ok" /\ isEnd' = "yes" /\ AllGood
      BY <1>1, <1>7, <2>1, <2>3 DEF SourceDone, SendTrailers, SeenIsLast
    <3>2. OpenH3' /\ ReplyEndedH3'
      BY <1>3, <3>1, StatusFacts DEF OpenH3, SeenIsLast, ReplyEndedH3
    <3> QED
      BY <1>4, <2>2, <3>2 DEF Told
  <2>4. CASE isEnd # "no"
    <3>1. ended' = (IF seen = NoTrailers THEN "finished" ELSE seen)
      BY <1>7, <2>4 DEF SourceDone, SendEnd
    <3>2. LastCode(seen) \/ (seen = "Ok" /\ AllGood)
      BY <2>1, <2>4 DEF SeenIsLast
    <3>3. ended' \in Code => ended' = seen
      BY <3>1, StatusFacts
    <3>4. ReplyEndedH3'
      BY <1>3, <3>2, <3>3 DEF ReplyEndedH3
    <3>5. ended' # "open"
      BY <3>1, StatusFacts DEF TypeOK
    <3>6. OpenH3'
      BY <3>5 DEF OpenH3
    <3> QED
      BY <1>4, <2>2, <3>4, <3>6 DEF Told
  <2> QED
    BY <2>3, <2>4
<1> QED
  BY <1>2, <1>5, <1>6, <1>7

LEMMA ToldDisconnect ==
    ASSUME TypeOK, Told, Disconnect
    PROVE  Told'
<1>1. /\ ended' = "reset"
      /\ UNCHANGED <<script, role, sender, pos, buf, deferred>>
  BY DEF Disconnect
<1>2. ClientHasNoErrors' /\ DeferredIsLast'
  BY <1>1 DEF Told, ClientHasNoErrors, DeferredIsLast, IsMessage, FailureCode
<1>3. /\ OpenUntilFailure' /\ RequestEnded' /\ OpenH3'
      /\ ReplyEndedH2' /\ ReplyEndedH3'
  BY <1>1, StatusFacts
    DEF OpenUntilFailure, RequestEnded, OpenH3, ReplyEndedH2, ReplyEndedH3
<1> QED
  BY <1>2, <1>3 DEF Told

LEMMA ToldStep == IInv /\ Told /\ [Next]_vars => Told'
<1> SUFFICES ASSUME TypeOK, Told, [Next]_vars PROVE Told'
  BY DEF IInv
<1>1. CASE UNCHANGED vars
  BY <1>1
    DEF vars, Told, ClientHasNoErrors, DeferredIsLast, OpenUntilFailure, RequestEnded,
        ReplyEndedH2, OpenH3, ReplyEndedH3, SeenIsLast, AllGood, FailedNow, LastCode,
        AllSent, Good, IsMessage, FailureCode
<1> QED
  BY <1>1, ToldYieldDeferred, ToldEncodeItem, ToldEncodeFails, ToldSourceError,
     ToldSourceErrorDeferred, ToldFlushIdle, ToldSourceDone, ToldDisconnect
    DEF Next, PollFrame

LEMMA ToldInvariance == Spec => [](IInv /\ Accounted /\ Told)
BY InitInv, StepInv, AccountedInit, AccountedStep, ToldInit, ToldStep, PTL DEF Spec
-----------------------------------------------------------------------------
(* What is on the wire has been yielded and could be framed; where nothing *)
(* is left in the buffer, the wire has all of that.                        *)
LEMMA WireIsGood ==
    ASSUME TypeOK, Accounted
    PROVE  /\ \A i : Wire(i) => i \in 1..pos /\ Good(i)
           /\ buf = <<>> => \A i \in 1..pos : Good(i) => Wire(i)
<1>1. delivered \in Seq(1..pos) /\ buf \in Seq(1..pos) /\ Out \in Seq(1..pos)
  BY OutPositions
<1>2. Elements(Out) = GoodUpTo(pos)
  BY AccountedParts
<1>3. ASSUME NEW k \in DOMAIN delivered
      PROVE  k \in DOMAIN Out /\ Out[k] = delivered[k]
  BY <1>1 DEF Out
<1>4. ASSUME NEW i, Wire(i)
      PROVE  i \in 1..pos /\ Good(i)
  <2>1. PICK k \in DOMAIN delivered : delivered[k] = i
    BY <1>4 DEF Wire
  <2>2. i \in Elements(Out)
    BY <1>3, <2>1 DEF Elements
  <2> QED
    BY <1>2, <2>2 DEF GoodUpTo
<1>5. ASSUME buf = <<>>, NEW i \in 1..pos, Good(i)
      PROVE  Wire(i)
  <2>1. Out = delivered
    BY <1>1, <1>5, ConcatEmptySeq DEF Out
  <2>2. i \in Elements(Out)
    BY <1>2, <1>5 DEF GoodUpTo
  <2> QED
    BY <2>1, <2>2 DEF Elements, Wire
<1> QED
  BY <1>4, <1>5

LEMMA ToldRequest == IInv /\ Accounted /\ Told => CleanRequestIsWhole
<1> SUFFICES ASSUME TypeOK, Accounted, Told,
                    role = "Client", sender = "hyper", ended = "finished",
                    NEW i \in DOMAIN script
             PROVE  Good(i) /\ Wire(i)
  BY DEF IInv, CleanRequestIsWhole
<1>1. pos = Len(script) /\ buf = <<>> /\ AllGood
  BY DEF Told, RequestEnded, AllSent
<1>2. i \in 1..pos
  BY <1>1, ScriptFacts
<1> QED
  BY <1>1, <1>2, WireIsGood DEF AllGood

LEMMA ToldStatus == IInv /\ Accounted /\ Told => StatusTruthful
<1> SUFFICES ASSUME TypeOK, Accounted, Told, role = "Server", ended \in Code
             PROVE  /\ ended = "Ok" <=> Failures = {}
                    /\ ended = "Ok" => \A i \in DOMAIN script : Wire(i)
                    /\ sender = "hyper" =>
                          \A f \in DOMAIN script : FirstFailure(f) =>
                             /\ ended = FailureCode(f)
                             /\ \A i \in DOMAIN script : Wire(i) => i < f
                             /\ ~IsMessage(f) => \A i \in 1..(f - 1) : Wire(i)
                    /\ sender = "h3" =>
                          /\ \A f \in DOMAIN script : LastFailure(f) => ended = FailureCode(f)
                          /\ \A i \in DOMAIN script : Good(i) => Wire(i)
  BY DEF IInv, StatusTruthful
<1>1. /\ DOMAIN script = 1..Len(script) /\ Len(script) \in Nat
      /\ pos \in Nat /\ pos <= Len(script)
      /\ sender \in {"hyper", "h3"}
  BY ScriptFacts
(* A stream that ends with Ok: everything is on the wire.                  *)
<1>2. ASSUME AllSent, AllGood
      PROVE  /\ Failures = {}
             /\ \A i \in DOMAIN script : Good(i) /\ Wire(i)
  <2>1. \A i \in DOMAIN script : Good(i) /\ Wire(i)
    BY <1>1, <1>2, WireIsGood DEF AllSent, AllGood
  <2> QED
    BY <2>1 DEF Failures
<1>3. CASE sender = "hyper"
  <2>1. CASE ended = "Ok" /\ AllSent /\ AllGood
    BY <1>2, <1>3, <2>1 DEF FirstFailure
  <2>2. CASE /\ FailedNow /\ ended = FailureCode(pos)
             /\ ~IsMessage(pos) => buf = <<>>
    <3>1. /\ pos \in 1..Len(script) /\ pos \in Failures /\ ended # "Ok"
      BY <1>1, <2>2, FailureCodes DEF FailedNow, Failures
    <3>2. ASSUME NEW f \in DOMAIN script, FirstFailure(f)
          PROVE  f = pos
      <4>1. f \in 1..pos /\ ~Good(f)
        BY <1>1, <3>1, <3>2 DEF FirstFailure, Failures
      <4> QED
        BY <2>2, <4>1 DEF FailedNow
    <3>3. ASSUME NEW i, Wire(i)
          PROVE  i < pos
      <4>1. i \in 1..pos /\ i # pos
        BY <2>2, <3>3, WireIsGood DEF FailedNow
      <4> QED
        BY <1>1, <4>1
    <3>4. ASSUME ~IsMessage(pos), NEW i \in 1..(pos - 1)
          PROVE  Wire(i)
      <4>1. i \in 1..pos /\ Good(i) /\ buf = <<>>
        BY <1>1, <2>2, <3>4 DEF FailedNow
      <4> QED
        BY <4>1, WireIsGood
    <3> QED
      BY <1>3, <2>2, <3>1, <3>2, <3>3, <3>4
  <2> QED
    BY <1>3, <2>1, <2>2 DEF Told, ReplyEndedH2
<1>4. CASE sender = "h3"
  <2>1. AllSent /\ (LastCode(ended) \/ (ended = "Ok" /\ AllGood))
    BY <1>4 DEF Told, ReplyEndedH3
  <2>2. \A i \in DOMAIN script : Good(i) => Wire(i)
    BY <1>1, <2>1, WireIsGood DEF AllSent
  <2>3. CASE ended = "Ok" /\ AllGood
    BY <1>2, <1>4, <2>1, <2>2, <2>3 DEF LastFailure
  <2>4. CASE LastCode(ended)
    <3>1. PICK f \in 1..pos : /\ ~Good(f) /\ ended = FailureCode(f)
                              /\ \A i \in 1..pos : i > f => Good(i)
      BY <2>4 DEF LastCode
    <3>2. f \in 1..Len(script) /\ f \in Failures /\ ended # "Ok"
      BY <1>1, <3>1, FailureCodes DEF Failures
    <3>3. ASSUME NEW g \in DOMAIN script, LastFailure(g)
          PROVE  g = f
      <4>1. g \in 1..pos /\ ~Good(g) /\ f <= g
        BY <1>1, <2>1, <3>2, <3>3 DEF LastFailure, Failures, AllSent
      <4> QED
        BY <1>1, <3>1, <4>1
    <3> QED
      BY <1>4, <2>2, <3>1, <3>2, <3>3
  <2> QED
    BY <2>1, <2>3, <2>4
<1> QED
  BY <1>1, <1>3, <1>4

(* A request that ends cleanly over HTTP/2 is whole, for every source and  *)
(* every size (encode.rs:283).                                             *)
THEOREM CleanRequestsAreWhole == Spec => []CleanRequestIsWhole
BY ToldInvariance, ToldRequest, PTL

(* The status a server ends with tells the truth about what was sent, for  *)
(* every source and every size, over HTTP/2 and over HTTP/3                *)
(* (encode.rs:276-295, h3_server.rs:336-360).                              *)
THEOREM StatusIsTruthful == Spec => []StatusTruthful
BY ToldInvariance, ToldStatus, PTL
=============================================================================
