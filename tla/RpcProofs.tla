------------------------------ MODULE RpcProofs ------------------------------
(***************************************************************************)
(* Theorems about `Rpc` for any calls, failures and number of replies: the *)
(* invariant of a call, and that every step of it is one that `Call`       *)
(* allows or one that its caller does not notice.                          *)
(*                                                                         *)
(* And about `Exchange`, for any header maps, encodings, deadlines,        *)
(* statuses and errors: its invariant says what the maps have at each step *)
(* of a call, from the writing of the request's to the reading of the      *)
(* trailers.                                                               *)
(***************************************************************************)
EXTENDS Rpc, Exchange, WellFoundedInduction, TLAPS

(* Frames of a response that its reader can still come to: what is behind  *)
(* a reset is never read.                                                  *)
Intact(q) == \A j \in DOMAIN q : q[j].kind # "reset"
Reachable(q, i) == i \in DOMAIN q /\ \A j \in 1..i : q[j].kind # "reset"

HasEnd(q) == \E i \in DOMAIN q : q[i].kind = "end"

RequestFrame ==
    [kind : {"head", "end", "reset"}] \cup [kind : {"message"}, number : Nat]
ResponseFrame ==
    [kind : {"end", "reset"}] \cup [kind : {"message"}, number : Nat]
    \cup [kind : {"head"}, status : HeaderStatus, http : {200, 503}]
    \cup [kind : {"trailers"}, status : Code]

Early == {"idle", "first", "rest", "service"}
BeforeHead == client \in {"prepare", "waiting"}
AfterHead == client \in {"message", "trailers", "streaming"}

Types ==
    /\ TypeOK
    /\ requestQ \in Seq(RequestFrame) /\ responseQ \in Seq(ResponseFrame)
    /\ sent \in Seq(Nat) /\ got \in Seq(Nat)
    /\ http \in {200, 503, NoStream}

(* The request has come to its end only with every message.                *)
RequestUploaded ==
    /\ HasEnd(requestQ) => upload = call.requests + 1
    /\ called = "whole" => upload = call.requests + 1
    /\ called = "early" => ~OneRequest
    /\ server \in {"idle", "first", "rest"} => called = None
    /\ server \in {"first", "rest"} => OneRequest

(* What the server has done.                                               *)
ServerSide ==
    /\ \A i \in DOMAIN sent : sent[i] = i
    /\ OneReply => Len(sent) <= 1
    /\ (verdict \notin {None, NoStatus}) = (server = "ended")
    /\ verdict = NoStatus => server = "dropped" /\ sent = <<>>
    /\ server \in Early => sent = <<>>
    /\ server \in {"service", "replying"} \/ sent # <<>> => called # None

(* No server knows of a call before its request has a head.                *)
Prepared == client = "prepare" => server = "idle" /\ requestQ = <<>>

(* What the client has read of it.                                         *)
ClientSide ==
    /\ Len(got) <= Len(sent)
    /\ BeforeHead => got = <<>>
    /\ client = "message" => OneReply /\ got = <<>>
    /\ client = "trailers" => OneReply /\ Len(got) = 1
    /\ client = "streaming" => ~OneReply
    /\ AfterHead /\ http = NoStream => verdict = "Ok" /\ sent = <<>>
    /\ AfterHead /\ http = 503 => server = "dropped" /\ sent = <<>>

(* How many frames of the queue come before the first message.             *)
Ahead == IF BeforeHead THEN 1 ELSE 0
Streams == IF BeforeHead THEN responseQ[1].status = NoStatus /\ responseQ[1].http = 200
              ELSE http = 200

(* The heads: of a stream or of a silent proxy, of a status alone, of an   *)
(* error of a proxy.                                                       *)
HeadFits(headers) ==
    \/ headers.status = NoStatus /\ headers.http = 200
    \/ headers.status \in Code /\ headers.http = 200 /\ headers.status = verdict /\ sent = <<>>
    \/ headers.status = NoStatus /\ headers.http = 503 /\ server = "dropped" /\ sent = <<>>

FrameFits(i) ==
    /\ responseQ[i].kind = "head" <=> BeforeHead /\ i = 1
    /\ responseQ[i].kind = "head" => HeadFits(responseQ[i])
    /\ responseQ[i].kind = "message" =>
           responseQ[i].number = Len(got) + i - Ahead /\ responseQ[i].number <= Len(sent)
    /\ responseQ[i].kind = "trailers" =>
           responseQ[i].status = verdict /\ Len(sent) = Len(got) + i - 1 - Ahead
    /\ responseQ[i].kind = "end" => ~Streams \/ verdict = NoStatus
    /\ responseQ[i].kind \in {"trailers", "end"} => ~Reachable(responseQ, i + 1)

(* What the client will read fits what the server has done, ...            *)
QueueFits == client # "done" => \A i \in Nat : Reachable(responseQ, i) => FrameFits(i)

(* ... and there is nothing before the server answers.                     *)
NothingEarly ==
    client # "done" /\ server \in Early =>
        BeforeHead /\ (responseQ # <<>> => responseQ[1].kind = "reset")

(* A response that nothing has cut is complete up to what was sent last.   *)
ReplyGoesOn ==
    client # "done" /\ server = "replying" /\ Intact(responseQ) =>
        /\ client # "prepare"
        /\ BeforeHead => responseQ # <<>>
        /\ Streams
        /\ \A i \in DOMAIN responseQ : responseQ[i].kind \notin {"trailers", "end"}
        /\ Len(sent) = Len(got) + Len(responseQ) - Ahead

IInv ==
    /\ Types
    /\ Prepared
    /\ RequestUploaded
    /\ ServerSide
    /\ ClientSide
    /\ QueueFits
    /\ NothingEarly
    /\ ReplyGoesOn
    /\ SingleReplyIsComplete
-----------------------------------------------------------------------------
LEMMA Constants ==
    /\ None \notin Code /\ NoStatus \notin Code /\ NoTrailers \notin Code
    /\ NoStatus # None /\ None # "Ok"
BY DEF Code, None, NoStatus, NoTrailers

LEMMA Codes ==
    /\ "Ok" \in Code /\ "Unimplemented" \in Code /\ "Internal" \in Code
    /\ "DeadlineExceeded" \in Code /\ "Unavailable" \in Code
    /\ TransportCode \subseteq Code \ {"Ok"} /\ DecodeFailure \subseteq Code \ {"Ok"}
BY DEF Code, TransportCode, DecodeFailure

LEMMA CallFacts ==
    ASSUME call \in Calls
    PROVE  /\ call.requests \in Nat
           /\ call.refusal \in {"none", "uri", "interceptor", "router", "encoding"}
BY CallsAssumption DEF CallType

LEMMA Frames ==
    /\ Frame("head") \in RequestFrame /\ Frame("end") \in RequestFrame
    /\ Reset \in RequestFrame /\ Reset \in ResponseFrame
    /\ Frame("end") \in ResponseFrame
    /\ \A n \in Nat : Message(n) \in RequestFrame /\ Message(n) \in ResponseFrame
    /\ \A status \in HeaderStatus, code \in {200, 503} : HeadFrame(status, code) \in ResponseFrame
    /\ \A status \in Code : TrailersFrame(status) \in ResponseFrame
BY DEF Frame, Reset, Message, HeadFrame, TrailersFrame, RequestFrame, ResponseFrame

(* What a frame of each kind has.                                          *)
LEMMA FrameParts ==
    ASSUME NEW f \in ResponseFrame
    PROVE  /\ f.kind \in {"head", "message", "trailers", "end", "reset"}
           /\ f.kind = "message" => f.number \in Nat
           /\ f.kind = "head" => f.status \in HeaderStatus /\ f.http \in {200, 503}
           /\ f.kind = "trailers" => f.status \in Code
BY DEF ResponseFrame

(* The three ways in which a queue changes.                                *)
LEMMA Appended ==
    ASSUME NEW S, NEW q \in Seq(S), NEW f \in S
    PROVE  /\ Append(q, f) \in Seq(S) /\ Len(Append(q, f)) = Len(q) + 1
           /\ \A i \in 1..Len(q) : Append(q, f)[i] = q[i]
           /\ Append(q, f)[Len(q) + 1] = f
OBVIOUS

LEMMA ReachableAppend ==
    ASSUME NEW S, NEW q \in Seq(S), NEW f \in S
    PROVE  /\ \A i \in Nat :
                  Reachable(Append(q, f), i) =>
                      \/ Reachable(q, i) /\ Append(q, f)[i] = q[i]
                      \/ /\ i = Len(q) + 1 /\ Append(q, f)[i] = f
                         /\ f.kind # "reset" /\ Intact(q)
           /\ Intact(Append(q, f)) => Intact(q) /\ f.kind # "reset"
           /\ ~Reachable(Append(q, f), Len(q) + 2)
           /\ \A i \in Nat :
                  Reachable(Append(q, f), i + 1) /\ i < Len(q) => Reachable(q, i + 1)
<1> DEFINE t == Append(q, f)
<1>1. /\ DOMAIN t = 1..(Len(q) + 1) /\ DOMAIN q = 1..Len(q) /\ Len(q) \in Nat
      /\ \A i \in 1..Len(q) : t[i] = q[i]
      /\ t[Len(q) + 1] = f
  BY Appended
<1> HIDE DEF t
<1>2. ASSUME NEW i \in Nat, Reachable(t, i), i # Len(q) + 1
      PROVE  Reachable(q, i) /\ t[i] = q[i]
  BY <1>1, <1>2 DEF Reachable
<1>3. ASSUME Reachable(t, Len(q) + 1)
      PROVE  f.kind # "reset" /\ Intact(q)
  BY <1>1, <1>3 DEF Reachable, Intact
<1>4. ASSUME Intact(t) PROVE Intact(q) /\ f.kind # "reset"
  BY <1>1, <1>4 DEF Intact
<1>5. ~Reachable(t, Len(q) + 2)
  BY <1>1 DEF Reachable
<1>6. ASSUME NEW i \in Nat, Reachable(t, i + 1), i < Len(q)
      PROVE  Reachable(q, i + 1)
  BY <1>1, <1>2, <1>6
<1> QED
  BY <1>1, <1>2, <1>3, <1>4, <1>5, <1>6 DEF t

LEMMA ReachableTail ==
    ASSUME NEW S, NEW q \in Seq(S), q # <<>>
    PROVE  /\ Tail(q) \in Seq(S) /\ q[1] \in S
           /\ Len(Tail(q)) = Len(q) - 1 /\ Len(q) \in Nat \ {0}
           /\ \A i \in 1..(Len(q) - 1) : Tail(q)[i] = q[i + 1]
           /\ q[1].kind # "reset" =>
                  /\ \A i \in Nat : Reachable(Tail(q), i) =>
                         i >= 1 /\ Reachable(q, i + 1) /\ Tail(q)[i] = q[i + 1]
                  /\ Reachable(q, 1)
                  /\ Intact(Tail(q)) => Intact(q)
<1> DEFINE t == Tail(q)
<1>1. /\ Len(q) \in Nat \ {0} /\ DOMAIN q = 1..Len(q) /\ q[1] \in S
      /\ t \in Seq(S) /\ Len(t) = Len(q) - 1 /\ DOMAIN t = 1..(Len(q) - 1)
      /\ \A i \in 1..(Len(q) - 1) : t[i] = q[i + 1]
  OBVIOUS
<1> HIDE DEF t
<1>2. ASSUME q[1].kind # "reset", NEW i \in Nat, Reachable(t, i)
      PROVE  i >= 1 /\ Reachable(q, i + 1) /\ t[i] = q[i + 1]
  <2>1. i \in 1..(Len(q) - 1) /\ t[i] = q[i + 1]
    BY <1>1, <1>2 DEF Reachable
  <2>2. ASSUME NEW j \in 1..(i + 1) PROVE q[j].kind # "reset"
    <3>1. CASE j = 1
      BY <1>2, <3>1
    <3>2. CASE j # 1
      <4>1. j - 1 \in 1..i /\ j - 1 \in 1..(Len(q) - 1) /\ (j - 1) + 1 = j
        BY <2>1, <3>2
      <4>2. t[j - 1].kind # "reset" /\ t[j - 1] = q[j]
        BY <1>1, <1>2, <4>1 DEF Reachable
      <4> QED
        BY <4>2
    <3> QED
      BY <3>1, <3>2
  <2> QED
    BY <1>1, <2>1, <2>2 DEF Reachable
<1>3. ASSUME q[1].kind # "reset", Intact(t) PROVE Intact(q)
  <2> SUFFICES ASSUME NEW j \in 1..Len(q) PROVE q[j].kind # "reset"
    BY <1>1 DEF Intact
  <2>1. CASE j = 1
    BY <1>3, <2>1
  <2>2. CASE j # 1
    <3>1. j - 1 \in 1..(Len(q) - 1) /\ (j - 1) + 1 = j
      BY <1>1, <2>2
    <3> QED
      BY <1>1, <1>3, <3>1 DEF Intact
  <2> QED
    BY <2>1, <2>2
<1>4. q[1].kind # "reset" => Reachable(q, 1)
  BY <1>1 DEF Reachable
<1> QED
  BY <1>1, <1>2, <1>3, <1>4 DEF t

LEMMA ReachableFirst ==
    ASSUME NEW S, NEW q \in Seq(S), NEW i \in Nat, Reachable(q, i)
    PROVE  Reachable(q, 1)
BY DEF Reachable

LEMMA ReachableCut ==
    ASSUME NEW S, NEW q \in Seq(S), Reset \in S, NEW n \in 0..Len(q)
    PROVE  /\ Append(SubSeq(q, 1, n), Reset) \in Seq(S)
           /\ \A i \in DOMAIN Append(SubSeq(q, 1, n), Reset) :
                  Append(SubSeq(q, 1, n), Reset)[i] \in {Reset} \cup { q[j] : j \in DOMAIN q }
           /\ \A i \in Nat : Reachable(Append(SubSeq(q, 1, n), Reset), i) =>
                  Reachable(q, i) /\ Append(SubSeq(q, 1, n), Reset)[i] = q[i]
           /\ ~Intact(Append(SubSeq(q, 1, n), Reset))
           /\ q = <<>> => Append(SubSeq(q, 1, n), Reset)[1].kind = "reset"
           /\ (q # <<>> => q[1].kind = "reset") =>
                  Append(SubSeq(q, 1, n), Reset)[1].kind = "reset"
<1> DEFINE t == SubSeq(q, 1, n)
           c == Append(t, Reset)
<1>1. /\ Len(q) \in Nat /\ n \in Nat /\ n <= Len(q) /\ DOMAIN q = 1..Len(q)
      /\ t \in Seq(S) /\ Len(t) = n
      /\ \A i \in 1..n : t[i] = q[i]
  OBVIOUS
<1> HIDE DEF t
<1>2. /\ c \in Seq(S) /\ DOMAIN c = 1..(n + 1) /\ c[n + 1] = Reset
      /\ \A i \in 1..n : c[i] = q[i]
  BY <1>1, Appended
<1>3. Reset.kind = "reset"
  BY DEF Reset, Frame
<1> HIDE DEF c
<1>4. ASSUME NEW i \in Nat, Reachable(c, i)
      PROVE  Reachable(q, i) /\ c[i] = q[i]
  <2>1. i \in 1..n
    BY <1>1, <1>2, <1>3, <1>4 DEF Reachable
  <2> QED
    BY <1>1, <1>2, <1>4, <2>1 DEF Reachable
<1>5. ~Intact(c)
  BY <1>1, <1>2, <1>3 DEF Intact
<1>6. (q # <<>> => q[1].kind = "reset") => c[1].kind = "reset"
  <2>1. CASE n = 0
    BY <1>2, <1>3, <2>1
  <2>2. CASE n # 0
    BY <1>1, <1>2, <2>2
  <2> QED
    BY <2>1, <2>2
<1>7. \A i \in DOMAIN c : c[i] \in {Reset} \cup { q[j] : j \in DOMAIN q }
  BY <1>1, <1>2
<1> QED
  BY <1>2, <1>4, <1>5, <1>6, <1>7 DEF t, c
-----------------------------------------------------------------------------
LEMMA InitInv == Init => IInv
<1> SUFFICES ASSUME Init PROVE IInv
  OBVIOUS
<1>1. Types
  BY CallFacts, MaxRepliesAssumption DEF Init, Types, TypeOK, None, NoStream
<1>2. Prepared /\ RequestUploaded
  BY DEF Init, Prepared, RequestUploaded, HasEnd, None
<1>3. ServerSide
  BY Constants DEF Init, ServerSide, Early
<1>3a. ClientSide
  BY DEF Init, ClientSide, BeforeHead, AfterHead
<1>4. QueueFits /\ NothingEarly /\ ReplyGoesOn
  BY DEF Init, QueueFits, NothingEarly, ReplyGoesOn, Reachable, BeforeHead
<1>5. SingleReplyIsComplete
  BY DEF Init, SingleReplyIsComplete, None
<1> QED
  BY <1>1, <1>2, <1>3, <1>3a, <1>4, <1>5 DEF IInv

(* The queue of requests: frames are appended, taken, or cut off.          *)
LEMMA RequestQueue ==
    ASSUME Types
    PROVE  /\ \A f \in RequestFrame : Append(requestQ, f) \in Seq(RequestFrame)
           /\ requestQ # <<>> => Tail(requestQ) \in Seq(RequestFrame)
           /\ WithReset(requestQ) \in Seq(RequestFrame)
           /\ \A n \in 0..Len(requestQ) :
                  Append(SubSeq(requestQ, 1, n), Reset) \in Seq(RequestFrame)
<1>1. requestQ \in Seq(RequestFrame) /\ Reset \in RequestFrame
  BY Frames DEF Types
<1> QED
  BY <1>1, ReachableCut DEF WithReset

LEMMA RespondsTwo ==
    ASSUME Types, NEW f \in ResponseFrame, NEW g \in ResponseFrame
    PROVE  responseQ \o <<f, g>> = Append(Append(responseQ, f), g)
<1>1. responseQ \in Seq(ResponseFrame)
  BY DEF Types
<1> QED
  BY <1>1

LEMMA RespondsOne ==
    ASSUME Types, NEW f \in ResponseFrame
    PROVE  responseQ \o <<f>> = Append(responseQ, f)
<1>1. responseQ \in Seq(ResponseFrame)
  BY DEF Types
<1> QED
  BY <1>1

Fits ==
    /\ ServerSide
    /\ ClientSide
    /\ QueueFits
    /\ NothingEarly
    /\ ReplyGoesOn
    /\ SingleReplyIsComplete

-----------------------------------------------------------------------------
(* Steps that the response does not notice.                                *)
LEMMA FitsQuiet ==
    ASSUME IInv,
           UNCHANGED <<call, verdict, sent, responseQ, http, got, result>>,
           client' = client \/ (client = "prepare" /\ client' = "waiting"),
           \/ server' = server
           \/ server \in Early /\ server' \in Early
           \/ server \in Early \cup {"replying"} /\ server' = "dropped",
           called # None => called' # None,
           server' = "service" => called' # None
    PROVE  Fits'
<1> USE DEF IInv
<1>1. /\ OneReply' = OneReply
      /\ BeforeHead' = BeforeHead /\ AfterHead' = AfterHead
      /\ (client' = "done") = (client = "done")
      /\ server' \in Early => server \in Early
      /\ server = "dropped" => server' = "dropped"
      /\ (server' = "ended") = (server = "ended")
      /\ server' = "replying" => server = "replying"
      /\ Ahead' = Ahead
  BY DEF OneReply, BeforeHead, AfterHead, Early, Ahead
<1>2. ServerSide'
  BY <1>1 DEF ServerSide
<1>3. ClientSide'
  BY <1>1 DEF ClientSide, BeforeHead, AfterHead
<1>4. QueueFits'
  <2> SUFFICES ASSUME client # "done", NEW i \in Nat, Reachable(responseQ, i)
               PROVE  FrameFits(i)'
    BY <1>1 DEF QueueFits
  <2>1. FrameFits(i)
    BY DEF QueueFits
  <2> QED
    BY <1>1, <2>1 DEF FrameFits, HeadFits, Streams
<1>5. NothingEarly'
  BY <1>1 DEF NothingEarly
<1>6. ReplyGoesOn'
  BY <1>1 DEF ReplyGoesOn, Streams
<1>7. SingleReplyIsComplete'
  BY <1>1 DEF SingleReplyIsComplete
<1> QED
  BY <1>2, <1>3, <1>4, <1>5, <1>6, <1>7 DEF Fits

(* The caller is told something that is not the success of a single reply, *)
(* or is.                                                                  *)
LEMMA FitsTold ==
    ASSUME IInv, UNCHANGED <<call, serverVars, got>>, client' = "done",
           OneReply /\ result' = "Ok" =>
               got = << 1 >> /\ verdict = "Ok" /\ called # None /\ server = "ended"
    PROVE  Fits'
<1> USE DEF IInv, serverVars
<1>1. OneReply' = OneReply /\ ~BeforeHead' /\ ~AfterHead'
  BY DEF OneReply, BeforeHead, AfterHead
<1>2. ServerSide'
  BY <1>1 DEF ServerSide
<1>3. ClientSide'
  BY <1>1 DEF ClientSide
<1>4. QueueFits' /\ NothingEarly' /\ ReplyGoesOn'
  BY DEF QueueFits, NothingEarly, ReplyGoesOn
<1>5. SingleReplyIsComplete'
  BY <1>1 DEF SingleReplyIsComplete
<1> QED
  BY <1>2, <1>3, <1>4, <1>5 DEF Fits

(* The rest of the response is cut off.                                    *)
LEMMA FitsCut ==
    ASSUME IInv, UNCHANGED <<call, clientVars, serverVars>>,
           NEW n \in 0..Len(responseQ),
           responseQ' = Append(SubSeq(responseQ, 1, n), Reset)
    PROVE  Fits'
<1> USE DEF IInv, clientVars, serverVars
<1>1. /\ OneReply' = OneReply /\ BeforeHead' = BeforeHead /\ AfterHead' = AfterHead
      /\ Ahead' = Ahead
  BY DEF OneReply, BeforeHead, AfterHead, Ahead
<1>2. /\ \A i \in Nat : Reachable(responseQ', i) =>
            Reachable(responseQ, i) /\ responseQ'[i] = responseQ[i]
      /\ ~Intact(responseQ')
      /\ (responseQ # <<>> => responseQ[1].kind = "reset") => responseQ'[1].kind = "reset"
  <2>1. responseQ \in Seq(ResponseFrame) /\ Reset \in ResponseFrame
    BY Frames DEF Types
  <2> HIDE DEF IInv
  <2> QED
    BY <2>1, ReachableCut
<1>2a. responseQ' \in Seq(ResponseFrame)
  <2>1. responseQ \in Seq(ResponseFrame) /\ Reset \in ResponseFrame
    BY Frames DEF Types
  <2> HIDE DEF IInv
  <2> QED
    BY <2>1
<1>3. ServerSide'
  BY <1>1 DEF ServerSide
<1>4. ClientSide'
  BY <1>1 DEF ClientSide
<1>5. QueueFits'
  <2> SUFFICES ASSUME client # "done", NEW i \in Nat, Reachable(responseQ', i)
               PROVE  FrameFits(i)'
    BY DEF QueueFits
  <2>1. FrameFits(i) /\ Reachable(responseQ, i) /\ responseQ'[i] = responseQ[i]
    BY <1>2 DEF QueueFits
  <2>2. BeforeHead => responseQ'[1] = responseQ[1]
    <3> HIDE DEF IInv
    <3>1. Reachable(responseQ', 1)
      BY <1>2a, ReachableFirst
    <3> QED
      BY <1>2, <3>1
  <2>3. Reachable(responseQ', i + 1) => Reachable(responseQ, i + 1)
    BY <1>2
  <2>4. Streams' = Streams
    BY <1>1, <2>2 DEF Streams
  <2>5. \A headers : HeadFits(headers)' = HeadFits(headers)
    BY DEF HeadFits
  <2> QED
    BY <1>1, <2>1, <2>3, <2>4, <2>5 DEF FrameFits
<1>6. NothingEarly'
  BY <1>1, <1>2 DEF NothingEarly
<1>7. ReplyGoesOn'
  BY <1>2 DEF ReplyGoesOn
<1>8. SingleReplyIsComplete'
  BY <1>1 DEF SingleReplyIsComplete
<1> QED
  BY <1>3, <1>4, <1>5, <1>6, <1>7, <1>8 DEF Fits

(* An answer without a body: nothing has been sent before.                 *)
LEMMA FitsAnswers ==
    ASSUME IInv, server \in Early, NEW headers \in ResponseFrame,
           headers.kind = "head", HeadFits(headers)',
           ~(headers.status = NoStatus /\ headers.http = 200) \/ verdict' = NoStatus,
           responseQ' = responseQ \o <<headers, Frame("end")>>,
           \/ server' = "ended" /\ verdict' \notin {None, NoStatus}
           \/ server' = "dropped" /\ verdict' = NoStatus,
           UNCHANGED <<call, clientVars, called, sent>>
    PROVE  Fits'
<1> USE DEF IInv, clientVars
<1> DEFINE q == Append(responseQ, headers)
<1>1. /\ Frame("end") \in ResponseFrame /\ Frame("end").kind = "end"
      /\ responseQ \in Seq(ResponseFrame)
      /\ responseQ' = Append(q, Frame("end"))
  BY Frames, RespondsTwo DEF Types, Frame
<1>2. /\ q \in Seq(ResponseFrame)
      /\ Len(q) = Len(responseQ) + 1
      /\ \A i \in 1..Len(responseQ) : q[i] = responseQ[i]
      /\ q[Len(responseQ) + 1] = headers
  BY <1>1, Appended
<1>3. /\ OneReply' = OneReply /\ BeforeHead' = BeforeHead /\ AfterHead' = AfterHead
      /\ Ahead' = Ahead
  BY DEF OneReply, BeforeHead, AfterHead, Ahead
<1>4. sent = <<>> /\ verdict = None
  BY DEF ServerSide, Early
<1>5. ServerSide'
  BY <1>3, <1>4 DEF ServerSide, Early
<1>6. ClientSide'
  <2>1. ~AfterHead \/ client = "done"
    BY DEF NothingEarly, AfterHead, BeforeHead
  <2> QED
    BY <1>3, <2>1 DEF ClientSide, AfterHead
<1>7. QueueFits'
  <2> SUFFICES ASSUME client # "done", NEW i \in Nat, Reachable(responseQ', i)
               PROVE  FrameFits(i)'
    BY DEF QueueFits
  <2>1. BeforeHead /\ (responseQ # <<>> => responseQ[1].kind = "reset")
    BY DEF NothingEarly
  <2>2. responseQ = <<>>
    <3> SUFFICES ASSUME responseQ # <<>> PROVE FALSE
      OBVIOUS
    <3>1. Len(responseQ) \in Nat \ {0}
      BY <1>1
    <3>2. responseQ'[1] = responseQ[1]
      <4> HIDE DEF q
      <4> QED
        BY <1>1, <1>2, <3>1, Appended
    <3> QED
      BY <2>1, <3>2 DEF Reachable
  <2>3. /\ Len(responseQ') = 2 /\ responseQ'[1] = headers /\ responseQ'[2] = Frame("end")
        /\ DOMAIN responseQ' = 1..2
    BY <1>1, <1>2, <2>2
  <2>4. i \in 1..2 /\ ~Reachable(responseQ', 3)
    BY <2>3 DEF Reachable
  <2>5. CASE i = 1
    BY <1>1, <1>3, <2>1, <2>3, <2>5 DEF FrameFits
  <2>6. CASE i = 2
    BY <1>1, <1>3, <2>1, <2>3, <2>4, <2>6 DEF FrameFits, Streams
  <2> QED
    BY <2>4, <2>5, <2>6
<1>8. NothingEarly' /\ ReplyGoesOn'
  BY DEF NothingEarly, ReplyGoesOn, Early
<1>9. SingleReplyIsComplete'
  BY <1>3, <1>4, Constants DEF SingleReplyIsComplete
<1> QED
  BY <1>5, <1>6, <1>7, <1>8, <1>9 DEF Fits

LEMMA FitsTrailersOnly ==
    ASSUME IInv, server \in Early, NEW code \in Code, TrailersOnly(code),
           UNCHANGED <<call, clientVars, called, sent>>
    PROVE  Fits'
<1> DEFINE headers == HeadFrame(code, 200)
<1>1. /\ headers \in ResponseFrame /\ headers.kind = "head"
      /\ headers.status = code /\ headers.http = 200
  BY Frames DEF HeadFrame, HeaderStatus
<1>2. /\ verdict' = code /\ server' = "ended"
      /\ responseQ' = responseQ \o <<headers, Frame("end")>>
  BY DEF TrailersOnly, Respond
<1>3. sent = <<>>
  BY DEF IInv, ServerSide
<1>4. code # None /\ code # NoStatus
  BY Constants
<1> HIDE DEF headers
<1>5. HeadFits(headers)'
  BY <1>1, <1>2, <1>3 DEF HeadFits
<1> QED
  BY <1>1, <1>2, <1>4, <1>5, FitsAnswers

LEMMA FitsProxyAnswers ==
    ASSUME IInv, ProxyAnswers
    PROVE  Fits'
<1>0. PICK proxied \in {200, 503} :
          responseQ' = responseQ \o <<HeadFrame(NoStatus, proxied), Frame("end")>>
  BY DEF ProxyAnswers, Respond
<1> DEFINE headers == HeadFrame(NoStatus, proxied)
<1>1. /\ headers \in ResponseFrame /\ headers.kind = "head"
      /\ headers.status = NoStatus /\ headers.http = proxied
  BY Frames DEF HeadFrame, HeaderStatus
<1>2. /\ server = "idle" /\ server' = "dropped" /\ verdict' = NoStatus
      /\ responseQ' = responseQ \o <<headers, Frame("end")>>
      /\ UNCHANGED <<call, clientVars, called, sent>>
  BY <1>0 DEF ProxyAnswers
<1>3. sent = <<>> /\ server \in Early
  BY <1>2 DEF IInv, ServerSide, Early
<1> HIDE DEF headers
<1>4. HeadFits(headers)'
  BY <1>1, <1>2, <1>3 DEF HeadFits
<1> QED
  BY <1>1, <1>2, <1>3, <1>4, FitsAnswers

-----------------------------------------------------------------------------
NextFits(n) == client # "done" /\ Intact(responseQ) => FrameFits(n)'
SentGrows == Len(sent) <= Len(sent') /\ Len(sent') \in Nat

(* A frame of a response that goes on, behind those before it.             *)
LEMMA QueueAppend ==
    ASSUME IInv, server \in Early \cup {"replying"}, NEW f \in ResponseFrame,
           responseQ' = Append(responseQ, f),
           UNCHANGED <<call, clientVars>>, SentGrows,
           NEW n \in Nat, n = Len(responseQ) + 1,
           NextFits(n)
    PROVE  QueueFits'
<1> USE DEF IInv, clientVars
<1>1. BeforeHead' = BeforeHead /\ Ahead' = Ahead
  BY DEF BeforeHead, Ahead
<1>2. responseQ \in Seq(ResponseFrame) /\ Len(responseQ) \in Nat
  BY DEF Types
<1>3. /\ \A i \in Nat :
             Reachable(responseQ', i) =>
                 \/ Reachable(responseQ, i) /\ responseQ'[i] = responseQ[i]
                 \/ i = Len(responseQ) + 1 /\ Intact(responseQ)
      /\ \A i \in Nat :
             Reachable(responseQ', i + 1) /\ i < Len(responseQ) => Reachable(responseQ, i + 1)
  <2> DEFINE q == responseQ
  <2>1. q \in Seq(ResponseFrame)
    BY <1>2
  <2>2. responseQ' = Append(q, f)
    OBVIOUS
  <2> HIDE DEF IInv, q
  <2>3. /\ \A j \in Nat :
               Reachable(Append(q, f), j) =>
                   \/ Reachable(q, j) /\ Append(q, f)[j] = q[j]
                   \/ /\ j = Len(q) + 1 /\ Append(q, f)[j] = f
                      /\ f.kind # "reset" /\ Intact(q)
        /\ \A j \in Nat :
               Reachable(Append(q, f), j + 1) /\ j < Len(q) => Reachable(q, j + 1)
    BY <2>1, ReachableAppend
  <2> QED
    BY <2>2, <2>3 DEF q
<1> SUFFICES ASSUME client # "done", NEW i \in Nat, Reachable(responseQ', i)
             PROVE  FrameFits(i)'
  BY DEF QueueFits
<1>4. CASE i = n /\ Intact(responseQ)
  BY <1>4 DEF NextFits
<1>5. CASE Reachable(responseQ, i) /\ responseQ'[i] = responseQ[i]
  <2>1. FrameFits(i) /\ i \in 1..Len(responseQ)
    BY <1>2, <1>5 DEF QueueFits, Reachable
  <2>2. responseQ[i] \in ResponseFrame
    BY <1>2, <2>1
  <2>3. verdict = None
    BY DEF ServerSide, Early
  <2>4. responseQ[i].kind # "trailers"
    <3>1. responseQ[i].kind = "trailers" => responseQ[i].status \in Code
      BY <2>2, FrameParts
    <3>2. responseQ[i].kind = "trailers" => responseQ[i].status = verdict
      BY <2>1 DEF FrameFits
    <3> QED
      BY <2>3, <3>1, <3>2, Constants
  <2>5. HeadFits(responseQ[i]) => responseQ[i].status = NoStatus /\ responseQ[i].http = 200
    <3>1. server # "dropped"
      BY DEF Early
    <3> QED
      BY <2>3, <3>1, Constants DEF HeadFits
  <2>6. Streams' = Streams
    <3>1. responseQ'[1] = responseQ[1]
      BY <1>2, <2>1, Appended
    <3> QED
      BY <1>1, <3>1 DEF Streams
  <2>7. ASSUME responseQ[i].kind = "end" PROVE ~Reachable(responseQ', i + 1)
    <3>1. server = "replying"
      BY <1>2, <1>5, <2>1 DEF NothingEarly, Reachable
    <3>2. ~Intact(responseQ)
      BY <2>1, <2>7, <3>1 DEF ReplyGoesOn
    <3>3. ~Reachable(responseQ', Len(responseQ) + 1)
      BY <1>2, <1>3, <3>2 DEF Reachable
    <3>4. ~Reachable(responseQ, i + 1)
      BY <2>1, <2>7 DEF FrameFits
    <3>5. i < Len(responseQ) \/ i = Len(responseQ)
      BY <1>2, <2>1
    <3> QED
      BY <1>3, <3>3, <3>4, <3>5
  <2>8. /\ Len(sent) \in Nat /\ Len(sent') \in Nat /\ Len(got) \in Nat
        /\ Len(sent) <= Len(sent')
    BY DEF Types, SentGrows
  <2>9. responseQ[i].kind = "head" => HeadFits(responseQ[i])'
    BY <1>5, <2>1, <2>5 DEF FrameFits, HeadFits
  <2>10. responseQ[i].kind = "message" =>
             responseQ[i].number = Len(got) + i - Ahead /\ responseQ[i].number <= Len(sent')
    <3>1. responseQ[i].kind = "message" => responseQ[i].number \in Nat
      BY <2>2, FrameParts
    <3> QED
      BY <2>1, <2>8, <3>1 DEF FrameFits
  <2> HIDE DEF IInv
  <2> QED
    BY <1>1, <1>5, <2>1, <2>3, <2>4, <2>6, <2>7, <2>9, <2>10, Constants DEF FrameFits
<1> QED
  BY <1>3, <1>4, <1>5

LEMMA FitsServiceReturns ==
    ASSUME IInv, ServiceReturns
    PROVE  Fits'
<1> USE DEF IInv
<1> DEFINE headers == HeadFrame(NoStatus, 200)
<1>1. /\ server = "service" /\ server' = "replying"
      /\ UNCHANGED <<call, clientVars, called, sent, verdict>>
      /\ responseQ' = responseQ \o <<headers>>
  BY DEF ServiceReturns, Respond
<1>2. /\ headers \in ResponseFrame /\ headers.kind = "head"
      /\ headers.status = NoStatus /\ headers.http = 200
  BY Frames DEF HeadFrame, HeaderStatus
<1>3. responseQ \in Seq(ResponseFrame) /\ Len(responseQ) \in Nat
  BY DEF Types
<1> HIDE DEF headers
<1>4. responseQ' = Append(responseQ, headers)
  BY <1>1, <1>2, RespondsOne
<1>5. /\ OneReply' = OneReply /\ BeforeHead' = BeforeHead /\ AfterHead' = AfterHead
      /\ Ahead' = Ahead
  BY <1>1 DEF clientVars, OneReply, BeforeHead, AfterHead, Ahead
<1>6. sent = <<>> /\ verdict = None /\ called # None /\ server \in Early
  BY <1>1 DEF ServerSide, Early
<1>7. ASSUME client # "done"
      PROVE  /\ BeforeHead /\ got = <<>> /\ client # "prepare"
             /\ Intact(responseQ) => responseQ = <<>>
  <2>1. BeforeHead /\ (responseQ # <<>> => responseQ[1].kind = "reset")
    BY <1>6, <1>7 DEF NothingEarly
  <2>2. client # "prepare"
    BY <1>1, <1>7 DEF Prepared
  <2>3. Intact(responseQ) => responseQ = <<>>
    BY <1>3, <2>1 DEF Intact
  <2> QED
    BY <2>1, <2>2, <2>3 DEF ClientSide
<1>8. ServerSide'
  BY <1>1, <1>5, <1>6 DEF ServerSide, Early
<1>9. ClientSide'
  BY <1>1, <1>5, <1>6, <1>7 DEF ClientSide, clientVars, BeforeHead, AfterHead
<1>0. PICK n \in Nat : n = Len(responseQ) + 1
  BY <1>3
<1>10. NextFits(n)
  <2> SUFFICES ASSUME client # "done", responseQ = <<>> PROVE FrameFits(n)'
    BY <1>7 DEF NextFits
  <2>1. n = 1 /\ responseQ'[1] = headers /\ ~Reachable(responseQ', 2)
    BY <1>0, <1>4 DEF Reachable
  <2> QED
    BY <1>2, <1>5, <1>7, <2>1 DEF FrameFits, HeadFits
<1>11. QueueFits'
  <2>1. SentGrows
    BY <1>1, <1>6 DEF SentGrows
  <2> HIDE DEF IInv
  <2> QED
    BY <1>0, <1>1, <1>2, <1>3, <1>4, <1>6, <1>10, <2>1, QueueAppend
<1>12. NothingEarly'
  BY <1>1 DEF NothingEarly, Early
<1>13. ReplyGoesOn'
  <2> SUFFICES ASSUME client # "done", Intact(responseQ')
               PROVE  ReplyGoesOn'
    BY <1>1 DEF ReplyGoesOn, clientVars
  <2>1. responseQ = <<>>
    BY <1>2, <1>3, <1>4, <1>7, ReachableAppend
  <2>2. Len(responseQ') = 1 /\ responseQ'[1] = headers /\ responseQ' # <<>>
        /\ DOMAIN responseQ' = 1..1
    BY <1>4, <2>1
  <2> QED
    BY <1>1, <1>2, <1>5, <1>6, <1>7, <2>2 DEF ReplyGoesOn, clientVars, Streams, Ahead
<1>14. SingleReplyIsComplete'
  BY <1>1, <1>5, <1>6, Constants DEF SingleReplyIsComplete, clientVars
<1> QED
  BY <1>8, <1>9, <1>11, <1>12, <1>13, <1>14 DEF Fits

LEMMA FitsReply ==
    ASSUME IInv, Reply
    PROVE  Fits'
<1> USE DEF IInv
<1> DEFINE f == Message(Len(sent) + 1)
<1>1. /\ server = "replying" /\ server' = "replying"
      /\ UNCHANGED <<call, clientVars, called, verdict>>
      /\ sent' = Append(sent, Len(sent) + 1)
      /\ responseQ' = responseQ \o <<f>>
      /\ OneReply => Len(sent) < 1
  BY DEF Reply, Respond
<1>2. responseQ \in Seq(ResponseFrame) /\ Len(responseQ) \in Nat /\ sent \in Seq(Nat)
      /\ Len(sent) \in Nat /\ Len(got) \in Nat
  BY DEF Types
<1>3. f \in ResponseFrame /\ f.kind = "message" /\ f.number = Len(sent) + 1
  BY <1>2, Frames DEF Message
<1>4. /\ Len(sent') = Len(sent) + 1 /\ sent'[Len(sent) + 1] = Len(sent) + 1
      /\ \A i \in 1..Len(sent) : sent'[i] = sent[i]
  BY <1>1, <1>2
<1> HIDE DEF f
<1>5. responseQ' = Append(responseQ, f)
  BY <1>1, <1>3, RespondsOne
<1>6. /\ OneReply' = OneReply /\ BeforeHead' = BeforeHead /\ AfterHead' = AfterHead
      /\ Ahead' = Ahead
  BY <1>1 DEF clientVars, OneReply, BeforeHead, AfterHead, Ahead
<1>7. verdict = None /\ called # None
  BY <1>1 DEF ServerSide
<1>8. ServerSide'
  <2>1. \A i \in DOMAIN sent' : sent'[i] = i
    BY <1>1, <1>2, <1>4 DEF ServerSide
  <2> QED
    BY <1>1, <1>2, <1>4, <1>6, <1>7, <2>1 DEF ServerSide, Early
<1>9. ClientSide'
  BY <1>1, <1>2, <1>4, <1>6, <1>7, Constants DEF ClientSide, clientVars, AfterHead
<1>0. PICK n \in Nat : n = Len(responseQ) + 1
  BY <1>2
<1>10. NextFits(n)
  <2> SUFFICES ASSUME client # "done", Intact(responseQ) PROVE FrameFits(n)'
    BY DEF NextFits
  <2>1. responseQ'[n] = f
    BY <1>0, <1>2, <1>5
  <2>2. /\ Len(sent) = Len(got) + Len(responseQ) - Ahead
        /\ BeforeHead => responseQ # <<>>
    BY <1>1 DEF ReplyGoesOn
  <2>3. Ahead \in {0, 1} /\ (BeforeHead => n # 1)
    BY <1>0, <1>2, <2>2 DEF Ahead
  <2>4. got' = got
    BY <1>1 DEF clientVars
  <2>5. Len(sent) + 1 = Len(got) + n - Ahead
    BY <1>0, <1>2, <2>2, <2>3
  <2> HIDE DEF IInv
  <2> QED
    BY <1>2, <1>3, <1>4, <1>6, <2>1, <2>3, <2>4, <2>5 DEF FrameFits
<1>11. QueueFits'
  <2>1. SentGrows
    BY <1>2, <1>4 DEF SentGrows
  <2> HIDE DEF IInv
  <2> QED
    BY <1>0, <1>1, <1>2, <1>3, <1>5, <1>10, <2>1, QueueAppend
<1>12. NothingEarly'
  BY <1>1 DEF NothingEarly, Early
<1>13. ReplyGoesOn'
  <2> SUFFICES ASSUME client # "done", Intact(responseQ')
               PROVE  ReplyGoesOn'
    BY <1>1 DEF ReplyGoesOn, clientVars
  <2>1. Intact(responseQ)
    BY <1>2, <1>3, <1>5, ReachableAppend
  <2>2. /\ client # "prepare" /\ (BeforeHead => responseQ # <<>>) /\ Streams
        /\ \A i \in DOMAIN responseQ : responseQ[i].kind \notin {"trailers", "end"}
        /\ Len(sent) = Len(got) + Len(responseQ) - Ahead
    BY <1>1, <2>1 DEF ReplyGoesOn
  <2> HIDE DEF IInv
  <2>3. /\ Len(responseQ') = Len(responseQ) + 1 /\ responseQ'[Len(responseQ) + 1] = f
        /\ \A i \in 1..Len(responseQ) : responseQ'[i] = responseQ[i]
        /\ DOMAIN responseQ' = 1..(Len(responseQ) + 1)
    BY <1>2, <1>3, <1>5, Appended
  <2>4. \A i \in DOMAIN responseQ' : responseQ'[i].kind \notin {"trailers", "end"}
    BY <1>2, <1>3, <2>2, <2>3
  <2>5. Streams'
    BY <1>1, <1>2, <1>6, <2>2, <2>3 DEF Streams, clientVars
  <2>6. Len(sent') = Len(got') + Len(responseQ') - Ahead'
    <3>1. Ahead \in {0, 1} /\ got' = got
      BY <1>1 DEF Ahead, clientVars
    <3> QED
      BY <1>2, <1>4, <1>6, <2>2, <2>3, <3>1
  <2>7. responseQ' # <<>> /\ client' = client
    BY <1>1, <1>2, <2>3 DEF clientVars
  <2> QED
    BY <2>2, <2>4, <2>5, <2>6, <2>7 DEF ReplyGoesOn
<1>14. SingleReplyIsComplete'
  BY <1>1, <1>6, <1>7, Constants DEF SingleReplyIsComplete, clientVars
<1> QED
  BY <1>8, <1>9, <1>11, <1>12, <1>13, <1>14 DEF Fits

LEMMA FitsReplyEnds ==
    ASSUME IInv, ReplyEnds
    PROVE  Fits'
<1> USE DEF IInv
<1>1. PICK code \in Code :
          /\ server = "replying" /\ server' = "ended" /\ verdict' = code
          /\ UNCHANGED <<call, clientVars, called, sent>>
          /\ responseQ' = responseQ \o <<TrailersFrame(code)>>
  BY FailuresAssumption, Codes DEF ReplyEnds, Respond
<1> DEFINE f == TrailersFrame(code)
<1>2. responseQ \in Seq(ResponseFrame) /\ Len(responseQ) \in Nat
      /\ Len(sent) \in Nat /\ Len(got) \in Nat
  BY DEF Types
<1>3. f \in ResponseFrame /\ f.kind = "trailers" /\ f.status = code
  BY Frames DEF TrailersFrame
<1>4. responseQ' = responseQ \o <<f>>
  BY <1>1
<1> HIDE DEF f
<1>5. responseQ' = Append(responseQ, f)
  BY <1>3, <1>4, RespondsOne
<1>6. /\ OneReply' = OneReply /\ BeforeHead' = BeforeHead /\ AfterHead' = AfterHead
      /\ Ahead' = Ahead
  BY <1>1 DEF clientVars, OneReply, BeforeHead, AfterHead, Ahead
<1>7. verdict = None /\ called # None /\ code \notin {None, NoStatus}
  BY <1>1, Constants DEF ServerSide
<1>8. ServerSide'
  BY <1>1, <1>6, <1>7 DEF ServerSide, Early
<1>9. ClientSide'
  BY <1>1, <1>6, <1>7, Constants DEF ClientSide, clientVars, AfterHead
<1>0. PICK n \in Nat : n = Len(responseQ) + 1
  BY <1>2
<1>10. NextFits(n)
  <2> SUFFICES ASSUME client # "done", Intact(responseQ) PROVE FrameFits(n)'
    BY DEF NextFits
  <2>1. responseQ'[n] = f
    BY <1>0, <1>2, <1>5
  <2>2. /\ Len(sent) = Len(got) + Len(responseQ) - Ahead
        /\ BeforeHead => responseQ # <<>>
    BY <1>1 DEF ReplyGoesOn
  <2>3. Ahead \in {0, 1} /\ (BeforeHead => n # 1)
    BY <1>0, <1>2, <2>2 DEF Ahead
  <2>4. got' = got /\ sent' = sent
    BY <1>1 DEF clientVars
  <2>5. Len(sent) = Len(got) + n - 1 - Ahead
    BY <1>0, <1>2, <2>2, <2>3
  <2>6. ~Reachable(responseQ', n + 1)
    <3>1. ~Reachable(Append(responseQ, f), Len(responseQ) + 2)
      BY <1>2, <1>3, ReachableAppend
    <3>2. n + 1 = Len(responseQ) + 2
      BY <1>0, <1>2
    <3> QED
      BY <1>5, <3>1, <3>2
  <2> HIDE DEF IInv
  <2> QED
    BY <1>1, <1>3, <1>6, <2>1, <2>3, <2>4, <2>5, <2>6 DEF FrameFits
<1>11. QueueFits'
  <2>1. SentGrows
    BY <1>1, <1>2 DEF SentGrows
  <2> HIDE DEF IInv
  <2> QED
    BY <1>0, <1>1, <1>2, <1>3, <1>5, <1>10, <2>1, QueueAppend
<1>12. NothingEarly' /\ ReplyGoesOn'
  BY <1>1 DEF NothingEarly, ReplyGoesOn, Early
<1>13. SingleReplyIsComplete'
  BY <1>1, <1>6, <1>7, Constants DEF SingleReplyIsComplete, clientVars
<1> QED
  BY <1>8, <1>9, <1>11, <1>12, <1>13 DEF Fits

-----------------------------------------------------------------------------
(* The client reads the first frame, and those behind it move up.          *)
LEMMA QueueTail ==
    ASSUME IInv, client # "done", responseQ # <<>>,
           responseQ[1].kind \in {"head", "message"},
           responseQ' = Tail(responseQ), UNCHANGED <<call, serverVars>>,
           AfterHead', Streams' => Streams, Len(got') \in Nat,
           Len(got') = Len(got) - Ahead + 1
    PROVE  QueueFits'
<1> USE DEF IInv
<1>1. responseQ \in Seq(ResponseFrame) /\ Len(got) \in Nat
  BY DEF Types
<1>2. /\ \A i \in Nat : Reachable(responseQ', i) =>
             i >= 1 /\ Reachable(responseQ, i + 1) /\ responseQ'[i] = responseQ[i + 1]
      /\ Len(responseQ) \in Nat \ {0}
  <2> HIDE DEF IInv
  <2> QED
    BY <1>1, ReachableTail
<1>3. ~BeforeHead' /\ Ahead' = 0 /\ Ahead \in {0, 1}
  BY DEF AfterHead, BeforeHead, Ahead
<1> SUFFICES ASSUME NEW i \in Nat, Reachable(responseQ', i)
             PROVE  FrameFits(i)'
  BY DEF QueueFits
<1>4. PICK k \in Nat : k = i + 1
  OBVIOUS
<1>5. /\ i >= 1 /\ Reachable(responseQ, k) /\ responseQ'[i] = responseQ[k]
      /\ FrameFits(k)
  BY <1>2, <1>4 DEF QueueFits
<1>6. Reachable(responseQ', i + 1) => Reachable(responseQ, k + 1)
  BY <1>2, <1>4
<1>7. sent' = sent /\ verdict' = verdict /\ server' = server
  BY DEF serverVars
<1> HIDE DEF IInv
<1>8. k # 1
  BY <1>4, <1>5
<1>9. responseQ[k].kind # "head"
  BY <1>5, <1>8 DEF FrameFits
<1>10. responseQ'[i].kind # "head" /\ ~(BeforeHead' /\ i = 1)
  BY <1>3, <1>5, <1>9
<1>15. /\ Len(got) + k - Ahead = Len(got') + i - Ahead'
       /\ Len(got) + k - 1 - Ahead = Len(got') + i - 1 - Ahead'
  <2> DEFINE a == Len(got)
             b == Len(got')
             x == Ahead
             y == Ahead'
  <2>1. a \in Nat /\ b \in Nat /\ b = a - x + 1 /\ x \in {0, 1} /\ y = 0
    BY <1>1, <1>3
  <2> HIDE DEF a, b, x, y
  <2>2. a + k - x = b + i - y /\ a + k - 1 - x = b + i - 1 - y
    BY <1>4, <2>1
  <2> QED
    BY <2>2 DEF a, b, x, y
<1>11. responseQ'[i].kind = "message" =>
          responseQ'[i].number = Len(got') + i - Ahead' /\ responseQ'[i].number <= Len(sent')
  <2>1. responseQ[k].kind = "message" =>
            responseQ[k].number = Len(got) + k - Ahead /\ responseQ[k].number <= Len(sent)
    BY <1>5 DEF FrameFits
  <2> QED
    BY <1>5, <1>7, <1>15, <2>1
<1>12. responseQ'[i].kind = "trailers" =>
          responseQ'[i].status = verdict' /\ Len(sent') = Len(got') + i - 1 - Ahead'
  <2>1. responseQ[k].kind = "trailers" =>
            responseQ[k].status = verdict /\ Len(sent) = Len(got) + k - 1 - Ahead
    BY <1>5 DEF FrameFits
  <2> QED
    BY <1>5, <1>7, <1>15, <2>1
<1>13. responseQ'[i].kind = "end" => ~Streams' \/ verdict' = NoStatus
  BY <1>5, <1>7 DEF FrameFits
<1>14. responseQ'[i].kind \in {"trailers", "end"} => ~Reachable(responseQ', i + 1)
  BY <1>5, <1>6 DEF FrameFits
<1> QED
  BY <1>10, <1>11, <1>12, <1>13, <1>14 DEF FrameFits

(* The reply goes on where the client has read on.                         *)
LEMMA ReplyTail ==
    ASSUME IInv, client \notin {"prepare", "done"}, responseQ # <<>>,
           responseQ[1].kind \in {"head", "message"},
           responseQ' = Tail(responseQ), UNCHANGED <<call, serverVars>>,
           AfterHead', Streams => Streams', Len(got') \in Nat,
           Len(got') = Len(got) - Ahead + 1
    PROVE  ReplyGoesOn' /\ NothingEarly'
<1> USE DEF IInv
<1>1. responseQ \in Seq(ResponseFrame) /\ Len(got) \in Nat
  BY DEF Types
<1>2. /\ Intact(Tail(responseQ)) => Intact(responseQ)
      /\ Len(responseQ) \in Nat \ {0} /\ Len(Tail(responseQ)) = Len(responseQ) - 1
      /\ \A i \in 1..(Len(responseQ) - 1) : Tail(responseQ)[i] = responseQ[i + 1]
      /\ Tail(responseQ) \in Seq(ResponseFrame)
  <2> HIDE DEF IInv
  <2> QED
    BY <1>1, ReachableTail
<1>3. ~BeforeHead' /\ Ahead' = 0 /\ Ahead \in {0, 1} /\ client' # "prepare"
  BY DEF AfterHead, BeforeHead, Ahead
<1>4. sent' = sent /\ server' = server
  BY DEF serverVars
<1>5. ReplyGoesOn'
  <2> SUFFICES ASSUME server = "replying", Intact(responseQ')
               PROVE  ReplyGoesOn'
    BY <1>4 DEF ReplyGoesOn
  <2>1. /\ Streams /\ \A i \in DOMAIN responseQ : responseQ[i].kind \notin {"trailers", "end"}
        /\ Len(sent) = Len(got) + Len(responseQ) - Ahead
    BY <1>2 DEF ReplyGoesOn
  <2>2. \A i \in DOMAIN responseQ' : responseQ'[i].kind \notin {"trailers", "end"}
    BY <1>1, <1>2, <2>1
  <2>3. Len(sent') = Len(got') + Len(responseQ') - Ahead'
    BY <1>1, <1>2, <1>3, <1>4, <2>1
  <2> HIDE DEF IInv
  <2> QED
    BY <1>3, <2>1, <2>2, <2>3 DEF ReplyGoesOn
<1>6. server \notin Early
  BY DEF NothingEarly
<1>7. NothingEarly'
  BY <1>4, <1>6 DEF NothingEarly
<1> QED
  BY <1>5, <1>7

(* The frame that a client reads fits.                                     *)
LEMMA FirstFits ==
    ASSUME IInv, client # "done", responseQ # <<>>, responseQ[1].kind # "reset"
    PROVE  FrameFits(1) /\ responseQ[1] \in ResponseFrame
<1>1. responseQ \in Seq(ResponseFrame)
  BY DEF IInv, Types
<1>2. Reachable(responseQ, 1) /\ responseQ[1] \in ResponseFrame
  BY <1>1, ReachableTail
<1> QED
  BY <1>2 DEF IInv, QueueFits

LEMMA FitsReceiveHead ==
    ASSUME IInv, ReceiveHead
    PROVE  /\ Fits'
           /\ \/ client' # "done" /\ result' = result
              \/ result' = verdict /\ verdict \in Code \ {"Ok"}
<1> USE DEF IInv
<1>1. /\ client = "waiting" /\ got' = got /\ responseQ # <<>>
      /\ responseQ[1].kind = "head" /\ responseQ' = Tail(responseQ)
      /\ UNCHANGED <<call, serverVars>>
  BY DEF ReceiveHead, Receives
<1>2. responseQ[1].status \in HeaderStatus /\ HeadFits(responseQ[1])
  BY <1>1, FirstFits, FrameParts DEF FrameFits
<1>3. CASE responseQ[1].status \in Code \ {"Ok"}
  <2>1. client' = "done" /\ result' = responseQ[1].status
    BY <1>3, Constants DEF ReceiveHead, Tell
  <2>2. responseQ[1].status = verdict
    BY <1>2, <1>3, Constants DEF HeadFits
  <2>3. Fits'
    BY <1>1, <1>3, <2>1, FitsTold
  <2> QED
    BY <1>3, <2>1, <2>2, <2>3
<1>4. CASE responseQ[1].status \notin Code \ {"Ok"}
  <2>1. /\ client' = IF OneReply THEN "message" ELSE "streaming"
        /\ result' = result
        /\ \/ responseQ[1].status = NoStatus /\ http' = responseQ[1].http
           \/ responseQ[1].status = "Ok" /\ http' = NoStream
    BY <1>4 DEF ReceiveHead
  <2>2. sent' = sent /\ verdict' = verdict /\ server' = server /\ called' = called /\ call' = call
    BY <1>1 DEF serverVars
  <2>3. OneReply' = OneReply /\ AfterHead' /\ ~BeforeHead' /\ BeforeHead /\ Ahead = 1
    BY <1>1, <2>1, <2>2 DEF OneReply, AfterHead, BeforeHead, Ahead
  <2>4. got = <<>>
    BY <2>3 DEF ClientSide
  <2>5. Streams' = Streams
    BY <2>1, <2>3, Constants, Codes DEF Streams, NoStream
  <2>6. Len(got') \in Nat /\ Len(got') = Len(got) - Ahead + 1
    BY <1>1, <2>3, <2>4
  <2>7. QueueFits' /\ ReplyGoesOn' /\ NothingEarly'
    <3> HIDE DEF IInv
    <3> QED
      BY <1>1, <2>3, <2>5, <2>6, QueueTail, ReplyTail
  <2>8. ServerSide'
    BY <2>2, <2>3 DEF ServerSide
  <2>9. ClientSide'
    <3>1. http' = NoStream => verdict = "Ok" /\ sent = <<>>
      BY <1>2, <2>1, Constants, Codes DEF HeadFits, NoStream
    <3>2. http' = 503 => server = "dropped" /\ sent = <<>>
      BY <1>2, <2>1, Constants DEF HeadFits, NoStream
    <3> QED
      BY <1>1, <2>1, <2>2, <2>3, <2>4, <3>1, <3>2 DEF ClientSide, BeforeHead
  <2>10. SingleReplyIsComplete'
    BY <1>1, <2>1, <2>2, <2>3 DEF SingleReplyIsComplete
  <2> QED
    BY <2>1, <2>7, <2>8, <2>9, <2>10 DEF Fits
<1> QED
  BY <1>3, <1>4

LEMMA FitsReceiveMessage ==
    ASSUME IInv, ReceiveMessage
    PROVE  /\ Fits'
           /\ got' = Append(got, Len(got) + 1) /\ Len(got) + 1 <= Len(sent)
           /\ result' = result /\ client \in {"message", "streaming"}
<1> USE DEF IInv
<1>1. /\ client \in {"message", "streaming", "trailers"} /\ responseQ # <<>>
      /\ responseQ[1].kind = "message" /\ responseQ' = Tail(responseQ)
      /\ UNCHANGED <<call, serverVars>> /\ http' = http /\ result' = result
      /\ got' = IF client = "trailers" THEN got ELSE Append(got, responseQ[1].number)
      /\ client' = IF client = "message" THEN "trailers" ELSE client
  BY DEF ReceiveMessage, Receives
<1>2. sent' = sent /\ verdict' = verdict /\ server' = server /\ called' = called /\ call' = call
  BY <1>1 DEF serverVars
<1>3. /\ OneReply' = OneReply /\ AfterHead /\ AfterHead' /\ ~BeforeHead /\ ~BeforeHead'
      /\ Ahead = 0
  BY <1>1, <1>2 DEF OneReply, AfterHead, BeforeHead, Ahead
<1>4. Len(got) \in Nat /\ Len(sent) \in Nat /\ got \in Seq(Nat) /\ sent \in Seq(Nat)
  BY DEF Types
<1>5. responseQ[1].number = Len(got) + 1 /\ Len(got) + 1 <= Len(sent)
  <2>1. FrameFits(1)
    BY <1>1, FirstFits
  <2>2. responseQ[1].number = Len(got) + 1 - 0 /\ responseQ[1].number <= Len(sent)
    BY <1>1, <1>3, <2>1 DEF FrameFits
  <2> QED
    BY <1>4, <2>2
<1>6. client # "trailers"
  BY <1>4, <1>5 DEF ClientSide, ServerSide
<1>7. got' = Append(got, Len(got) + 1) /\ Len(got') = Len(got) + 1
  BY <1>1, <1>4, <1>5, <1>6
<1>8. Streams' = Streams
  BY <1>1, <1>3 DEF Streams
<1>9. QueueFits' /\ ReplyGoesOn' /\ NothingEarly'
  <2>1. Len(got') \in Nat /\ Len(got') = Len(got) - Ahead + 1
    BY <1>3, <1>4, <1>7
  <2> HIDE DEF IInv
  <2> QED
    BY <1>1, <1>3, <1>8, <2>1, QueueTail, ReplyTail
<1>10. ServerSide'
  BY <1>2, <1>3 DEF ServerSide
<1>11. ClientSide'
  <2>1. client = "message" => OneReply /\ Len(got') = 1
    BY <1>7 DEF ClientSide
  <2>2. Len(got') <= Len(sent')
    BY <1>2, <1>5, <1>7
  <2>3. /\ http = NoStream => verdict = "Ok" /\ sent = <<>>
        /\ http = 503 => server = "dropped" /\ sent = <<>>
        /\ client = "streaming" => ~OneReply
    BY <1>3 DEF ClientSide
  <2> HIDE DEF IInv
  <2> QED
    BY <1>1, <1>2, <1>3, <1>6, <2>1, <2>2, <2>3 DEF ClientSide
<1>12. SingleReplyIsComplete'
  <2>1. result = None
    BY <1>1 DEF Types, TypeOK
  <2> QED
    BY <1>1, <2>1, Constants DEF SingleReplyIsComplete
<1> QED
  BY <1>1, <1>5, <1>6, <1>7, <1>9, <1>10, <1>11, <1>12 DEF Fits

(* The end of a response says what the server has decided, behind all its  *)
(* messages, or is an error of the client's.                               *)
LEMMA FitsReceiveEnd ==
    ASSUME IInv, ReceiveEnd
    PROVE  /\ Fits'
           /\ result' \in TransportCode \cup {Abstract!Outcome} /\ result' # None
           /\ result' = "Ok" => Len(got) = Len(sent)
<1> USE DEF IInv
<1>1. PICK code \in Code :
          /\ client \in {"message", "trailers", "streaming"} /\ got' = got
          /\ \/ Receives("trailers") /\ code = Inferred(responseQ[1].status)
             \/ Receives("end") /\ code = Inferred(NoTrailers)
          /\ client' = "done"
          /\ result' = IF client = "message" /\ code = "Ok" THEN "Internal" ELSE code
  BY DEF ReceiveEnd, Tell
<1>2. /\ responseQ # <<>> /\ responseQ[1].kind \in {"trailers", "end"}
      /\ UNCHANGED <<call, serverVars>> /\ client # "done"
  BY <1>1 DEF Receives
<1>3. FrameFits(1) /\ responseQ[1] \in ResponseFrame /\ ~BeforeHead /\ AfterHead /\ Ahead = 0
  BY <1>1, <1>2, FirstFits DEF BeforeHead, AfterHead, Ahead
<1>4. Len(got) \in Nat /\ Len(sent) \in Nat /\ http \in {200, 503, NoStream}
  BY DEF Types
<1>5. ASSUME Receives("trailers"), code = Inferred(responseQ[1].status)
      PROVE  code = verdict /\ Len(got) = Len(sent)
  <2>1. responseQ[1].kind = "trailers"
    BY <1>5 DEF Receives
  <2>2. responseQ[1].status \in Code /\ responseQ[1].status = verdict
    BY <1>3, <2>1, FrameParts DEF FrameFits
  <2>3. Len(sent) = Len(got) + 1 - 1 - 0
    BY <1>3, <2>1 DEF FrameFits
  <2>4. code = verdict
    <3>1. CASE http = NoStream
      BY <1>3, <1>5, <3>1 DEF Inferred, ClientSide
    <3>2. CASE http # NoStream
      BY <1>5, <2>2, <3>2, Constants DEF Inferred, InferGrpcStatus
    <3> QED
      BY <3>1, <3>2
  <2> QED
    BY <1>4, <2>3, <2>4
<1>6. ASSUME Receives("end"), code = Inferred(NoTrailers)
      PROVE  \/ code = verdict /\ Len(got) = Len(sent)
             \/ code = "Unavailable"
             \/ code = "Ok" /\ verdict = NoStatus /\ Len(got) = Len(sent) /\ Len(sent) = 0
  <2>1. responseQ[1].kind = "end"
    BY <1>6 DEF Receives
  <2>2. CASE http = 200
    <3>1. verdict = NoStatus
      BY <1>3, <2>1, <2>2 DEF FrameFits, Streams
    <3>2. sent = <<>> /\ Len(got) <= Len(sent)
      BY <3>1 DEF ServerSide, ClientSide
    <3>3. InferGrpcStatus(NoTrailers, http) = NoStatus /\ http # NoStream
      BY <2>2, Constants DEF InferGrpcStatus, NoStream
    <3> QED
      BY <1>4, <1>6, <3>1, <3>2, <3>3 DEF Inferred
  <2>3. CASE http = NoStream
    <3>1. verdict = "Ok" /\ Len(sent) = 0 /\ Len(got) <= Len(sent)
      BY <1>3, <2>3 DEF ClientSide
    <3> QED
      BY <1>4, <1>6, <2>3, <3>1 DEF Inferred
  <2>4. CASE http = 503
    <3>1. CodeOfHttp(503) = "Unavailable"
      BY DEF CodeOfHttp
    <3>2. InferGrpcStatus(NoTrailers, http) = "Unavailable"
      BY <2>4, <3>1, Constants DEF InferGrpcStatus
    <3>3. "Unavailable" # NoStatus /\ http # NoStream
      BY <2>4 DEF NoStatus, NoStream
    <3> QED
      BY <1>6, <3>2, <3>3 DEF Inferred
  <2> QED
    BY <1>4, <2>2, <2>3, <2>4
<1>7. \/ code = verdict /\ Len(got) = Len(sent)
      \/ code = "Unavailable"
      \/ code = "Ok" /\ verdict = NoStatus /\ Len(got) = Len(sent) /\ Len(sent) = 0
  BY <1>1, <1>5, <1>6
<1>8. /\ result' \in TransportCode \cup {Abstract!Outcome} /\ result' # None
      /\ result' = "Ok" =>
             /\ code = "Ok" /\ Len(got) = Len(sent) /\ client # "message"
             /\ verdict = "Ok" \/ (verdict = NoStatus /\ Len(sent) = 0)
  <2>1. CASE client = "message" /\ code = "Ok"
    BY <1>1, <2>1, Constants DEF TransportCode, None
  <2>2. CASE ~(client = "message" /\ code = "Ok")
    <3>1. result' = code /\ code # None
      BY <1>1, <2>2, Constants
    <3>2. code = verdict => Abstract!Outcome = code
      BY Constants DEF Abstract!Outcome
    <3>3. code = "Ok" /\ verdict = NoStatus => Abstract!Outcome = code
      BY DEF Abstract!Outcome
    <3> HIDE DEF IInv
    <3> QED
      BY <1>1, <1>7, <2>2, <3>1, <3>2, <3>3 DEF TransportCode
  <2> QED
    BY <2>1, <2>2
<1>9. ASSUME OneReply, result' = "Ok"
      PROVE  got = << 1 >> /\ verdict = "Ok" /\ called # None /\ server = "ended"
  <2>1. Len(got) = 1 /\ Len(got) = Len(sent) /\ verdict = "Ok"
    <3>1. client = "trailers" => Len(got) = 1
      BY DEF ClientSide
    <3>2. client = "streaming" => ~OneReply
      BY DEF ClientSide
    <3>3. client = "trailers" /\ Len(got) = Len(sent)
      BY <1>1, <1>8, <1>9, <3>2
    <3> HIDE DEF IInv
    <3> QED
      BY <1>8, <1>9, <3>1, <3>3
  <2>2. got \in Seq(Nat) /\ got[1] = 1 /\ sent # <<>>
    <3>1. got \in Seq(Nat) /\ (\A i \in DOMAIN got : got[i] = i) /\ sent \in Seq(Nat)
      BY DEF Types, TypeOK
    <3> HIDE DEF IInv
    <3>2. 1 \in DOMAIN got
      BY <2>1, <3>1
    <3>3. sent # <<>>
      <4>1. Len(sent) = 1
        BY <2>1
      <4>2. Len(<<>>) # 1
        OBVIOUS
      <4> QED
        BY <4>1, <4>2
    <3> QED
      BY <3>1, <3>2, <3>3
  <2>3. got = << 1 >>
    BY <2>1, <2>2
  <2>4. called # None /\ server = "ended"
    BY <2>1, <2>2, Constants DEF ServerSide
  <2> QED
    BY <2>1, <2>3, <2>4
<1>10. Fits'
  BY <1>1, <1>2, <1>9, FitsTold
<1> QED
  BY <1>8, <1>10
-----------------------------------------------------------------------------
LEMMA ResponseQueue ==
    ASSUME Types
    PROVE  /\ \A f \in ResponseFrame : responseQ \o <<f>> \in Seq(ResponseFrame)
           /\ \A f, g \in ResponseFrame : responseQ \o <<f, g>> \in Seq(ResponseFrame)
           /\ responseQ # <<>> =>
                  Tail(responseQ) \in Seq(ResponseFrame) /\ responseQ[1] \in ResponseFrame
           /\ \A n \in 0..Len(responseQ) :
                  Append(SubSeq(responseQ, 1, n), Reset) \in Seq(ResponseFrame)
<1>1. responseQ \in Seq(ResponseFrame) /\ Reset \in ResponseFrame
  BY Frames DEF Types
<1> QED
  BY <1>1, ReachableCut

LEMMA TrailersOnlyTypes ==
    ASSUME Types, NEW code \in Code, TrailersOnly(code)
    PROVE  verdict' \in Code /\ server' = "ended" /\ responseQ' \in Seq(ResponseFrame)
<1>1. HeadFrame(code, 200) \in ResponseFrame /\ Frame("end") \in ResponseFrame
  BY Frames DEF HeaderStatus
<1> QED
  BY <1>1, ResponseQueue DEF TrailersOnly, Respond

(* Steps that only change scalars, or take or cut frames.                  *)
LEMMA TypesClient ==
    ASSUME Types, UNCHANGED <<call, serverVars, http>>,
           requestQ' \in Seq(RequestFrame), responseQ' \in Seq(ResponseFrame),
           upload' \in 0..call.requests + 1,
           \/ UNCHANGED <<client, result, got>>
           \/ /\ client # "done" /\ client' = "done" /\ got' = got
              /\ result' \in Code \cup {"cancelled by caller"}
           \/ client = "prepare" /\ client' = "waiting" /\ UNCHANGED <<result, got>>
    PROVE  Types'
<1>1. /\ call' = call /\ server' = server /\ requestEnd' = requestEnd /\ called' = called
      /\ verdict' = verdict /\ sent' = sent /\ http' = http /\ got' = got
  BY DEF serverVars
<1>2. result' \in Code \cup {None, "cancelled by caller"}
  BY DEF Types, TypeOK
<1>3. /\ (result' = None) = (client' # "done")
      /\ client' \in {"prepare", "waiting", "message", "trailers", "streaming", "done"}
  BY Constants DEF Types, TypeOK, None
<1>4. TypeOK'
  BY <1>1, <1>2, <1>3 DEF Types, TypeOK
<1>5. sent \in Seq(Nat) /\ got \in Seq(Nat) /\ http \in {200, 503, NoStream}
  BY Zenon DEF Types
<1>6. sent' \in Seq(Nat) /\ got' \in Seq(Nat) /\ http' \in {200, 503, NoStream}
  <2>1. sent' \in Seq(Nat)
    BY <1>1, <1>5
  <2>2. got' \in Seq(Nat)
    BY <1>1, <1>5
  <2>3. http' \in {200, 503, NoStream}
    BY <1>1, <1>5
  <2> QED
    BY <2>1, <2>2, <2>3
<1> QED
  BY <1>4, <1>6, Zenon DEF Types

LEMMA TypesServer ==
    ASSUME Types, UNCHANGED <<call, clientVars, sent>>,
           requestQ' \in Seq(RequestFrame), responseQ' \in Seq(ResponseFrame),
           server' \in {"idle", "first", "rest", "service", "replying", "ended", "dropped"},
           requestEnd' \in {"yes", "no"}, called' \in {None, "early", "whole"},
           verdict' \in Code \cup {None, NoStatus}
    PROVE  Types'
<1>1. /\ call' = call /\ client' = client /\ upload' = upload /\ http' = http
      /\ got' = got /\ result' = result /\ sent' = sent
  BY DEF clientVars
<1>2. TypeOK'
  BY <1>1 DEF Types, TypeOK
<1> QED
  BY <1>1, <1>2 DEF Types

(* The client has read a head or a message and goes on.                    *)
LEMMA TypesReading ==
    ASSUME IInv, UNCHANGED <<call, upload, requestQ, serverVars>>, result' = result,
           responseQ' \in Seq(ResponseFrame), http' \in {200, 503, NoStream},
           client # "done", client' \in {"message", "trailers", "streaming"},
           got' = got \/ got' = Append(got, Len(got) + 1)
    PROVE  Types'
<1>1. /\ TypeOK /\ got \in Seq(Nat) /\ requestQ \in Seq(RequestFrame) /\ sent \in Seq(Nat)
  BY DEF IInv, Types
<1>2. got' \in Seq(Nat) /\ \A i \in DOMAIN got' : got'[i] = i
  <2>1. \A i \in DOMAIN got : got[i] = i
    BY <1>1 DEF TypeOK
  <2>2. CASE got' = got
    BY <1>1, <2>1, <2>2
  <2>3. CASE got' = Append(got, Len(got) + 1)
    BY <1>1, <2>1, <2>3
  <2> QED
    BY <2>2, <2>3
<1>3. /\ call' = call /\ server' = server /\ requestEnd' = requestEnd /\ called' = called
      /\ verdict' = verdict /\ sent' = sent /\ upload' = upload /\ requestQ' = requestQ
  BY DEF serverVars
<1>4. TypeOK'
  BY <1>1, <1>2, <1>3 DEF TypeOK
<1>5. requestQ' \in Seq(RequestFrame)
  BY <1>1, <1>3
<1>6. sent' \in Seq(Nat)
  BY <1>1, <1>3
<1> QED
  BY <1>2, <1>4, <1>5, <1>6, Zenon DEF Types

LEMMA TypesReply ==
    ASSUME IInv, Reply
    PROVE  Types'
<1>1. /\ TypeOK /\ got \in Seq(Nat) /\ requestQ \in Seq(RequestFrame) /\ sent \in Seq(Nat)
      /\ http \in {200, 503, NoStream}
  BY DEF IInv, Types
<1>2. /\ sent' = Append(sent, Len(sent) + 1)
      /\ responseQ' = responseQ \o <<Message(Len(sent) + 1)>>
      /\ Len(sent) < IF OneReply THEN 1 ELSE MaxReplies
  BY DEF Reply, Respond
<1>3. /\ call' = call /\ client' = client /\ upload' = upload /\ http' = http
      /\ got' = got /\ result' = result /\ requestQ' = requestQ /\ server' = server
      /\ requestEnd' = requestEnd /\ called' = called /\ verdict' = verdict
  BY DEF Reply, clientVars
<1>4. sent' \in Seq(Nat) /\ Len(sent') <= MaxReplies
  <2>1. Len(sent) \in Nat /\ Len(sent) + 1 \in Nat /\ Len(sent) + 1 <= MaxReplies
    BY <1>1, <1>2, MaxRepliesAssumption
  <2> QED
    BY <1>1, <1>2, <2>1
<1>5. responseQ' \in Seq(ResponseFrame)
  <2>1. Message(Len(sent) + 1) \in ResponseFrame
    BY <1>1, Frames
  <2> QED
    BY <1>2, <2>1, ResponseQueue DEF IInv
<1>6. TypeOK'
  BY <1>1, <1>3, <1>4 DEF TypeOK
<1>7. requestQ' \in Seq(RequestFrame)
  BY <1>1, <1>3
<1>8. got' \in Seq(Nat)
  BY <1>1, <1>3
<1>9. http' \in {200, 503, NoStream}
  BY <1>1, <1>3
<1> QED
  BY <1>4, <1>5, <1>6, <1>7, <1>8, <1>9, Zenon DEF Types

LEMMA TypesClientStep ==
    ASSUME IInv, Dispatch \/ Upload \/ ConnectionLost
    PROVE  Types'
<1>0. /\ Types /\ client \in {"prepare", "waiting", "message", "trailers", "streaming", "done"}
      /\ upload \in 0..call.requests + 1 /\ call.requests \in Nat
      /\ requestQ \in Seq(RequestFrame) /\ responseQ \in Seq(ResponseFrame)
  BY CallFacts DEF IInv, Types, TypeOK
<1>1. ASSUME SendHead PROVE Types'
  <2>1. Append(requestQ, Frame("head")) \in Seq(RequestFrame)
    BY <1>0, Frames, RequestQueue
  <2> QED
    BY <1>0, <1>1, <2>1, Codes, TypesClient DEF SendHead, Tell
<1>2. ASSUME SendMessage PROVE Types'
  <2>1. upload + 1 \in Nat /\ upload + 1 \in 0..call.requests + 1
    BY <1>0, <1>2 DEF SendMessage
  <2>2. Append(requestQ, Message(upload + 1)) \in Seq(RequestFrame)
    BY <1>0, <2>1, Frames, RequestQueue
  <2> QED
    BY <1>0, <1>2, <2>1, <2>2, TypesClient DEF SendMessage
<1>3. ASSUME SendEnd PROVE Types'
  <2>1. upload + 1 \in 0..call.requests + 1
    BY <1>0, <1>3 DEF SendEnd
  <2>2. Append(requestQ, Frame("end")) \in Seq(RequestFrame)
    BY <1>0, Frames, RequestQueue
  <2> QED
    BY <1>0, <1>3, <2>1, <2>2, TypesClient DEF SendEnd
<1>4. ASSUME SendFails PROVE Types'
  BY <1>0, <1>4, RequestQueue, ResponseQueue, TypesClient DEF SendFails, clientVars
<1>5. ASSUME ReceiveHead PROVE Types'
  <2>1. /\ responseQ # <<>> /\ responseQ' = Tail(responseQ) /\ client = "waiting"
        /\ UNCHANGED <<call, upload, requestQ, serverVars>> /\ got' = got
    BY <1>5 DEF ReceiveHead, Receives
  <2>2. responseQ' \in Seq(ResponseFrame)
    BY <1>0, <2>1, ResponseQueue
  <2>3. responseQ[1] \in ResponseFrame /\ responseQ[1].kind = "head"
    BY <1>0, <1>5, <2>1, ResponseQueue DEF ReceiveHead, Receives
  <2>4. CASE responseQ[1].status \in Code \ {"Ok"}
    <3>1. client' = "done" /\ result' \in Code /\ http' = http
      BY <1>5, <2>4, Constants DEF ReceiveHead, Tell
    <3> QED
      BY <1>0, <2>1, <2>2, <3>1, TypesClient
  <2>5. CASE responseQ[1].status \notin Code \ {"Ok"}
    <3>1. client' \in {"message", "streaming"} /\ result' = result
          /\ http' \in {200, 503, NoStream}
      BY <1>5, <2>3, <2>5, FrameParts DEF ReceiveHead
    <3> QED
      BY <2>1, <2>2, <3>1, TypesReading
  <2> QED
    BY <2>4, <2>5
<1>6. ASSUME ReceiveMessage PROVE Types'
  <2>1. /\ responseQ # <<>> /\ responseQ' = Tail(responseQ)
        /\ client \in {"message", "streaming"} /\ client' \in {"trailers", "streaming"}
        /\ UNCHANGED <<call, upload, requestQ, serverVars, result>> /\ http' = http
        /\ got' = Append(got, Len(got) + 1)
    BY <1>6, FitsReceiveMessage DEF ReceiveMessage, Receives
  <2>2. responseQ' \in Seq(ResponseFrame)
    BY <1>0, <2>1, ResponseQueue
  <2>3. http \in {200, 503, NoStream}
    BY DEF IInv, Types
  <2> QED
    BY <2>1, <2>2, <2>3, TypesReading
<1>7. ASSUME ReceiveEnd PROVE Types'
  <2>1. /\ responseQ # <<>> /\ responseQ' = Tail(responseQ) /\ client # "done"
        /\ UNCHANGED <<call, upload, requestQ, serverVars, http, got>>
        /\ result' \in Code /\ client' = "done"
    BY <1>7, Codes DEF ReceiveEnd, Receives, Tell
  <2> QED
    BY <1>0, <2>1, ResponseQueue, TypesClient
<1>8. ASSUME ReceiveReset PROVE Types'
  <2>1. /\ responseQ # <<>> /\ responseQ' = Tail(responseQ) /\ client # "done"
        /\ UNCHANGED <<call, upload, requestQ, serverVars, http, got>>
        /\ result' \in Code /\ client' = "done"
    BY <1>8, Codes DEF ReceiveReset, Receives, Tell
  <2> QED
    BY <1>0, <2>1, ResponseQueue, TypesClient
<1>9. ASSUME ChannelTimesOut PROVE Types'
  BY <1>0, <1>9, Codes, RequestQueue, TypesClient DEF ChannelTimesOut, Tell
<1>10. ASSUME CallerCancels PROVE Types'
  BY <1>0, <1>10, RequestQueue, TypesClient DEF CallerCancels, Tell
<1>11. ASSUME ConnectionLost PROVE Types'
  BY <1>0, <1>11, RequestQueue, ResponseQueue, TypesClient DEF ConnectionLost, clientVars
<1>12. ASSUME ReceiveBroken PROVE Types'
  <2>1. /\ responseQ # <<>> /\ responseQ' = Tail(responseQ) /\ client # "done"
        /\ UNCHANGED <<call, upload, serverVars, http, got>>
        /\ requestQ' = WithReset(requestQ)
        /\ result' \in Code /\ client' = "done"
    BY <1>12, Codes DEF ReceiveBroken, Tell
  <2> QED
    BY <1>0, <2>1, RequestQueue, ResponseQueue, TypesClient
<1> QED
  BY <1>1, <1>2, <1>3, <1>4, <1>5, <1>6, <1>7, <1>8, <1>9, <1>10, <1>11, <1>12
     DEF Dispatch, Upload, ClientReads

LEMMA TypesServerStep ==
    ASSUME IInv, Serve \/ ProxyAnswers
    PROVE  Types'
<1>0. /\ Types /\ requestQ \in Seq(RequestFrame) /\ responseQ \in Seq(ResponseFrame)
      /\ server \in {"idle", "first", "rest", "service", "replying", "ended", "dropped"}
      /\ requestEnd \in {"yes", "no"} /\ called \in {None, "early", "whole"}
      /\ verdict \in Code \cup {None, NoStatus}
      /\ Failures \subseteq Code
  BY FailuresAssumption DEF IInv, Types, TypeOK
<1>1. ASSUME AcceptRequest PROVE Types'
  <2>1. /\ requestQ # <<>> /\ requestQ' = Tail(requestQ)
        /\ UNCHANGED <<call, clientVars, sent, requestEnd>>
    BY <1>1 DEF AcceptRequest
  <2>2. requestQ' \in Seq(RequestFrame)
    BY <1>0, <2>1, RequestQueue
  <2>3. ASSUME Refused, called' = called PROVE Types'
    <3>1. PICK code \in Code : TrailersOnly(code)
      BY <1>0, <2>3, Codes DEF Refused
    <3> QED
      BY <1>0, <2>1, <2>2, <2>3, <3>1, TrailersOnlyTypes, TypesServer
  <2>4. ASSUME ~Refused \/ called' # called PROVE Types'
    BY <1>0, <1>1, <2>1, <2>2, <2>4, TypesServer DEF AcceptRequest
  <2> QED
    BY <2>3, <2>4
<1>2. ASSUME ReadFirst PROVE Types'
  <2>1. /\ requestQ # <<>> /\ requestQ' = Tail(requestQ)
        /\ UNCHANGED <<call, clientVars, sent>>
        /\ requestEnd' \in {"yes", "no"}
    BY <1>0, <1>2 DEF ReadFirst, Reads
  <2>2. requestQ' \in Seq(RequestFrame)
    BY <1>0, <2>1, RequestQueue
  <2>3. ASSUME TrailersOnly("Internal"), called' = called PROVE Types'
    BY <1>0, <2>1, <2>2, <2>3, Codes, TrailersOnlyTypes, TypesServer
  <2> QED
    BY <1>0, <1>2, <2>1, <2>2, <2>3, TypesServer DEF ReadFirst
<1>3. ASSUME ReadRest PROVE Types'
  <2>1. /\ requestQ # <<>> /\ requestQ' = Tail(requestQ)
        /\ UNCHANGED <<call, clientVars, sent, verdict, responseQ>>
        /\ requestEnd' \in {"yes", "no"}
    BY <1>0, <1>3 DEF ReadRest, Reads
  <2> QED
    BY <1>0, <1>3, <2>1, RequestQueue, TypesServer DEF ReadRest
<1>4. ASSUME DropHandler PROVE Types'
  BY <1>0, <1>4, TypesServer DEF DropHandler
<1>5. ASSUME ServiceReads PROVE Types'
  <2>1. /\ requestQ # <<>> /\ requestQ' = Tail(requestQ)
        /\ UNCHANGED <<call, clientVars, sent, server, called, verdict, responseQ>>
        /\ requestEnd' \in {"yes", "no"}
    BY <1>0, <1>5 DEF ServiceReads, Reads
  <2> QED
    BY <1>0, <2>1, RequestQueue, TypesServer
<1>6. ASSUME ServiceReturns PROVE Types'
  <2>1. HeadFrame(NoStatus, 200) \in ResponseFrame
    BY Frames DEF HeaderStatus
  <2> QED
    BY <1>0, <1>6, <2>1, ResponseQueue, TypesServer DEF ServiceReturns, Respond
<1>7. ASSUME ServiceFails PROVE Types'
  <2>1. PICK code \in Code : TrailersOnly(code)
    BY <1>0, <1>7 DEF ServiceFails
  <2> QED
    BY <1>0, <1>7, <2>1, TrailersOnlyTypes, TypesServer DEF ServiceFails
<1>8. ASSUME ServerTimesOut PROVE Types'
  BY <1>0, <1>8, Codes, TrailersOnlyTypes, TypesServer DEF ServerTimesOut
<1>9. ASSUME Reply PROVE Types'
  BY <1>9, TypesReply
<1>10. ASSUME ReplyEnds PROVE Types'
  <2>1. PICK code \in Code :
            /\ verdict' = code /\ server' = "ended"
            /\ responseQ' = responseQ \o <<TrailersFrame(code)>>
    BY <1>0, <1>10, Codes DEF ReplyEnds, Respond
  <2>2. responseQ' \in Seq(ResponseFrame)
    BY <1>0, <2>1, Frames, ResponseQueue
  <2> QED
    BY <1>0, <1>10, <2>1, <2>2, TypesServer DEF ReplyEnds
<1>11. ASSUME ProxyAnswers PROVE Types'
  <2>1. PICK proxied \in {200, 503} :
            responseQ' = responseQ \o <<HeadFrame(NoStatus, proxied), Frame("end")>>
    BY <1>11 DEF ProxyAnswers, Respond
  <2>2. HeadFrame(NoStatus, proxied) \in ResponseFrame /\ Frame("end") \in ResponseFrame
    BY Frames DEF HeaderStatus
  <2>3. responseQ' \in Seq(ResponseFrame)
    BY <1>0, <2>1, <2>2, ResponseQueue
  <2> QED
    BY <1>0, <1>11, <2>3, TypesServer DEF ProxyAnswers
<1>12. ASSUME ReadBroken PROVE Types'
  <2>1. /\ requestQ # <<>> /\ requestQ' = Tail(requestQ)
        /\ UNCHANGED <<call, clientVars, sent, called>>
        /\ requestEnd' \in {"yes", "no"}
    BY <1>0, <1>12 DEF ReadBroken, Reads
  <2>2. requestQ' \in Seq(RequestFrame)
    BY <1>0, <2>1, RequestQueue
  <2>3. PICK code \in Code : TrailersOnly(code)
    BY <1>12, Codes DEF ReadBroken
  <2> QED
    BY <1>0, <2>1, <2>2, <2>3, TrailersOnlyTypes, TypesServer
<1> QED
  BY <1>1, <1>2, <1>3, <1>4, <1>5, <1>6, <1>7, <1>8, <1>9, <1>10, <1>11, <1>12
     DEF Serve, ServerStep
-----------------------------------------------------------------------------
(* No change of a queue makes up an end.                                   *)
LEMMA EndIsSent ==
    ASSUME NEW S, NEW q \in Seq(S), Reset \in S
    PROVE  /\ \A f \in S : HasEnd(Append(q, f)) => HasEnd(q) \/ f.kind = "end"
           /\ q # <<>> => (HasEnd(Tail(q)) => HasEnd(q)) /\ (q[1].kind = "end" => HasEnd(q))
           /\ HasEnd(WithReset(q)) => HasEnd(q)
           /\ \A n \in 0..Len(q) : HasEnd(Append(SubSeq(q, 1, n), Reset)) => HasEnd(q)
<1>1. Reset.kind # "end"
  BY DEF Reset, Frame
<1>2. ASSUME NEW f \in S, HasEnd(Append(q, f)) PROVE HasEnd(q) \/ f.kind = "end"
  <2>1. PICK i \in 1..(Len(q) + 1) : Append(q, f)[i].kind = "end"
    BY <1>2, Appended DEF HasEnd
  <2> QED
    BY <2>1, Appended DEF HasEnd
<1>3. ASSUME q # <<>>
      PROVE  (HasEnd(Tail(q)) => HasEnd(q)) /\ (q[1].kind = "end" => HasEnd(q))
  <2>1. /\ Len(q) \in Nat \ {0} /\ DOMAIN q = 1..Len(q)
        /\ DOMAIN Tail(q) = 1..(Len(q) - 1)
        /\ \A i \in 1..(Len(q) - 1) : Tail(q)[i] = q[i + 1] /\ i + 1 \in 1..Len(q)
    BY <1>3
  <2> QED
    BY <2>1 DEF HasEnd
<1>4. HasEnd(WithReset(q)) => HasEnd(q)
  BY <1>1, <1>2 DEF WithReset
<1>5. ASSUME NEW n \in 0..Len(q), HasEnd(Append(SubSeq(q, 1, n), Reset)) PROVE HasEnd(q)
  BY <1>1, <1>5, ReachableCut DEF HasEnd
<1> QED
  BY <1>2, <1>3, <1>4, <1>5

LEMMA RequestStep ==
    ASSUME IInv, Next
    PROVE  Prepared' /\ RequestUploaded'
<1>0. /\ Types /\ Prepared /\ RequestUploaded /\ Reset \in RequestFrame
      /\ requestQ \in Seq(RequestFrame) /\ call.requests \in Nat
      /\ upload \in 0..call.requests + 1 /\ called \in {None, "early", "whole"}
  BY CallFacts, Frames DEF IInv, Types, TypeOK
<1>1. ASSUME Upload PROVE Prepared' /\ RequestUploaded'
  <2>1. /\ UNCHANGED <<call, client, serverVars>> /\ client # "prepare"
        /\ upload = call.requests + 1 => upload' = upload
        /\ HasEnd(requestQ') => HasEnd(requestQ) \/ upload' = call.requests + 1
    <3>1. CASE SendMessage
      <4>1. Message(upload + 1) \in RequestFrame /\ Message(upload + 1).kind = "message"
        BY <1>0, Frames DEF Message
      <4> QED
        BY <1>0, <3>1, <4>1, EndIsSent DEF SendMessage, Uploading
    <3>2. CASE SendEnd
      BY <1>0, <3>2 DEF SendEnd, Uploading
    <3>3. CASE SendFails
      BY <1>0, <3>3, EndIsSent DEF SendFails, Uploading, clientVars
    <3> QED
      BY <1>1, <3>1, <3>2, <3>3 DEF Upload
  <2> QED
    BY <1>0, <2>1 DEF Prepared, RequestUploaded, serverVars, OneRequest
<1>2. ASSUME Dispatch \/ ConnectionLost PROVE Prepared' /\ RequestUploaded'
  <2>1. /\ UNCHANGED <<call, upload, serverVars>> /\ client' # "prepare"
        /\ HasEnd(requestQ') => HasEnd(requestQ)
    <3>1. CASE SendHead
      <4>1. Frame("head") \in RequestFrame /\ Frame("head").kind = "head"
        BY Frames DEF Frame
      <4>2. requestQ' = requestQ \/ requestQ' = Append(requestQ, Frame("head"))
        BY <3>1 DEF SendHead
      <4>3. HasEnd(requestQ') => HasEnd(requestQ)
        <5>1. HasEnd(Append(requestQ, Frame("head"))) => HasEnd(requestQ)
          BY <1>0, <4>1, EndIsSent
        <5> QED
          BY <4>2, <5>1
      <4>4. UNCHANGED <<call, upload, serverVars>> /\ client' # "prepare"
        BY <3>1 DEF SendHead, Tell
      <4> QED
        BY <4>3, <4>4
    <3>2. CASE ClientReads /\ ~ReceiveBroken
      <4>1. UNCHANGED <<call, upload, requestQ, serverVars>>
        BY <3>2 DEF ClientReads, ReceiveHead, ReceiveMessage, ReceiveEnd, ReceiveReset, Receives
      <4>2. client' # "prepare"
        BY <3>2 DEF ClientReads, ReceiveHead, ReceiveMessage, ReceiveEnd, ReceiveReset, Tell
      <4> QED
        BY <4>1, <4>2
    <3>3. CASE ChannelTimesOut
      BY <1>0, <3>3, EndIsSent DEF ChannelTimesOut, Tell
    <3>4. CASE CallerCancels
      BY <1>0, <3>4, EndIsSent DEF CallerCancels, Tell
    <3>5. CASE ConnectionLost
      BY <1>0, <3>5, EndIsSent DEF ConnectionLost, clientVars
    <3>6. CASE ReceiveBroken
      BY <1>0, <3>6, EndIsSent DEF ReceiveBroken, Tell
    <3> QED
      BY <1>2, <3>1, <3>2, <3>3, <3>4, <3>5, <3>6 DEF Dispatch
  <2> QED
    BY <1>0, <2>1 DEF Prepared, RequestUploaded, serverVars, OneRequest
<1>3. ASSUME Serve \/ ProxyAnswers PROVE Prepared' /\ RequestUploaded'
  <2>1. UNCHANGED <<call, clientVars>>
    BY <1>3 DEF Serve, ServerStep, AcceptRequest, ReadFirst, ReadRest, ReadBroken, Reads,
       ServiceReads,
       ServiceReturns, ServiceFails, ServerTimesOut, Reply, ReplyEnds, DropHandler, ProxyAnswers
  <2>2. \/ requestQ' = requestQ
        \/ requestQ # <<>> /\ requestQ' = Tail(requestQ)
    BY <1>3 DEF Serve, ServerStep, AcceptRequest, ReadFirst, ReadRest, ReadBroken, Reads,
       ServiceReads,
       ServiceReturns, ServiceFails, ServerTimesOut, Reply, ReplyEnds, DropHandler, ProxyAnswers
  <2>3. HasEnd(requestQ') => HasEnd(requestQ)
    BY <1>0, <2>2, EndIsSent
  <2>4. server = "idle" => requestQ # <<>>
    <3>1. Reset.kind = "reset" /\ (IsReset(requestQ) => requestQ # <<>>)
      BY DEF Reset, Frame, IsReset
    <3> QED
      BY <1>3, <3>1 DEF Serve, ServerStep, AcceptRequest, ReadFirst, ReadRest, ReadBroken,
         ServiceReads,
         ServiceReturns, ServiceFails, ServerTimesOut, Reply, ReplyEnds, DropHandler, ProxyAnswers
  <2>5. Prepared'
    BY <1>0, <1>3, <2>1, <2>4 DEF Prepared, clientVars, Serve, ServerStep
  <2>6. /\ called' # called =>
               \/ called' = "early" /\ ~OneRequest
               \/ called' = "whole" /\ HasEnd(requestQ)
        /\ server' \in {"idle", "first", "rest"} => called' = None
        /\ server' \in {"first", "rest"} => OneRequest
    <3>1. /\ server \in {"idle", "first", "rest"} => called = None
          /\ server \in {"first", "rest"} => OneRequest
      BY <1>0 DEF RequestUploaded
    <3>2. CASE AcceptRequest
      BY <3>1, <3>2 DEF AcceptRequest, Refused, TrailersOnly
    <3>3. CASE ReadFirst
      BY <3>1, <3>3 DEF ReadFirst, TrailersOnly
    <3>4. CASE ReadRest
      <4>1. ASSUME Reads("end") PROVE HasEnd(requestQ)
        BY <1>0, <4>1, EndIsSent DEF Reads
      <4> QED
        BY <3>1, <3>4, <4>1 DEF ReadRest
    <3>5. CASE DropHandler \/ ServiceReads \/ ServiceReturns \/ Reply \/ ProxyAnswers
      BY <3>1, <3>5 DEF DropHandler, ServiceReads, ServiceReturns, Reply, ProxyAnswers
    <3>6. CASE ReadBroken \/ ServiceFails \/ ServerTimesOut \/ ReplyEnds
      BY <3>1, <3>6 DEF ReadBroken, ServiceFails, ServerTimesOut, ReplyEnds, TrailersOnly
    <3> QED
      BY <1>3, <3>2, <3>3, <3>4, <3>5, <3>6 DEF Serve, ServerStep
  <2>7. upload' = upload /\ OneRequest' = OneRequest /\ call' = call
    BY <2>1 DEF clientVars, OneRequest
  <2> QED
    BY <1>0, <2>3, <2>5, <2>6, <2>7 DEF RequestUploaded
<1> QED
  BY <1>1, <1>2, <1>3 DEF Next
-----------------------------------------------------------------------------
LEMMA FitsClientStep ==
    ASSUME IInv, Dispatch \/ Upload \/ ConnectionLost
    PROVE  Fits'
<1>1. CASE SendHead
  <2>1. UNCHANGED <<call, serverVars, responseQ, http, got>>
    BY <1>1 DEF SendHead
  <2>2. ASSUME Tell("Internal") PROVE Fits'
    BY <2>1, <2>2, FitsTold DEF Tell
  <2>3. ASSUME ~Tell("Internal") PROVE Fits'
    <3>1. client = "prepare" /\ client' = "waiting" /\ result' = result
      BY <1>1, <2>3 DEF SendHead
    <3>2. UNCHANGED <<server, called, verdict, sent>>
      BY <2>1 DEF serverVars
    <3>3. server = "idle"
      BY <3>1 DEF IInv, Prepared
    <3> QED
      BY <2>1, <3>1, <3>2, <3>3, FitsQuiet
  <2> QED
    BY <2>2, <2>3
<1>2. CASE SendMessage \/ SendEnd
  <2>1. UNCHANGED <<call, client, result, serverVars, responseQ, http, got>>
    BY <1>2 DEF SendMessage, SendEnd
  <2>2. UNCHANGED <<server, called, verdict, sent>>
    BY <2>1 DEF serverVars
  <2>3. server = "service" => called # None
    BY DEF IInv, ServerSide
  <2> QED
    BY <2>1, <2>2, <2>3, FitsQuiet
<1>3. CASE SendFails
  <2>1. PICK n \in 0..Len(responseQ) : responseQ' = Append(SubSeq(responseQ, 1, n), Reset)
    BY <1>3 DEF SendFails
  <2> QED
    BY <1>3, <2>1, FitsCut DEF SendFails
<1>4. CASE ConnectionLost
  <2>1. PICK n \in 0..Len(responseQ) : responseQ' = Append(SubSeq(responseQ, 1, n), Reset)
    BY <1>4 DEF ConnectionLost
  <2> QED
    BY <1>4, <2>1, FitsCut DEF ConnectionLost
<1>5. CASE ReceiveReset
  BY <1>5, Codes, FitsTold DEF ReceiveReset, Receives, Tell
<1>6. CASE ChannelTimesOut \/ CallerCancels
  BY <1>6, FitsTold DEF ChannelTimesOut, CallerCancels, Tell
<1>7. CASE ReceiveBroken
  BY <1>7, Codes, FitsTold DEF ReceiveBroken, Tell
<1> QED
  BY <1>1, <1>2, <1>3, <1>4, <1>5, <1>6, <1>7, FitsReceiveHead, FitsReceiveMessage, FitsReceiveEnd
     DEF Dispatch, Upload, ClientReads

LEMMA FitsServerStep ==
    ASSUME IInv, Serve \/ ProxyAnswers
    PROVE  Fits'
<1>0. /\ Failures \subseteq Code
      /\ server = "service" => called # None
  BY FailuresAssumption DEF IInv, ServerSide
<1>1. CASE AcceptRequest
  <2>1. UNCHANGED <<call, clientVars, requestEnd, sent>> /\ server \in Early
    BY <1>1 DEF AcceptRequest, Early
  <2>2. ASSUME Refused, called' = called PROVE Fits'
    <3>1. PICK code \in Code : TrailersOnly(code)
      BY <1>0, <2>2, Codes DEF Refused
    <3> QED
      BY <2>1, <2>2, <3>1, FitsTrailersOnly
  <2>3. ASSUME ~Refused \/ called' # called PROVE Fits'
    <3>1. /\ server' \in Early /\ UNCHANGED <<verdict, responseQ>>
          /\ server' = "service" => called' # None
          /\ called # None => called' # None
      BY <1>1, <2>3 DEF AcceptRequest, Early, None
    <3> QED
      BY <2>1, <3>1, FitsQuiet DEF clientVars
  <2> QED
    BY <2>2, <2>3
<1>2. CASE ReadFirst
  <2>1. UNCHANGED <<call, clientVars, sent, called>> /\ server \in Early
    BY <1>2 DEF ReadFirst, Reads, Early
  <2>2. ASSUME TrailersOnly("Internal") PROVE Fits'
    BY <2>1, <2>2, Codes, FitsTrailersOnly
  <2>3. ASSUME ~TrailersOnly("Internal") PROVE Fits'
    <3>1. server' = "rest" /\ UNCHANGED <<verdict, responseQ>> /\ server' \in Early
      BY <1>2, <2>3 DEF ReadFirst, Early
    <3> QED
      BY <2>1, <3>1, FitsQuiet DEF clientVars
  <2> QED
    BY <2>2, <2>3
<1>3. CASE ReadRest
  <2>1. /\ UNCHANGED <<call, clientVars, sent, verdict, responseQ>>
        /\ server \in Early /\ server' \in Early
        /\ server' = "service" => called' # None
        /\ called # None => called' # None
    BY <1>3 DEF ReadRest, Reads, Early, None
  <2> QED
    BY <2>1, FitsQuiet DEF clientVars
<1>4. CASE DropHandler
  <2>1. /\ UNCHANGED <<call, clientVars, sent, called, verdict, responseQ>>
        /\ server \in Early \cup {"replying"} /\ server' = "dropped"
    BY <1>4 DEF DropHandler, Active, Early
  <2> QED
    BY <2>1, FitsQuiet DEF clientVars
<1>5. CASE ServiceReads
  <2>1. UNCHANGED <<call, clientVars, sent, server, called, verdict, responseQ>>
    BY <1>5 DEF ServiceReads, Reads
  <2> QED
    BY <1>0, <2>1, FitsQuiet DEF clientVars
<1>6. CASE ServiceFails
  <2>1. PICK code \in Code : TrailersOnly(code)
    BY <1>0, <1>6 DEF ServiceFails
  <2> QED
    BY <1>6, <2>1, FitsTrailersOnly DEF ServiceFails, Early
<1>7. CASE ServerTimesOut
  BY <1>7, Codes, FitsTrailersOnly DEF ServerTimesOut, Early
<1>8. CASE ReadBroken
  <2>1. UNCHANGED <<call, clientVars, sent, called>> /\ server \in Early
    BY <1>8 DEF ReadBroken, Reads, Early
  <2>2. PICK code \in Code : TrailersOnly(code)
    BY <1>8, Codes DEF ReadBroken
  <2> QED
    BY <2>1, <2>2, FitsTrailersOnly
<1> QED
  BY <1>1, <1>2, <1>3, <1>4, <1>5, <1>6, <1>7, <1>8,
     FitsServiceReturns, FitsReply, FitsReplyEnds, FitsProxyAnswers DEF Serve, ServerStep

LEMMA NextInv ==
    ASSUME IInv, [Next]_vars
    PROVE  IInv'
<1>1. CASE Next
  <2>1. Types'
    BY <1>1, TypesClientStep, TypesServerStep DEF Next
  <2>2. Fits'
    BY <1>1, FitsClientStep, FitsServerStep DEF Next
  <2>3. Prepared' /\ RequestUploaded'
    BY <1>1, RequestStep
  <2> QED
    BY <2>1, <2>2, <2>3 DEF IInv, Fits
<1>2. CASE UNCHANGED vars
  <2>1. UNCHANGED <<call, client, upload, http, got, result, requestQ, server, requestEnd,
                    called, verdict, sent, responseQ, clientVars, serverVars>>
    BY <1>2 DEF vars, clientVars, serverVars
  <2>2. Types'
    <3>1. /\ Types /\ requestQ \in Seq(RequestFrame) /\ responseQ \in Seq(ResponseFrame)
          /\ upload \in 0..call.requests + 1
      BY DEF IInv, Types, TypeOK
    <3> QED
      BY <2>1, <3>1, TypesClient
  <2>3. Prepared' /\ RequestUploaded'
    BY <2>1 DEF IInv, Prepared, RequestUploaded, HasEnd, OneRequest
  <2>4. Fits'
    <3>1. server = "service" => called # None
      BY DEF IInv, ServerSide
    <3> QED
      BY <2>1, <3>1, FitsQuiet
  <2> QED
    BY <2>2, <2>3, <2>4 DEF IInv, Fits
<1> QED
  BY <1>1, <1>2

LEMMA InvariantHolds == Spec => []IInv
BY InitInv, NextInv, PTL DEF Spec

(* No service acts on half a request and no caller takes half a reply for  *)
(* a success, whatever the calls, the failures of the services and the     *)
(* number of replies (grpc-server/src/grpc.rs:178-212,                     *)
(* grpc-client/src/grpc.rs:155-168).                                       *)
THEOREM CallIsSound == Spec => []CallInv
<1>1. ASSUME IInv PROVE CallInv
  <2>1. TypeOK /\ SingleReplyIsComplete
    BY <1>1 DEF IInv, Types
  <2>2. CalledWithWholeRequest
    BY <1>1, <2>1 DEF IInv, RequestUploaded, CalledWithWholeRequest, TypeOK
  <2> QED
    BY <2>1, <2>2 DEF CallInv
<1> QED
  BY <1>1, InvariantHolds, PTL
-----------------------------------------------------------------------------
LEMMA SeqIsFunction ==
    ASSUME NEW s \in Seq(Nat)
    PROVE  DOMAIN s = 1..Len(s) /\ s = [i \in DOMAIN s |-> s[i]]
OBVIOUS

Locals == TransportCode \cup DecodeFailure \cup {"DeadlineExceeded", "cancelled by caller"}

(* The caller is told something.                                           *)
LEMMA Finishes ==
    ASSUME IInv, client # "done", UNCHANGED <<sent, verdict, got>>,
           result' \in Locals \cup {Abstract!Outcome},
           result' # None, result' = "Ok" => Len(got) = Len(sent)
    PROVE  Abstract!Finish
<1>1. result = None
  BY DEF IInv, Types, TypeOK
<1>2. got = sent \/ Len(got) # Len(sent)
  <2>1. /\ got \in Seq(Nat) /\ \A i \in DOMAIN got : got[i] = i
        /\ sent \in Seq(Nat) /\ \A i \in DOMAIN sent : sent[i] = i
    BY DEF IInv, Types, TypeOK, ServerSide
  <2>2. /\ DOMAIN got = 1..Len(got) /\ got = [i \in DOMAIN got |-> got[i]]
        /\ DOMAIN sent = 1..Len(sent) /\ sent = [i \in DOMAIN sent |-> sent[i]]
    BY <2>1, SeqIsFunction
  <2>3. got = [i \in 1..Len(got) |-> i]
    BY <2>1, <2>2, Zenon
  <2>4. sent = [i \in 1..Len(sent) |-> i]
    BY <2>1, <2>2, Zenon
  <2> QED
    BY <2>3, <2>4, Zenon
<1> QED
  BY <1>1, <1>2 DEF Abstract!Finish, Abstract!Undecided, None, Locals

LEMMA Decides ==
    ASSUME IInv, server \notin {"ended", "dropped"}, verdict' \in Code,
           UNCHANGED <<sent, got, result>>
    PROVE  Abstract!Decide
BY DEF IInv, ServerSide, Abstract!Decide, Abstract!Undecided, None

LEMMA ClientImplements ==
    ASSUME IInv, Dispatch \/ Upload \/ ConnectionLost
    PROVE  [Abstract!Next]_Abstract!vars
<1>0. \A code \in Locals :
          code # None /\ code # "Ok"
  BY DEF Locals, TransportCode, DecodeFailure, None
<1> DEFINE Same == UNCHANGED <<sent, verdict, got>>
<1>1. ASSUME client # "done", Same,
             result' \in Locals
      PROVE  Abstract!Finish
  BY <1>0, <1>1, Finishes
<1>2. CASE Upload \/ ConnectionLost
  <2>1. UNCHANGED <<sent, verdict, got, result>>
    BY <1>2 DEF Upload, SendMessage, SendEnd, SendFails, ConnectionLost, serverVars, clientVars
  <2> QED
    BY <2>1 DEF Abstract!vars
<1>3. CASE SendHead
  <2>1. Same /\ client # "done" /\ (result' = "Internal" \/ result' = result)
    BY <1>3 DEF SendHead, serverVars, Tell
  <2> QED
    BY <1>1, <2>1 DEF Abstract!Next, Abstract!vars, Locals, TransportCode
<1>4. CASE ReceiveHead
  <2>1. Same /\ client # "done"
    BY <1>4 DEF ReceiveHead, Receives, serverVars
  <2>2. CASE result' = result
    BY <2>1, <2>2 DEF Abstract!vars
  <2>3. CASE result' = verdict /\ verdict \in Code \ {"Ok"}
    BY <2>1, <2>3, Constants, Finishes DEF Abstract!Next, Abstract!Outcome
  <2> QED
    BY <1>4, <2>2, <2>3, FitsReceiveHead
<1>5. CASE ReceiveMessage
  <2>1. /\ UNCHANGED <<sent, verdict>> /\ result' = result
        /\ got' = Append(got, Len(got) + 1) /\ Len(got) + 1 <= Len(sent)
        /\ client \in {"message", "streaming"}
    BY <1>5, FitsReceiveMessage DEF ReceiveMessage, Receives, serverVars
  <2>2. sent[Len(got) + 1] = Len(got) + 1 /\ Len(got) < Len(sent)
    <3>1. /\ Len(got) \in Nat /\ Len(sent) \in Nat /\ sent \in Seq(Nat)
          /\ \A i \in DOMAIN sent : sent[i] = i
      BY DEF IInv, Types, ServerSide
    <3> QED
      BY <2>1, <3>1
  <2>3. result = None
    BY <2>1 DEF IInv, Types, TypeOK
  <2> QED
    BY <2>1, <2>2, <2>3 DEF Abstract!Next, Abstract!Receive, Abstract!Undecided, None
<1>6. CASE ReceiveEnd
  <2>1. Same /\ client # "done"
    BY <1>6 DEF ReceiveEnd, Receives, serverVars
  <2> QED
    BY <1>6, <2>1, FitsReceiveEnd, Finishes DEF Abstract!Next, Locals
<1>7. CASE ReceiveReset
  BY <1>1, <1>7 DEF ReceiveReset, Receives, Tell, serverVars, Abstract!Next, Locals
<1>8. CASE ChannelTimesOut \/ CallerCancels
  BY <1>1, <1>8 DEF ChannelTimesOut, CallerCancels, Tell, serverVars, Abstract!Next, Locals
<1>9. CASE ReceiveBroken
  BY <1>1, <1>9 DEF ReceiveBroken, Tell, serverVars, Abstract!Next, Locals
<1> QED
  BY <1>2, <1>3, <1>4, <1>5, <1>6, <1>7, <1>8, <1>9 DEF Dispatch, ClientReads

LEMMA ServerImplements ==
    ASSUME IInv, Serve \/ ProxyAnswers
    PROVE  [Abstract!Next]_Abstract!vars
<1>0. Failures \subseteq Code
  BY FailuresAssumption
<1>1. got' = got /\ result' = result
  BY DEF Serve, ServerStep, AcceptRequest, ReadFirst, ReadRest, ReadBroken, Reads,
       ServiceReads,
     ServiceReturns, ServiceFails, ServerTimesOut, Reply, ReplyEnds, DropHandler, ProxyAnswers,
     clientVars
<1>2. ASSUME server \notin {"ended", "dropped"}, NEW code \in Code, TrailersOnly(code), sent' = sent
      PROVE  Abstract!Next
  BY <1>1, <1>2, Decides DEF TrailersOnly, Abstract!Next
<1>3. CASE AcceptRequest
  <2>1. server = "idle" /\ sent' = sent
    BY <1>3 DEF AcceptRequest
  <2>2. ASSUME Refused PROVE Abstract!Next
    BY <1>0, <1>2, <2>1, <2>2, Codes DEF Refused
  <2>3. ASSUME ~Refused PROVE UNCHANGED Abstract!vars
    BY <1>1, <1>3, <2>1, <2>3 DEF AcceptRequest, Abstract!vars
  <2> QED
    BY <2>2, <2>3
<1>4. CASE ReadFirst
  <2>1. server = "first" /\ sent' = sent
    BY <1>4 DEF ReadFirst, Reads
  <2>2. ASSUME TrailersOnly("Internal") PROVE Abstract!Next
    BY <1>2, <2>1, <2>2, Codes
  <2>3. ASSUME ~TrailersOnly("Internal") PROVE UNCHANGED Abstract!vars
    BY <1>1, <1>4, <2>1, <2>3 DEF ReadFirst, Abstract!vars
  <2> QED
    BY <2>2, <2>3
<1>5. CASE ReadRest \/ DropHandler \/ ServiceReads \/ ServiceReturns
  <2>1. UNCHANGED <<sent, verdict>>
    BY <1>5 DEF ReadRest, DropHandler, ServiceReads, Reads, ServiceReturns
  <2> QED
    BY <1>1, <2>1 DEF Abstract!vars
<1>6. CASE ReadBroken \/ ServiceFails \/ ServerTimesOut
  <2>1. server \notin {"ended", "dropped"} /\ sent' = sent
    BY <1>6 DEF ReadBroken, Reads, ServiceFails, ServerTimesOut
  <2>2. \E code \in Code : TrailersOnly(code)
    BY <1>0, <1>6, Codes DEF ReadBroken, ServiceFails, ServerTimesOut
  <2> QED
    BY <1>2, <2>1, <2>2
<1>7. CASE Reply
  <2>1. server = "replying" /\ sent' = Append(sent, Len(sent) + 1) /\ verdict' = verdict
    BY <1>7 DEF Reply
  <2>2. verdict = None
    BY <2>1 DEF IInv, ServerSide
  <2> QED
    BY <1>1, <2>1, <2>2 DEF Abstract!Next, Abstract!Send, Abstract!Undecided, None
<1>8. CASE ReplyEnds
  <2>1. server \notin {"ended", "dropped"} /\ sent' = sent /\ verdict' \in Code
    BY <1>0, <1>8, Codes DEF ReplyEnds
  <2> QED
    BY <1>1, <2>1, Decides DEF Abstract!Next
<1>9. CASE ProxyAnswers
  <2>1. server = "idle" /\ sent' = sent /\ verdict' = NoStatus
    BY <1>9 DEF ProxyAnswers
  <2>2. verdict = None /\ sent = <<>>
    BY <2>1 DEF IInv, ServerSide, Early
  <2> QED
    BY <1>1, <2>1, <2>2 DEF Abstract!Next, Abstract!Intercept, Abstract!Undecided, None
<1> QED
  BY <1>3, <1>4, <1>5, <1>6, <1>7, <1>8, <1>9 DEF Serve, ServerStep

(* The caller of any of the four patterns is told the truth, under every   *)
(* order of timers, resets and answers: each step of the two ends is one   *)
(* of `Call` or is not seen by the caller (grpc-client/src/grpc.rs:150-168,*)
(* 289-331).                                                               *)
THEOREM CallIsHonest == Spec => ImplementsCall
<1>1. Init => Abstract!Init
  BY DEF Init, Abstract!Init, Abstract!Undecided, None
<1>2. IInv /\ [Next]_vars => [Abstract!Next]_Abstract!vars
  <2>1. ASSUME IInv, Next PROVE [Abstract!Next]_Abstract!vars
    BY <2>1, ClientImplements, ServerImplements DEF Next
  <2>2. ASSUME UNCHANGED vars PROVE UNCHANGED Abstract!vars
    BY <2>2 DEF vars, serverVars, clientVars, Abstract!vars
  <2> QED
    BY <2>1, <2>2
<1> QED
  BY <1>1, <1>2, InvariantHolds, PTL DEF Spec, ImplementsCall, Abstract!Spec
-----------------------------------------------------------------------------
(* Header maps: what inserting and merging leave.                          *)
LEMMA InsertDomain ==
    \A map, name, value : DOMAIN Insert(map, name, value) = DOMAIN map \cup {name}
BY DEF Insert

(* A map has these values, all of them, under a name.                      *)
Holds(map, name, values) == Has(map, name) /\ map[name] = values

(* What is inserted is there, alone, and nothing else is disturbed.        *)
LEMMA InsertHolds ==
    \A map, name, value : Holds(Insert(map, name, value), name, <<value>>)
BY DEF Insert, Holds, Has

LEMMA InsertKeeps ==
    \A map, name, value, n, v :
        Holds(map, n, v) /\ n # name => Holds(Insert(map, name, value), n, v)
BY DEF Insert, Holds, Has

(* The value of a name that has one.                                       *)
LEMMA HoldsGet ==
    \A map, name, value : Holds(map, name, <<value>>) => Has(map, name) /\ Get(map, name) = value
BY DEF Holds, Get

(* A map that is merged wins where both have a name.                       *)
LEMMA MergeDomain ==
    \A map, other : DOMAIN Merge(map, other) = DOMAIN map \cup DOMAIN other
BY DEF Merge

LEMMA MergeHolds ==
    \A map, other, n, v : Holds(other, n, v) => Holds(Merge(map, other), n, v)
BY DEF Merge, Holds, Has

LEMMA MergeKeeps ==
    \A map, other, n, v :
        Holds(map, n, v) /\ ~Has(other, n) => Holds(Merge(map, other), n, v)
BY DEF Merge, Holds, Has

(* What is sanitized loses the names of the protocol, and nothing else.    *)
LEMMA SanitizedDomain ==
    \A map : DOMAIN IntoSanitized(map) = DOMAIN map \ Reserved
BY DEF IntoSanitized, Restrict

LEMMA SanitizedHolds ==
    \A map : \A n \in DOMAIN map \ Reserved : Holds(IntoSanitized(map), n, map[n])
BY DEF IntoSanitized, Restrict, Holds, Has

(* Of several values of one name the last is kept.                         *)
LEMMA LastsDomain ==
    \A map : DOMAIN LastValues(map) = DOMAIN map
BY DEF LastValues

LEMMA LastsHolds ==
    \A map, n, v : Holds(map, n, v) => Holds(LastValues(map), n, <<Last(v)>>)
BY DEF LastValues, Holds, Has

(* Metadata written into a map leaves the map's names, and has its own.    *)
LEMMA ExtendDomain ==
    \A map, target :
        DOMAIN ExtendSanitizedInto(map, target) = DOMAIN target \cup (DOMAIN map \ Reserved)
<1> TAKE map, target
<1> DEFINE clean == IntoSanitized(map)
           lasts == LastValues(clean)
<1>1. DOMAIN clean = DOMAIN map \ Reserved
  BY SanitizedDomain
<1>2. DOMAIN lasts = DOMAIN clean
  BY LastsDomain
<1>3. DOMAIN Merge(target, lasts) = DOMAIN target \cup DOMAIN lasts
  BY MergeDomain
<1>4. ExtendSanitizedInto(map, target) = Merge(target, lasts)
  BY DEF ExtendSanitizedInto
<1> HIDE DEF clean, lasts
<1> QED
  BY <1>1, <1>2, <1>3, <1>4

(* And its values arrive, the last of each name.                           *)
LEMMA ExtendHolds ==
    \A map, target : \A n \in DOMAIN map \ Reserved :
        Holds(ExtendSanitizedInto(map, target), n, <<Last(map[n])>>)
<1> TAKE map, target
<1> TAKE n \in DOMAIN map \ Reserved
<1> DEFINE clean == IntoSanitized(map)
           lasts == LastValues(clean)
<1>1. Holds(clean, n, map[n])
  BY SanitizedHolds
<1>2. Holds(lasts, n, <<Last(map[n])>>)
  BY <1>1, LastsHolds
<1>3. ExtendSanitizedInto(map, target) = Merge(target, lasts)
  BY DEF ExtendSanitizedInto
<1> HIDE DEF clean, lasts
<1> QED
  BY <1>2, <1>3, MergeHolds

(* A status in a header map.  The names of the protocol win over those of  *)
(* the application's metadata.                                             *)
Own(status) == DOMAIN status.metadata \ Reserved

LEMMA AddHeaderNames ==
    \A status, target : LET map == AddHeader(status, target)
        IN  /\ Has(map, "grpc-status")
            /\ DOMAIN target \cap StatusNames = {} =>
                   /\ DOMAIN map \ StatusNames = DOMAIN target \cup Own(status)
                   /\ Has(map, "grpc-message") <=> status.message # ""
                   /\ Has(map, "grpc-status-details-bin") <=> status.details # <<>>
<1> TAKE status, target
<1> DEFINE map == ExtendSanitizedInto(status.metadata, target)
           coded == Insert(map, "grpc-status", <<status.code>>)
           messaged == Insert(coded, "grpc-message", <<status.message>>)
           named == IF status.message = "" THEN coded ELSE messaged
           detailed == Insert(named, "grpc-status-details-bin", status.details)
           all == IF status.details = <<>> THEN named ELSE detailed
<1>1. AddHeader(status, target) = all
  BY DEF AddHeader
<1>2. DOMAIN map = DOMAIN target \cup Own(status)
  BY ExtendDomain DEF Own
<1> HIDE DEF map
<1>3. DOMAIN coded = DOMAIN map \cup {"grpc-status"}
  BY InsertDomain
<1> HIDE DEF coded
<1>4. DOMAIN messaged = DOMAIN coded \cup {"grpc-message"}
  BY InsertDomain
<1> HIDE DEF messaged
<1>5. DOMAIN detailed = DOMAIN named \cup {"grpc-status-details-bin"}
  BY InsertDomain
<1> HIDE DEF detailed
<1>6. Own(status) \cap StatusNames = {}
  BY DEF Own, Reserved, StatusNames
<1>7. Has(all, "grpc-status")
  BY <1>3, <1>4, <1>5 DEF Has
<1> SUFFICES ASSUME DOMAIN target \cap StatusNames = {}
             PROVE  /\ DOMAIN all \ StatusNames = DOMAIN target \cup Own(status)
                    /\ Has(all, "grpc-message") <=> status.message # ""
                    /\ Has(all, "grpc-status-details-bin") <=> status.details # <<>>
  BY <1>1, <1>7
<1>8. DOMAIN map \cap StatusNames = {}
  BY <1>2, <1>6
<1>9. DOMAIN all \ StatusNames = DOMAIN map
  BY <1>3, <1>4, <1>5, <1>8 DEF StatusNames
<1>10. Has(all, "grpc-message") <=> status.message # ""
  BY <1>3, <1>4, <1>5, <1>8 DEF StatusNames, Has
<1>11. Has(all, "grpc-status-details-bin") <=> status.details # <<>>
  BY <1>3, <1>4, <1>5, <1>8 DEF StatusNames, Has
<1> QED
  BY <1>2, <1>9, <1>10, <1>11

(* The values of a status in the map it is written into.                   *)
LEMMA AddHeaderHolds ==
    \A status, target : LET map == AddHeader(status, target)
        IN  /\ Holds(map, "grpc-status", <<<<status.code>>>>)
            /\ status.message # "" => Holds(map, "grpc-message", <<<<status.message>>>>)
            /\ status.details # <<>> =>
                   Holds(map, "grpc-status-details-bin", <<status.details>>)
            /\ \A n \in Own(status) : Holds(map, n, <<Last(status.metadata[n])>>)
<1> TAKE status, target
<1> DEFINE map == ExtendSanitizedInto(status.metadata, target)
           coded == Insert(map, "grpc-status", <<status.code>>)
           messaged == Insert(coded, "grpc-message", <<status.message>>)
           named == IF status.message = "" THEN coded ELSE messaged
           detailed == Insert(named, "grpc-status-details-bin", status.details)
           all == IF status.details = <<>> THEN named ELSE detailed
<1>1. AddHeader(status, target) = all
  BY DEF AddHeader
<1>2. Holds(coded, "grpc-status", <<<<status.code>>>>)
  BY InsertHolds
<1>3. Holds(messaged, "grpc-message", <<<<status.message>>>>)
  BY InsertHolds
<1>4. Holds(detailed, "grpc-status-details-bin", <<status.details>>)
  BY InsertHolds
<1>5. \A n, v : Holds(map, n, v) /\ n # "grpc-status" => Holds(coded, n, v)
  <2> HIDE DEF map
  <2> QED
    BY InsertKeeps
<1>6. \A n, v : Holds(coded, n, v) /\ n # "grpc-message" => Holds(messaged, n, v)
  <2> HIDE DEF coded
  <2> QED
    BY InsertKeeps
<1>7. \A n, v : Holds(named, n, v) /\ n # "grpc-status-details-bin" => Holds(detailed, n, v)
  <2> HIDE DEF named
  <2> QED
    BY InsertKeeps
<1>8. \A n \in Own(status) : /\ Holds(map, n, <<Last(status.metadata[n])>>)
                             /\ n \notin StatusNames
  BY ExtendHolds DEF Own, Reserved, StatusNames
<1> HIDE DEF map, coded, messaged, detailed
<1>9. Holds(all, "grpc-status", <<<<status.code>>>>)
  BY <1>2, <1>6, <1>7
<1>10. status.message # "" => Holds(all, "grpc-message", <<<<status.message>>>>)
  BY <1>3, <1>7
<1>11. status.details # <<>> => Holds(all, "grpc-status-details-bin", <<status.details>>)
  BY <1>4
<1>12. ASSUME NEW n \in Own(status) PROVE Holds(all, n, <<Last(status.metadata[n])>>)
  <2>1. n # "grpc-status" /\ n # "grpc-message" /\ n # "grpc-status-details-bin"
    BY <1>8 DEF StatusNames
  <2>2. Holds(coded, n, <<Last(status.metadata[n])>>)
    BY <1>5, <1>8, <2>1
  <2>3. Holds(named, n, <<Last(status.metadata[n])>>)
    BY <1>6, <2>1, <2>2
  <2> QED
    BY <1>7, <2>1, <2>3
<1> QED
  BY <1>1, <1>9, <1>10, <1>11, <1>12

(* What AddHeader writes, FromHeaderMap reads.                             *)
LEMMA RoundTrip ==
    \A status, target :
        /\ DOMAIN target \cap StatusNames = {}
        /\ status.code \in Code /\ status.message # NotUtf8 /\ status.details # NotBase64
        => LET read == FromHeaderMap(AddHeader(status, target))
           IN  /\ read = Status(status.code, status.message, status.details, read.metadata)
               /\ DOMAIN read.metadata = DOMAIN target \cup Own(status)
               /\ \A n \in Own(status) : read.metadata[n] = <<Last(status.metadata[n])>>
<1> SUFFICES ASSUME NEW status, NEW target, DOMAIN target \cap StatusNames = {},
                    status.code \in Code, status.message # NotUtf8, status.details # NotBase64
             PROVE  LET read == FromHeaderMap(AddHeader(status, target))
                    IN  /\ read = Status(status.code, status.message, status.details, read.metadata)
                        /\ DOMAIN read.metadata = DOMAIN target \cup Own(status)
                        /\ \A n \in Own(status) :
                               read.metadata[n] = <<Last(status.metadata[n])>>
  BY Zenon
<1> DEFINE map == AddHeader(status, target)
           names == DOMAIN map \ StatusNames
           clean == Restrict(map, names)
           rest == LastValues(clean)
           message == IF Has(map, "grpc-message") THEN Get(map, "grpc-message")[1] ELSE ""
           details == IF Has(map, "grpc-status-details-bin")
                      THEN Get(map, "grpc-status-details-bin") ELSE <<>>
<1>1. FromHeaderMap(map) =
        IF details = NotBase64 THEN Status("Internal", "invalid base64", <<>>, EmptyMap)
        ELSE Status(CodeFromBytes(Get(map, "grpc-status")[1]),
                    IF message = NotUtf8 THEN "error deserializing" ELSE message, details, rest)
  BY DEF FromHeaderMap
<1>2. /\ names = DOMAIN target \cup Own(status)
      /\ Has(map, "grpc-message") <=> status.message # ""
      /\ Has(map, "grpc-status-details-bin") <=> status.details # <<>>
  BY AddHeaderNames
<1>3. /\ Get(map, "grpc-status") = <<status.code>>
      /\ status.message # "" => Get(map, "grpc-message") = <<status.message>>
      /\ status.details # <<>> => Get(map, "grpc-status-details-bin") = status.details
  <2>1. /\ Holds(map, "grpc-status", <<<<status.code>>>>)
        /\ status.message # "" => Holds(map, "grpc-message", <<<<status.message>>>>)
        /\ status.details # <<>> =>
               Holds(map, "grpc-status-details-bin", <<status.details>>)
    BY AddHeaderHolds
  <2> HIDE DEF map
  <2> QED
    BY <2>1, HoldsGet
<1>4. DOMAIN clean = names /\ \A n \in names : clean[n] = map[n]
  BY DEF Restrict
<1>5. DOMAIN rest = names /\ \A n \in names : rest[n] = <<Last(map[n])>>
  <2> HIDE DEF map, clean, names
  <2> QED
    BY <1>4 DEF LastValues
<1>6. \A n \in Own(status) : map[n] = <<Last(status.metadata[n])>>
  BY AddHeaderHolds DEF Holds
<1> HIDE DEF map, rest, names
<1>7. Get(map, "grpc-status")[1] = status.code
  <2>1. Get(map, "grpc-status") = <<status.code>>
    BY <1>3
  <2> QED
    BY <2>1
<1>8. message = status.message
  <2>1. CASE status.message = ""
    BY <1>2, <2>1
  <2>2. CASE status.message # ""
    <3>1. Has(map, "grpc-message") /\ Get(map, "grpc-message") = <<status.message>>
      BY <1>2, <1>3, <2>2
    <3>2. Get(map, "grpc-message")[1] = status.message
      BY <3>1
    <3> QED
      BY <3>1, <3>2
  <2> QED
    BY <2>1, <2>2
<1>9. details = status.details
  BY <1>2, <1>3
<1> HIDE DEF message, details
<1>10. CodeFromBytes(Get(map, "grpc-status")[1]) = status.code
  BY <1>7 DEF CodeFromBytes
<1>11. FromHeaderMap(map) = Status(status.code, status.message, status.details, rest)
  BY <1>1, <1>8, <1>9, <1>10
<1>12. FromHeaderMap(map).metadata = rest
  BY <1>11 DEF Status
<1>13. \A n \in Own(status) : rest[n] = <<Last(status.metadata[n])>>
  <2> TAKE n \in Own(status)
  <2>1. n \in names
    BY <1>2
  <2>2. rest[n] = <<Last(map[n])>> /\ map[n] = <<Last(status.metadata[n])>>
    BY <1>5, <1>6, <2>1
  <2>3. \A x : Last(<<x>>) = x
    BY DEF Last
  <2> QED
    BY <2>2, <2>3
<1> QED
  BY <1>2, <1>5, <1>11, <1>12, <1>13 DEF map

(* Induction over numbers.                                                 *)
LEMMA Induction ==
    ASSUME NEW T, 0 \in T, \A n \in Nat : n \in T => n + 1 \in T
    PROVE  Nat \subseteq T
<1> DEFINE R == {q \in Nat \X Nat : q[1] < q[2]}
           F == Nat \ T
<1>1. IsWellFoundedOn(R, Nat)
  BY NatLessThanWellFounded DEF OpToRel
<1>2. SUFFICES ASSUME F # {} PROVE FALSE
  OBVIOUS
<1>3. F \subseteq Nat
  OBVIOUS
<1> HIDE DEF R, F
<1>4. PICK x \in F : \A y \in F : <<y, x>> \notin R
  BY <1>1, <1>2, <1>3, WFMin
<1>5. x \in Nat /\ x # 0 /\ x \notin T
  BY <1>4 DEF F
<1>6. x - 1 \in Nat /\ (x - 1) + 1 = x /\ x - 1 < x
  BY <1>5
<1>7. <<x - 1, x>> \in R
  BY <1>5, <1>6 DEF R
<1>8. x - 1 \in T
  BY <1>4, <1>6, <1>7 DEF F
<1> QED
  BY <1>5, <1>6, <1>8

(* The least of a set of numbers.                                          *)
LEMMA MinIs ==
    ASSUME NEW S \in SUBSET Nat, S # {}
    PROVE  Min(S) \in S /\ \A y \in S : Min(S) <= y
<1> DEFINE R == {q \in Nat \X Nat : q[1] < q[2]}
<1>1. IsWellFoundedOn(R, Nat)
  BY NatLessThanWellFounded DEF OpToRel
<1> HIDE DEF R
<1>2. PICK x \in S : \A y \in S : <<y, x>> \notin R
  BY <1>1, WFMin
<1>3. \A y \in S : x <= y
  <2> TAKE y \in S
  <2>1. x \in Nat /\ y \in Nat /\ ~(y < x)
    BY <1>2 DEF R
  <2> QED
    BY <2>1
<1> QED
  BY <1>3 DEF Min

(* Rich details: counted from the first packed one.                        *)
LEMMA DetailsFound ==
    ASSUME NEW details, details \in Seq(Range(details)), NEW variant \in KnownDetails
    PROVE  LET packed == { i \in DOMAIN details : i > 1 /\ details[i] = variant }
           IN  GetDetails(details, variant) = IF packed = {} THEN 0 ELSE Min(packed) - 1
<1> DEFINE L == Len(details)
           packed == { i \in DOMAIN details : i > 1 /\ details[i] = variant }
           read == ErrorDetails(details)
           found == { i \in DOMAIN read : read[i] = variant }
<1>1. L \in Nat /\ DOMAIN details = 1..L
  BY DEF L
<1>2. ASSUME NEW x PROVE DecodeAny(x) = variant <=> x = variant
  BY DEF DecodeAny, KnownDetails
<1>3. found = { i \in 1..(L - 1) : details[i + 1] = variant }
  <2>1. CASE details = <<>>
    <3>1. read = <<>> /\ L = 0
      BY <2>1 DEF ErrorDetails
    <3> HIDE DEF read, L
    <3>2. DOMAIN read = {}
      BY <3>1
    <3> QED
      BY <3>1, <3>2
  <2>2. CASE details # <<>>
    <3>1. read = [i \in 1..(L - 1) |-> DecodeAny(details[i + 1])]
      BY <2>2 DEF ErrorDetails
    <3>2. DOMAIN read = 1..(L - 1) /\ \A i \in 1..(L - 1) : read[i] = DecodeAny(details[i + 1])
      BY <3>1
    <3> HIDE DEF read, L
    <3>3. \A i \in 1..(L - 1) : read[i] = variant <=> details[i + 1] = variant
      BY <1>2, <3>2
    <3> QED
      BY <3>2, <3>3
  <2> QED
    BY <2>1, <2>2
<1>4. GetDetails(details, variant) = IF found = {} THEN 0 ELSE Min(found)
  BY DEF GetDetails
<1> HIDE DEF found, L
<1>5. \A i \in packed : i - 1 \in found
  BY <1>1, <1>3
<1>6. \A i \in found : i \in Nat /\ i + 1 \in packed
  <2> TAKE i \in found
  <2>1. i \in 1..(L - 1) /\ details[i + 1] = variant
    BY <1>3
  <2>2. i + 1 \in 1..L /\ i + 1 > 1 /\ i \in Nat
    BY <1>1, <2>1
  <2> QED
    BY <1>1, <2>1, <2>2
<1>7. packed \in SUBSET Nat
  BY <1>1
<1> HIDE DEF packed
<1>8. CASE packed = {}
  <2>1. found = {}
    BY <1>6, <1>8
  <2> QED
    BY <1>4, <1>8, <2>1 DEF packed
<1>9. CASE packed # {}
  <2>1. found # {} /\ found \in SUBSET Nat
    BY <1>5, <1>6, <1>9
  <2> DEFINE p == Min(packed)
             f == Min(found)
  <2>2. p \in packed /\ \A y \in packed : p <= y
    BY <1>7, <1>9, MinIs
  <2>3. f \in found /\ \A y \in found : f <= y
    BY <2>1, MinIs
  <2> HIDE DEF p, f
  <2>4. f \in Nat /\ p \in Nat
    BY <1>7, <2>1, <2>2, <2>3
  <2>5. p <= f + 1 /\ f <= p - 1
    BY <1>5, <1>6, <2>2, <2>3
  <2>6. f = p - 1
    BY <2>4, <2>5
  <2> QED
    BY <1>4, <1>9, <2>1, <2>6 DEF p, f, packed
<1> QED
  BY <1>8, <1>9

(* A transport fails with no success, and as the first status in the chain *)
(* of its error says.                                                      *)
LEMMA CodeOfIoFails ==
    ASSUME NEW kind PROVE CodeOfIo(kind) # "Ok"
BY DEF CodeOfIo

(* The first status among an error's sources gives its code; none is Ok.   *)
LEMMA FromErrorIs ==
    ASSUME NEW c \in Chains
    PROVE  /\ FromError(c) # "Ok"
           /\ \A i \in DOMAIN c :
                  (\A j \in 1..(i - 1) : c[j].type = "other") => CodeFits(c[i], FromError(c))
           /\ (\A i \in DOMAIN c : c[i].type = "other") => FromError(c) = "Unknown"
<1> DEFINE L == Len(c)
           N == { i \in DOMAIN c : Recognized(c[i]) }
           First(i) == i \in DOMAIN c /\ Recognized(c[i])
                          /\ \A j \in 1..(i - 1) : ~Recognized(c[j])
           first == CHOOSE i \in DOMAIN c :
                 Recognized(c[i]) /\ \A j \in 1..(i - 1) : ~Recognized(c[j])
<1>1. L \in Nat /\ DOMAIN c = 1..L
  <2>1. c \in Seq(Range(c))
    BY ChainsAssumption
  <2> QED
    BY <2>1
<1>2. \A i \in DOMAIN c :
         /\ Recognized(c[i]) <=> c[i].type # "other"
         /\ c[i].type = "status" => c[i].code \in Code \ {"Ok"}
  BY ChainsAssumption DEF Recognized
<1>3. FromError(c) = IF \E i \in DOMAIN c : Recognized(c[i])
                     THEN IF c[first].type = "status" THEN c[first].code
                          ELSE CodeOfIo(c[first].kind)
                     ELSE "Unknown"
  BY DEF FromError
<1>4. ASSUME \E i \in DOMAIN c : Recognized(c[i]) PROVE First(first)
  <2>1. N \in SUBSET Nat /\ N # {}
    BY <1>1, <1>4
  <2>2. PICK m : m \in N /\ \A y \in N : m <= y
    BY <2>1, MinIs
  <2>3. m \in DOMAIN c /\ Recognized(c[m]) /\ m \in 1..L
    BY <1>1, <2>2
  <2>4. \A j \in 1..(m - 1) : ~Recognized(c[j])
    <3> SUFFICES ASSUME NEW j \in 1..(m - 1), Recognized(c[j]) PROVE FALSE
      OBVIOUS
    <3>1. j \in 1..L /\ ~(m <= j)
      BY <1>1, <2>3
    <3> QED
      BY <1>1, <2>2, <3>1
  <2> HIDE DEF L, N
  <2> QED
    BY <2>3, <2>4
<1>5. ASSUME NEW i, NEW k, First(i), First(k) PROVE i = k
  <2>1. i \in 1..L /\ k \in 1..L
    BY <1>1, <1>5
  <2>2. ~(i < k) /\ ~(k < i)
    BY <1>1, <1>5, <2>1
  <2> QED
    BY <1>1, <2>1, <2>2
<1> HIDE DEF first, L, N
<1>6. FromError(c) # "Ok"
  <2>1. CASE \E i \in DOMAIN c : Recognized(c[i])
    <3>1. First(first)
      BY <1>4, <2>1
    <3>2. c[first].type = "status" => c[first].code # "Ok"
      BY <1>2, <3>1
    <3> QED
      BY <1>3, <2>1, <3>2, CodeOfIoFails
  <2> QED
    BY <1>3, <2>1
<1>7. ASSUME NEW i \in DOMAIN c, \A j \in 1..(i - 1) : c[j].type = "other"
      PROVE  CodeFits(c[i], FromError(c))
  <2>1. CASE c[i].type = "other"
    BY <2>1 DEF CodeFits
  <2>2. CASE c[i].type # "other"
    <3>1. Recognized(c[i])
      BY <1>2, <2>2
    <3>2. ASSUME NEW j \in 1..(i - 1) PROVE ~Recognized(c[j])
      BY <1>7 DEF Recognized
    <3>3. First(i)
      BY <3>1, <3>2
    <3>4. First(first)
      BY <1>4, <3>1
    <3> HIDE DEF First
    <3>5. first = i
      BY <1>5, <3>3, <3>4
    <3>6. FromError(c) = IF c[i].type = "status" THEN c[i].code ELSE CodeOfIo(c[i].kind)
      BY <1>3, <3>1, <3>5
    <3> QED
      BY <3>6 DEF CodeFits, CodeOfIo
  <2> QED
    BY <2>1, <2>2
<1>8. ASSUME \A i \in DOMAIN c : c[i].type = "other" PROVE FromError(c) = "Unknown"
  BY <1>3, <1>8 DEF Recognized
<1> QED
  BY <1>6, <1>7, <1>8

(* The negotiation of the encoding of a response.                          *)
In(e, s) == \E i \in 1..Len(s) : s[i] = e

(* What is in one of two lists is in the two of them joined.               *)
LEMMA JoinHas ==
    ASSUME NEW S, NEW a \in Seq(S), NEW b \in Seq(S)
    PROVE  a \o b \in Seq(S) /\ \A e : In(e, a) \/ In(e, b) => In(e, a \o b)
<1>1. /\ a \o b \in Seq(S) /\ Len(a \o b) = Len(a) + Len(b)
      /\ Len(a) \in Nat /\ Len(b) \in Nat
      /\ \A i \in 1..Len(a) : (a \o b)[i] = a[i]
      /\ \A i \in 1..Len(b) : (a \o b)[Len(a) + i] = b[i]
  OBVIOUS
<1> DEFINE c == a \o b
           m == Len(a)
           n == Len(b)
<1> HIDE DEF c, m, n
<1>2. /\ Len(c) = m + n /\ m \in Nat /\ n \in Nat
      /\ \A i \in 1..m : c[i] = a[i] /\ i \in 1..(m + n)
      /\ \A i \in 1..n : c[m + i] = b[i] /\ m + i \in 1..(m + n)
  BY <1>1 DEF c, m, n
<1>3. ASSUME NEW e, In(e, a) PROVE In(e, c)
  <2>1. PICK i \in 1..m : a[i] = e
    BY <1>3 DEF In, m
  <2> QED
    BY <1>2, <2>1 DEF In
<1>4. ASSUME NEW e, In(e, b) PROVE In(e, c)
  <2>1. PICK i \in 1..n : b[i] = e
    BY <1>4 DEF In, n
  <2> QED
    BY <1>2, <2>1 DEF In
<1> QED
  BY <1>1, <1>3, <1>4 DEF c

(* The accept header has all the encodings that are enabled.               *)
LEMMA AcceptValue ==
    ASSUME NEW T \in SUBSET Encoding
    PROVE  /\ AcceptEncodingValue(T) \in Seq(T)
           /\ \A e \in T : In(e, AcceptEncodingValue(T))
<1> DEFINE part(e) == IF e \in T THEN << e >> ELSE << >>
           a == part("gzip")
           b == part("deflate")
           c == part("zstd")
<1>1. AcceptEncodingValue(T) = (a \o b) \o c
  BY DEF AcceptEncodingValue
<1>2. ASSUME NEW e PROVE part(e) \in Seq(T) /\ (e \in T => In(e, part(e)))
  BY DEF In
<1>3. a \in Seq(T) /\ b \in Seq(T) /\ c \in Seq(T)
  BY <1>2
<1>4. \A e \in T : In(e, a) \/ In(e, b) \/ In(e, c)
  BY <1>2 DEF Encoding
<1> HIDE DEF a, b, c
<1>5. a \o b \in Seq(T) /\ \A e : In(e, a) \/ In(e, b) => In(e, a \o b)
  BY <1>3, JoinHas
<1>6. /\ (a \o b) \o c \in Seq(T)
      /\ \A e : In(e, a \o b) \/ In(e, c) => In(e, (a \o b) \o c)
  BY <1>3, <1>5, JoinHas
<1> QED
  BY <1>1, <1>4, <1>5, <1>6

(* What the server negotiates from it is one both ends have, if there is   *)
(* one.                                                                    *)
LEMMA Negotiated ==
    ASSUME NEW map, NEW T \in SUBSET Encoding, NEW S \in SUBSET Encoding,
           IF T = {} THEN ~Has(map, "grpc-accept-encoding")
           ELSE Holds(map, "grpc-accept-encoding", << AcceptEncodingValue(T) >>)
    PROVE  /\ T \cap S = {} => FromAcceptEncodingHeader(map, S) = Absent
           /\ T \cap S # {} => FromAcceptEncodingHeader(map, S) \in T \cap S
<1>1. CASE T = {}
  BY <1>1 DEF FromAcceptEncodingHeader
<1>2. CASE T # {}
  <2> DEFINE value == AcceptEncodingValue(T)
             usable == { i \in DOMAIN value : value[i] \in S }
  <2>1. Has(map, "grpc-accept-encoding") /\ Get(map, "grpc-accept-encoding") = value
    BY <1>2, HoldsGet
  <2>2. FromAcceptEncodingHeader(map, S) =
            IF usable = {} THEN Absent ELSE value[Min(usable)]
    BY <2>1 DEF FromAcceptEncodingHeader
  <2>3. value \in Seq(T) /\ \A e \in T : In(e, value)
    BY AcceptValue
  <2> HIDE DEF value
  <2>4. usable \in SUBSET Nat /\ \A i \in usable : value[i] \in T \cap S
    BY <2>3
  <2>5. T \cap S # {} => usable # {}
    BY <2>3 DEF In
  <2>6. usable # {} => Min(usable) \in usable
    <3> HIDE DEF usable
    <3> QED
      BY <2>4, MinIs
  <2> HIDE DEF usable
  <2> QED
    BY <2>2, <2>4, <2>5, <2>6
<1> QED
  BY <1>1, <1>2

(* Quotients.                                                              *)
LEMMA Quotient ==
    ASSUME NEW a \in Nat, NEW n \in Nat \ {0}
    PROVE  /\ a \div n \in Nat
           /\ (a \div n) * n <= a /\ a < ((a \div n) + 1) * n
OBVIOUS

LEMMA QuotientGrows ==
    ASSUME NEW a \in Nat, NEW b \in Nat, a <= b, NEW n \in Nat \ {0}
    PROVE  a \div n <= b \div n
OBVIOUS

LEMMA QuotientAtMost ==
    ASSUME NEW a \in Nat, NEW m \in Nat, NEW n \in Nat \ {0}, a <= m * n
    PROVE  a \div n <= m
OBVIOUS

LEMMA QuotientOver ==
    ASSUME NEW m \in Nat \ {0}, NEW n \in Nat \ {0}, NEW k \in Nat \ {0}, k >= 2 * n
    PROVE  (m * k) \div n > m
OBVIOUS

LEMMA QuotientShrinks ==
    ASSUME NEW a \in Nat, NEW n \in Nat \ {0}, NEW k \in Nat \ {0}, n <= k
    PROVE  a \div k <= a \div n
OBVIOUS

LEMMA UnitsGrow == \A u \in 1..5 : UnitSize[6] >= 2 * UnitSize[u]
<1>1. \A u \in 1..6 : UnitSize[u] \in Nat \ {0}
  BY TimeoutAssumption
<1>2. \A u \in 1..5 : UnitSize[u + 1] >= 2 * UnitSize[u]
  BY TimeoutAssumption
<1>3. /\ UnitSize[1] \in Nat /\ UnitSize[2] \in Nat /\ UnitSize[3] \in Nat
      /\ UnitSize[4] \in Nat /\ UnitSize[5] \in Nat /\ UnitSize[6] \in Nat
  BY <1>1
<1>4. /\ UnitSize[2] >= 2 * UnitSize[1] /\ UnitSize[3] >= 2 * UnitSize[2]
      /\ UnitSize[4] >= 2 * UnitSize[3] /\ UnitSize[5] >= 2 * UnitSize[4]
      /\ UnitSize[6] >= 2 * UnitSize[5]
  <2>1. 1 + 1 = 2 /\ 2 + 1 = 3 /\ 3 + 1 = 4 /\ 4 + 1 = 5 /\ 5 + 1 = 6
    OBVIOUS
  <2> QED
    BY <1>2, <2>1
<1>5. \A u \in 1..5 : u = 1 \/ u = 2 \/ u = 3 \/ u = 4 \/ u = 5
  OBVIOUS
<1> QED
  BY <1>3, <1>4, <1>5

(* The finest unit in which a deadline has few enough digits.              *)
LEMMA TimeoutIs ==
    ASSUME NEW d \in Nat
    PROVE  LET t == TimeoutValue(d, MaxTimeout, UnitSize)
           IN  /\ t.value \in 0..MaxTimeout /\ t.unit \in 1..6
               /\ t.value * UnitSize[t.unit] <= d
               /\ \/ d < (t.value + 1) * UnitSize[t.unit]
                  \/ t.value = MaxTimeout /\ t.unit = 6
               /\ \A u \in 1..(t.unit - 1) : d \div UnitSize[u] > MaxTimeout
<1> DEFINE longest == MaxTimeout * UnitSize[6]
           clamped == IF d > longest THEN longest ELSE d
           fits(u) == clamped \div UnitSize[u] <= MaxTimeout
           N == { u \in 1..6 : fits(u) }
           unit == CHOOSE u \in 1..6 : fits(u) /\ \A v \in 1..(u - 1) : ~fits(v)
           value == clamped \div UnitSize[unit]
<1>1. MaxTimeout \in Nat \ {0} /\ \A u \in 1..6 : UnitSize[u] \in Nat \ {0}
  BY TimeoutAssumption
<1>2. TimeoutValue(d, MaxTimeout, UnitSize) = [value |-> value, unit |-> unit]
  BY DEF TimeoutValue
<1>3. longest \in Nat
  <2>1. MaxTimeout \in Nat /\ UnitSize[6] \in Nat
    BY <1>1
  <2> QED
    BY <2>1
<1> HIDE DEF longest
<1>4. clamped \in Nat /\ clamped <= d /\ clamped <= longest
  BY <1>3
<1>5. clamped = d \/ clamped = longest
  OBVIOUS
<1> HIDE DEF clamped
<1>6. \A u \in 1..6 : clamped \div UnitSize[u] \in Nat
  BY <1>1, <1>4, Quotient
<1>7. fits(6)
  <2>1. MaxTimeout \in Nat /\ UnitSize[6] \in Nat \ {0}
    BY <1>1
  <2> QED
    BY <1>4, <2>1, QuotientAtMost DEF longest
<1> HIDE DEF fits
<1>8. unit \in 1..6 /\ fits(unit) /\ \A v \in 1..(unit - 1) : ~fits(v)
  <2>1. N \in SUBSET Nat /\ 6 \in N
    BY <1>7
  <2>2. PICK m : m \in N /\ \A y \in N : m <= y
    BY <2>1, MinIs
  <2>3. m \in 1..6 /\ fits(m)
    BY <2>2
  <2>4. \A v \in 1..(m - 1) : ~fits(v)
    <3> SUFFICES ASSUME NEW v \in 1..(m - 1), fits(v) PROVE FALSE
      OBVIOUS
    <3>1. v \in 1..6 /\ ~(m <= v)
      BY <2>3
    <3> QED
      BY <2>2, <3>1
  <2> HIDE DEF N
  <2> QED
    BY <2>3, <2>4
<1> HIDE DEF unit, N
<1>9. UnitSize[unit] \in Nat \ {0} /\ value \in Nat
  BY <1>1, <1>6, <1>8
<1>10. value \in 0..MaxTimeout
  BY <1>1, <1>8, <1>9 DEF fits
<1>11. value * UnitSize[unit] <= clamped /\ clamped < (value + 1) * UnitSize[unit]
  BY <1>4, <1>9, Quotient
<1>12. \A u \in 1..(unit - 1) : d \div UnitSize[u] > MaxTimeout
  <2> TAKE u \in 1..(unit - 1)
  <2>1. u \in 1..6
    BY <1>8
  <2>2. ~fits(u) /\ UnitSize[u] \in Nat \ {0}
    BY <1>1, <1>8, <2>1
  <2>3. clamped \div UnitSize[u] <= d \div UnitSize[u]
    BY <1>4, <2>2, QuotientGrows
  <2>4. d \div UnitSize[u] \in Nat
    BY <2>2, Quotient
  <2> QED
    BY <1>1, <1>6, <2>1, <2>2, <2>3, <2>4 DEF fits
<1>13. clamped = longest => value = MaxTimeout /\ unit = 6
  <2> SUFFICES ASSUME clamped = longest PROVE value = MaxTimeout /\ unit = 6
    OBVIOUS
  <2>1. ASSUME NEW u \in 1..5 PROVE ~fits(u)
    <3>1. UnitSize[u] \in Nat \ {0} /\ UnitSize[6] \in Nat \ {0} /\ UnitSize[6] >= 2 * UnitSize[u]
      <4>1. u \in 1..6
        OBVIOUS
      <4> QED
        BY <1>1, <4>1, UnitsGrow
    <3>2. (MaxTimeout * UnitSize[6]) \div UnitSize[u] > MaxTimeout
      BY <1>1, <3>1, QuotientOver
    <3>3. clamped = MaxTimeout * UnitSize[6]
      BY DEF longest
    <3>4. clamped \div UnitSize[u] > MaxTimeout /\ clamped \div UnitSize[u] \in Nat
      BY <1>6, <3>2, <3>3
    <3> QED
      BY <1>1, <3>4 DEF fits
  <2>2. unit = 6
    BY <1>8, <2>1
  <2>3. value = MaxTimeout
    <3>1. (value + 1) * UnitSize[6] > MaxTimeout * UnitSize[6] /\ value <= MaxTimeout
      BY <1>10, <1>11, <2>2 DEF longest
    <3>2. value + 1 > MaxTimeout
      <4> DEFINE n == UnitSize[6]
                 x == value + 1
      <4>1. n \in Nat \ {0} /\ x \in Nat /\ MaxTimeout \in Nat /\ x * n > MaxTimeout * n
        BY <1>1, <1>9, <3>1
      <4> HIDE DEF n, x
      <4>2. x > MaxTimeout
        BY <4>1
      <4> QED
        BY <4>2 DEF x
    <3> QED
      BY <1>1, <1>9, <3>1, <3>2
  <2> QED
    BY <2>2, <2>3
<1>14. value * UnitSize[unit] <= d
  <2> DEFINE x == value * UnitSize[unit]
  <2>1. x \in Nat
    BY <1>9
  <2>2. x <= clamped
    BY <1>11
  <2> HIDE DEF x
  <2>3. x <= d
    BY <1>4, <2>1, <2>2
  <2> QED
    BY <2>3 DEF x
<1>15. \/ d < (value + 1) * UnitSize[unit]
       \/ value = MaxTimeout /\ unit = 6
  BY <1>5, <1>11, <1>13
<1> HIDE DEF value
<1> QED
  BY <1>2, <1>8, <1>10, <1>12, <1>14, <1>15

(* The header map of a request, and that of a response.                    *)
Written(c, d, g) ==
    LET timed == IF d = NoDeadline THEN g ELSE Insert(g, "grpc-timeout", Timeout(d))
        map == Insert(Insert(RequestIntoHttp(timed), "te", <<"trailers">>),
                      "content-type", <<"application/grpc">>)
        coding == IF c.clientSend = Absent THEN map
                ELSE Insert(map, "grpc-encoding", <<c.clientSend>>)
    IN  IF c.clientAccept = {} THEN coding
        ELSE Insert(coding, "grpc-accept-encoding", AcceptEncodingValue(c.clientAccept))

Answered(metadata, encoding) ==
    LET map == Insert(ResponseIntoHttp(metadata), "content-type", <<"application/grpc">>)
    IN  IF encoding = Absent THEN map ELSE Insert(map, "grpc-encoding", <<encoding>>)

Final(status) == IF status.code = "Ok" THEN Success ELSE status
OwnTrailers == trailers = AddHeader(Final(reply.status), EmptyMap)
OwnHead == response = Answered(reply.head, AcceptEncoding)

Typed ==
    /\ at \in {"caller", "request", "failed", "service", "trailers-only", "replying", "reply",
               "no reply", "foreign", "read trailers", "read end", "done"}
    /\ config \in [clientSend : Encoding \cup {Absent}, clientAccept : Enabled,
                   serverSend : Enabled, serverAccept : Enabled]
    /\ deadline \in Deadlines \cup {NoDeadline}
    /\ given \in UserMetadata
    /\ reply.head \in UserMetadata \cup {EmptyMap}
    /\ reply.status \in Statuses \cup {Refusal, NoReply.status}

RequestIs ==
    /\ at = "caller" => head = EmptyMap /\ seen = EmptyMap
    /\ at # "caller" => head = Written(config, deadline, given)
    /\ at \in {"request", "failed"} => seen = EmptyMap
    /\ seen \in {EmptyMap, head}

ReplyIs ==
    /\ at \in {"caller", "request", "failed", "service", "foreign"} => reply = NoReply
    /\ at = "trailers-only" => response = IntoHttp(reply.status) /\ reply.head = EmptyMap
    /\ at \in {"replying", "reply", "no reply", "read end"} => OwnHead
    /\ at \in {"reply", "no reply", "read end"} => OwnTrailers
    /\ at \in {"no reply", "read end"} => reply.status.code # "Ok"
    /\ at = "foreign" => /\ response = Insert(EmptyMap, "content-type", <<"application/grpc">>)
                         /\ trailers \in ForeignMaps
    /\ at = "read trailers" =>
           \/ reply = NoReply /\ trailers \in ForeignMaps
                /\ response = Insert(EmptyMap, "content-type", <<"application/grpc">>)
           \/ OwnHead /\ OwnTrailers

ErrorIs ==
    error # <<>> => /\ at = "failed" /\ error \in Chains
                    /\ told = Status(FromError(error), "", <<>>, EmptyMap)

Told ==
    /\ StatusRoundTrip
    /\ ErrorStaysError
    /\ Ours /\ told.code = reply.status.code =>
           /\ \A n \in User(reply.status.metadata) : reply.status.code # "Ok" =>
                  /\ n \in DOMAIN told.metadata
                  /\ n \in Single(reply.status.metadata) /\ n \notin DOMAIN reply.head =>
                         told.metadata[n] = reply.status.metadata[n]
           /\ told.code = "Ok" =>
                  \A n \in User(reply.head) : told.metadata[n] = reply.head[n]

ExchangeInv ==
    /\ Typed
    /\ RequestIs
    /\ ReplyIs
    /\ ErrorIs
    /\ Told

(* What the client's dispatcher writes (grpc-client/src/grpc.rs:234-287).  *)
LEMMA WrittenIs ==
    \A c, d, g : LET w == Written(c, d, g)
        IN  /\ Holds(w, "te", << <<"trailers">> >>)
            /\ Holds(w, "content-type", << <<"application/grpc">> >>)
            /\ c.clientSend # Absent => Holds(w, "grpc-encoding", << <<c.clientSend>> >>)
            /\ c.clientSend = Absent => ~Has(w, "grpc-encoding")
            /\ c.clientAccept # {} =>
                   Holds(w, "grpc-accept-encoding", << AcceptEncodingValue(c.clientAccept) >>)
            /\ c.clientAccept = {} => ~Has(w, "grpc-accept-encoding")
            /\ d # NoDeadline => Holds(w, "grpc-timeout", << Timeout(d) >>)
            /\ \A n \in User(g) \ {"grpc-timeout"} : Holds(w, n, g[n])
            /\ DOMAIN w \cap Reserved \subseteq
                   {"te", "content-type", "grpc-encoding", "grpc-accept-encoding"}
<1> TAKE c, d, g
<1> DEFINE timed == IF d = NoDeadline THEN g ELSE Insert(g, "grpc-timeout", Timeout(d))
           clean == RequestIntoHttp(timed)
           te == Insert(clean, "te", << "trailers" >>)
           map == Insert(te, "content-type", << "application/grpc" >>)
           coded == Insert(map, "grpc-encoding", << c.clientSend >>)
           coding == IF c.clientSend = Absent THEN map ELSE coded
           accepting == Insert(coding, "grpc-accept-encoding", AcceptEncodingValue(c.clientAccept))
           w == IF c.clientAccept = {} THEN coding ELSE accepting
           ours == {"te", "content-type", "grpc-encoding", "grpc-accept-encoding"}
<1>1. Written(c, d, g) = w
  BY DEF Written
<1>2. \A n \in User(g) \ {"grpc-timeout"} : Holds(clean, n, g[n])
  <2> TAKE n \in User(g) \ {"grpc-timeout"}
  <2>1. Holds(timed, n, g[n])
    <3> DEFINE more == Insert(g, "grpc-timeout", Timeout(d))
    <3>1. Holds(g, n, g[n]) /\ n # "grpc-timeout"
      BY DEF Holds, Has, User
    <3>2. Holds(more, n, g[n])
      BY <3>1, InsertKeeps
    <3> HIDE DEF more
    <3>3. timed = IF d = NoDeadline THEN g ELSE more
      BY DEF more
    <3> QED
      BY <3>1, <3>2, <3>3
  <2>2. n \in DOMAIN timed \ Reserved /\ timed[n] = g[n]
    BY <2>1 DEF Holds, Has, User
  <2> QED
    BY <2>2, SanitizedHolds DEF RequestIntoHttp
<1>3. d # NoDeadline => Holds(clean, "grpc-timeout", << Timeout(d) >>)
  <2> SUFFICES ASSUME d # NoDeadline PROVE Holds(clean, "grpc-timeout", << Timeout(d) >>)
    OBVIOUS
  <2>1. Holds(timed, "grpc-timeout", << Timeout(d) >>)
    BY InsertHolds
  <2>2. /\ "grpc-timeout" \in DOMAIN timed \ Reserved
        /\ timed["grpc-timeout"] = << Timeout(d) >>
    BY <2>1 DEF Holds, Has, Reserved
  <2> QED
    BY <2>2, SanitizedHolds DEF RequestIntoHttp
<1>4. DOMAIN clean \cap Reserved = {}
  BY SanitizedDomain DEF RequestIntoHttp
<1> HIDE DEF clean
<1>5. /\ Holds(te, "te", << <<"trailers">> >>)
      /\ \A n, v : Holds(clean, n, v) /\ n # "te" => Holds(te, n, v)
  BY InsertHolds, InsertKeeps
<1>6. DOMAIN te = DOMAIN clean \cup {"te"}
  BY InsertDomain
<1> HIDE DEF te
<1>7. /\ Holds(map, "content-type", << <<"application/grpc">> >>)
      /\ \A n, v : Holds(te, n, v) /\ n # "content-type" => Holds(map, n, v)
  BY InsertHolds, InsertKeeps
<1>8. DOMAIN map = DOMAIN te \cup {"content-type"}
  BY InsertDomain
<1> HIDE DEF map
<1>9. /\ Holds(coded, "grpc-encoding", << <<c.clientSend>> >>)
      /\ \A n, v : Holds(map, n, v) /\ n # "grpc-encoding" => Holds(coded, n, v)
  BY InsertHolds, InsertKeeps
<1>10. DOMAIN coded = DOMAIN map \cup {"grpc-encoding"}
  BY InsertDomain
<1> HIDE DEF coded
<1>11. /\ Holds(accepting, "grpc-accept-encoding", << AcceptEncodingValue(c.clientAccept) >>)
       /\ \A n, v : Holds(coding, n, v) /\ n # "grpc-accept-encoding" => Holds(accepting, n, v)
  <2> HIDE DEF coding
  <2> QED
    BY InsertHolds, InsertKeeps
<1>12. DOMAIN accepting = DOMAIN coding \cup {"grpc-accept-encoding"}
  <2> HIDE DEF coding
  <2> QED
    BY InsertDomain
<1> HIDE DEF accepting
<1>13. \A n, v : Holds(map, n, v) /\ n \notin {"grpc-encoding", "grpc-accept-encoding"}
           => Holds(w, n, v)
  BY <1>9, <1>11
<1>14. \A n, v : Holds(clean, n, v) /\ n \notin ours => Holds(w, n, v)
  BY <1>5, <1>7, <1>13
<1>15. /\ Holds(w, "te", << <<"trailers">> >>)
       /\ Holds(w, "content-type", << <<"application/grpc">> >>)
  BY <1>5, <1>7, <1>13
<1>16. c.clientSend # Absent => Holds(w, "grpc-encoding", << <<c.clientSend>> >>)
  BY <1>9, <1>11
<1>17. c.clientAccept # {} =>
           Holds(w, "grpc-accept-encoding", << AcceptEncodingValue(c.clientAccept) >>)
  BY <1>11
<1>18. ours \subseteq Reserved /\ "grpc-timeout" \notin ours
  BY DEF Reserved
<1>19. c.clientSend = Absent => "grpc-encoding" \notin DOMAIN w
  BY <1>4, <1>6, <1>8, <1>12, <1>18
<1>20. c.clientAccept = {} => "grpc-accept-encoding" \notin DOMAIN w
  BY <1>4, <1>6, <1>8, <1>10, <1>18
<1>21. DOMAIN w \cap Reserved \subseteq ours
  BY <1>4, <1>6, <1>8, <1>10, <1>12
<1>22. d # NoDeadline => Holds(w, "grpc-timeout", << Timeout(d) >>)
  BY <1>3, <1>14, <1>18
<1>23. \A n \in User(g) \ {"grpc-timeout"} : Holds(w, n, g[n])
  BY <1>2, <1>14, <1>18 DEF User
<1> HIDE DEF w
<1> QED
  BY <1>1, <1>15, <1>16, <1>17, <1>19, <1>20, <1>21, <1>22, <1>23 DEF Has

(* What the server's handler answers with.                                 *)
LEMMA AnsweredIs ==
    \A m, e : LET r == Answered(m, e)
        IN  /\ ~Has(r, "grpc-status")
            /\ e = Absent => ~Has(r, "grpc-encoding")
            /\ e # Absent => Holds(r, "grpc-encoding", << <<e>> >>)
            /\ \A n \in User(m) : Holds(r, n, m[n])
            /\ DOMAIN r \subseteq User(m) \cup {"content-type", "grpc-encoding"}
<1> TAKE m, e
<1> DEFINE clean == ResponseIntoHttp(m)
           map == Insert(clean, "content-type", << "application/grpc" >>)
           coded == Insert(map, "grpc-encoding", << e >>)
           r == IF e = Absent THEN map ELSE coded
<1>1. Answered(m, e) = r
  BY DEF Answered
<1>2. DOMAIN clean = User(m) /\ \A n \in User(m) : Holds(clean, n, m[n])
  BY SanitizedDomain, SanitizedHolds DEF User, ResponseIntoHttp
<1> HIDE DEF clean
<1>3. DOMAIN map = DOMAIN clean \cup {"content-type"}
  BY InsertDomain
<1>4. \A n, v : Holds(clean, n, v) /\ n # "content-type" => Holds(map, n, v)
  BY InsertKeeps
<1> HIDE DEF map
<1>5. DOMAIN coded = DOMAIN map \cup {"grpc-encoding"}
  BY InsertDomain
<1>6. /\ Holds(coded, "grpc-encoding", << <<e>> >>)
      /\ \A n, v : Holds(map, n, v) /\ n # "grpc-encoding" => Holds(coded, n, v)
  BY InsertHolds, InsertKeeps
<1> HIDE DEF coded
<1>7. User(m) \cap {"content-type", "grpc-encoding", "grpc-status"} = {}
  BY DEF User, Reserved
<1>8. DOMAIN r \subseteq User(m) \cup {"content-type", "grpc-encoding"}
  BY <1>2, <1>3, <1>5
<1>9. "grpc-status" \notin DOMAIN r
  BY <1>7, <1>8
<1>10. e = Absent => "grpc-encoding" \notin DOMAIN r
  BY <1>2, <1>3, <1>7
<1>11. e # Absent => Holds(r, "grpc-encoding", << <<e>> >>)
  BY <1>6
<1>12. \A n \in User(m) : Holds(r, n, m[n])
  BY <1>2, <1>4, <1>6, <1>7
<1> HIDE DEF r
<1> QED
  BY <1>1, <1>8, <1>9, <1>10, <1>11, <1>12 DEF Has

(* A map with one name.                                                    *)
LEMMA OneName ==
    \A name, value : DOMAIN Insert(EmptyMap, name, value) = {name}
<1> TAKE name, value
<1>1. DOMAIN EmptyMap = {}
  BY DEF EmptyMap
<1>2. DOMAIN Insert(EmptyMap, name, value) = DOMAIN EmptyMap \cup {name}
  BY InsertDomain
<1> QED
  BY <1>1, <1>2

(* What is assumed of the statuses of a service holds of those that the    *)
(* library makes.                                                          *)
StatusFits(s) ==
    /\ s.code \in Code /\ s.message # NotUtf8 /\ s.details # NotBase64
    /\ s.details \in Seq(Range(s.details))
    /\ WellFormed(s.metadata)

(* Statuses of services, and those the server makes, can be written.       *)
LEMMA StatusesFit ==
    ASSUME NEW s \in Statuses \cup {Refusal, NoReply.status, Success}
    PROVE  StatusFits(s)
<1>1. CASE s \in Statuses
  BY <1>1, StatusesAssumption DEF StatusFits
<1>2. ASSUME NEW c \in Code, NEW m, m # NotUtf8
      PROVE  StatusFits(Status(c, m, <<>>, EmptyMap))
  <2> DEFINE t == Status(c, m, <<>>, EmptyMap)
  <2>1. t.code = c /\ t.message = m /\ t.details = <<>> /\ t.metadata = EmptyMap
    BY DEF Status
  <2>2. <<>> # NotBase64
    BY DEF NotBase64
  <2>3. <<>> \in Seq(Range(<<>>))
    OBVIOUS
  <2>4. WellFormed(EmptyMap)
    BY DEF WellFormed, EmptyMap
  <2> HIDE DEF t
  <2>5. StatusFits(t)
    BY <1>2, <2>1, <2>2, <2>3, <2>4 DEF StatusFits
  <2> QED
    BY <2>5 DEF t
<1>3. /\ Refusal = Status("Unimplemented", "compression is not supported", <<>>, EmptyMap)
      /\ NoReply.status = Status("Unknown", "", <<>>, EmptyMap)
      /\ Success = Status("Ok", "", <<>>, EmptyMap)
  BY DEF Refusal, NoReply, Success
<1>4. /\ {"Unimplemented", "Unknown", "Ok"} \subseteq Code
      /\ "" # NotUtf8 /\ "compression is not supported" # NotUtf8
  BY DEF Code, NotUtf8
<1> QED
  BY <1>1, <1>2, <1>3, <1>4

(* What a caller reads of a status that was written to him.                *)
Tells(t, s) == t.code = s.code /\ t.message = s.message /\ t.details = s.details
Carries(t, s, names) ==
    \A n \in User(s.metadata) : n \in names =>
        /\ n \in DOMAIN t.metadata
        /\ n \in Single(s.metadata) => t.metadata[n] = s.metadata[n]

(* A status that was written is read as it was.                            *)
LEMMA StatusRead ==
    ASSUME NEW s, StatusFits(s), NEW target, DOMAIN target \cap StatusNames = {}
    PROVE  /\ Tells(FromHeaderMap(AddHeader(s, target)), s)
           /\ Carries(FromHeaderMap(AddHeader(s, target)), s, User(s.metadata))
<1> DEFINE read == FromHeaderMap(AddHeader(s, target))
<1>1. /\ read = Status(s.code, s.message, s.details, read.metadata)
      /\ DOMAIN read.metadata = DOMAIN target \cup Own(s)
      /\ \A n \in Own(s) : read.metadata[n] = <<Last(s.metadata[n])>>
  BY RoundTrip DEF StatusFits
<1> HIDE DEF read
<1>2. Tells(read, s)
  BY <1>1 DEF Tells, Status
<1>3. ASSUME NEW n \in User(s.metadata)
      PROVE  /\ n \in DOMAIN read.metadata
             /\ n \in Single(s.metadata) => read.metadata[n] = s.metadata[n]
  <2>1. n \in Own(s) /\ n \in DOMAIN s.metadata
    BY DEF Own, User
  <2>2. read.metadata[n] = <<Last(s.metadata[n])>> /\ n \in DOMAIN read.metadata
    BY <1>1, <2>1
  <2>3. ASSUME n \in Single(s.metadata) PROVE <<Last(s.metadata[n])>> = s.metadata[n]
    <3> DEFINE q == s.metadata[n]
    <3>1. q \in Seq(Range(q)) /\ Len(q) = 1
      BY <2>1, <2>3 DEF StatusFits, WellFormed, Single
    <3> HIDE DEF q
    <3>2. q = << q[1] >> /\ Last(q) = q[1]
      BY <3>1 DEF Last
    <3> QED
      BY <3>2 DEF q
  <2> QED
    BY <2>2, <2>3
<1> QED
  BY <1>2, <1>3 DEF read, Carries

(* Of an Ok in trailers that are read, there is an Ok in them.             *)
LEMMA OkIsRead ==
    ASSUME NEW map, FromHeaderMap(map).code = "Ok",
           Get(map, "grpc-status") = <<Get(map, "grpc-status")[1]>>
    PROVE  Get(map, "grpc-status") = << "Ok" >>
<1> DEFINE token == Get(map, "grpc-status")[1]
           details == IF Has(map, "grpc-status-details-bin")
                      THEN Get(map, "grpc-status-details-bin") ELSE <<>>
           message == IF Has(map, "grpc-message") THEN Get(map, "grpc-message")[1] ELSE ""
           rest == LastValues(Restrict(map, DOMAIN map \ StatusNames))
           text == IF message = NotUtf8 THEN "error deserializing" ELSE message
<1>1. FromHeaderMap(map) =
        IF details = NotBase64 THEN Status("Internal", "invalid base64", <<>>, EmptyMap)
        ELSE Status(CodeFromBytes(token), text, details, rest)
  BY DEF FromHeaderMap
<1> HIDE DEF details, text, rest
<1>2. /\ Status("Internal", "invalid base64", <<>>, EmptyMap).code = "Internal"
      /\ Status(CodeFromBytes(token), text, details, rest).code = CodeFromBytes(token)
  BY DEF Status
<1>3. CodeFromBytes(token) = "Ok"
  BY <1>1, <1>2
<1>4. token = "Ok"
  BY <1>3 DEF CodeFromBytes
<1> QED
  BY <1>4

(* The head of a server's response is readable for the client.             *)
LEMMA AcceptedIs ==
    ASSUME Typed, RequestIs, at # "caller"
    PROVE  LET both == config.clientAccept \cap config.serverSend
           IN  /\ both = {} => AcceptEncoding = Absent
               /\ both # {} => AcceptEncoding \in both /\ AcceptEncoding # Absent
<1> DEFINE both == config.clientAccept \cap config.serverSend
<1>1. config.clientAccept \in SUBSET Encoding /\ config.serverSend \in SUBSET Encoding
  BY EnabledAssumption DEF Typed
<1>2. head = Written(config, deadline, given)
  BY DEF RequestIs
<1>3. IF config.clientAccept = {} THEN ~Has(head, "grpc-accept-encoding")
      ELSE Holds(head, "grpc-accept-encoding", << AcceptEncodingValue(config.clientAccept) >>)
  BY <1>2, WrittenIs
<1>4. /\ both = {} => AcceptEncoding = Absent
      /\ both # {} => AcceptEncoding \in both
  BY <1>1, <1>3, Negotiated DEF AcceptEncoding
<1>5. Absent \notin Encoding
  BY DEF Absent, Encoding
<1> QED
  BY <1>1, <1>4, <1>5

(* The head of a response is in an encoding that the client accepts.       *)
LEMMA HeadIsReadable ==
    ASSUME Typed, RequestIs, at # "caller", OwnHead
    PROVE  /\ Readable
           /\ config.clientAccept \cap config.serverSend # {} =>
                  Get(response, "grpc-encoding")[1] \in config.clientAccept \cap config.serverSend
<1> DEFINE both == config.clientAccept \cap config.serverSend
           e == AcceptEncoding
<1>1. /\ both = {} => e = Absent
      /\ both # {} => e \in both /\ e # Absent
  BY AcceptedIs
<1>2. /\ e = Absent => ~Has(response, "grpc-encoding")
      /\ e # Absent => Holds(response, "grpc-encoding", << <<e>> >>)
  BY AnsweredIs DEF OwnHead
<1>3. e \in both => e # "Unimplemented"
  <2>1. config.clientAccept \in SUBSET Encoding
    BY EnabledAssumption DEF Typed
  <2> QED
    BY <2>1 DEF Encoding
<1> HIDE DEF e
<1>4. CASE both = {}
  <2>1. ~Has(response, "grpc-encoding")
    BY <1>1, <1>2, <1>4
  <2>2. Absent # "Unimplemented"
    BY DEF Absent
  <2> QED
    BY <1>4, <2>1, <2>2 DEF Readable, FromEncodingHeader
<1>5. CASE both # {}
  <2>1. Has(response, "grpc-encoding") /\ Get(response, "grpc-encoding") = <<e>>
    BY <1>1, <1>2, <1>5, HoldsGet
  <2>2. Get(response, "grpc-encoding")[1] = e
    BY <2>1
  <2>3. FromEncodingHeader(response, config.clientAccept) = e
    BY <1>1, <1>5, <2>1, <2>2 DEF FromEncodingHeader
  <2> QED
    BY <1>1, <1>3, <1>5, <2>2, <2>3 DEF Readable
<1> QED
  BY <1>4, <1>5

(* So is a head that is a status.                                          *)
LEMMA RefusalIsReadable ==
    ASSUME NEW s, response = IntoHttp(s)
    PROVE  Readable /\ Has(response, "grpc-status")
<1> DEFINE target == Insert(EmptyMap, "content-type", << "application/grpc" >>)
<1>1. DOMAIN target = {"content-type"}
  BY OneName
<1>2. response = AddHeader(s, target)
  BY DEF IntoHttp
<1> HIDE DEF target
<1>3. DOMAIN target \cap StatusNames = {}
  BY <1>1 DEF StatusNames
<1>4. /\ Has(response, "grpc-status")
      /\ DOMAIN response \ StatusNames = DOMAIN target \cup Own(s)
  BY <1>2, <1>3, AddHeaderNames
<1>5. ~Has(response, "grpc-encoding")
  BY <1>1, <1>4 DEF Has, Own, Reserved, StatusNames
<1>6. Absent # "Unimplemented"
  BY DEF Absent
<1> QED
  BY <1>4, <1>5, <1>6 DEF Readable, FromEncodingHeader

(* A foreign server's trailers name no encoding.                           *)
LEMMA ForeignIsReadable ==
    ASSUME response = Insert(EmptyMap, "content-type", << "application/grpc" >>)
    PROVE  Readable /\ ~Has(response, "grpc-status")
<1>1. DOMAIN response = {"content-type"}
  BY OneName
<1>2. Absent # "Unimplemented"
  BY DEF Absent
<1> QED
  BY <1>1, <1>2 DEF Readable, FromEncodingHeader, Has

(* The invariant of an exchange.                                           *)
LEMMA ExchangeStarts ==
    ExchangeInit => ExchangeInv
<1> SUFFICES ASSUME ExchangeInit PROVE ExchangeInv
  OBVIOUS
<1>1. reply.head = EmptyMap /\ reply.status = NoReply.status
  BY DEF ExchangeInit, NoReply
<1>2. Typed /\ RequestIs /\ ErrorIs
  BY <1>1 DEF ExchangeInit, Typed, RequestIs, ErrorIs
<1>3. ReplyIs
  BY DEF ExchangeInit, ReplyIs
<1>4. Told
  BY DEF ExchangeInit, Told, StatusRoundTrip, ErrorStaysError, Ours
<1> QED
  BY <1>2, <1>3, <1>4 DEF ExchangeInv

(* Nothing is told before the call is over.                                *)
LEMMA ToldLater ==
    ASSUME at' # "done" PROVE Told'
BY DEF Told, StatusRoundTrip, ErrorStaysError, Ours

(* A failure of the call itself is no success of the service.              *)
LEMMA Fails ==
    ASSUME reply' = reply, reply.status.code = "Ok", told'.code # "Ok"
    PROVE  Told'
BY DEF Told, StatusRoundTrip, ErrorStaysError

(* A failure of the service is told with all it says.                      *)
LEMMA TellsFailure ==
    ASSUME reply' = reply, reply.status.code # "Ok", StatusFits(reply.status),
           Tells(told', reply.status),
           Carries(told', reply.status, User(reply.status.metadata) \ DOMAIN reply.head),
           User(reply.status.metadata) \subseteq DOMAIN told'.metadata
    PROVE  Told'
<1>1. StatusRoundTrip'
  <2>1. reply.status.details \in Seq(Range(reply.status.details))
    BY DEF StatusFits
  <2>2. \A variant \in KnownDetails :
            LET packed == { i \in DOMAIN reply.status.details :
                                i > 1 /\ reply.status.details[i] = variant }
            IN  GetDetails(reply.status.details, variant) =
                    IF packed = {} THEN 0 ELSE Min(packed) - 1
    BY <2>1, DetailsFound
  <2>3. told'.details = reply.status.details
    BY DEF Tells
  <2> QED
    BY <2>2, <2>3 DEF StatusRoundTrip, Tells
<1>2. ErrorStaysError'
  BY DEF ErrorStaysError, Tells
<1>3. told'.code # "Ok"
  BY DEF Tells
<1>4. \A n \in User(reply.status.metadata) :
          /\ n \in DOMAIN told'.metadata
          /\ n \in Single(reply.status.metadata) /\ n \notin DOMAIN reply.head =>
                 told'.metadata[n] = reply.status.metadata[n]
  BY DEF Carries
<1> QED
  BY <1>1, <1>2, <1>3, <1>4 DEF Told

(* A foreign status is told as an error if it is one.                      *)
LEMMA TellsForeign ==
    ASSUME reply' = NoReply, ErrorStaysError'
    PROVE  Told'
BY DEF Told, StatusRoundTrip, Ours

(* A status with other metadata.                                           *)
LEMMA Rewritten ==
    \A c, m, d, old, new :
        [Status(c, m, d, old) EXCEPT !.metadata = new] = Status(c, m, d, new)
BY DEF Status

(* Every step of an exchange keeps its invariant.                          *)
LEMMA ExchangeGoesOn ==
    ExchangeInv /\ [ExchangeNext]_exchangeVars => ExchangeInv'
<1> SUFFICES ASSUME ExchangeInv, [ExchangeNext]_exchangeVars PROVE ExchangeInv'
  OBVIOUS
<1>1. Typed /\ RequestIs /\ ReplyIs /\ ErrorIs /\ Told
  BY DEF ExchangeInv
<1>2. StatusFits(reply.status)
  BY <1>1, StatusesFit DEF Typed
<1>3. error = <<>> \/ at = "failed"
  BY <1>1 DEF ErrorIs
<1>4. CASE PrepareRequest
  <2>1. at = "caller" /\ at' = "request" /\ head' = Written(config, deadline, given)
    BY <1>4 DEF PrepareRequest, Written, WithTimeout
  <2>2. UNCHANGED <<config, deadline, given, seen, reply, response, trailers, error, told>>
    BY <1>4 DEF PrepareRequest
  <2>3. Typed' /\ RequestIs'
    BY <1>1, <2>1, <2>2 DEF Typed, RequestIs
  <2>4. ReplyIs' /\ ErrorIs'
    BY <1>1, <1>3, <2>1, <2>2 DEF ReplyIs, ErrorIs
  <2> QED
    BY <2>1, <2>3, <2>4, ToldLater DEF ExchangeInv
<1>5. CASE TransportFails
  <2>1. /\ at = "request" /\ at' = "failed" /\ error' \in Chains
        /\ told' = Status(FromError(error'), "", <<>>, EmptyMap)
    BY <1>5 DEF TransportFails
  <2>2. UNCHANGED <<config, deadline, given, head, seen, reply, response, trailers>>
    BY <1>5 DEF TransportFails
  <2>3. Typed' /\ RequestIs'
    BY <1>1, <2>1, <2>2 DEF Typed, RequestIs
  <2>4. ReplyIs' /\ ErrorIs'
    BY <1>1, <2>1, <2>2 DEF ReplyIs, ErrorIs
  <2> QED
    BY <2>1, <2>3, <2>4, ToldLater DEF ExchangeInv
<1>6. CASE MapRequest
  <2>1. at = "request" /\ UNCHANGED <<config, deadline, given, head, trailers, error, told>>
    BY <1>6 DEF MapRequest
  <2>2. CASE FromEncodingHeader(head, config.serverAccept) = "Unimplemented"
    <3>1. /\ at' = "trailers-only" /\ response' = IntoHttp(Refusal) /\ seen' = seen
          /\ reply' = [head |-> EmptyMap, status |-> Refusal]
      BY <1>6, <2>2 DEF MapRequest
    <3>2. reply'.head = EmptyMap /\ reply'.status = Refusal
      BY <3>1
    <3>3. Typed' /\ RequestIs'
      BY <1>1, <2>1, <3>1, <3>2 DEF Typed, RequestIs
    <3>4. ReplyIs' /\ ErrorIs'
      BY <1>1, <1>3, <2>1, <3>1, <3>2 DEF ReplyIs, ErrorIs
    <3> QED
      BY <3>1, <3>3, <3>4, ToldLater DEF ExchangeInv
  <2>3. CASE FromEncodingHeader(head, config.serverAccept) # "Unimplemented"
    <3>1. at' = "service" /\ seen' = head /\ UNCHANGED <<response, reply>>
      BY <1>6, <2>3 DEF MapRequest, RequestFromHttp
    <3>2. Typed' /\ RequestIs'
      BY <1>1, <2>1, <3>1 DEF Typed, RequestIs
    <3>3. ReplyIs' /\ ErrorIs'
      BY <1>1, <1>3, <2>1, <3>1 DEF ReplyIs, ErrorIs
    <3> QED
      BY <3>1, <3>2, <3>3, ToldLater DEF ExchangeInv
  <2> QED
    BY <2>2, <2>3
<1>7. CASE MapResponse
  <2>1. /\ at = "service" /\ at' = "replying"
        /\ UNCHANGED <<config, deadline, given, head, seen, trailers, error, told>>
    BY <1>7 DEF MapResponse
  <2>2. PICK m \in UserMetadata, s \in Statuses :
            reply' = [head |-> m, status |-> s] /\ response' = Answered(m, AcceptEncoding)
    BY <1>7 DEF MapResponse, Answered
  <2>3. reply'.head = m /\ reply'.status = s
    BY <2>2
  <2>4. Typed' /\ RequestIs'
    BY <1>1, <2>1, <2>3 DEF Typed, RequestIs
  <2>5. OwnHead'
    BY <2>1, <2>2, <2>3 DEF OwnHead, AcceptEncoding
  <2>6. ReplyIs' /\ ErrorIs'
    BY <1>1, <1>3, <2>1, <2>5 DEF ReplyIs, ErrorIs
  <2> QED
    BY <2>1, <2>4, <2>6, ToldLater DEF ExchangeInv
<1>8. CASE MapResponseErr
  <2>1. /\ at = "service" /\ at' = "trailers-only"
        /\ UNCHANGED <<config, deadline, given, head, seen, trailers, error, told>>
    BY <1>8 DEF MapResponseErr
  <2>2. PICK s \in Statuses :
            reply' = [head |-> EmptyMap, status |-> s] /\ response' = IntoHttp(s)
    BY <1>8 DEF MapResponseErr
  <2>3. reply'.head = EmptyMap /\ reply'.status = s
    BY <2>2
  <2>4. Typed' /\ RequestIs'
    BY <1>1, <2>1, <2>3 DEF Typed, RequestIs
  <2>5. ReplyIs' /\ ErrorIs'
    BY <1>1, <1>3, <2>1, <2>2, <2>3 DEF ReplyIs, ErrorIs
  <2> QED
    BY <2>1, <2>4, <2>5, ToldLater DEF ExchangeInv
<1>9. CASE ForeignAnswers
  <2>1. /\ at = "service" /\ at' = "foreign" /\ trailers' \in ForeignMaps
        /\ response' = Insert(EmptyMap, "content-type", <<"application/grpc">>)
        /\ UNCHANGED <<config, deadline, given, head, seen, reply, error, told>>
    BY <1>9 DEF ForeignAnswers
  <2>2. Typed' /\ RequestIs'
    BY <1>1, <2>1 DEF Typed, RequestIs
  <2>3. ReplyIs' /\ ErrorIs'
    BY <1>1, <1>3, <2>1 DEF ReplyIs, ErrorIs
  <2> QED
    BY <2>1, <2>2, <2>3, ToldLater DEF ExchangeInv
<1>10. CASE EndReply
  <2>1. /\ at = "replying" /\ trailers' = AddHeader(Final(reply.status), EmptyMap)
        /\ UNCHANGED <<config, deadline, given, head, seen, reply, response, error, told>>
    BY <1>10 DEF EndReply, Final
  <2>2. \/ at' = "reply"
        \/ at' = "no reply" /\ reply.status.code # "Ok"
    BY <1>10 DEF EndReply
  <2>3. Typed' /\ RequestIs'
    BY <1>1, <2>1, <2>2 DEF Typed, RequestIs
  <2>4. OwnHead' /\ OwnTrailers'
    BY <1>1, <2>1 DEF ReplyIs, OwnHead, OwnTrailers, AcceptEncoding, Final
  <2>5. ReplyIs' /\ ErrorIs'
    BY <1>1, <1>3, <2>1, <2>2, <2>4 DEF ReplyIs, ErrorIs
  <2> QED
    BY <2>1, <2>2, <2>3, <2>5, ToldLater DEF ExchangeInv
<1>11. CASE CreateResponse
  <2>1. /\ at \in {"trailers-only", "reply", "no reply", "foreign"}
        /\ UNCHANGED <<config, deadline, given, head, seen, reply, response, trailers, error>>
    BY <1>11 DEF CreateResponse
  <2>2. error' = <<>>
    BY <1>3, <2>1
  <2>3. at \in {"reply", "no reply"} => /\ Readable /\ OwnHead /\ OwnTrailers
                                       /\ ~Has(response, "grpc-status")
    <3>1. at \in {"reply", "no reply"} => OwnHead /\ OwnTrailers
      BY <1>1 DEF ReplyIs
    <3>2. OwnHead => ~Has(response, "grpc-status")
      BY AnsweredIs DEF OwnHead
    <3> QED
      BY <1>1, <2>1, <3>1, <3>2, HeadIsReadable
  <2>4. at = "trailers-only" => /\ Readable /\ Has(response, "grpc-status")
                                /\ response = IntoHttp(reply.status) /\ reply.head = EmptyMap
    BY <1>1, RefusalIsReadable DEF ReplyIs
  <2>5. at = "foreign" => /\ reply = NoReply /\ trailers \in ForeignMaps
                          /\ response = Insert(EmptyMap, "content-type", <<"application/grpc">>)
                          /\ ~Has(response, "grpc-status") /\ Readable
    BY <1>1, ForeignIsReadable DEF ReplyIs
  <2>6. Readable
    BY <2>1, <2>3, <2>4, <2>5
  <2>7. CASE Has(response, "grpc-status")
    <3> DEFINE status == FromHeaderMap(response)
               missing == Status("Internal", "Missing response message.", <<>>, EmptyMap)
               target == Insert(EmptyMap, "content-type", <<"application/grpc">>)
    <3>1. /\ at' = "done" /\ at = "trailers-only"
          /\ told' = IF status.code # "Ok" THEN status ELSE missing
      BY <1>11, <2>1, <2>3, <2>5, <2>6, <2>7 DEF CreateResponse
    <3>2. Typed' /\ RequestIs'
      BY <1>1, <2>1, <3>1 DEF Typed, RequestIs
    <3>3. ReplyIs' /\ ErrorIs'
      BY <2>2, <3>1 DEF ReplyIs, ErrorIs
    <3>4. DOMAIN target \cap StatusNames = {}
      <4>1. DOMAIN target = {"content-type"}
        BY OneName
      <4> HIDE DEF target
      <4> QED
        BY <4>1 DEF StatusNames
    <3>5. status = FromHeaderMap(AddHeader(reply.status, target))
      BY <2>4, <3>1 DEF IntoHttp
    <3> HIDE DEF target, status
    <3>6. Tells(status, reply.status) /\ Carries(status, reply.status, User(reply.status.metadata))
      BY <1>2, <3>4, <3>5, StatusRead
    <3>7. missing.code = "Internal"
      BY DEF Status
    <3> HIDE DEF missing
    <3>8. Told'
      <4>1. CASE reply.status.code = "Ok"
        <5>1. told' = missing
          BY <3>1, <3>6, <4>1 DEF Tells
        <5> QED
          BY <2>1, <3>7, <4>1, <5>1, Fails
      <4>2. CASE reply.status.code # "Ok"
        <5>1. told' = status
          BY <3>1, <3>6, <4>2 DEF Tells
        <5>2. /\ Tells(told', reply.status)
              /\ Carries(told', reply.status, User(reply.status.metadata) \ DOMAIN reply.head)
              /\ User(reply.status.metadata) \subseteq DOMAIN told'.metadata
          BY <3>6, <5>1 DEF Carries
        <5> QED
          BY <1>2, <2>1, <4>2, <5>2, TellsFailure
      <4> QED
        BY <4>1, <4>2
    <3> QED
      BY <3>2, <3>3, <3>8 DEF ExchangeInv
  <2>8. CASE ~Has(response, "grpc-status")
    <3>1. /\ at' = IF at = "no reply" THEN "read end" ELSE "read trailers"
          /\ at # "trailers-only"
      BY <1>11, <2>1, <2>4, <2>6, <2>8 DEF CreateResponse
    <3>2. Typed' /\ RequestIs'
      BY <1>1, <2>1, <3>1 DEF Typed, RequestIs
    <3>3. OwnHead => OwnHead'
      BY <2>1 DEF OwnHead, AcceptEncoding
    <3>4. OwnTrailers => OwnTrailers'
      BY <2>1 DEF OwnTrailers, Final
    <3>5. at = "no reply" => reply.status.code # "Ok"
      BY <1>1 DEF ReplyIs
    <3>6. ReplyIs' /\ ErrorIs'
      <4>1. CASE at = "no reply"
        BY <2>1, <2>2, <2>3, <3>1, <3>3, <3>4, <3>5, <4>1 DEF ReplyIs, ErrorIs
      <4>2. CASE at = "reply"
        BY <2>1, <2>2, <2>3, <3>1, <3>3, <3>4, <4>2 DEF ReplyIs, ErrorIs
      <4>3. CASE at = "foreign"
        BY <2>1, <2>2, <2>5, <3>1, <4>3 DEF ReplyIs, ErrorIs
      <4> QED
        BY <2>1, <3>1, <4>1, <4>2, <4>3
    <3>7. at' # "done"
      BY <3>1
    <3> QED
      BY <3>2, <3>6, <3>7, ToldLater DEF ExchangeInv
  <2> QED
    BY <2>7, <2>8
<1>12. CASE ReadTrailers
  <2> DEFINE status == FromHeaderMap(trailers)
             success == Status("Ok", "", <<>>, Merge(ResponseFromHttp(response), trailers))
  <2>1. /\ at = "read trailers" /\ at' = "done"
        /\ UNCHANGED <<config, deadline, given, head, seen, reply, response, trailers, error>>
        /\ told' = IF Has(trailers, "grpc-status") /\ status.code # "Ok" THEN status ELSE success
    BY <1>12 DEF ReadTrailers
  <2>2. error' = <<>>
    BY <1>3, <2>1
  <2>3. Typed' /\ RequestIs'
    BY <1>1, <2>1 DEF Typed, RequestIs
  <2>4. ReplyIs' /\ ErrorIs'
    BY <2>1, <2>2 DEF ReplyIs, ErrorIs
  <2>5. success.code = "Ok" /\ success.metadata = Merge(response, trailers)
    BY DEF Status, ResponseFromHttp
  <2> HIDE DEF success
  <2>6. ASSUME Has(trailers, "grpc-status") =>
                   Get(trailers, "grpc-status") = <<Get(trailers, "grpc-status")[1]>>
        PROVE  ErrorStaysError'
    <3> SUFFICES ASSUME Has(trailers, "grpc-status"),
                        Get(trailers, "grpc-status") # <<"Ok">>
                 PROVE  told'.code # "Ok"
      BY <2>1 DEF ErrorStaysError
    <3>1. status.code # "Ok"
      BY <2>6, OkIsRead
    <3> QED
      BY <2>1, <3>1
  <2>7. CASE reply = NoReply /\ trailers \in ForeignMaps
    <3>1. ErrorStaysError'
      BY <2>6, <2>7, ForeignAssumption
    <3> QED
      BY <2>1, <2>3, <2>4, <2>7, <3>1, TellsForeign DEF ExchangeInv
  <2>8. CASE OwnHead /\ OwnTrailers
    <3> DEFINE final == Final(reply.status)
    <3>1. StatusFits(final)
      BY <1>2, StatusesFit DEF Final
    <3>2. DOMAIN EmptyMap \cap StatusNames = {}
      BY DEF EmptyMap
    <3>3. trailers = AddHeader(final, EmptyMap)
      BY <2>8 DEF OwnTrailers
    <3>4. final.code = "Ok" <=> reply.status.code = "Ok"
      BY DEF Final, Success, Status
    <3>5. reply.status.code # "Ok" => final = reply.status
      BY DEF Final
    <3>6. reply.status.code = "Ok" => Own(final) = {}
      BY DEF Final, Own, Success, Status, EmptyMap
    <3> HIDE DEF final
    <3>7. Tells(status, final) /\ Carries(status, final, User(final.metadata))
      BY <3>1, <3>2, <3>3, StatusRead
    <3>8. /\ Has(trailers, "grpc-status") /\ Get(trailers, "grpc-status") = <<final.code>>
      BY <3>3, AddHeaderHolds, HoldsGet
    <3> HIDE DEF status
    <3>9. CASE reply.status.code # "Ok"
      <4>1. told' = status
        BY <2>1, <3>4, <3>7, <3>8, <3>9 DEF Tells
      <4>2. /\ Tells(told', reply.status)
            /\ Carries(told', reply.status, User(reply.status.metadata) \ DOMAIN reply.head)
            /\ User(reply.status.metadata) \subseteq DOMAIN told'.metadata
        BY <3>5, <3>7, <3>9, <4>1 DEF Carries
      <4>3. Told'
        BY <1>2, <2>1, <3>9, <4>2, TellsFailure
      <4> QED
        BY <2>3, <2>4, <4>3 DEF ExchangeInv
    <3>10. CASE reply.status.code = "Ok"
      <4>1. told' = success
        BY <2>1, <3>4, <3>7, <3>10 DEF Tells
      <4>2. DOMAIN trailers \subseteq StatusNames
        <5>1. DOMAIN trailers \ StatusNames = DOMAIN EmptyMap \cup Own(final)
          BY <3>2, <3>3, AddHeaderNames
        <5>2. DOMAIN EmptyMap = {}
          BY DEF EmptyMap
        <5> QED
          BY <3>6, <3>10, <5>1, <5>2
      <4>3. ASSUME NEW n \in User(reply.head) PROVE told'.metadata[n] = reply.head[n]
        <5>1. Holds(response, n, reply.head[n])
          BY <2>8, AnsweredIs DEF OwnHead
        <5>2. ~Has(trailers, n)
          BY <4>2 DEF Has, User, Reserved, StatusNames
        <5>3. Holds(Merge(response, trailers), n, reply.head[n])
          BY <5>1, <5>2, MergeKeeps
        <5> QED
          BY <2>5, <4>1, <5>3 DEF Holds
      <4>4. ErrorStaysError'
        <5>1. Get(trailers, "grpc-status") = <<"Ok">>
          BY <3>4, <3>8, <3>10
        <5> QED
          BY <2>1, <5>1 DEF ErrorStaysError
      <4>5. Told'
        BY <2>1, <3>10, <4>3, <4>4 DEF Told, StatusRoundTrip
      <4> QED
        BY <2>3, <2>4, <4>5 DEF ExchangeInv
    <3> QED
      BY <3>9, <3>10
  <2> QED
    BY <1>1, <2>1, <2>7, <2>8 DEF ReplyIs
<1>13. CASE ReadEnd
  <2> DEFINE status == FromHeaderMap(trailers)
             s == reply.status
  <2>1. /\ at = "read end" /\ at' = "done"
        /\ UNCHANGED <<config, deadline, given, head, seen, reply, response, trailers, error>>
        /\ told' = [status EXCEPT !.metadata = Merge(status.metadata, response)]
    BY <1>13 DEF ReadEnd, ResponseFromHttp
  <2>2. error' = <<>>
    BY <1>3, <2>1
  <2>3. Typed' /\ RequestIs'
    BY <1>1, <2>1 DEF Typed, RequestIs
  <2>4. ReplyIs' /\ ErrorIs'
    BY <2>1, <2>2 DEF ReplyIs, ErrorIs
  <2>5. OwnHead /\ OwnTrailers /\ s.code # "Ok"
    BY <1>1, <2>1 DEF ReplyIs
  <2>6. trailers = AddHeader(s, EmptyMap)
    BY <2>5 DEF OwnTrailers, Final
  <2>7. DOMAIN EmptyMap \cap StatusNames = {}
    BY DEF EmptyMap
  <2>8. Tells(status, s) /\ Carries(status, s, User(s.metadata))
    BY <1>2, <2>6, <2>7, StatusRead
  <2>9. status = Status(s.code, s.message, s.details, status.metadata)
    BY <1>2, <2>6, <2>7, RoundTrip DEF StatusFits
  <2> DEFINE m == status.metadata
  <2> HIDE DEF status, m
  <2>10. /\ told'.code = s.code /\ told'.message = s.message /\ told'.details = s.details
         /\ told'.metadata = Merge(status.metadata, response)
    <3> DEFINE merged == Merge(status.metadata, response)
    <3>1. told' = [status EXCEPT !.metadata = merged]
      BY <2>1
    <3> HIDE DEF merged
    <3>2. told' = Status(s.code, s.message, s.details, merged)
      BY <2>9, <3>1, Rewritten
    <3>3. /\ told'.code = s.code /\ told'.message = s.message /\ told'.details = s.details
          /\ told'.metadata = merged
      BY <3>2 DEF Status
    <3> QED
      BY <3>3 DEF merged
  <2>11. ASSUME NEW n \in User(s.metadata)
         PROVE  /\ n \in DOMAIN told'.metadata
                /\ n \in Single(s.metadata) /\ n \notin DOMAIN reply.head =>
                       told'.metadata[n] = s.metadata[n]
    <3>1. n \in DOMAIN status.metadata
      BY <2>8 DEF Carries
    <3>2. n \in DOMAIN told'.metadata
      <4>1. DOMAIN Merge(status.metadata, response) = DOMAIN status.metadata \cup DOMAIN response
        BY MergeDomain
      <4>2. n \in DOMAIN Merge(status.metadata, response)
        BY <3>1, <4>1
      <4> QED
        BY <2>10, <4>2
    <3>3. ASSUME n \in Single(s.metadata), n \notin DOMAIN reply.head
          PROVE  told'.metadata[n] = s.metadata[n]
      <4>1. Holds(status.metadata, n, s.metadata[n])
        BY <2>8, <3>1, <3>3 DEF Carries, Holds, Has
      <4>2. ~Has(response, n)
        <5>1. DOMAIN response \subseteq User(reply.head) \cup {"content-type", "grpc-encoding"}
          BY <2>5, AnsweredIs DEF OwnHead
        <5> QED
          BY <3>3, <5>1 DEF Has, User, Reserved
      <4>3. Holds(Merge(status.metadata, response), n, s.metadata[n])
        BY <4>1, <4>2, MergeKeeps
      <4> QED
        BY <2>10, <4>3 DEF Holds
    <3> QED
      BY <3>2, <3>3
  <2>12. /\ Tells(told', s)
         /\ Carries(told', s, User(s.metadata) \ DOMAIN reply.head)
         /\ User(s.metadata) \subseteq DOMAIN told'.metadata
    BY <2>10, <2>11 DEF Tells, Carries
  <2>13. Told'
    BY <1>2, <2>1, <2>5, <2>12, TellsFailure
  <2> QED
    BY <2>3, <2>4, <2>13 DEF ExchangeInv
<1>14. CASE UNCHANGED exchangeVars
  <2>1. UNCHANGED <<at, config, deadline, given, head, seen, reply, response, trailers,
                    error, told>>
    BY <1>14 DEF exchangeVars
  <2>2. Typed'
    BY <1>1, <2>1 DEF Typed
  <2>3. RequestIs'
    BY <1>1, <2>1 DEF RequestIs
  <2>4. ReplyIs'
    BY <1>1, <2>1 DEF ReplyIs, OwnHead, OwnTrailers, Final, AcceptEncoding
  <2>5. ErrorIs'
    BY <1>1, <2>1 DEF ErrorIs
  <2>6. StatusRoundTrip'
    BY <1>1, <2>1 DEF Told, StatusRoundTrip, Ours
  <2>7. ErrorStaysError'
    BY <1>1, <2>1 DEF Told, ErrorStaysError
  <2>8. Told'
    BY <1>1, <2>1, <2>6, <2>7 DEF Told, Ours
  <2> QED
    BY <2>2, <2>3, <2>4, <2>5, <2>8 DEF ExchangeInv
<1> QED
  BY <1>4, <1>5, <1>6, <1>7, <1>8, <1>9, <1>10, <1>11, <1>12, <1>13, <1>14
     DEF ExchangeNext, Client, Server

(* The header maps, and what both ends have taken from them, agree at each *)
(* step of a call (grpc-client/src/grpc.rs, grpc-server/src/grpc.rs).      *)
THEOREM ExchangeInvariant ==
    ExchangeSpec => []ExchangeInv
<1>1. ExchangeInit => ExchangeInv
  BY ExchangeStarts
<1>2. ExchangeInv /\ [ExchangeNext]_exchangeVars => ExchangeInv'
  BY ExchangeGoesOn
<1> QED
  BY <1>1, <1>2, PTL DEF ExchangeSpec

(* The error of a transport is told by the status among its sources.       *)
LEMMA ErrorIsTold ==
    ErrorIs => FailureIsTold
<1> SUFFICES ASSUME ErrorIs, error # <<>> PROVE FailureIsTold
  BY DEF FailureIsTold
<1>1. error \in Chains /\ told = Status(FromError(error), "", <<>>, EmptyMap)
  BY DEF ErrorIs
<1>2. told.code = FromError(error)
  BY <1>1 DEF Status
<1>3. error \in Chains
  BY <1>1
<1>4. told.code # "Ok"
  BY <1>2, <1>3, FromErrorIs
<1>5. (\A i \in DOMAIN error : error[i].type = "other") => told.code = "Unknown"
  BY <1>2, <1>3, FromErrorIs
<1>6. ASSUME NEW i \in DOMAIN error, \A j \in 1..(i - 1) : error[j].type = "other"
      PROVE  CodeFits(error[i], told.code)
  <2>1. CodeFits(error[i], FromError(error))
    BY <1>3, <1>6, FromErrorIs DEF CodeFits
  <2> QED
    BY <1>2, <2>1 DEF CodeFits
<1> QED
  BY <1>4, <1>5, <1>6 DEF FailureIsTold, CodeFits

(***************************************************************************)
(* The status a caller is told is the service's own, the one wrapped in    *)
(* the errors of a transport, or the one in the trailers, for any status   *)
(* and any error, and no failure becomes a success (status.rs:204-333,     *)
(* 398-419).                                                               *)
(***************************************************************************)
THEOREM ExchangeTellsStatus ==
    ExchangeSpec => []StatusArrives
<1>1. ExchangeInv => StatusArrives
  BY ErrorIsTold DEF ExchangeInv, Told, StatusArrives
<1> QED
  BY <1>1, ExchangeInvariant, PTL

(* The service is called with the headers the client wrote.                *)
LEMMA SeenIsOurs ==
    ASSUME ExchangeInv, seen # EmptyMap
    PROVE  HeadersAreOurs /\ \A n \in User(given) \ {"grpc-timeout"} : seen[n] = given[n]
<1>1. seen = head /\ head = Written(config, deadline, given)
  BY DEF ExchangeInv, RequestIs
<1>2. /\ Holds(seen, "te", << <<"trailers">> >>)
      /\ Holds(seen, "content-type", << <<"application/grpc">> >>)
      /\ config.clientSend # Absent => Holds(seen, "grpc-encoding", << <<config.clientSend>> >>)
      /\ config.clientSend = Absent => ~Has(seen, "grpc-encoding")
      /\ config.clientAccept # {} =>
             Holds(seen, "grpc-accept-encoding", << AcceptEncodingValue(config.clientAccept) >>)
      /\ config.clientAccept = {} => ~Has(seen, "grpc-accept-encoding")
      /\ \A n \in User(given) \ {"grpc-timeout"} : Holds(seen, n, given[n])
      /\ DOMAIN seen \cap Reserved \subseteq
             {"te", "content-type", "grpc-encoding", "grpc-accept-encoding"}
  BY <1>1, WrittenIs
<1>3. seen["te"] = << <<"trailers">> >> /\ seen["content-type"] = << <<"application/grpc">> >>
  BY <1>2 DEF Holds
<1>4. /\ Has(seen, "grpc-encoding") <=> config.clientSend # Absent
      /\ Has(seen, "grpc-accept-encoding") <=> config.clientAccept # {}
  BY <1>2 DEF Holds
<1>5. ASSUME NEW n \in DOMAIN seen \cap Reserved PROVE Len(seen[n]) = 1
  <2>1. \A v : Len(<<v>>) = 1
    OBVIOUS
  <2>2. n \in {"te", "content-type", "grpc-encoding", "grpc-accept-encoding"}
    BY <1>2
  <2>3. CASE n = "te"
    BY <1>3, <2>1, <2>3
  <2>4. CASE n = "content-type"
    BY <1>3, <2>1, <2>4
  <2>5. CASE n = "grpc-encoding"
    BY <1>2, <2>1, <2>5 DEF Holds, Has
  <2>6. CASE n = "grpc-accept-encoding"
    BY <1>2, <2>1, <2>6 DEF Holds, Has
  <2> QED
    BY <2>2, <2>3, <2>4, <2>5, <2>6
<1>6. HeadersAreOurs
  BY <1>3, <1>4, <1>5 DEF HeadersAreOurs
<1> QED
  BY <1>2, <1>6 DEF Holds

(***************************************************************************)
(* Metadata arrives whatever names it has, and never in the place of the   *)
(* protocol's headers (metadata.rs:45-59,                                  *)
(* grpc-client/src/grpc.rs:257-284).                                       *)
(***************************************************************************)
THEOREM ExchangeKeepsHeaders ==
    ExchangeSpec => []HeadersArrive
<1>1. ASSUME ExchangeInv PROVE HeadersArrive
  <2>1. HeadersAreOurs
    BY <1>1, SeenIsOurs DEF HeadersAreOurs
  <2>2. at \notin {"caller", "request"} /\ seen # EmptyMap =>
            \A n \in User(given) \ {"grpc-timeout"} : seen[n] = given[n]
    BY <1>1, SeenIsOurs
  <2>3. MetadataArrives
    BY <1>1, <2>2 DEF ExchangeInv, Told, MetadataArrives
  <2> QED
    BY <2>1, <2>3 DEF HeadersArrive
<1> QED
  BY <1>1, ExchangeInvariant, PTL

(***************************************************************************)
(* For any sets of encodings of both ends, a response is in none that its  *)
(* client cannot read, and in one both have wherever there is one          *)
(* (compression.rs:82-100, grpc-server/src/grpc.rs:299-302).               *)
(***************************************************************************)
THEOREM ExchangeIsReadable ==
    ExchangeSpec => []ResponseReadable
<1>1. ASSUME ExchangeInv PROVE ResponseReadable
  <2>1. Typed /\ RequestIs /\ ReplyIs
    BY <1>1 DEF ExchangeInv
  <2>2. CASE at = "trailers-only"
    <3>1. Readable
      BY <2>1, <2>2, RefusalIsReadable DEF ReplyIs
    <3> QED
      BY <2>2, <3>1 DEF ResponseReadable
  <2>3. CASE at # "caller" /\ OwnHead
    BY <2>1, <2>3, HeadIsReadable DEF ResponseReadable
  <2>4. CASE at = "read trailers" /\ ~OwnHead
    <3>1. Readable
      BY <2>1, <2>4, ForeignIsReadable DEF ReplyIs
    <3> QED
      BY <2>4, <3>1 DEF ResponseReadable
  <2>5. CASE at \in {"replying", "reply", "no reply", "read end"}
    BY <2>1, <2>3, <2>5 DEF ReplyIs
  <2> QED
    BY <2>2, <2>3, <2>4, <2>5 DEF ResponseReadable
<1> QED
  BY <1>1, ExchangeInvariant, PTL

(***************************************************************************)
(* For any deadline, the timeout on the wire is not longer, and short by   *)
(* less than the finest unit that it fits (request.rs:174-212).            *)
(***************************************************************************)
THEOREM ExchangeTimeout ==
    ExchangeSpec => []TimeoutFaithful
<1>1. ASSUME ExchangeInv PROVE TimeoutFaithful
  <2> SUFFICES ASSUME deadline # NoDeadline, seen # EmptyMap PROVE TimeoutFaithful
    BY DEF TimeoutFaithful
  <2> DEFINE t == TimeoutValue(deadline, MaxTimeout, UnitSize)
  <2>1. deadline \in Nat
    BY <1>1, TimeoutAssumption DEF ExchangeInv, Typed
  <2>2. seen = Written(config, deadline, given)
    BY <1>1 DEF ExchangeInv, RequestIs
  <2>3. Holds(seen, "grpc-timeout", << Timeout(deadline) >>)
    BY <2>2, WrittenIs
  <2>4. Get(seen, "grpc-timeout") = Timeout(deadline)
    BY <2>3, HoldsGet
  <2>5. Timeout(deadline) = << t.value, t.unit >>
    BY DEF Timeout
  <2> HIDE DEF t
  <2>6. Get(seen, "grpc-timeout")[1] = t.value /\ Get(seen, "grpc-timeout")[2] = t.unit
    BY <2>4, <2>5
  <2>7. /\ t.value \in 0..MaxTimeout
        /\ t.value * UnitSize[t.unit] <= deadline
        /\ \/ deadline < (t.value + 1) * UnitSize[t.unit]
           \/ t.value = MaxTimeout /\ t.unit = 6
        /\ \A u \in 1..(t.unit - 1) : deadline \div UnitSize[u] > MaxTimeout
    BY <2>1, TimeoutIs DEF t
  <2> QED
    BY <2>6, <2>7 DEF TimeoutFaithful
<1> QED
  BY <1>1, ExchangeInvariant, PTL
=============================================================================
