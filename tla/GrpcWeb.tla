------------------------------- MODULE GrpcWeb -------------------------------
(***************************************************************************)
(* gRPC-Web (grpc-web/src): GrpcWebService::call in front of a gRPC        *)
(* service, and the body wrapper GrpcWebCall, which decodes the request    *)
(* (poll_decode) and encodes the response (poll_encode) of one call.       *)
(*                                                                         *)
(* A request in text mode is a sequence of characters.  Of a character of  *)
(* base64 only the bits at its end matter, which have to be zero in front  *)
(* of padding: none of them has to be in a "full" one, the last two are in *)
(* an "even" and the last four in a "round" one.  The others are "pad" and *)
(* what is not base64, "bad".  Where a character ends up matters, so that  *)
(* the model moves positions of the text: four positions decode to the     *)
(* bytes the browser meant if they are a group of the text.                *)
(***************************************************************************)
EXTENDS Integers, SequencesExt

CONSTANTS
    Types,          \* content types peers ask with
    Texts,          \* request bodies: sequences of characters
    MaxFrames       \* bound: data frames of the service's response

ContentType == {"grpc", "grpc-web", "grpc-web+proto",
                "grpc-web-text", "grpc-web-text+proto", "other"}
Character == {"full", "even", "round", "pad", "bad"}
Group == 4

ASSUME TypesAssumption == Types \subseteq ContentType
ASSUME TextsAssumption == \A t \in Texts : t \in Seq(Character)
ASSUME MaxFramesAssumption == MaxFrames \in Nat

VARIABLES
    call,       \* the request: content type, content-length, body, its ending
    reply,      \* what the service answers: number of data frames, ending
    forwarded,  \* headers of the request the service gets
    answered,   \* headers of the response the peer gets
    read,       \* how many characters of the body have been read
    buf,        \* GrpcWebCall::buf of the request: positions carried over
    decoded,    \* frames the service has read
    jumped,     \* history: has a chunk been decoded in front of the carry?
    pos,        \* how many frames of the response have been polled
    trailers,   \* GrpcWebCall::trailers of the response
    sent,       \* GrpcWebCall::trailers_sent
    out         \* frames the peer has been sent

request == <<forwarded, read, buf, decoded, jumped>>
response == <<answered, pos, trailers, sent, out>>
vars == <<call, reply, request, response>>

(* A position of the text in a decoded frame stands for its share of the   *)
(* bytes; in a raw frame for the character itself.                         *)
RequestFrame(as, at) == [as |-> as, at |-> at]
Done(frames) == frames # <<>> /\ Last(frames).as \in {"end", "error"}
Headers == [type : ContentType, length : {"yes", "no"}]
None == [type |-> "none"]

TypeOK ==
    /\ call.body \in Texts
    /\ forwarded \in Headers \cup {None}
    /\ answered \in Headers \cup {None}
    /\ read \in 0..Len(call.body)
    /\ buf \in Seq(1..Len(call.body)) /\ Len(buf) < Group
    /\ \A i \in DOMAIN decoded :
           /\ decoded[i].as \in {"decoded", "raw", "trailers", "end", "error"}
           /\ decoded[i].as = "decoded" => Len(decoded[i].at) % Group = 0
    /\ jumped \in {"yes", "no"}
    /\ pos \in 0..reply.frames + 1
    /\ trailers \in {"none", "own", "empty"} /\ sent \in {"yes", "no"}

Init ==
    /\ call \in [type : Types, length : {"yes", "no"}, body : Texts,
                 ending : {"end", "trailers", "error"}]
    /\ reply \in [frames : 0..MaxFrames, ending : {"end", "trailers", "error"}]
    /\ forwarded = None /\ answered = None
    /\ read = 0 /\ buf = <<>> /\ decoded = <<>> /\ jumped = "no"
    /\ pos = 0 /\ trailers = "none" /\ sent = "no" /\ out = <<>>
-----------------------------------------------------------------------------
IsGrpcWeb == call.type \notin {"grpc", "other"}
Encoding(type) ==
    IF type \in {"grpc-web-text", "grpc-web-text+proto"} THEN "base64" ELSE "binary"

(* Every other request is wrapped as a binary one.                         *)
Mode == IF IsGrpcWeb THEN Encoding(call.type) ELSE "binary"

(* GrpcWebService::call up to the call of the inner service.               *)
Forward ==
    /\ forwarded = None
    /\ forwarded' = IF IsGrpcWeb THEN [type |-> "grpc", length |-> "no"]
                    ELSE [type |-> call.type, length |-> call.length]
    /\ UNCHANGED <<call, reply, read, buf, decoded, jumped, response>>

(* GrpcWebService::call from there on.  The service answers in its own     *)
(* protocol and gives no length, as its bodies end in trailers.            *)
Answer ==
    /\ forwarded # None /\ answered = None
    /\ answered' = [type |-> IF ~IsGrpcWeb THEN "grpc"
                             ELSE IF Mode = "base64" THEN "grpc-web-text"
                             ELSE "grpc-web",
                    length |-> "no"]
    /\ UNCHANGED <<call, reply, request, pos, trailers, sent, out>>
-----------------------------------------------------------------------------
Kind(s, i) == call.body[s[i]]

(* base64::decode (external, STANDARD): whole groups of its alphabet, with *)
(* padding in the last two characters only, in front of which no bits are  *)
(* left over.                                                              *)
Decodes(s) ==
    /\ Len(s) % Group = 0
    /\ \A i \in 1..Len(s) :
           /\ Kind(s, i) # "bad"
           /\ Kind(s, i) = "pad" =>
                  \/ i = Len(s) /\ Kind(s, i - 1) \in {"even", "round", "pad"}
                  \/ i = Len(s) - 1 /\ Kind(s, i - 1) = "round" /\ Kind(s, i + 1) = "pad"

Chunk(n) == [i \in 1..n |-> read + i]
Whole(s) == Len(s) - (Len(s) % Group)
Yield(frame) == decoded' = Append(decoded, frame)
Arrives(n) ==
    /\ forwarded # None /\ ~Done(decoded)
    /\ n \in 1..Len(call.body) - read
    /\ read' = read + n
    /\ UNCHANGED <<call, reply, forwarded, response>>

PassBinary(n) ==
    /\ Arrives(n) /\ Mode = "binary"
    /\ Yield(RequestFrame("raw", Chunk(n)))
    /\ UNCHANGED <<buf, jumped>>

(* A chunk that can be decoded alone is decoded alone, whatever is carried *)
(* over (call.rs:109).                                                     *)
DecodeAlone(n) ==
    /\ Arrives(n) /\ Mode = "base64"
    /\ Decodes(Chunk(n))
    /\ Yield(RequestFrame("decoded", Chunk(n)))
    /\ jumped' = IF buf = <<>> THEN jumped ELSE "yes"
    /\ UNCHANGED buf

(* Mutant of DecodeCarried: the carry is put behind the chunk.             *)
DecodeCarriedBehind(n) ==
    LET s == Chunk(n) \o buf
    IN  /\ Arrives(n) /\ Mode = "base64"
        /\ ~Decodes(Chunk(n)) /\ Whole(s) > 0
        /\ Yield(RequestFrame("decoded", SubSeq(s, 1, Whole(s))))
        /\ buf' = SubSeq(s, Whole(s) + 1, Len(s))
        /\ UNCHANGED jumped

(* Otherwise it joins the carry, of which the whole groups are decoded; if *)
(* they cannot be, their characters are passed on as they are.             *)
DecodeCarried(n) ==
    LET s == buf \o Chunk(n)
        groups == SubSeq(s, 1, Whole(s))
    IN  /\ Arrives(n) /\ Mode = "base64"
        /\ ~Decodes(Chunk(n)) /\ Whole(s) > 0
        /\ Yield(RequestFrame(IF Decodes(groups) THEN "decoded" ELSE "raw", groups))
        /\ buf' = SubSeq(s, Whole(s) + 1, Len(s))
        /\ UNCHANGED jumped

(* Not one group yet: the task is woken to poll on.                        *)
Carry(n) ==
    /\ Arrives(n) /\ Mode = "base64"
    /\ ~Decodes(Chunk(n)) /\ Whole(buf \o Chunk(n)) = 0
    /\ buf' = buf \o Chunk(n)
    /\ UNCHANGED <<decoded, jumped>>

(* The end of the request, with trailers or an error passed through; what  *)
(* is carried over stays behind.                                           *)
RequestEnds ==
    /\ forwarded # None /\ ~Done(decoded)
    /\ read = Len(call.body)
    /\ decoded' = CASE call.ending = "trailers" ->
                           decoded \o <<RequestFrame("trailers", <<>>), RequestFrame("end", <<>>)>>
                    [] OTHER -> Append(decoded, RequestFrame(call.ending, <<>>))
    /\ UNCHANGED <<call, reply, forwarded, read, buf, jumped, response>>

PollDecode ==
    \/ \E n \in 1..Len(call.body) :
           PassBinary(n) \/ DecodeAlone(n) \/ DecodeCarried(n) \/ Carry(n)
    \/ RequestEnds
-----------------------------------------------------------------------------
ResponseFrame(as, what) == [as |-> as, what |-> what]
Send(frame) == out' = Append(out, frame)
Polled == answered # None /\ ~Done(out)

(* encode_trailers: a data frame with the trailer flag.                    *)
SendTrailers ==
    /\ Polled /\ trailers # "none"
    /\ Send(ResponseFrame("flagged", trailers))
    /\ trailers' = "none" /\ sent' = "yes"
    /\ UNCHANGED <<call, reply, request, answered, pos>>

PollsInner == Polled /\ trailers = "none" /\ sent = "no"

EncodeData ==
    /\ PollsInner /\ pos < reply.frames
    /\ pos' = pos + 1
    /\ Send(ResponseFrame("data", pos + 1))
    /\ UNCHANGED <<call, reply, request, answered, trailers, sent>>

(* Mutant of CaptureTrailers: they are sent as HTTP trailers as well.      *)
CaptureTrailersTwice ==
    /\ PollsInner /\ pos = reply.frames /\ reply.ending = "trailers"
    /\ trailers' = "own"
    /\ pos' = pos + 1
    /\ Send(ResponseFrame("trailers", "own"))
    /\ UNCHANGED <<call, reply, request, answered, sent>>

CaptureTrailers ==
    /\ PollsInner /\ pos = reply.frames /\ reply.ending = "trailers"
    /\ trailers' = "own"
    /\ pos' = pos + 1
    /\ UNCHANGED <<call, reply, request, answered, sent, out>>

InnerEnds ==
    /\ PollsInner /\ pos = reply.frames /\ reply.ending = "end"
    /\ sent' = "yes"
    /\ Send(ResponseFrame("flagged", "empty"))
    /\ UNCHANGED <<call, reply, request, answered, pos, trailers>>

InnerFails ==
    /\ PollsInner /\ pos = reply.frames /\ reply.ending = "error"
    /\ Send(ResponseFrame("error", "own"))
    /\ UNCHANGED <<call, reply, request, answered, pos, trailers, sent>>

(* Mutant of EndBody: the inner body is polled for the end.                *)
EndBodyPolls ==
    /\ Polled /\ trailers = "none" /\ sent = "yes" /\ reply.ending = "end"
    /\ Send(ResponseFrame("end", "own"))
    /\ UNCHANGED <<call, reply, request, answered, pos, trailers, sent>>

EndBody ==
    /\ Polled /\ trailers = "none" /\ sent = "yes"
    /\ Send(ResponseFrame("end", "own"))
    /\ UNCHANGED <<call, reply, request, answered, pos, trailers, sent>>

PollEncode == SendTrailers \/ EncodeData \/ CaptureTrailers \/ InnerEnds \/ InnerFails \/ EndBody
Next == Forward \/ Answer \/ PollDecode \/ PollEncode
Spec == Init /\ [][Next]_vars

(* The service calls and is called; the peer reads the response.           *)
FairSpec == Spec /\ WF_vars(Forward) /\ WF_vars(Answer) /\ WF_vars(PollEncode)
-----------------------------------------------------------------------------
(* Where characters of the text are: a place in a frame that the service   *)
(* gets, or, behind them all, in what is carried over.                     *)
Held(i) == IF i \in DOMAIN decoded THEN decoded[i].at ELSE buf
Places == UNION { {i} \X DOMAIN Held(i) : i \in 1..Len(decoded) + 1 }
At(p) == Held(p[1])[p[2]]

(***************************************************************************)
(* Cut at any byte, every character of the text that has come is used once:*)
(* it is in one frame the service gets, or still carried over              *)
(* (call.rs:113-117).                                                      *)
(***************************************************************************)
NothingLost ==
    /\ { At(p) : p \in Places } = 1..read
    /\ \A p, q \in Places : At(p) = At(q) => p = q

(***************************************************************************)
(* As long as no chunk overtakes the carry, the service gets the bytes of  *)
(* the text in their order, group by group (call.rs:107-131).              *)
(***************************************************************************)
Before(p, q) == p[1] < q[1] \/ (p[1] = q[1] /\ p[2] < q[2])
InOrder == jumped = "no" => \A p, q \in Places : Before(p, q) => At(p) < At(q)

(***************************************************************************)
(* What the doc of GrpcWebCall says of a request in text mode: of a text   *)
(* that is base64 the service gets what it stands for, in its order, none  *)
(* of the text itself, and all of it when all has come (call.rs:17-18).    *)
(***************************************************************************)
WholeText == [i \in 1..Len(call.body) |-> i]
StandardFrames ==
    Mode = "base64" /\ Decodes(WholeText) =>
        /\ \A p, q \in Places : Before(p, q) => At(p) < At(q)
        /\ \A i \in DOMAIN decoded : decoded[i].as # "raw"
        /\ read = Len(call.body) => buf = <<>>

(***************************************************************************)
(* The code keeps that as long as no chunk overtakes the carry.  One that  *)
(* does, as it can be decoded by itself, breaks the groups of the text, of *)
(* which the rest may be decoded to something else, passed on as it is, or *)
(* left behind at the end (call.rs:109-124).                               *)
(***************************************************************************)
StandardUnlessOvertaken == jumped = "no" => StandardFrames

(***************************************************************************)
(* The request as the service reads it: every character once, in order and *)
(* as standard frames, unless a chunk overtakes what is carried over       *)
(* (call.rs:95-135).                                                       *)
(***************************************************************************)
RequestArrives ==
    /\ TypeOK
    /\ NothingLost
    /\ InOrder
    /\ StandardUnlessOvertaken

(***************************************************************************)
(* A response to a gRPC-Web request that ends does so behind exactly one   *)
(* frame with the trailer flag, which has the status the service ended     *)
(* with, and no HTTP trailers, which a browser could not read              *)
(* (call.rs:161-201).                                                      *)
(***************************************************************************)
TrailersOnceAndLast ==
    IsGrpcWeb =>
        /\ \A i \in DOMAIN out : out[i].as # "trailers"
        /\ Done(out) /\ Last(out).as = "end" =>
               out = [i \in 1..reply.frames |-> ResponseFrame("data", i)]
                     \o <<ResponseFrame("flagged",
                                       IF reply.ending = "trailers" THEN "own" ELSE "empty"),
                          ResponseFrame("end", "own")>>

(***************************************************************************)
(* The headers fit the bodies: no length of the encoded request is passed  *)
(* on with the decoded one, and a browser is answered in the encoding the  *)
(* body has (service.rs:77-113).                                           *)
(***************************************************************************)
HeadersFit ==
    /\ forwarded # None /\ Mode = "base64" => forwarded.length = "no"
    /\ answered # None => Encoding(answered.type) = Mode

(***************************************************************************)
(* The response as a browser reads it: its status behind its data and      *)
(* headers that fit the body (call.rs:161-201, service.rs:77-113).         *)
(***************************************************************************)
ResponseArrives ==
    /\ TrailersOnceAndLast
    /\ HeadersFit

(***************************************************************************)
(* The response body ends (call.rs:161-205).                               *)
(***************************************************************************)
ResponseEnds == <>Done(out)
=============================================================================
