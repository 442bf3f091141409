--------------------------------- MODULE Rpc ---------------------------------
(***************************************************************************)
(* One call over HTTP/2, from the client's dispatcher                      *)
(* (grpc-client/src/grpc.rs) through Channel::call to the server's         *)
(* (server.rs, interceptor.rs, router.rs) and its handler                  *)
(* (grpc-server/src/grpc.rs), and back.  The messages of both directions   *)
(* are numbers; Streaming and EncodeBody appear as what they promise: the  *)
(* messages in order and a final status.  Timers may fire and either end   *)
(* may go away at any time.                                                *)
(***************************************************************************)
EXTENDS GrpcStatus, SequencesExt

CONSTANTS
    Calls,          \* calls to be made, see CallType
    Failures,       \* codes a service or an interceptor fails with
    MaxReplies      \* bound: messages of a response stream

Pattern == {"unary", "client_streaming", "server_streaming", "streaming"}

(* `requests` messages, of which number `bad` cannot be encoded (0: none). *)
(* The dispatcher sends one for the first and third pattern; other counts  *)
(* are those of a foreign client.  `refusal` is what stands in the way of  *)
(* the request; the timeouts are those of Channel and Server.              *)
CallType == [pattern : Pattern, requests : Nat, bad : Nat,
             refusal : {"none", "uri", "interceptor", "router", "encoding"},
             channelTimeout : {"yes", "no"}, serverTimeout : {"yes", "no"}]

ASSUME CallsAssumption == \A c \in Calls : c \in CallType
ASSUME FailuresAssumption == Failures \subseteq Code
ASSUME MaxRepliesAssumption == MaxReplies \in Nat \ {0}

VARIABLES
    call,       \* the call
    client,     \* where the dispatcher stands
    upload,     \* request messages the transport has taken, and the end
    requestQ,   \* the request on its way: frames
    server,     \* where the server stands
    requestEnd, \* has the server seen the end of the request?
    called,     \* history: had it when the service was called?
    verdict,    \* the status the call was ended with at the server's end;
                \* NoStatus if a proxy has answered without one
    sent,       \* response messages the service has given out
    responseQ,  \* the response on its way: frames
    http,       \* status of the response head; NoStream without a stream
    got,        \* response messages the client has read
    result,     \* what the caller is told in the end
    lost        \* has the connection been lost?

clientVars == <<client, upload, http, got, result>>
serverVars == <<server, requestEnd, called, verdict, sent>>
vars == <<call, clientVars, requestQ, serverVars, responseQ, lost>>

None == "none"
NoStream == 0
Frame(kind) == [kind |-> kind]
Message(n) == [kind |-> "message", number |-> n]
HeadFrame(status, code) == [kind |-> "head", status |-> status, http |-> code]
TrailersFrame(status) == [kind |-> "trailers", status |-> status]

TypeOK ==
    /\ call \in Calls
    /\ client \in {"prepare", "waiting", "message", "trailers", "streaming", "done"}
    /\ upload \in 0..call.requests + 1
    /\ server \in {"idle", "first", "rest", "service", "replying", "ended", "dropped"}
    /\ requestEnd \in {"yes", "no"} /\ called \in {None, "early", "whole"}
    /\ verdict \in Code \cup {None, NoStatus}
    /\ result \in Code \cup {None, "cancelled by caller"}
    /\ \A i \in DOMAIN got : got[i] = i
    /\ Len(sent) <= MaxReplies
    /\ (result = None) = (client # "done")

Init ==
    /\ call \in Calls
    /\ client = "prepare" /\ upload = 0 /\ requestQ = <<>>
    /\ server = "idle" /\ requestEnd = "no" /\ called = None
    /\ verdict = None /\ sent = <<>> /\ responseQ = <<>>
    /\ http = 200 /\ got = <<>> /\ result = None /\ lost = "no"

(* One message each way, as the dispatchers have it.                       *)
OneRequest == call.pattern \in {"unary", "server_streaming"}
OneReply == call.pattern \in {"unary", "client_streaming"}

(* What Streaming gives for a message that breaks the framing or that the  *)
(* codec or the decompressor refuses, and for one over the limit.          *)
DecodeFailure == {"Internal", "OutOfRange"}

(* from_error: the codes of what hyper and io::Error report.               *)
TransportCode == {"Unknown", "Unavailable", "Internal"}
Reset == Frame("reset")
IsReset(q) == \E i \in DOMAIN q : q[i].kind = "reset"
WithReset(q) == IF IsReset(q) THEN q ELSE Append(q, Reset)
-----------------------------------------------------------------------------
Tell(outcome) ==
    /\ result' = outcome
    /\ client' = "done"

(* prepare_request and the request head.                                   *)
SendHead ==
    /\ client = "prepare"
    /\ \/ /\ call.refusal = "uri"
          /\ Tell("Internal")
          /\ UNCHANGED requestQ
       \/ /\ call.refusal # "uri"
          /\ client' = "waiting"
          /\ requestQ' = Append(requestQ, Frame("head"))
          /\ UNCHANGED result
    /\ UNCHANGED <<call, upload, http, got, serverVars, responseQ, lost>>

Uploading == client \notin {"prepare", "done"} /\ ~IsReset(requestQ)

(* EncodeBody::new_client under hyper: messages, then the end.             *)
SendMessage ==
    /\ Uploading
    /\ upload < call.requests /\ upload + 1 # call.bad
    /\ upload' = upload + 1
    /\ requestQ' = Append(requestQ, Message(upload + 1))
    /\ UNCHANGED <<call, client, http, got, result, serverVars, responseQ, lost>>

SendEnd ==
    /\ Uploading /\ upload = call.requests
    /\ upload' = upload + 1
    /\ requestQ' = Append(requestQ, Frame("end"))
    /\ UNCHANGED <<call, client, http, got, result, serverVars, responseQ, lost>>

(* A message that cannot be encoded resets the stream (external: hyper),   *)
(* also for what of the response has not been read yet.                    *)
SendFails ==
    /\ Uploading /\ upload + 1 = call.bad
    /\ requestQ' = WithReset(requestQ)
    /\ \E n \in 0..Len(responseQ) : responseQ' = Append(SubSeq(responseQ, 1, n), Reset)
    /\ UNCHANGED <<call, clientVars, serverVars, lost>>
-----------------------------------------------------------------------------
Active == {"first", "rest", "service", "replying"}
Respond(frames) == responseQ' = responseQ \o frames
TrailersOnly(code) ==
    /\ verdict' = code
    /\ server' = "ended"
    /\ Respond(<<HeadFrame(code, 200), Frame("end")>>)

(* What the request meets before its handler, in this order:               *)
(* InterceptedService, Router (no route, no fallback), from_encoding_header.*)
Refused ==
    \/ /\ call.refusal = "interceptor"
       /\ \E code \in Failures : TrailersOnly(code)
    \/ /\ call.refusal \in {"router", "encoding"}
       /\ TrailersOnly("Unimplemented")

(* unary and server_streaming read the message first (map_request_unary),  *)
(* the others call the service at once (map_request_streaming).            *)
AcceptRequest ==
    /\ server = "idle" /\ requestQ # <<>> /\ requestQ[1].kind = "head"
    /\ requestQ' = Tail(requestQ)
    /\ \/ Refused /\ UNCHANGED called
       \/ /\ call.refusal = "none" /\ OneRequest
          /\ server' = "first"
          /\ UNCHANGED <<called, verdict, responseQ>>
       \/ /\ call.refusal = "none" /\ ~OneRequest
          /\ server' = "service"
          /\ called' = "early"
          /\ UNCHANGED <<verdict, responseQ>>
    /\ UNCHANGED <<call, clientVars, requestEnd, sent, lost>>

Reads(kind) ==
    /\ requestQ # <<>> /\ requestQ[1].kind = kind
    /\ requestQ' = Tail(requestQ)
    /\ requestEnd' = IF kind = "end" THEN "yes" ELSE requestEnd
    /\ UNCHANGED <<call, clientVars, sent, lost>>

(* A message that cannot be decoded is the end of the call.                *)
ReadBroken ==
    /\ server \in {"first", "rest"}
    /\ Reads("message")
    /\ \E code \in DecodeFailure : TrailersOnly(code)
    /\ UNCHANGED called

ReadFirst ==
    /\ server = "first"
    /\ \/ /\ Reads("message")
          /\ server' = "rest"
          /\ UNCHANGED <<called, verdict, responseQ>>
       \/ Reads("end") /\ TrailersOnly("Internal") /\ UNCHANGED called

(* trailers() reads on to the end; further messages are dropped.           *)
ReadRest ==
    /\ server = "rest"
    /\ \/ Reads("message") /\ UNCHANGED <<server, called>>
       \/ /\ Reads("end")
          /\ server' = "service"
          /\ called' = "whole"
    /\ UNCHANGED <<verdict, responseQ>>

(* The service, or its response stream, reads the request stream.          *)
ServiceReads ==
    /\ ~OneRequest /\ server \in {"service", "replying"}
    /\ Reads("message") \/ Reads("end")
    /\ UNCHANGED <<server, called, verdict, responseQ>>

(* map_response of an Ok: the head, without a status.                      *)
ServiceReturns ==
    /\ server = "service"
    /\ server' = "replying"
    /\ Respond(<<HeadFrame(NoStatus, 200)>>)
    /\ UNCHANGED <<call, clientVars, requestQ, requestEnd, called, verdict, sent, lost>>

ServiceFails ==
    /\ server = "service"
    /\ \E code \in Failures : TrailersOnly(code)
    /\ UNCHANGED <<call, clientVars, requestQ, requestEnd, called, sent, lost>>

(* Mutant of ServerTimesOut: the timer covers the service alone.           *)
ServerTimesOutLate ==
    /\ call.serverTimeout = "yes"
    /\ server = "service"
    /\ TrailersOnly("DeadlineExceeded")
    /\ UNCHANGED <<call, clientVars, requestQ, requestEnd, called, sent, lost>>

(* HyperServiceWrapper: the timer drops the future of the whole service.   *)
ServerTimesOut ==
    /\ call.serverTimeout = "yes"
    /\ server \in {"first", "rest", "service"}
    /\ TrailersOnly("DeadlineExceeded")
    /\ UNCHANGED <<call, clientVars, requestQ, requestEnd, called, sent, lost>>

(* EncodeBody::new_server over the stream of the service: messages, then   *)
(* the status it ended with or failed to be encoded with.                  *)
Reply ==
    /\ server = "replying"
    /\ Len(sent) < IF OneReply THEN 1 ELSE MaxReplies
    /\ sent' = Append(sent, Len(sent) + 1)
    /\ Respond(<<Message(Len(sent) + 1)>>)
    /\ UNCHANGED <<call, clientVars, requestQ, server, requestEnd, called, verdict, lost>>

(* Mutant of ReplyEnds: the end of the stream is taken for a success.      *)
ReplyEndsOk ==
    /\ server = "replying"
    /\ \E code \in IF OneReply THEN (IF sent = <<>> THEN {"Internal"} ELSE {"Ok"})
                   ELSE Failures \cup {"Ok"} :
           /\ verdict' = code
           /\ server' = "ended"
    /\ Respond(<<TrailersFrame("Ok")>>)
    /\ UNCHANGED <<call, clientVars, requestQ, requestEnd, called, sent, lost>>

ReplyEnds ==
    /\ server = "replying"
    /\ \E code \in IF OneReply THEN (IF sent = <<>> THEN {"Internal"} ELSE {"Ok"})
                   ELSE Failures \cup {"Ok"} :
           /\ verdict' = code
           /\ server' = "ended"
           /\ Respond(<<TrailersFrame(code)>>)
    /\ UNCHANGED <<call, clientVars, requestQ, requestEnd, called, sent, lost>>

(* A stream that is reset takes the future or the response body of its     *)
(* handler with it, whatever it is about to do (external: hyper).          *)
DropHandler ==
    /\ server \in Active \cup {"idle"} /\ IsReset(requestQ)
    /\ server' = "dropped"
    /\ UNCHANGED <<call, clientVars, requestQ, requestEnd, called, verdict, sent, responseQ, lost>>

ServerStep == AcceptRequest \/ ReadFirst \/ ReadRest \/ ReadBroken \/ DropHandler
Serve == ServerStep \/ ServiceReads \/ ServiceReturns \/ ServiceFails
            \/ ServerTimesOut \/ Reply \/ ReplyEnds
-----------------------------------------------------------------------------
Receives(kind) ==
    /\ responseQ # <<>> /\ responseQ[1].kind = kind
    /\ responseQ' = Tail(responseQ)
    /\ UNCHANGED <<call, upload, requestQ, serverVars, lost>>

(* create_response: a status in the head is the whole answer.  An Ok there *)
(* leaves an empty stream, in which a single reply is missing.             *)
ReceiveHead ==
    /\ client = "waiting" /\ Receives("head")
    /\ LET head == responseQ[1]
       IN  \/ /\ head.status = NoStatus
              /\ client' = IF OneReply THEN "message" ELSE "streaming"
              /\ http' = head.http
              /\ UNCHANGED result
           \/ /\ head.status = "Ok"
              /\ client' = IF OneReply THEN "message" ELSE "streaming"
              /\ http' = NoStream
              /\ UNCHANGED result
           \/ /\ head.status \in Code \ {"Ok"}
              /\ Tell(head.status)
              /\ UNCHANGED http
    /\ UNCHANGED got

(* Mutant of ReceiveMessage: a single reply is success as soon as it is    *)
(* there.                                                                  *)
ReceiveMessageReturns ==
    /\ client \in {"message", "streaming"} /\ Receives("message")
    /\ got' = Append(got, responseQ[1].number)
    /\ IF OneReply THEN Tell("Ok") ELSE UNCHANGED <<client, result>>
    /\ UNCHANGED http

(* The first message of a single reply, or an item of the caller's stream; *)
(* trailers() drops what follows a single reply.                           *)
ReceiveMessage ==
    /\ client \in {"message", "streaming", "trailers"} /\ Receives("message")
    /\ got' = IF client = "trailers" THEN got ELSE Append(got, responseQ[1].number)
    /\ client' = IF client = "message" THEN "trailers" ELSE client
    /\ UNCHANGED <<http, result>>

(* What Streaming makes of the end of the body.                            *)
Inferred(trailers) ==
    IF http = NoStream THEN "Ok"
    ELSE LET code == InferGrpcStatus(trailers, http)
         IN  IF code = NoStatus THEN "Ok" ELSE code

(* "Missing response message." if a single reply is missing.               *)
ReceiveEnd ==
    /\ client \in {"message", "trailers", "streaming"}
    /\ \E code \in Code :
           /\ \/ Receives("trailers") /\ code = Inferred(responseQ[1].status)
              \/ Receives("end") /\ code = Inferred(NoTrailers)
           /\ Tell(IF client = "message" /\ code = "Ok" THEN "Internal" ELSE code)
    /\ UNCHANGED <<http, got>>

(* Status::from_error of Channel::call's error, or the body's.             *)
ReceiveReset ==
    /\ client \notin {"prepare", "done"} /\ Receives("reset")
    /\ \E code \in TransportCode : Tell(code)
    /\ UNCHANGED <<http, got>>

(* A message that cannot be decoded is the caller's result; the response   *)
(* is dropped, hence the stream reset.                                     *)
ReceiveBroken ==
    /\ client \in {"message", "streaming", "trailers"}
    /\ responseQ # <<>> /\ responseQ[1].kind = "message"
    /\ responseQ' = Tail(responseQ)
    /\ \E code \in DecodeFailure : Tell(code)
    /\ requestQ' = WithReset(requestQ)
    /\ UNCHANGED <<call, upload, http, got, serverVars, lost>>

(* Mutant of ChannelTimesOut: the request goes on without its caller.      *)
ChannelTimesOutOnly ==
    /\ call.channelTimeout = "yes" /\ client = "waiting"
    /\ Tell("DeadlineExceeded")
    /\ UNCHANGED <<call, upload, http, got, requestQ, serverVars, responseQ, lost>>

(* Channel::call: the timer covers the wait for the head and no more.  The *)
(* request is dropped, hence reset.                                        *)
ChannelTimesOut ==
    /\ call.channelTimeout = "yes" /\ client = "waiting"
    /\ Tell("DeadlineExceeded")
    /\ requestQ' = WithReset(requestQ)
    /\ UNCHANGED <<call, upload, http, got, serverVars, responseQ, lost>>

(* The caller drops the future or the stream.                              *)
CallerCancels ==
    /\ client \notin {"prepare", "done"}
    /\ Tell("cancelled by caller")
    /\ requestQ' = WithReset(requestQ)
    /\ UNCHANGED <<call, upload, http, got, serverVars, responseQ, lost>>

ClientReads == ReceiveHead \/ ReceiveMessage \/ ReceiveBroken \/ ReceiveEnd \/ ReceiveReset
Dispatch == SendHead \/ ClientReads \/ ChannelTimesOut \/ CallerCancels
Upload == SendMessage \/ SendEnd \/ SendFails
-----------------------------------------------------------------------------
(* External: a proxy answers for a server it cannot reach, without a word  *)
(* on the status of the call.                                              *)
ProxyAnswers ==
    /\ server = "idle" /\ requestQ # <<>>
    /\ server' = "dropped"
    /\ verdict' = NoStatus
    /\ \E code \in {200, 503} : Respond(<<HeadFrame(NoStatus, code), Frame("end")>>)
    /\ UNCHANGED <<call, clientVars, requestQ, requestEnd, called, sent, lost>>

(* External: the connection breaks; either end may still find what it had  *)
(* received.                                                               *)
ConnectionLost ==
    /\ lost = "no" /\ client \notin {"prepare", "done"}
    /\ lost' = "yes"
    /\ \E m \in 0..Len(requestQ), n \in 0..Len(responseQ) :
           /\ requestQ' = Append(SubSeq(requestQ, 1, m), Reset)
           /\ responseQ' = Append(SubSeq(responseQ, 1, n), Reset)
    /\ UNCHANGED <<call, clientVars, serverVars>>

Next == Dispatch \/ Upload \/ Serve \/ ProxyAnswers \/ ConnectionLost
Spec == Init /\ [][Next]_vars

(* Both transports run, timers fire, and a reply that is there is sent.    *)
(* Services and callers' streams may hang for ever, and so may a caller    *)
(* that has the head of a stream.                                          *)
FairSpec ==
    /\ Spec
    /\ WF_vars(SendHead) /\ WF_vars(ClientReads) /\ WF_vars(ServerStep)
    /\ WF_vars(ChannelTimesOut) /\ WF_vars(ServerTimesOut)
    /\ WF_vars(OneReply /\ (Reply \/ ReplyEnds))
-----------------------------------------------------------------------------
Abstract == INSTANCE Call WITH
    Silent <- NoStatus,
    Local <- TransportCode \cup DecodeFailure \cup {"DeadlineExceeded", "cancelled by caller"}

(***************************************************************************)
(* The caller of any of the four patterns is told the truth: success only  *)
(* with every message and the server's own success, an error only if it is *)
(* the server's or a local one, under every order of timers, resets and    *)
(* answers (grpc-client/src/grpc.rs:150-168, 289-331).  The one success    *)
(* that no server gave is an empty stream, which an answer of HTTP 200     *)
(* without a status is taken for (status.rs:445).                          *)
(***************************************************************************)
ImplementsCall == Abstract!Spec

(***************************************************************************)
(* A service that takes one message is not called before the request has   *)
(* come to its regular end, and it comes there only with every message: a  *)
(* request that was cut short, reset or that could not be encoded has no   *)
(* effect (grpc-server/src/grpc.rs:178-212).                               *)
(***************************************************************************)
CalledWithWholeRequest ==
    OneRequest /\ called # None =>
        called = "whole" /\ upload = call.requests + 1

(***************************************************************************)
(* A single reply that is a success is one message, and the service has    *)
(* returned it; whoever timed out, was given what cannot be decoded or was *)
(* answered by a proxy has not been told a success                         *)
(* (grpc-client/src/grpc.rs:155-168).                                      *)
(***************************************************************************)
SingleReplyIsComplete ==
    OneReply /\ result = "Ok" =>
        got = <<1>> /\ verdict = "Ok" /\ called # None /\ server = "ended"

(***************************************************************************)
(* What a call is at every moment: no service acts on half a request and   *)
(* no caller takes half a reply for a success, in states of their types    *)
(* (grpc-server/src/grpc.rs:178-212, grpc-client/src/grpc.rs:155-168).     *)
(***************************************************************************)
CallInv ==
    /\ TypeOK
    /\ CalledWithWholeRequest
    /\ SingleReplyIsComplete

(***************************************************************************)
(* With a timeout at either end a caller that expects a single reply is    *)
(* told something, even if the service hangs (channel.rs:222-231,          *)
(* server.rs:444-455).                                                     *)
(***************************************************************************)
SingleCallEnds ==
    OneReply /\ (call.channelTimeout = "yes" \/ call.serverTimeout = "yes")
        ~> client = "done"

(***************************************************************************)
(* A call its caller has finished with, by whatever way, does not keep the *)
(* server busy (channel.rs:224, grpc-client/src/grpc.rs:150-168).          *)
(***************************************************************************)
FinishedIsDropped == client = "done" ~> server \notin Active
=============================================================================
