------------------------------- MODULE H3Call -------------------------------
(***************************************************************************)
(* One call over HTTP/3: H3Channel (grpc-client, h3_channel.rs), whose     *)
(* detached task sends the body of the request while the caller reads the  *)
(* response, and serve_request with send_h3_response (grpc-server,         *)
(* h3_server.rs).  Both ends read through a body with the flags data_done  *)
(* and trailers_done, polled only when it has been woken.  QUIC gives each *)
(* direction a window; the connection may be lost, timers may fire, the    *)
(* caller may go away, and a body or a service may be pending for as long  *)
(* as it likes, which neither task watches anything else for.              *)
(***************************************************************************)
EXTENDS Integers, Sequences, SequencesExt, FiniteSets

CONSTANTS
    Bodies,         \* bodies of requests: sequences of items
    Replies,        \* bodies of responses of a service that does not read
    Services,       \* how the service answers: "echo", "whole", "early"
    Timeouts,       \* whose timers may fire: a set of sets of ends
    Window          \* data frames on their way in one direction

Item == {"data", "trailers", "error"}
Ends == {"client", "server"}

(* What is awaited and may never come: the next frame of the request's     *)
(* body, the service, and the next frame of the body of an early response. *)
Sources == {"request", "service", "reply"}

(* The body of a response ends in trailers or fails, as EncodeBody of a    *)
(* server does.                                                            *)
ASSUME H3CallAssumption ==
    /\ Bodies \cup Replies \subseteq Seq(Item)
    /\ \A body \in Replies : ToSet(body) \cap {"trailers", "error"} # {}
    /\ Services \subseteq {"echo", "whole", "early"}
    /\ \A t \in Timeouts : t \subseteq Ends
    /\ Window \in Nat \ {0}

VARIABLES
    service, timers,    \* what is called; whose timers are set
    idle,       \* the sources that are pending
    script,     \* the body of the request
    body,       \* what the body of the request has still to yield
    sender,     \* the task that sends it: "sending", "finishing", "done"
    yielded,    \* data frames that it has given to the transport
    call,       \* the caller: "waiting", "reading", "done" or "gone"
    result,     \* what the caller was told
    wire,       \* frames on their way to each end
    stopped,    \* ends that do not read (any more)
    reader,     \* H3RecvBody of the server, H3ClientRecvBody of the client
    got,        \* data frames that each end has read
    request,    \* what the service knows of the end of the request
    server,     \* serve_request: "call", "loop", "finishing", "ended"
    reply,      \* what the body of the response has ready
    kept,       \* trailers that send_h3_response keeps for the end
    replied,    \* data frames of the response given to the transport
    verdict,    \* history: how the body of the response ended
    lost        \* is the connection lost?

config == <<service, timers, script>>
clientVars == <<body, sender, yielded, call, result>>
serverVars == <<request, server, reply, kept, replied, verdict>>
readers == <<reader, got>>
vars == <<config, idle, clientVars, serverVars, readers, wire, stopped, lost>>

Fresh == [dataDone |-> "no", trailersDone |-> "no", awake |-> "yes"]

Init ==
    /\ service \in Services /\ timers \in Timeouts
    /\ idle \in SUBSET (IF service = "early" THEN Sources ELSE Sources \ {"reply"})
    /\ script \in Bodies /\ body = script
    /\ sender = "sending" /\ yielded = 0 /\ call = "waiting" /\ result = "none"
    /\ wire = [e \in Ends |-> <<>>] /\ stopped = {}
    /\ reader = [e \in Ends |-> Fresh] /\ got = [e \in Ends |-> 0]
    /\ request = "unknown" /\ server = "call" /\ kept = "none"
    /\ reply \in (IF service = "early" THEN Replies ELSE {<<>>})
    /\ replied = 0 /\ verdict = "none" /\ lost = "no"
-----------------------------------------------------------------------------
(* A source that is pending may yield, but nothing says that it will; what *)
(* has yielded may be pending again.                                       *)
SourceYields(source) ==
    /\ source \in idle /\ idle' = idle \ {source}
    /\ UNCHANGED <<config, clientVars, serverVars, readers, wire, stopped, lost>>

Rests(source) == idle' \in {idle, idle \cup {source}}
-----------------------------------------------------------------------------
(* The transport (external).  A frame that arrives wakes its reader; a     *)
(* reader that is gone makes sending fail, and what a lost connection      *)
(* still holds may be lost.                                                *)
Comes(items, kinds) == items # <<>> /\ Head(items) \in kinds
At(e, frames) == Comes(wire[e], frames)
Room(e) == Cardinality({ i \in DOMAIN wire[e] : wire[e][i] = "data" }) < Window
Deaf(e) == e \in stopped \/ lost = "yes"
Put(e, frame) == wire' = [wire EXCEPT ![e] = Append(@, frame)]
Wake(e) == reader' = [reader EXCEPT ![e].awake = "yes"]
Deliver(e, frame) ==
    IF Deaf(e) THEN UNCHANGED <<wire, reader>> ELSE Put(e, frame) /\ Wake(e)

ConnectionLost ==
    /\ lost = "no"
    /\ lost' = "yes"
    /\ \E n \in 0..Len(wire["client"]), m \in 0..Len(wire["server"]) :
           wire' = [e \in Ends |->
               Append(SubSeq(wire[e], 1, IF e = "client" THEN n ELSE m), "reset")]
    /\ reader' = [e \in Ends |-> [reader[e] EXCEPT !.awake = "yes"]]
    /\ UNCHANGED <<config, idle, clientVars, serverVars, got, stopped>>
-----------------------------------------------------------------------------
(* The task that sends the body of the request: it awaits poll_frame and,  *)
(* when there is data, send_data, and never both.                          *)
Sends(kinds) == sender = "sending" /\ "request" \notin idle /\ Comes(body, kinds)

SendData ==
    /\ Sends({"data"})
    /\ ~Deaf("server") /\ Room("server")
    /\ Deliver("server", "data")
    /\ yielded' = yielded + 1
    /\ body' = Tail(body) /\ Rests("request")
    /\ UNCHANGED <<config, sender, call, result, serverVars, got, stopped, lost>>

(* Mutant of SendDataFails: noticed by a send, not while one waits.        *)
SendDataFailsLate ==
    /\ Sends({"data"})
    /\ Deaf("server") /\ Room("server")
    /\ sender' = "finishing"
    /\ UNCHANGED <<config, idle, body, yielded, call, result, serverVars, readers, wire, stopped, lost>>

SendDataFails ==
    /\ Sends({"data"})
    /\ Deaf("server")
    /\ sender' = "finishing"
    /\ UNCHANGED <<config, idle, body, yielded, call, result, serverVars, readers, wire, stopped, lost>>

SendTrailers ==
    /\ Sends({"trailers"})
    /\ Deliver("server", "trailers")
    /\ sender' = "finishing" /\ body' = Tail(body)
    /\ UNCHANGED <<config, idle, yielded, call, result, serverVars, got, stopped, lost>>

(* The end of the body and its error are treated alike.                    *)
BodyEnds ==
    /\ sender = "sending" /\ "request" \notin idle
    /\ ~Comes(body, {"data", "trailers"})
    /\ sender' = "finishing"
    /\ UNCHANGED <<config, idle, body, yielded, call, result, serverVars, readers, wire, stopped, lost>>

FinishRequest ==
    /\ sender = "finishing"
    /\ Deliver("server", "fin")
    /\ sender' = "done"
    /\ UNCHANGED <<config, idle, body, yielded, call, result, serverVars, got, stopped, lost>>

Sender == SendData \/ SendDataFails \/ SendTrailers \/ BodyEnds \/ FinishRequest
-----------------------------------------------------------------------------
(* poll_frame of both bodies, by what the transport has.  `yield` is what  *)
(* it returns: data, one of two kinds of trailers, "none", "error", or     *)
(* "pending".                                                              *)
Trailers == {"trailers", "error trailers"}
Tells(e, yield) ==
    /\ reader[e].awake = "yes"
    /\ got' = IF yield = "data" THEN [got EXCEPT ![e] = @ + 1] ELSE got

PollDone(e, yield) ==
    /\ reader[e].trailersDone = "yes" /\ yield = "none"
    /\ Tells(e, yield) /\ UNCHANGED <<reader, wire>>

PollData(e, yield) ==
    /\ reader[e].trailersDone = "no" /\ reader[e].dataDone = "no"
    /\ At(e, {"data"}) /\ yield = "data"
    /\ Tells(e, yield) /\ UNCHANGED reader
    /\ wire' = [wire EXCEPT ![e] = Tail(@)]

(* The data are over: pending, having woken itself.                        *)
PollDataEnd(e, yield) ==
    /\ reader[e].trailersDone = "no" /\ reader[e].dataDone = "no"
    /\ At(e, Trailers \cup {"fin"}) /\ yield = "pending"
    /\ Tells(e, yield)
    /\ reader' = [reader EXCEPT ![e].dataDone = "yes"]
    /\ UNCHANGED wire

PollTrailers(e, yield) ==
    /\ reader[e].trailersDone = "no" /\ reader[e].dataDone = "yes"
    /\ \/ At(e, Trailers) /\ yield = Head(wire[e])
       \/ At(e, {"fin"}) /\ yield = "none"
    /\ Tells(e, yield)
    /\ reader' = [reader EXCEPT ![e].trailersDone = "yes"]
    /\ wire' = [wire EXCEPT ![e] = Tail(@)]

(* An error among the data leaves the flags alone, one for the trailers    *)
(* sets trailers_done.                                                     *)
PollReset(e, yield) ==
    /\ reader[e].trailersDone = "no" /\ At(e, {"reset"}) /\ yield = "error"
    /\ Tells(e, yield)
    /\ reader' = [reader EXCEPT ![e].trailersDone = reader[e].dataDone]
    /\ UNCHANGED wire

PollIdle(e, yield) ==
    /\ reader[e].trailersDone = "no" /\ wire[e] = <<>> /\ yield = "pending"
    /\ Tells(e, yield)
    /\ reader' = [reader EXCEPT ![e].awake = "no"]
    /\ UNCHANGED wire

PollFrame(e, yield) ==
    \/ PollDone(e, yield) \/ PollData(e, yield) \/ PollDataEnd(e, yield)
    \/ PollTrailers(e, yield) \/ PollReset(e, yield) \/ PollIdle(e, yield)
-----------------------------------------------------------------------------
(* The service polls the request while it is called ("whole") or while its *)
(* response is polled ("echo").                                            *)
ReadsRequest ==
    /\ request = "unknown"
    /\ \/ service = "whole" /\ server = "call"
       \/ service = "echo" /\ server = "loop" /\ reply = <<>>

(* What the service makes of a frame: an echo of data, at the end trailers *)
(* or an error.  It reads until the body yields None.                      *)
ReadRequest ==
    /\ ReadsRequest
    /\ \E yield \in {"data", "trailers", "none", "error", "pending"} :
           /\ PollFrame("server", yield)
           /\ request' = CASE yield = "none" -> "whole"
                           [] yield = "error" -> "error"
                           [] OTHER -> request
           /\ reply' = CASE yield = "data" /\ service = "echo" -> <<"data">>
                         [] yield = "none" ->
                                (IF service = "whole" THEN <<"data">> ELSE <<>>) \o <<"trailers">>
                         [] yield = "error" /\ service = "echo" -> <<"error">>
                         [] OTHER -> reply
    /\ UNCHANGED <<config, idle, clientVars, server, kept, replied, verdict, stopped, lost>>

(* The service returns its response, and the head is sent.  What does not  *)
(* read the request any more drops its body, which stops the stream.       *)
ServiceReturns ==
    /\ server = "call" /\ "service" \notin idle
    /\ service = "whole" => request = "whole"
    /\ server' = IF Deaf("client") THEN "ended" ELSE "loop"
    /\ stopped' = IF service = "echo" /\ server' = "loop" THEN stopped
                  ELSE stopped \cup {"server"}
    /\ Deliver("client", "head")
    /\ UNCHANGED <<config, idle, clientVars, request, reply, kept, replied, verdict, got, lost>>

(* A status instead of a response: it is in the head, and there is no body.*)
RespondStatus ==
    /\ server = "call"
    /\ server' = IF Deaf("client") THEN "ended" ELSE "finishing"
    /\ stopped' = stopped \cup {"server"}
    /\ Deliver("client", "error head")
    /\ verdict' = "error"
    /\ UNCHANGED <<config, idle, clientVars, request, reply, kept, replied, got, lost>>

ServiceFails == request = "error" /\ "service" \notin idle /\ RespondStatus

(* tokio::time::timeout drops the service with its request.                *)
ServerTimesOut == "server" \in timers /\ RespondStatus

(* The loop of send_h3_response takes what its body yields.                *)
ReplyYields(kinds) == "reply" \notin idle /\ Comes(reply, kinds)

SendReply ==
    /\ server = "loop" /\ ReplyYields({"data"})
    /\ ~Deaf("client") /\ Room("client")
    /\ Deliver("client", "data")
    /\ replied' = replied + 1 /\ reply' = Tail(reply)
    /\ IF service = "early" THEN Rests("reply") ELSE UNCHANGED idle
    /\ UNCHANGED <<config, clientVars, request, server, kept, verdict, got, stopped, lost>>

(* `?` on a send: the response is dropped, and the request with it.        *)
ReplyFails ==
    /\ server \in {"loop", "finishing"} /\ Deaf("client")
    /\ \/ ReplyYields({"data"})
       \/ server = "finishing"
    /\ server' = "ended"
    /\ stopped' = stopped \cup {"server"}
    /\ UNCHANGED <<config, idle, clientVars, request, reply, kept, replied, verdict, readers, wire, lost>>

(* Mutant of KeepTrailers: an error ends the response as if it were over.  *)
KeepTrailersOk ==
    /\ server = "loop" /\ ReplyYields({"trailers", "error"})
    /\ kept' = "trailers"
    /\ verdict' = Head(reply)
    /\ reply' = IF Head(reply) = "error" THEN <<>> ELSE Tail(reply)
    /\ server' = IF Head(reply) = "error" THEN "finishing" ELSE server
    /\ UNCHANGED <<config, idle, clientVars, request, replied, readers, wire, stopped, lost>>

(* Trailers are kept until the body has ended; an error becomes trailers   *)
(* and ends the loop.                                                      *)
KeepTrailers ==
    /\ server = "loop" /\ ReplyYields({"trailers", "error"})
    /\ kept' = IF Head(reply) = "error" THEN "error trailers" ELSE "trailers"
    /\ verdict' = Head(reply)
    /\ reply' = IF Head(reply) = "error" THEN <<>> ELSE Tail(reply)
    /\ server' = IF Head(reply) = "error" THEN "finishing" ELSE server
    /\ UNCHANGED <<config, idle, clientVars, request, replied, readers, wire, stopped, lost>>

ReplyEnds ==
    /\ server = "loop" /\ "reply" \notin idle /\ reply = <<>> /\ ~ReadsRequest
    /\ server' = "finishing"
    /\ UNCHANGED <<config, idle, clientVars, request, reply, kept, replied, verdict, readers, wire, stopped, lost>>

FinishReply ==
    /\ server = "finishing" /\ ~Deaf("client")
    /\ wire' = [wire EXCEPT !["client"] =
                    @ \o (IF kept = "none" THEN <<>> ELSE <<kept>>) \o <<"fin">>]
    /\ Wake("client")
    /\ server' = "ended"
    /\ stopped' = stopped \cup {"server"}
    /\ UNCHANGED <<config, idle, clientVars, request, reply, kept, replied, verdict, got, lost>>

Server ==
    ReadRequest \/ ServiceReturns \/ ServiceFails \/ SendReply \/ ReplyFails \/ KeepTrailers
    \/ ReplyEnds \/ FinishReply
-----------------------------------------------------------------------------
Tell(outcome) == call' = "done" /\ result' = outcome

(* Mutant of ReceiveHead: the body is sent before the response is awaited. *)
ReceiveHeadAfterBody ==
    /\ call = "waiting" /\ sender = "done" /\ At("client", {"head", "error head", "reset"})
    /\ IF At("client", {"head"}) THEN call' = "reading" /\ UNCHANGED result
       ELSE Tell(IF At("client", {"reset"}) THEN "transport error" ELSE "error")
    /\ wire' = [wire EXCEPT !["client"] = Tail(@)]
    /\ UNCHANGED <<config, idle, body, sender, yielded, serverVars, readers, stopped, lost>>

(* recv_response.                                                          *)
ReceiveHead ==
    /\ call = "waiting" /\ At("client", {"head", "error head", "reset"})
    /\ IF At("client", {"head"}) THEN call' = "reading" /\ UNCHANGED result
       ELSE Tell(IF At("client", {"reset"}) THEN "transport error" ELSE "error")
    /\ wire' = [wire EXCEPT !["client"] = Tail(@)]
    /\ UNCHANGED <<config, idle, body, sender, yielded, serverVars, readers, stopped, lost>>

(* H3Channel::call: the future with the receiving half is dropped, the     *)
(* task that sends is not.                                                 *)
ClientTimesOut ==
    /\ call = "waiting" /\ "client" \in timers
    /\ Tell("deadline exceeded")
    /\ stopped' = stopped \cup {"client"}
    /\ UNCHANGED <<config, idle, body, sender, yielded, serverVars, readers, wire, lost>>

CallerLeaves ==
    /\ call \in {"waiting", "reading"}
    /\ call' = "gone"
    /\ stopped' = stopped \cup {"client"}
    /\ UNCHANGED <<config, idle, body, sender, yielded, result, serverVars, readers, wire, lost>>

(* The caller reads until trailers, the end or an error.                   *)
ReadReply ==
    /\ call = "reading"
    /\ \/ \E yield \in {"data", "pending"} :
              PollFrame("client", yield) /\ UNCHANGED <<call, result>>
       \/ \E yield \in Trailers \cup {"none", "error"} :
              /\ PollFrame("client", yield)
              /\ Tell(CASE yield = "trailers" -> "ok"
                        [] yield = "error trailers" -> "error"
                        [] yield = "none" -> "no status"
                        [] yield = "error" -> "transport error")
    /\ UNCHANGED <<config, idle, body, sender, yielded, serverVars, stopped, lost>>

Caller == ReceiveHead \/ ReadReply
Next ==
    \/ Sender \/ Server \/ Caller
    \/ ServerTimesOut \/ ClientTimesOut \/ CallerLeaves \/ ConnectionLost
    \/ \E source \in Sources : SourceYields(source)

(* The tasks are scheduled and timers that are set fire; no source has to  *)
(* yield.                                                                  *)
Fairness ==
    /\ WF_vars(Sender) /\ WF_vars(Server) /\ WF_vars(Caller)
    /\ WF_vars(ServerTimesOut) /\ WF_vars(ClientTimesOut)
Spec == Init /\ [][Next]_vars /\ Fairness
-----------------------------------------------------------------------------
(* The number of data frames of a body, until it ends or fails.            *)
DataOf(items) == Cardinality({ i \in DOMAIN items : \A j \in 1..i : items[j] = "data" })

(* Types; what is kept for the end of a response is how its body ended,    *)
(* and no window is exceeded (send_h3_response).                           *)
TypeOK ==
    /\ sender \in {"sending", "finishing", "done"}
    /\ call \in {"waiting", "reading", "done", "gone"}
    /\ server \in {"call", "loop", "finishing", "ended"}
    /\ request \in {"unknown", "whole", "error"}
    /\ idle \subseteq Sources
    /\ kept = "trailers" => verdict = "trailers"
    /\ \A e \in Ends : Cardinality({ i \in DOMAIN wire[e] : wire[e][i] = "data" }) <= Window

(* A service that sees its request end has read all that the body of the   *)
(* request yielded: a transport that fails is not taken for the end        *)
(* (H3RecvBody::poll_frame).  That the body itself may have failed the     *)
(* service cannot see: the task that sends finishes the stream either way. *)
RequestIsWhole == request = "whole" => got["server"] = DataOf(script)

(* What the caller is told is how the response ended: OK only with all of  *)
(* the data, and for an echo the whole request, and a status always, which *)
(* is an error when the body of the response failed (send_h3_response,     *)
(* H3ClientRecvBody).                                                      *)
ResultIsTrue ==
    /\ result = "ok" =>
           /\ verdict = "trailers" /\ got["client"] = replied
           /\ service = "echo" => request = "whole" /\ replied = got["server"]
    /\ result = "error" => verdict = "error"
    /\ result # "no status"

(***************************************************************************)
(* What the two sides of a call over HTTP/3 know of each other: the        *)
(* service of the request, the caller of the result, in states of their    *)
(* types (h3_channel.rs:173-206, h3_server.rs:290-366).                    *)
(***************************************************************************)
CallInv ==
    /\ TypeOK
    /\ RequestIsWhole
    /\ ResultIsTrue

(* What the server may wait for without end: a service that never returns  *)
(* and has no timer, a response that is idle, or a request whose body is,  *)
(* of which it is never told that the caller has gone.                     *)
Starves == "request" \in idle /\ lost = "no" /\ wire["server"] = <<>>
ServerWaits ==
    \/ /\ server = "call" /\ "server" \notin timers
       /\ "service" \in idle \/ (service = "whole" /\ Starves)
    \/ /\ server = "loop"
       /\ "reply" \in idle \/ (service = "echo" /\ Starves)

(* The call ends, also when the windows of both directions are full, as    *)
(* the response is read while the request is sent (send_h3_request),       *)
(* unless the server is kept waiting for ever by its service, a response   *)
(* or a request that yields nothing: then a timer of the client ends it if *)
(* the head has not come, and a lost connection does in any case.          *)
CallEnds ==
    <>[](\/ call \in {"done", "gone"}
         \/ lost = "no" /\ ServerWaits /\ (call = "waiting" => "client" \notin timers))

(* The task that sends the request, which outlives a call that timed out   *)
(* or was dropped (h3_channel.rs:173), and the server's task end, whoever  *)
(* has gone, unless what they await yields nothing for ever: the task that *)
(* sends its body, or room that only a server which waits could make; the  *)
(* server what `ServerWaits` says.  A service that never returns ends with *)
(* its timer.                                                              *)
TasksEnd ==
    /\ <>[](sender = "done" \/ "request" \in idle \/ (ServerWaits /\ ~Deaf("server")))
    /\ <>[](server = "ended" \/ ServerWaits)
=============================================================================
