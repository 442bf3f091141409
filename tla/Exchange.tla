------------------------------ MODULE Exchange ------------------------------
(***************************************************************************)
(* The header maps of one call: what the client's dispatcher writes        *)
(* (grpc-client/src/grpc.rs), what the server's handler makes of it and    *)
(* answers with (grpc-server/src/grpc.rs), and what the caller is told.    *)
(* The call has one reply; Rpc has its messages, timers and failures.      *)
(*                                                                         *)
(* The specification's own names begin with `Exchange`, so that a module   *)
(* of proofs can extend this one and Rpc.                                  *)
(***************************************************************************)
EXTENDS Metadata

CONSTANTS
    UserMetadata,   \* header maps an application gives
    Enabled,        \* sets of encodings either end may have enabled
    Deadlines,      \* durations for set_timeout
    MaxTimeout,     \* largest value of a grpc-timeout
    UnitSize,       \* sizes of its six units, smallest first
    Statuses,       \* statuses a service ends or fails with
    ForeignMaps,    \* trailers of a foreign server
    Chains          \* errors of the transport, with their sources

ASSUME TimeoutAssumption ==
    /\ MaxTimeout \in Nat \ {0} /\ UnitSize[1] = 1
    /\ \A u \in 1..6 : UnitSize[u] \in Nat \ {0}
    /\ \A u \in 1..5 : UnitSize[u + 1] >= 2 * UnitSize[u]
    /\ Deadlines \subseteq Nat
ASSUME EnabledAssumption == Enabled \subseteq SUBSET Encoding

(* A name that a HeaderMap has, has a value.                               *)
WellFormed(map) ==
    \A n \in DOMAIN map : map[n] \in Seq(Range(map[n])) /\ map[n] # <<>>
ASSUME MetadataAssumption == \A map \in UserMetadata : WellFormed(map)

(* A Status has a code, a message that is a String, and details that are   *)
(* bytes, so that they are well encoded.                                   *)
ASSUME StatusesAssumption ==
    \A s \in Statuses :
        /\ s = Status(s.code, s.message, s.details, s.metadata)
        /\ s.code \in Code /\ s.message # NotUtf8
        /\ s.details \in Seq(Range(s.details)) /\ s.details # NotBase64
        /\ WellFormed(s.metadata)

(* A header grpc-status is one token.  An error that wraps a status wraps  *)
(* one that is no success.                                                 *)
ASSUME ForeignAssumption ==
    \A map \in ForeignMaps : Has(map, "grpc-status") =>
        Get(map, "grpc-status") = <<Get(map, "grpc-status")[1]>>
ASSUME ChainsAssumption ==
    \A c \in Chains :
        /\ c \in Seq(Range(c))
        /\ \A i \in DOMAIN c :
               /\ c[i].type \in {"status", "io", "other"}
               /\ c[i].type = "status" => c[i].code \in Code \ {"Ok"}

VARIABLES
    at,         \* how far the call has come
    config,     \* what each end accepts and sends
    deadline,   \* argument of set_timeout; NoDeadline
    given,      \* metadata of the request, from the application
    head,       \* header map of the request
    seen,       \* metadata the service is called with
    reply,      \* what the service returns: metadata, and the final status
    response,   \* header map of the response
    trailers,   \* header map of the trailers
    error,      \* the error the transport failed with, and its sources
    told        \* what the caller gets: code, message, details, metadata

exchangeVars == <<at, config, deadline, given, head, seen, reply, response, trailers, error, told>>

NoDeadline == -1
NoReply == [head |-> EmptyMap, status |-> Status("Unknown", "", <<>>, EmptyMap)]
NotTold == Status("none", "", <<>>, EmptyMap)
Refusal == Status("Unimplemented", "compression is not supported", <<>>, EmptyMap)
Success == Status("Ok", "", <<>>, EmptyMap)

ExchangeInit ==
    /\ at = "caller"
    /\ config \in [clientSend : Encoding \cup {Absent}, clientAccept : Enabled,
                   serverSend : Enabled, serverAccept : Enabled]
    /\ deadline \in Deadlines \cup {NoDeadline}
    /\ given \in UserMetadata
    /\ head = EmptyMap /\ seen = EmptyMap /\ reply = NoReply
    /\ response = EmptyMap /\ trailers = EmptyMap /\ error = <<>> /\ told = NotTold
-----------------------------------------------------------------------------
(* Request::set_timeout.                                                   *)
Timeout(d) == LET t == TimeoutValue(d, MaxTimeout, UnitSize) IN <<t.value, t.unit>>
WithTimeout == IF deadline = NoDeadline THEN given
               ELSE Insert(given, "grpc-timeout", Timeout(deadline))

(* prepare_request: the application's metadata first, sanitized.           *)
PrepareRequest ==
    LET map == Insert(Insert(RequestIntoHttp(WithTimeout), "te", <<"trailers">>),
                      "content-type", <<"application/grpc">>)
        sent == IF config.clientSend = Absent THEN map
                ELSE Insert(map, "grpc-encoding", <<config.clientSend>>)
        accepted == IF config.clientAccept = {} THEN sent
                    ELSE Insert(sent, "grpc-accept-encoding",
                                AcceptEncodingValue(config.clientAccept))
    IN  /\ at = "caller"
        /\ head' = accepted
        /\ at' = "request"
        /\ UNCHANGED <<config, deadline, given, seen, reply, response, trailers, error, told>>

(* Channel::call fails with an error and its sources.                      *)
TransportFails ==
    /\ at = "request"
    /\ error' \in Chains
    /\ told' = Status(FromError(error'), "", <<>>, EmptyMap)
    /\ at' = "failed"
    /\ UNCHANGED <<config, deadline, given, head, seen, reply, response, trailers>>
-----------------------------------------------------------------------------
(* map_request_unary, map_request_streaming: refuse an encoding that is    *)
(* unknown or not enabled, or call the service with the headers as they    *)
(* are.                                                                    *)
MapRequest ==
    /\ at = "request"
    /\ IF FromEncodingHeader(head, config.serverAccept) = "Unimplemented"
       THEN /\ response' = IntoHttp(Refusal)
            /\ reply' = [head |-> EmptyMap, status |-> Refusal]
            /\ at' = "trailers-only"
            /\ UNCHANGED seen
       ELSE /\ seen' = RequestFromHttp(head)
            /\ at' = "service"
            /\ UNCHANGED <<response, reply>>
    /\ UNCHANGED <<config, deadline, given, head, trailers, error, told>>

AcceptEncoding == FromAcceptEncodingHeader(head, config.serverSend)

(* Mutant of MapResponse: an encoding is used whether it is accepted or    *)
(* not.                                                                    *)
MapResponseForced ==
    /\ at = "service"
    /\ \E metadata \in UserMetadata, status \in Statuses :
           LET map == Insert(ResponseIntoHttp(metadata), "content-type",
                               <<"application/grpc">>)
               own == AcceptEncodingValue(config.serverSend)
           IN  /\ reply' = [head |-> metadata, status |-> status]
               /\ response' = IF own = <<>> THEN map
                              ELSE Insert(map, "grpc-encoding", <<own[1]>>)
    /\ at' = "replying"
    /\ UNCHANGED <<config, deadline, given, head, seen, trailers, error, told>>

(* map_response of an Ok.  The status is what the stream will end with.    *)
MapResponse ==
    /\ at = "service"
    /\ \E metadata \in UserMetadata, status \in Statuses :
           LET map == Insert(ResponseIntoHttp(metadata), "content-type",
                               <<"application/grpc">>)
           IN  /\ reply' = [head |-> metadata, status |-> status]
               /\ response' = IF AcceptEncoding = Absent THEN map
                              ELSE Insert(map, "grpc-encoding", <<AcceptEncoding>>)
    /\ at' = "replying"
    /\ UNCHANGED <<config, deadline, given, head, seen, trailers, error, told>>

(* map_response of an Err.                                                 *)
MapResponseErr ==
    /\ at = "service"
    /\ \E status \in Statuses :
           /\ reply' = [head |-> EmptyMap, status |-> status]
           /\ response' = IntoHttp(status)
    /\ at' = "trailers-only"
    /\ UNCHANGED <<config, deadline, given, head, seen, trailers, error, told>>

(* External: another implementation answers.                               *)
ForeignAnswers ==
    /\ at = "service"
    /\ \E map \in ForeignMaps :
           /\ trailers' = map
           /\ response' = Insert(EmptyMap, "content-type", <<"application/grpc">>)
    /\ at' = "foreign"
    /\ UNCHANGED <<config, deadline, given, head, seen, reply, error, told>>

(* EncodeState::trailers: to_header_map of the final status, after the     *)
(* message of a success or of a late failure.                              *)
EndReply ==
    /\ at = "replying"
    /\ trailers' = AddHeader(IF reply.status.code = "Ok" THEN Success ELSE reply.status, EmptyMap)
    /\ at' \in IF reply.status.code = "Ok" THEN {"reply"} ELSE {"reply", "no reply"}
    /\ UNCHANGED <<config, deadline, given, head, seen, reply, response, error, told>>
-----------------------------------------------------------------------------
Readable == FromEncodingHeader(response, config.clientAccept) # "Unimplemented"

(* create_response: an encoding that is not accepted ends the call, and so *)
(* does a status in the head.  An Ok there leaves no message.              *)
CreateResponse ==
    /\ at \in {"trailers-only", "reply", "no reply", "foreign"}
    /\ \/ /\ ~Readable
          /\ told' = Refusal /\ at' = "done"
       \/ /\ Readable /\ Has(response, "grpc-status")
          /\ told' = LET status == FromHeaderMap(response)
                     IN  IF status.code # "Ok" THEN status
                         ELSE Status("Internal", "Missing response message.", <<>>, EmptyMap)
          /\ at' = "done"
       \/ /\ Readable /\ ~Has(response, "grpc-status")
          /\ at' = IF at = "no reply" THEN "read end" ELSE "read trailers"
          /\ UNCHANGED told
    /\ UNCHANGED <<config, deadline, given, head, seen, reply, response, trailers, error>>

(* client_streaming, after the message.  Trailers win over the head; what  *)
(* a failure here says does not get the head's metadata.                   *)
ReadTrailers ==
    /\ at = "read trailers"
    /\ told' = LET status == FromHeaderMap(trailers)
               IN  IF Has(trailers, "grpc-status") /\ status.code # "Ok" THEN status
                   ELSE Status("Ok", "", <<>>, Merge(ResponseFromHttp(response), trailers))
    /\ at' = "done"
    /\ UNCHANGED <<config, deadline, given, head, seen, reply, response, trailers, error>>

(* client_streaming, where the stream fails before a message: the head     *)
(* wins over the trailers.                                                 *)
ReadEnd ==
    /\ at = "read end"
    /\ told' = LET status == FromHeaderMap(trailers)
               IN  [status EXCEPT !.metadata = Merge(@, ResponseFromHttp(response))]
    /\ at' = "done"
    /\ UNCHANGED <<config, deadline, given, head, seen, reply, response, trailers, error>>

Client == PrepareRequest \/ TransportFails \/ CreateResponse \/ ReadTrailers \/ ReadEnd
Server == MapRequest \/ MapResponse \/ MapResponseErr \/ EndReply
ExchangeNext == Client \/ Server \/ ForeignAnswers
ExchangeSpec == ExchangeInit /\ [][ExchangeNext]_exchangeVars
-----------------------------------------------------------------------------
User(map) == DOMAIN map \ Reserved
Single(map) == { n \in User(map) : Len(map[n]) = 1 }
Ours == at = "done" /\ NoReply # reply

(***************************************************************************)
(* The caller is told the very status the service failed with: code,       *)
(* message and rich details come through headers or trailers, whatever     *)
(* the application has put into the metadata of request, response and      *)
(* status, also under the names the protocol uses (status.rs:226-333,      *)
(* metadata.rs:45-59).                                                     *)
(***************************************************************************)
StatusRoundTrip ==
    Ours /\ reply.status.code # "Ok" =>
        /\ told.code = reply.status.code
        /\ told.message = reply.status.message
        /\ told.details = reply.status.details
        /\ \A variant \in KnownDetails :
               LET packed == { i \in DOMAIN reply.status.details :
                                   i > 1 /\ reply.status.details[i] = variant }
               IN  GetDetails(told.details, variant) =
                       IF packed = {} THEN 0 ELSE Min(packed) - 1

(***************************************************************************)
(* What the application attaches arrives: the request's metadata at the    *)
(* service, all values of it; and at the caller every name of the response *)
(* and of its status, a single value unchanged unless head and trailers    *)
(* both have it (metadata.rs:45-59, status.rs:247-258, grpc.rs:150-168).   *)
(***************************************************************************)
MetadataArrives ==
    /\ at \notin {"caller", "request"} /\ seen # EmptyMap =>
           \A n \in User(given) \ {"grpc-timeout"} : seen[n] = given[n]
    /\ Ours /\ told.code = reply.status.code =>
           /\ \A n \in User(reply.status.metadata) : reply.status.code # "Ok" =>
                  /\ n \in DOMAIN told.metadata
                  /\ n \in Single(reply.status.metadata) /\ n \notin DOMAIN reply.head =>
                         told.metadata[n] = reply.status.metadata[n]
           /\ told.code = "Ok" =>
                  \A n \in User(reply.head) : told.metadata[n] = reply.head[n]

(***************************************************************************)
(* The protocol's own headers say what the dispatcher's configuration      *)
(* says, never what the application's metadata says (grpc.rs:257-284).     *)
(***************************************************************************)
HeadersAreOurs ==
    seen # EmptyMap =>
        /\ seen["te"] = <<<<"trailers">>>>
        /\ seen["content-type"] = <<<<"application/grpc">>>>
        /\ Has(seen, "grpc-encoding") <=> config.clientSend # Absent
        /\ Has(seen, "grpc-accept-encoding") <=> config.clientAccept # {}
        /\ \A n \in DOMAIN seen \cap Reserved : Len(seen[n]) = 1

(***************************************************************************)
(* What the application says in its metadata arrives, and what the         *)
(* protocol says in its headers is not disturbed by it (metadata.rs:45-59, *)
(* grpc.rs:257-284).                                                       *)
(***************************************************************************)
HeadersArrive ==
    /\ MetadataArrives
    /\ HeadersAreOurs

(***************************************************************************)
(* A server answers in no encoding the client cannot read, and in one both *)
(* have wherever there is one (compression.rs:82-100, grpc.rs:299-302).    *)
(***************************************************************************)
ResponseReadable ==
    at \in {"replying", "reply", "no reply", "trailers-only", "read trailers", "read end"} =>
        /\ Readable
        /\ at \in {"replying", "reply"} /\ config.clientAccept \cap config.serverSend # {} =>
               Get(response, "grpc-encoding")[1] \in config.clientAccept \cap config.serverSend

(***************************************************************************)
(* The timeout on the wire is never longer than the one set, has few       *)
(* enough digits, and is short by less than its unit, the finest one that  *)
(* can be written, unless the longest that can be written is shorter still *)
(* (request.rs:174-212).                                                   *)
(***************************************************************************)
TimeoutFaithful ==
    deadline # NoDeadline /\ seen # EmptyMap =>
        LET value == Get(seen, "grpc-timeout")[1]
            unit == Get(seen, "grpc-timeout")[2]
        IN  /\ value \in 0..MaxTimeout
            /\ value * UnitSize[unit] <= deadline
            /\ \/ deadline < (value + 1) * UnitSize[unit]
               \/ value = MaxTimeout /\ unit = 6
            /\ \A u \in 1..(unit - 1) : deadline \div UnitSize[u] > MaxTimeout

(***************************************************************************)
(* A call whose transport failed is no success. The first error in its     *)
(* chain that is known tells the caller: a status, such as the deadline    *)
(* Channel::call wraps, itself, a lost connection as Unavailable, a        *)
(* timeout as DeadlineExceeded; where none is known it is Unknown          *)
(* (status.rs:196-219, 398-419).                                           *)
(***************************************************************************)
CodeFits(err, code) ==
    /\ err.type = "status" => code = err.code
    /\ err.type = "io" =>
           /\ err.kind \in {"ConnectionRefused", "ConnectionReset", "NotConnected"}
                  => code = "Unavailable"
           /\ err.kind = "TimedOut" => code = "DeadlineExceeded"

FailureIsTold ==
    error # <<>> =>
        /\ told.code # "Ok"
        /\ \A i \in DOMAIN error :
               (\A j \in 1..(i - 1) : error[j].type = "other") => CodeFits(error[i], told.code)
        /\ (\A i \in DOMAIN error : error[i].type = "other") => told.code = "Unknown"

(***************************************************************************)
(* Trailers of a foreign server that cannot be read in full never turn an  *)
(* error into a success (status.rs:236-245).                               *)
(***************************************************************************)
ErrorStaysError ==
    at = "done" /\ reply = NoReply /\ Has(trailers, "grpc-status") =>
        (Get(trailers, "grpc-status") # <<"Ok">> => told.code # "Ok")

(***************************************************************************)
(* Every way on which a status comes to the caller tells it the truth: the *)
(* service's own, one wrapped in the errors of a transport, one in         *)
(* trailers that can be read in part only (status.rs:204-333, 398-419).    *)
(***************************************************************************)
StatusArrives ==
    /\ StatusRoundTrip
    /\ FailureIsTold
    /\ ErrorStaysError
=============================================================================
