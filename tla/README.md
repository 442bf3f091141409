# A TLA+ development for pure-grpc-rs

This directory holds TLA+ specifications of the parts of pure-grpc-rs whose
correctness depends on order, concurrency or accumulated state, the TLC
configurations that check them on small instances, and TLAPS proofs of the
results that hold for every instance. Paths such as `grpc-core/src/codec/decode.rs`
are relative to the repository's root (`src/` in `PROJECT.json`).

## 1. Inventory

| component | source | state it keeps | operations | what makes it correct |
|---|---|---|---|---|
| message decoder | `grpc-core/src/codec/decode.rs` | frame state (`ReadHeader`, `ReadBody`, `Error`), `buf`, `trailers`, the body | `poll_next`, `decode_chunk`, `poll_frame`, `response`, `trailers` | the messages yielded are those framed on the wire, whatever the chunking; a stream that was cut or failed never ends as if it had succeeded; an error ends the stream |
| message encoder | `grpc-core/src/codec/encode.rs` | `buf`, deferred `error`, `is_end_stream` | `poll_next`, `encode_item`, `finish_encoding`, `EncodeBody::poll_frame`, `trailers` | frames in source order, nothing yielded by the source is lost or follows the status, exactly one trailers frame on the server side, none on the client side |
| body adapters | `grpc-core/src/body.rs`, `grpc-core/src/codec/buffer.rs` | empty or wrapped body | `new`, `poll_frame`, `is_end_stream` | no frame lost by the erasure |
| compression negotiation | `grpc-core/src/codec/compression.rs` | enabled encodings | header parsing, `compress`, `decompress` | what one side sends compressed the other can read |
| status model | `grpc-core/src/status.rs` | code, message, details, metadata | `from_header_map`, `add_header`, `into_http`, `infer_grpc_status`, `from_error` | a status survives the header round trip; an error is never turned into success |
| metadata, request, response | `grpc-core/src/{metadata,request,response}.rs` | header maps, extensions | sanitising, merging, timeouts | reserved headers never leak; encoded timeout never exceeds the requested one |
| server handler | `grpc-server/src/grpc.rs` | codec, limits, encodings | four RPC patterns, `map_request_unary`, `map_request_streaming`, `map_response` | one response per request, exactly one status |
| HTTP/2 server | `grpc-server/src/server.rs` | listener, semaphore, connection tasks, shutdown signal | accept loop, `serve_connection`, per-request timeout | never more than `concurrency_limit` connections served; every permit comes back; shutdown is noticed |
| HTTP/3 server | `grpc-server/src/h3_server.rs` | endpoint, semaphore, connections, request tasks | accept loop, `serve_request`, `send_h3_response`, `H3RecvBody` | as above, and the task of a request ends; body order and status survive the copy loop |
| router, interceptors | `grpc-server/src/{router,interceptor,service,mtls}.rs` | route table, fallback | `route`, `call`, `intercept` | a path reaches the one service it names; a rejected request never reaches the service |
| client dispatcher | `grpc-client/src/grpc.rs` | origin, encodings, limits | `unary`, `client_streaming`, `server_streaming`, `streaming`, `prepare_request`, `create_response` | the caller sees success only when the server reported it |
| channels | `grpc-client/src/{channel,endpoint,balance,h3_channel}.rs` | connections, timeout, shared round-robin counter | `connect`, `call` | requests spread evenly over endpoints; a timeout is reported as such |
| health service | `grpc-health/src/lib.rs` | `statuses` and `watchers`, each behind its own lock | `set_status`, `Check`, `Watch` | a watcher ends up with the status a check reports |
| gRPC-Web | `grpc-web/src/{call,service,layer,lib}.rs` | base64 carry-over buffer, captured trailers | `poll_decode`, `poll_encode`, `call` | the inner service sees the bytes the browser sent; the trailers reach the browser once |
| reflection | `grpc-reflection/src/lib.rs` | descriptor index; one task and one bounded channel for each stream | `register_encoded_file_descriptor_set`, `build`, `ServerReflectionInfo` | every registered symbol resolves to its file; answers come in the order of the requests; the task ends with its client |
| rich errors | `grpc-types/src` | none | packing and unpacking details | detail round trip |
| code generation | `grpc-codegen/src`, `grpc-build/src` | the worklist of messages; the files in `OUT_DIR` | `service_from_proto`, `service_to_ir`, `generate` of server, client and Dart client, `collect_rpc_relevant_messages`, `compile_protos`, `compile_fbs` | generated client and server fit each other; every message a caller needs has an alias; what a build has stubs for can be reflected |
| codecs | `grpc-codec-flatbuffers/src/lib.rs`, `grpc-core/src/codec/prost_codec.rs` | none | encode, decode | pure conversion |
| benchmarks, examples | `benchmarks`, `tonic-bench-server`, `examples` | - | - | not part of the library |

### How the components interact

A call, from the client to the server and back:

1. the **client dispatcher** turns a stream of messages into an `EncodeBody`
   (role `Client`) and hands the request to a **channel**;
2. the channel writes the body to the connection: hyper over HTTP/2, the loop of
   `h3_channel.rs` over HTTP/3;
3. the **server's accept loop** has taken the connection, under a permit of the
   semaphore, and spawned the task that serves it; the task passes the request
   through the **interceptors** and the **router** to the **server handler**;
4. the handler decodes the request body with `Streaming` (direction `Request`),
   calls the service and wraps its stream in an `EncodeBody` (role `Server`), whose
   last frame is the status;
5. the body is written back by hyper or by `send_h3_response`, and the client reads
   it with `Streaming` (direction `Response`), which turns trailers that carry an
   error, or none where the HTTP status is not 200, into an error of the stream.

What is shared between tasks: the semaphore (loop and connection tasks), the two
locked maps and the watch channels of the health service (setters and watchers), and
the round-robin counter of the balanced channel. Everything else is owned by one task
and driven by polls, so that its difficulty is one of order: in which state a poll
leaves the object, and what the next poll makes of it.

### What is hard

`PROJECT.json` lists the hazards line by line. They fall into these kinds.

- *Polling.* `Streaming` and `EncodedBytes` return in the middle of their work:
  a header has been consumed and its payload has not come, a batch waits in the
  buffer while an error waits behind it, a body is polled again after its end.
- *Failure half-way.* The operations that fail leave the buffer at different places
  (before the payload, after the flag, after a truncated frame), and the object may be
  polled again.
- *Status.* Success is the absence of bad news: an ending that says nothing must not
  be taken for success where it is not, and a status must not overtake, or outlive,
  the messages it speaks about.
- *Permits and shutdown.* A permit is taken in one task and dropped in another; the
  loop awaits a permit in a place where it hears nothing else; shutdown finds
  connections queued, held, in a handshake and serving.
- *Two locks.* The health service updates and announces a status in two steps, and a
  watcher reads and subscribes in two steps.
- *Races of one call.* Its request and its response are two streams that fail, end and
  are reset independently, while a timer runs at either end and either may leave.
- *Detached tasks.* The sender of an HTTP/3 request and the task of a reflection stream
  belong to nobody who waits for them: they have to end by themselves. Each awaits one
  thing at a time, and while it does, hears of nothing else.
- *Two spellings of one thing.* Headers are written by one piece of code and read by
  another, text is cut anywhere, names are turned into identifiers and paths by three
  generators, and an application may use the protocol's own names.

## 2. Modules

| module | contents | checked by | proved in |
|---|---|---|---|
| `GrpcStatus` | status codes, `infer_grpc_status`, `from_error` | through the modules below | through the modules below |
| `Streaming` | the decoder | `decoder` | `StreamingProofs` |
| `MessageStream` | abstract: a stream of messages with a justified ending | `decoder` (`ImplementsMessageStream`) | `StreamingProofs` |
| `StreamingSpec` | the wire parsed as a whole, the refinement, the decoder's properties | `decoder` | `StreamingProofs` |
| `EncodeBody` | the encoder and the loop that writes its frames | `encoder` | `EncodeBodyProofs` |
| `Call` | abstract: what one call promises its caller | `rpc` (`ImplementsCall`) | `RpcProofs` |
| `Rpc` | one call: client dispatcher, transport, server handler, timers, resets | `rpc` | `RpcProofs` |
| `Metadata` | pure: header maps, statuses in them, rich details, encodings, timeouts | `exchange` | `RpcProofs` |
| `Exchange` | the header maps of one call, from caller to service and back | `exchange` | `RpcProofs` |
| `Codegen` | pure: what is generated from a schema | `services` | `ServerProofs` |
| `Services` | from a schema to calls that find their methods: generation, registration, routing, interceptors, balancing | `services` | `ServerProofs` |
| `H3Call` | one call over HTTP/3: sender task, both receiving bodies, the copy loop of the server | `h3call` | `H3CallProofs` |
| `GrpcWeb` | the two bodies and the headers of a gRPC-Web call | `web`, `web_text_overtaken` | `GrpcWebProofs` |
| `AcceptLoop` | accept loops, permits, connection tasks, shutdown | `accept` | `ServerProofs` |
| `Health` | `set_status`, `Check` and `Watch` | `health`, `health_two_setters` | `HealthProofs` |
| `Reflection` | `compile_protos`, the index and the reflection stream | `reflection` | `ReflectionProofs` |

How they compose: `Exchange` and `Rpc` are two views of one call. `Rpc` has its order
(messages, endings, timers, resets) and takes a status for a code; `Exchange` has its
headers and takes the messages for one. `Rpc` replaces the two codec modules by what
they promise: a stream of messages with the ending `MessageStream` allows, and a sender
whose status `StatusTruthful` describes. `H3Call` is the transport of a call where this
repository implements it itself. `Services` is built on `Codegen`, `Exchange` on
`Metadata`, and that on `GrpcStatus`.

`MC...` modules give the instances.
Definitions named "Mutant of ..." in a comment are variants of the definition that
follows them; no specification uses them. They document which plausible mistake each
property excludes.

### Streaming

| model | code (`decode.rs`) |
|---|---|
| `call` | the body, the constructor used (`new_request`, `new_response`, `new_empty`), the HTTP status, whether an encoding was negotiated, `max_message_size` |
| `read`, `taken` | `buf` is the part of the wire between the two |
| `state`, `trailers` | `StreamingInner::state`, `StreamingInner::trailers` |
| `RejectFlag`, `RejectLength`, `FailInflate`, `FailDecode`, `YieldMessage` | the ways `decode_chunk` returns, and `decode` after it |
| `PollPending`, `PollData`, `PollTrailers`, `PollEof`, `PollBodyError` | `decode_chunk` wants more bytes, and what `poll_frame` finds |
| `Response` | `response()` |
| `PollError` | the `State::Error` branch of `poll_next` |
| `items`, `after` | history: what the consumer was given up to the first final result, and from it on |

An action is one turn of the loop in `poll_next`. Bytes are numbers, so that a decoder
which has lost its place reads payload as a header, as the code does. The
decompressor and the codec are parameters: `Inflate` gives the payload or `Corrupt`,
`Decodable` says whether the codec accepts it.

### EncodeBody

| model | code (`encode.rs`, `h3_server.rs`, `h3_channel.rs`) |
|---|---|
| `script`, `pos` | the source stream and how far it has been polled |
| `buf`, `size`, `deferred` | `EncodedBytes::buf`, its length, `EncodedBytes::error` |
| `isEnd` | `EncodeState::is_end_stream` |
| `EncodeItem`, `EncodeFails`, `SourceError`, `SourceErrorDeferred`, `FlushIdle`, `SourceDone`, `YieldDeferred` | the branches of `EncodedBytes::poll_next`, each with what `poll_frame` makes of the result |
| `EncodeResult` | `encode_item` and `finish_encoding`: codec failure, send limit, length that does not fit the header |
| `SendData`, `SendTrailers`, `SendEnd`, `SendError` | the loop that polls the body: hyper's (external) or the repository's two over HTTP/3 |
| `Disconnect` | the connection fails |

A message is its position in the source and its encoded size; frames are not spelled
out. `EncodeState::error` has no action: nothing in the code ever sets it.

### AcceptLoop

| model | code (`server.rs`, `h3_server.rs`) |
|---|---|
| `loop`, `held` | where the loop's task stands; the connection it holds while it awaits a permit |
| `signal` | the shutdown future |
| `permits`, `backlog` | the semaphore; what the listener has queued |
| `conn`, `rpc` | the state of each connection and of each request on it |
| `AcceptWithPermit`, `AcceptAtLimit`, `Acquire` | `try_acquire_owned`, then `acquire_owned().await` inside the accept arm |
| `Shutdown`, `AcceptError`, `Leave` | the ways out of the loop |
| `HandshakeDone`, `HandshakeFails`, `Close` | the spawned task, up to the drop of its permit |
| `Request`, `Answer`, `HandlerEnds` | the requests of a connection |

TCP, TLS and QUIC are three values of `transport` in one module, because the two loops
have the same shape and differ in three places: whether there is a handshake, whether
an accept error is an error of `serve`, and what happens to the requests of a
connection that is gone. Over HTTP/2 hyper drops their handlers with the connection;
over HTTP/3 each request has a task of its own, which goes on as an `orphaned` request
until it fails to write. The branch for a closed semaphore is left out: no code closes
it.

### Health

| model | code (`grpc-health/src/lib.rs`) |
|---|---|
| `statuses`, `channel` | `HealthState::statuses`; the value each channel of `HealthState::watchers` holds |
| `SetStatus`, `Notify` | the two halves of `set_status`, each under its lock |
| `Abandon` | the future of `set_status` is dropped between the two |
| `Check` | `CheckSvc::call`: one read of `statuses` |
| `CallWatch`, `Subscribe` | the two halves of `watch`, each under its lock |
| `Deliver`, `Leave` | `WatchStream` (external); the client goes away |
| `sets`, `mark`, `got`, `dropped` | history: number of calls so far, that number at the subscription, what each watcher was sent, the calls that were dropped |

A status is the number of the call that set it, so that older and newer can be told
apart.

### Rpc

| model | code (`grpc-client/src/grpc.rs`, `grpc-server/src/grpc.rs`) |
|---|---|
| `call` | the pattern, how many messages the request has and which cannot be encoded, who refuses it, the timeouts |
| `SendHead`, `SendMessage`, `SendEnd`, `SendFails` | `prepare_request` and the request body, polled by the transport (role `Client`) |
| `requestQ`, `responseQ` | frames on their way: head, message, end, trailers, reset |
| `Refused`, `AcceptRequest` | an interceptor, the router or an encoding answers with a status only |
| `ReadFirst`, `ReadRest`, `ReadBroken` | `map_request_unary`: one message, then the rest of the request; a message that cannot be decoded |
| `ServiceReads`, `ServiceReturns`, `ServiceFails` | the application's service; `map_response` and `t!` |
| `Reply`, `ReplyEnds` | the response body (role `Server`), ended by its status |
| `ServerTimesOut`, `ChannelTimesOut` | `HyperServiceWrapper::call`, `Channel::call` |
| `ReceiveHead`, `ReceiveMessage`, `ReceiveBroken`, `ReceiveEnd`, `ReceiveReset` | `create_response`, and `client_streaming` or the caller reading the stream; a message that cannot be decoded |
| `DropHandler`, `CallerCancels`, `ProxyAnswers`, `ConnectionLost` | hyper and the network; a proxy answers HTTP 200 or 503 without any status |

`unary` is `client_streaming` of one message and `server_streaming` is `streaming` of
one, as in the code; `OneRequest` and `OneReply` tell the patterns apart. What a message
that breaks the framing, or that codec or decompressor refuse, gives is `DecodeFailure`.

`Call` is the promise: messages in order, one result, success only with all messages and
the server's own success. It has one exception, which the code makes
(`status.rs:445`): an answer that is silent about the outcome under HTTP 200, which comes
in the place of the whole answer of the server (`Intercept`), may be taken for an empty
success. A call for a single reply is never told one, as its message is missing.

### Metadata and Exchange

| model | code |
|---|---|
| `IntoSanitized`, `ExtendSanitizedInto`, `Merge` | `metadata.rs`: three ways to put maps together, which treat names with several values differently |
| `AddHeader`, `IntoHttp`, `FromHeaderMap` | a status into headers and back (`status.rs`) |
| `WithErrorDetails`, `ErrorDetails`, `GetDetails` | `grpc-types` |
| `AcceptEncodingValue`, `FromEncodingHeader`, `FromAcceptEncodingHeader` | `compression.rs` |
| `TimeoutValue` | `duration_to_grpc_timeout` |
| `PrepareRequest`, `CreateResponse`, `ReadTrailers`, `ReadEnd`, `TransportFails` | the client dispatcher |
| `MapRequest`, `MapResponse`, `MapResponseErr`, `EndReply` | the server handler |
| `ForeignAnswers` | another implementation answers, with any trailers |

### Codegen and Services

| model | code |
|---|---|
| `ServiceFromProto`, `ServiceToIr` | the two adapters (`protobuf.rs`, `flatbuffers.rs` of grpc-codegen) |
| `GenerateServer`, `GenerateClient`, `GenerateDart` | the generators, as the names, paths, shapes and types in what they write |
| `Compiles` | rustc (external): names that must differ |
| `Collect`, `CollectDone` | one round of `collect_rpc_relevant_messages`, and its end |
| `AddService`, `SetFallback`, `Serve` | `Router`, with a chain of `InterceptedService` around the server |
| `Send` | `BalancedChannel::call` |
| `Route`, `Intercept`, `Dispatch` | `Router::call`, `InterceptedService::call`, the generated `call` |

A name is a sequence of words, so that what heck does with case and underscores is
modelled by what it does to words. `Aliases` are kept at the places of their messages,
so that an alias and its message have one index.

`ServerProofs` extends `AcceptLoop` and `Services`, and `RpcProofs` extends `Rpc` and
`Exchange`: names such as `Init` and `Spec` can be defined in one module of such a pair
only, so that `Services` and `Exchange` have `ServicesInit`, `ExchangeSpec` and so on.

### H3Call

| model | code (`h3_channel.rs`, `h3_server.rs`) |
|---|---|
| `SendData`, `SendDataFails`, `SendTrailers`, `BodyEnds`, `FinishRequest` | the detached task of `send_h3_request` |
| `ReceiveHead`, `ClientTimesOut`, `CallerLeaves` | `send_h3_request` after the task is spawned, `H3Channel::call` |
| `PollData`, `PollDataEnd`, `PollTrailers`, `PollReset`, `PollIdle`, `PollDone` | `H3RecvBody` and `H3ClientRecvBody`, which are alike |
| `ReadRequest`, `ServiceReturns`, `ServiceFails`, `ServerTimesOut` | `serve_request` up to the response |
| `SendReply`, `ReplyFails`, `KeepTrailers`, `ReplyEnds`, `FinishReply` | `send_h3_response` |
| `Room`, `Put`, `Deaf`, `Wake`, `Deliver` | quinn (external): windows, frames on their way, STOP_SENDING, wakers |
| `idle`, `SourceYields`, `Rests` | what is pending: the body of the request, the service, the body of a response |

A poll that answers `Pending` sets the reader to sleep, and only `Wake` or the code's
own `wake_by_ref` makes it poll again, so that a lost wake-up is a call that hangs.

Both tasks await `poll_frame` of a body and then the send of what it gave, never both. A
body, or a service, may be pending when the call begins and after anything it has
yielded, and it need not yield again: `Sends` and `ReplyYields` are the guards of what a
task does with a frame, so that a task whose source is idle does nothing, whoever has
gone in the meantime.

### GrpcWeb

| model | code (`grpc-web/src`) |
|---|---|
| `Forward`, `Answer` | the headers, in `GrpcWebService::call` |
| `PassBinary`, `DecodeAlone`, `DecodeCarried`, `Carry`, `RequestEnds` | the branches of `poll_decode` |
| `SendTrailers`, `EncodeData`, `CaptureTrailers`, `InnerEnds`, `InnerFails`, `EndBody` | the branches of `poll_encode` |
| `jumped` | history: a chunk was decoded in front of what was carried over |

A character of the text is its position and its `Kind`: what base64 is not, padding, and
the others by how many bits at their end are zero, because these must be in front of
padding. `Decodes` says when the base64 decoder (external, STANDARD) accepts a chunk:
whole groups of the alphabet, padding at the end only, and no bits left over in front of
it.

### Reflection

| model | code (`grpc-reflection/src/lib.rs`, `grpc-build/src/protobuf.rs`) |
|---|---|
| `CompileProto`, `CompileDone` | one round of the loop in `compile_protos`: the modules and `descriptor.bin` |
| `RegisterSet`, `RegisterService`, `Build` | `ReflectionServerBuilder` |
| `TypeSymbols`, `ServiceSymbols`, `Lookup`, `Response` | the index and `handle_reflection_request` |
| `ReadRequest`, `StopReading`, `SendAnswer`, `SendFails` | the spawned task |
| `Receive`, `Finish` | the response stream, read by the client |

## 3. Runs

Each run is small because the questions are about order: two or three actors, one or
two objects of each kind and every interleaving show what more of them would.

| run | instance | shows |
|---|---|---|
| `decoder` | every wire of one frame, or of two (a good one followed by any, or a bad one followed by a good one), cut after every byte; six endings; five ways to construct the stream; limit 1 | the decoder implements `MessageStream`, surfaces the status, reads on demand, and ends |
| `encoder` | every source of at most four elements out of seven kinds; both roles, both writers; threshold 14 | nothing is lost, repeated or reordered; the status is truthful; the body ends |
| `rpc` | four patterns; up to two request messages, any of which may fail to be encoded; any message may fail to be decoded; four refusals; each timeout with and without the other; up to two replies | the call implements `Call`; a service that takes one message never sees half a request; a call for one reply ends, and what is finished is dropped |
| `exchange` | four maps of user metadata, one of them with the protocol's names; every combination of up to two encodings; five deadlines; seven foreign answers; six chains of errors | status, details, metadata, encodings and timeout arrive as they were meant |
| `services` | nine schemas with similar names, circular and ambiguous messages; chains of two interceptors; two slots; three endpoints, a counter modulo 4 | calls reach their methods and strangers none; interceptors guard; the load is even; the worklist finds what is needed and ends |
| `h3call` | four request bodies and three response bodies, any of which, and the service, may be pending; three kinds of service; a timer at no end or at one; windows of one frame | both ends are told the truth; the call and its tasks end, unless what they await yields nothing for ever |
| `web` | five texts cut anywhere, text and binary mode and no gRPC-Web at all; one data frame | every character is used once; standard frames in order unless a chunk overtakes; one frame of trailers for a browser |
| `accept` | four connections, two permits, one request each, three transports | permits, backlog and requests are accounted for; a connection or a shutdown waits for ever only while peers that stay hold every permit |
| `health` | one setter, two watchers, two services, two calls of `set_status` | watchers agree, end with the last status, and never see statuses go back or run ahead of `Check` |
| `reflection` | three protos, compiled alone or two of them, and two other descriptor sets, two registrations, three requests of six kinds, a channel of one slot | answers in order, symbols and list complete, the services of a build reflected, the task and the stream end |
| `health_two_setters` | two setters, one watcher | a watcher may stay with a status that is no longer in force (finding) |
| `web_text_overtaken` | the same as `web` | a text that is base64 may reach the service as something else (finding) |

Bounds, and why they are enough:

- `MCStreaming`: one frame reaches every branch of `decode_chunk`, and the frame before or
  after it shows what a branch leaves behind; cutting after every byte puts each ending
  into each state. `MaxAfter = 2` records what follows the first final result. Bytes are
  below 128 so that a length fits TLC's integers; the proofs have no such bound.
- `MCEncodeBody`: with threshold 14 and frames of 5 and 9 bytes, a batch stays below
  the threshold (5, 9, 10), meets it (14) or exceeds it (15, 18), and every
  kind of failure can come before, after and inside a batch. Four elements allow a full
  batch, a failure and something after it. `MaxMessageSize = 8` and `U32Max = 7` stand
  for the send limit and 2^32 - 1.
- `MCAcceptLoop`: four connections are two more than the permits, so one is held while
  another is queued. One request for each connection suffices, since requests do not
  interact in this code.
- `MCRpc`: the second message is the one a unary call must not have, and the one that
  can still be on its way when the call ends. A reply of two messages can be cut between
  them.
- `MCExchange`: `Forging` uses every reserved name there is a header for, and a name with
  two values. The deadlines lie at 0, in the first unit, around changes of unit, and
  above what the largest unit holds; `MaxTimeout = 99` stands for 99 999 999 and the
  units keep their order but not their size.
- `MCServices`: one service's name is a prefix of the other's, one is in no package, and
  method names collide once their case is changed. `CounterSize = 4` with three endpoints
  lets the counter wrap in a place where the rotation jumps. In two slots one call can
  overtake another.
- `MCH3Call`: with windows of one frame both directions are full as soon as each end has
  sent one frame and is writing the second, which is where the two ends could wait for
  each other. Four data frames are two more than that. Every set of sources may be idle
  when the call begins, and those with a body again after each frame.
- `MCGrpcWeb`: two groups of four can be cut so that a chunk leaves one to three
  characters over, is completed by the next, or is overtaken by it; padding is nowhere, at
  the end behind a character that fits only there, or inside as when each message is
  encoded by itself; one text ends within a group and one is not base64.
- `MCReflection`: a channel of one slot fills with the second answer; three requests are
  one in the client's hands, one in the channel and one with the task. One proto imports
  another, and one is compiled after another into the same `descriptor.bin`.
- `MCHealth`: two calls of `set_status` are needed for statuses to go back in time, two
  watchers for a race to create a channel, and two services to see them mixed up.

No symmetry is declared: nearly every passing run checks a liveness property, for which
TLC's symmetry reduction is unsound.

Deadlock checking is off in every configuration, because all these systems may rightly
stop: the stream has been read, the body or the call has ended, the server is shut down,
all calls have been made. That none of them stops too early is what the liveness
properties say (`Terminates`, `BodyEnds`, `LoopGoesOn`, `LatestArrives`,
`SingleCallEnds`, `FinishedIsDropped`, `CallEnds`, `TasksEnd`, `ResponseEnds`,
`CollectingEnds`, `StreamEnds`).

A run checks what is not proved, and what is proved where it says most about the code;
the bounds `OneHeld` and `BufBelowThreshold` and some type invariants are left to the
proofs. `CallInv`, `RequestArrives` and `StreamInv` are invariants with named parts, the
first of them the types; `StatusArrives`, `HeadersArrive`, `CallsRouted`, `GeneratedFits`,
`ResponseArrives`, `IndexIsComplete` and `LoopGoesOn` are conjunctions of the same kind.

### Fairness

- `Streaming`: weak fairness of `PollNext`: the consumer keeps polling and the body
  wakes it. Taking the trailers is never required.
- `EncodeBody`: weak fairness of `PollFrame`: the writer keeps polling and the source
  is not pending for ever. `Disconnect` is not fair.
- `AcceptLoop`: `LoopFairness` is what the runtime gives: a task that was woken is
  polled, and `select!` polls its arms in random order, so that an arm which is ready
  again and again is taken (strong fairness of `Shutdown`). Nothing is assumed of peers:
  the code sets a timeout neither on a handshake nor on a connection, and the liveness
  properties say what is left then.
- `Health`: tokio's locks are handed to a waiter and a watch channel wakes its
  receivers, hence weak fairness of `Notify`, `Subscribe` and `Deliver`. Nobody has to
  call anything, or to leave. `Abandon` is not fair.
- `Rpc`: weak fairness of the client's reads, of the server's own steps and of the two
  timers: tasks that are woken are polled and timers fire. Nobody makes the caller's
  messages come, the service return or the network break; a reply that was begun is
  finished where the pattern has one reply, because the body of a unary response is
  ready.
- `H3Call`: weak fairness of the sender task, of the server's task, of the caller's, and
  of the timers that are set; quinn delivers when they poll. No source has to yield
  (`SourceYields` is not fair), and nobody has to leave.
- `GrpcWeb`: weak fairness of the two header steps and of `PollEncode`: hyper polls the
  response until it ends.
- `Services`: weak fairness of `Build`: a generator runs to its end.
- `Reflection`: weak fairness of the task, of the client's reads and of the end of the
  stream. A client that is still there reads; it may leave at any time instead.

## 4. Proofs

The theorems are of the form `Spec => []Inv`, of an action property, or that a
specification implements an abstract one, for every value of the constants. Each
inductive invariant was given to TLC on the instance of the run before it was proved.

| module | theorems | inductive invariant |
|---|---|---|
| `StreamingProofs` | `TypeCorrect`, `StatusAlwaysSurfaced`, `ReadsOnDemand`, `DecodesTheWire` | `TypeOK`, `LengthChecked`, `TrailersFromBody`, `Answered`, `StatusSurfaced`; for the refinement also `OnTrack`, `Condemned` |
| `EncodeBodyProofs` | `TypeCorrect`, `BufferBounded`, `StatusAlwaysSent`, `NothingLostOrReordered`, `CleanRequestsAreWhole`, `StatusIsTruthful` | `TypeOK`, `BufBelowThreshold`, `StatusKept`, `StatusIsSent`; with these `Accounted`, `Told` |
| `ServerProofs` (`AcceptLoop`) | `TypeCorrect`, `PermitsAlwaysConserved`, `AtMostOneHeld`, `BacklogAlwaysExact`, `RequestsUnderPermit` | the conjunction of the five invariants |
| `ServerProofs` (`Services`) | `CallsAreRouted`, `InterceptorsAlwaysGuard`; `LoadIsEven`; `GeneratedAlwaysFits` | `RoutingInv` (`ServicesNamed`, `RoutesKept`, `CallsKept`); `LoadInv`; `WorkInv` |
| `HealthProofs` | `TypeCorrect`, `WatchersAlwaysAgree`; `NoWatcherGoesBack`, `LastAlwaysSeen` (one setter) | `TypeOK`, `Subscribed`, `WatchersAgree`; with these `Ordered` |
| `RpcProofs` (`Rpc`) | `CallIsSound`, `CallIsHonest` | `Types`, `Prepared`, `RequestUploaded`, `ServerSide`, `ClientSide`, `QueueFits`, `NothingEarly`, `ReplyGoesOn`, `SingleReplyIsComplete` |
| `RpcProofs` (`Exchange`) | `ExchangeTellsStatus`, `ExchangeKeepsHeaders`, `ExchangeIsReadable`, `ExchangeTimeout` | `ExchangeInv`: `Typed`, `RequestIs`, `ReplyIs`, `ErrorIs`, `Told` |
| `H3CallProofs` | `CallIsKnown` | `Types`, `RequestSide`, `ReplySide`, `ClientSide` |
| `GrpcWebProofs` | `RequestIsDecoded`, `ResponseIsEncoded` | `RequestInv`, `ResponseInv` |
| `ReflectionProofs` | `StreamIsAnswered`, `IndexAnswers`, `BuiltIsReflected` | `StreamTypes`, `InOrder`, `ReadIsDecodable`, `Phases`; `IndexInv`: `IndexTypes`, `FullyNamed`, `FromIndex` and what the index holds; `BuiltInv` |

Why the strengthenings are needed:

- *Streaming.* `StatusSurfaced` is about the result of a poll, which a later poll gives
  for what an earlier one stored. `TrailersFromBody` says that stored trailers are those
  the body ended with, and `Answered` that once the body has ended the consumer has
  either had a final result or will be given an error status; without it a stream
  could end twice, the second time by `response()` with other trailers. `LengthChecked`
  carries the check of the header over to the poll that wants the payload, which is what
  `ReadsOnDemand` needs.
  `DecodesTheWire` is the refinement of `MessageStream`. Its invariant ties the decoder,
  which forgets the wire behind it, to the parse of the whole: `Start` is the position at
  which the frame in work begins (five bytes back once its header was consumed), and
  `OnTrack` says that what was yielded, followed by the parse from `Start`, is the parse
  of the wire, and that a parsed header is the one that lies at `Start`. `Condemned` says
  of a stored error status that all messages were yielded and the wire justifies it.
  That `Parsing` satisfies its recursion for every wire (`ParseExists`) is an induction
  from the end of the wire backwards. It is made of sets: the naturals that satisfy the
  induction hypothesis are a set, and a set that holds 0 and with `n` also `n + 1` holds
  all of them, because `<` is well-founded (`Induction`).
- *EncodeBody.* `StatusKept` says that once a server's `is_end_stream` is set, the
  stream has ended or the writer holds the trailers back: a body over HTTP/3 is polled
  again after its trailers, and only this excludes that it then finishes without them.
  The other module relates the ending to the source. `Accounted` counts frames up to
  `pos`; `Told` says what a deferred error, the trailers seen so far and each way to end
  imply about the positions before it: a body that ends with its first failure has seen
  none before, and over HTTP/3, where the body goes on, the status kept is that of the
  last failure.
- *AcceptLoop.* `OneHeld` gives the wait for a permit its connection, `BacklogExact`
  tells that an accepted connection owns no permit yet, so that `PermitsConserved` can
  count it as new, and `RpcUnderPermit` needs the connection states the others fix.
- *Health.* `Subscribed`: a watcher that is open has a channel, so that a later `Watch`
  joins it instead of replacing it. `Ordered`, for the order of what a watcher is sent:
  no channel, no status read by `Watch` and nothing sent is ahead of `statuses`, the
  setter announces what it stored, and the channel of an open watcher equals `statuses`
  unless the setter is between its locks or was dropped there. These two theorems assume
  that `Setter` is `{p}`: with two setters the properties are false, which
  `health_two_setters` exhibits.
- *Rpc.* `CallInv` compares what the two ends did, and a frame may be on its way between
  them for any number of steps. `QueueFits` says which frames a queue can hold, and in
  which order, given what its writer has done and its reader has taken; a reset cuts a
  queue, and what remains readable in front of it is still such a prefix. `NothingEarly`
  and `ReplyGoesOn` say that no frame is there before its writer got that far, and that a
  reply that was begun has its end on the way unless it was reset.
  `SingleReplyIsComplete` is about the patterns with one reply, which the client reads
  to the end before it tells its caller. `CallIsHonest` maps every step to one of
  `Call` or to a stutter: the promise to the caller changes in the step that tells it.
- *H3Call.* Of a stream only counts matter: data frames read and on their way make up
  those sent, as long as the connection holds, and also after it is lost if a final
  frame survived (`RequestSide`, `ClientSide`): the loss cuts frames off at the back, so
  none is missing in front of one that stayed. What the sender knew when it wrote a
  final frame is what its reader learns: the stream of a request is finished with all
  that the body yielded, unless nobody listens, and the end of a reply has a status in
  front (`StatusFirst`), which is why a caller is never left without one. `ReplySide`
  counts what an echo holds between reading and sending. That sources may be idle
  disables steps and changes no count.
- *GrpcWeb.* The text is its positions. `RequestInv` says that the characters held are in
  order and fewer than a group when a chunk is decoded, that each position has been
  decoded or is held or still to come, exactly once, and that what was decoded is sorted
  unless a chunk has jumped what was carried over. As long as none has, what is decoded
  ends at a multiple of four, so that a group of the chunk is a group of the text, and of
  a text that is base64 each can be decoded: this is why nothing is passed on as it is.
  `ResponseInv` has one case for each phase of the response: polling, trailers captured,
  the end flagged, ended, failed.
- *Reflection.* `InOrder` says where each answer is while the client stays: received, in
  the channel, or with the task. `ReadIsDecodable` and `Phases` say why the task
  stopped: the stream ended, a request could not be decoded, or the client left.
  `IndexIsComplete` is about what a fold over files has computed by the time a client
  asks. `IndexInv` says it of the index while it is built: each symbol leads to the last
  file that was registered with it, and each service has been listed as often as it was
  named. The fold is unrolled by an induction over the number of files (`RoundIs`), and
  `FromIndex` says of an answer that it is what the finished index gives. `BuiltInv`
  says that the modules of the last set written have the stubs of its services, until
  the server runs that registers it.
- *Exchange.* The properties compare the ends of a call; `ExchangeInv` says what the maps
  hold between them, as what the code's own functions give: the request's is what
  `prepare_request` writes (`RequestIs`), the response's what `map_response` or the status
  writes (`ReplyIs`), and what was told is what can be read back from it (`Told`). The
  lemmas in front say of each way to put two maps together whose names win and whose
  values stay (`MergeHolds`, `SanitizedHolds`, `ExtendHolds`). `RoundTrip` then reads a
  status from the headers it was written to, `Negotiated` an encoding from the header the
  other end wrote, and `TimeoutIs` the finest unit a duration fits.
- *Services.* Three invariants that do not need each other. `RoutingInv` follows a call:
  the services have the names of the schema, each key of the router is that of the service
  registered under it, and a call that is with its interceptors has passed those in front
  (`Marked`) and entered by a key that matches. That the order in which a `HashMap` is
  searched does not matter is the lemma `OnlyKey`: two services whose keys both match a
  path have the same name, because a name has no slash in it. That an arm of the server
  finds the right struct rests on `Compiles`: `rustc` refuses two of one name. `LoadInv`
  gives each endpoint its share of the calls from the counter and the number of times that
  it has wrapped around. `WorkInv` is that of a search in a graph: what was looked at
  leads only to what was looked at or is in the worklist, and everything is in each closed
  set that has the types of the calls. `NameParts` says that the qualified name the
  worklist keeps is taken apart into the namespace and name it was made of; without it the
  search would lose messages. `HelpersListed` unrolls the fold that lists the types of a
  Dart client.

Assumptions, each named and evaluated by TLC in the runs. They are about what is given to
the program, and what gives it is named:

- *Decoder.* Bytes are below 256 (`ByteAssumption`), calls are calls
  (`CallsAssumption`), the decompressor gives bytes or `Corrupt` for every part of a wire
  (`InflateAssumption`), `MaxAfter` is positive (`MaxAfterAssumption`).
- *Encoder.* Sources are sequences of messages and errors (`ScriptsAssumption`), sizes are
  naturals and the threshold is positive (`SizesAssumption`), roles and writers are the
  known ones (`RolesAssumption`).
- *Accept loop.* The limit is positive, as the code asserts (`server.rs:76`), connections
  are finitely many and `NoConn` is none of them (`LimitAssumption`, `ConnAssumption`,
  `TransportAssumption`).
- *Health.* `NoChannel` is not a status (`MaxSetsAssumption`).
- *Calls.* A call may have one reply at least (`MaxRepliesAssumption`); a response body
  over HTTP/3 ends in trailers or fails, as `StatusIsSent` of the encoder says of a
  server's (`H3CallAssumption`).
- *Exchange.* A header map holds a value for each of its names, as `http::HeaderMap` does
  (`MetadataAssumption`); a status has a code, a message that is text and details that are
  bytes, which are its Rust types (`StatusesAssumption`); a `grpc-status` of a foreign
  server is one token (`ForeignAssumption`); units start at one, and each is at least
  twice the one before (`TimeoutAssumption`); what may be enabled are encodings
  (`EnabledAssumption`). An error that wraps a status wraps one of a failure
  (`ChainsAssumption`): the code does not enforce this, and an application that puts
  `Status::ok` into an error is told a success.
- *Schemas.* `protoc` and the FlatBuffers compiler refuse a second service, method or
  message of one name (`SchemasAssumption`, `MessagesAssumption`), words hold no separator
  (`WordAssumption`), and a FlatBuffers method has bare names for its types, as
  `find_message` reads them (`flatbuffers.rs:316-318`). Chains and endpoints are such
  (`ServicesAssumption`).
- *Reflection.* The compiler has found what a file imports, and a descriptor set that can
  be decoded is a list of files (`FilesAssumption`); the channel has room for an answer.

Only model-checked, because fairness and `ENABLED` are out of TLAPS's reach: every
liveness property (`Terminates`, `BodyEnds`, `SingleCallEnds`, `FinishedIsDropped`,
`CallEnds`, `TasksEnd`, `ResponseEnds`, `LoopGoesOn`, `LatestArrives`, `CollectingEnds`,
`StreamEnds`). Every other property of a passing run is a theorem.

No module declares a `RECURSIVE` operator. Where a proof needs an induction, it is over the
naturals, as a set that holds 0 and with `n` also `n + 1` (`Induction`); a fold of the
community modules is first shown to exist as a function over the sets it goes through
(`RoundsExist`, `SumsExist`), and then to be what one step more makes of it.

## 5. What the work has shown

The decoder gives a consumer that stops at the first final result exactly the messages on
the wire, however they are cut into chunks, and reads a response as a success only on the
server's word or its silence under HTTP 200. The encoder loses, repeats and reorders
nothing of what it could frame, and the status it ends with tells the peer what it
received. A call of any pattern tells its caller success only with every message and the
server's own success, or, for a stream, an empty one if the answer is silent, under every
order of timers, resets and answers, and leaves nothing behind. Statuses, details and
metadata survive the headers also where an application uses the protocol's own names. A
generated client reaches the method it was generated for, and nothing else. Permits are
neither lost nor made up on any way out of a connection task, and the watchers of a
service are never left with different statuses.

Two runs exhibit where the code does something else than it says:

1. `health_two_setters`: two concurrent calls of `set_status` may announce in the other
   order than they stored, and watchers stay with a status that `Check` no longer
   reports (`grpc-health/src/lib.rs:76-91`).
2. `web_text_overtaken`: `call.rs:17-18` says that the service receives standard binary
   frames for a request in text mode, but a chunk that can be decoded by itself overtakes
   the characters carried over (`call.rs:109`); what remains is decoded to something
   else, passed on as text or dropped.

Other behaviour met while modelling. The models contain what they can express of it,
and the properties are stated around it:

- *Decoder.* A body error is stored in `State::Error` and also returned, so that it is
  yielded twice before `None`; an error of `decode_chunk` does not enter `State::Error`,
  and further messages may follow it. Trailers end the stream whatever is left in
  `buf`, and a message cut exactly behind its header leaves nothing in `buf`, so that
  the end of the body is not noticed as a cut (`decode.rs:239-271`).
- *Encoder.* Only errors of the source are deferred: an item that cannot be encoded
  overtakes the batch before it, which is then lost (`encode.rs:80-89`). Over HTTP/3
  `send_h3_response` polls a body on after its trailers (`h3_server.rs:336`), so that
  messages after a failed one are still sent and the last status wins.
- *Accept loops.* The loop asks for a permit after it has accepted, so that one
  connection more than the limit is accepted; `serve` returns without waiting for the
  connection tasks. Over HTTP/3 the end of the loop closes the endpoint and with it every
  request in flight (`h3_server.rs:203`), and a handler may outlive its connection and
  its permit. Neither a TLS handshake nor a connection has a timeout, and each holds its
  permit while it lasts. The accept arm awaits a permit without polling the shutdown
  signal (`server.rs:305`), so that `serve_with_shutdown`, "Serve with a graceful shutdown
  signal" (`server.rs:233`), does not return as long as peers that stay hold every permit
  and another has connected. `ShutdownHeard` says that nothing else keeps the loop from
  the signal.
- *Health.* A watcher that joins a channel is sent the value it holds, which may be
  older than the status when it called; if all receivers had left, it stays with that
  value until the next `set_status` (`lib.rs:186`). A `set_status` that is dropped
  between its two locks leaves the watchers with the status before, until the next.
- *Timeouts.* Both cover a call up to its response headers only (`channel.rs:223`,
  `server.rs:446`); a streaming response goes on without one. The server never reads
  the `grpc-timeout` the client sends.
- *Silence.* An answer of HTTP 200 without `grpc-status` and without messages is an empty
  stream that ends as a success (`status.rs:445`); a single reply is missing in it.
- *HTTP/3 calls.* The client finishes a request whose body failed as if it were complete
  (`h3_channel.rs:190`), where hyper resets the stream. The sender task outlives a call
  that timed out or was dropped: only a send tells it that nobody listens, so that a body
  which stays pending keeps it for ever (`h3_channel.rs:176`); the server's task waits
  for the body of its response in the same way (`h3_server.rs:337`), and an echo service
  for a request that its client has left open. An error of the data leaves the flags of
  a receiving body as they are, so that the next poll may repeat it.
- *gRPC-Web.* A text with padding inside is passed on undecoded; characters left over at
  the end are dropped. Standard requests "pass through unchanged" (`service.rs:16-17`,
  `layer.rs:9`), but their responses are wrapped as well (`service.rs:67`), and get a
  data frame with the trailer flag in the place of HTTP trailers, so that
  `ResponseArrives` is about requests of gRPC-Web only.
- *Router and generators.* Methods `Say` and `SayStream`, both streaming, get the same
  `SayResponseStream`, and in a service `FooSvc` the adapter of a method `Foo` has the
  name of the trait: the generated code does not compile (`server_gen.rs:10-13, 195`). For
  FlatBuffers the package and the nesting of a type are dropped, and of several messages
  with one bare name the first is taken. The comment at `flatbuffers.rs:72-74` says that a
  stub becomes a `compile_error!`, where `service_to_ir` returns an error.
- *Builds.* All protos compiled by one build script write their descriptors to one
  `descriptor.bin`, so that the `FILE_DESCRIPTOR_SET` of every generated module holds those
  of the last one (`protobuf.rs:95-109`), and a server that registers it reflects those:
  `ModulesReflected` speaks of the modules of this set. Modules of one package overwrite
  each other and imported packages get all stubs; services alone, without a package, are
  written to `_.rs.rs` (`protobuf.rs:113-129`).
- *Reflection.* A request that cannot be decoded ends the stream with `OK`
  (`grpc-reflection/src/lib.rs:217`).

## 6. What is not modelled, and why

- *Body adapters* (`body.rs`, `buffer.rs`): they forward polls, and have no state.
- *Sizes after decompression*: the limit applies to the length on the wire; a message is
  whatever `Inflate` gives.
- *The codecs*: conversions without state. What a codec consumes when it fails is covered
  by `FailDecode`. The trait `Decoder` also allows the answer `Ok(None)`, after which
  `decode_chunk` stays in `ReadBody` for a payload that may be gone (`decode.rs:166`).
  Neither prost's codec nor the FlatBuffers one gives it, and no other is modelled.
- *One name in several namespaces* of a FlatBuffers schema: `find_message` takes the first
  (`flatbuffers.rs:316-333`), and `Reachable` follows references in the same way.
  The types of methods are bare names in the schemas explored, so that the two ways in
  which `dart_client_gen.rs` shortens a type do not differ there.
- *How channels, endpoints and servers are configured* (`endpoint.rs`, the builder of
  `server.rs`, `mtls.rs`): setters, and calls of rustls, quinn and hyper.
- *The text of generated code*, beyond names, paths, shapes and types.
- *The growth of the health service's map of channels* (`grpc-health/src/lib.rs:190`):
  the set of services is fixed.
- *hyper, h3, quinn, tokio, rustc*: external; modelled by what the code relies on
  (trailers end an HTTP/2 stream, a body error resets it, a dropped permit returns to the
  semaphore, a send without receivers leaves a watch channel unchanged).
- *Benchmarks and examples*: programs that use the library.

## 7. Plan

Every safety property that a run checks is proved. What could be added to the models:

1. sizes after decompression, so that a limit on them could be stated
   (`decode.rs:203`);
2. the connections of a channel (connecting, reconnecting), which today are hyper's.
