------------------------------ MODULE Services ------------------------------
(***************************************************************************)
(* From a schema to calls that find their methods: the worklist of         *)
(* grpc-codegen's FlatBuffers adapter, the generated clients and servers,  *)
(* the registration with Router (router.rs) behind InterceptedService      *)
(* (interceptor.rs), and calls to replicas of one server through the       *)
(* shared counter of BalancedChannel (balance.rs).                         *)
(*                                                                         *)
(* The specification's own names begin with `Services`, so that a module   *)
(* of proofs can extend this one and another.                              *)
(***************************************************************************)
EXTENDS Codegen

CONSTANTS
    Schemas,        \* schemas: proto or FlatBuffers, see Schema
    Chains,         \* chains of interceptors, outermost first
    Origins,        \* path prefixes of a client's origin
    ForeignPaths,   \* paths that other clients ask for
    Slots,          \* calls at a time
    Endpoints,      \* number of endpoints of the balanced channel
    CounterSize,    \* the counter is modulo this; 2^64 in the code
    MaxCalls,       \* bound: calls made
    MaxAdds         \* bound: services added

ASSUME ServicesAssumption ==
    /\ Endpoints \in Nat \ {0} /\ CounterSize \in Nat \ {0}
    /\ Chains \subseteq Seq({"mark", "reject"})

(* The compilers of the schemas refuse a second service, a second method   *)
(* of a service, and a second message, of the same name.  The adapter of   *)
(* FlatBuffers has bare names for the types of methods.                    *)
ASSUME SchemasAssumption ==
    \A s \in Schemas :
        /\ s.kind \in {"proto", "fbs"}
        /\ s.services \in Seq(ServiceDescriptor)
        /\ IsInjective([i \in DOMAIN s.services |-> Fqn(s.services[i])])
        /\ \A service \in ToSet(s.services) : IsInjective(Names(service.methods))

ASSUME MessagesAssumption ==
    \A s \in Schemas : s.kind = "fbs" =>
        /\ s.messages \in Seq(MessageDescriptor)
        /\ \A i, j \in DOMAIN s.messages :
               s.messages[i].namespace = s.messages[j].namespace
                   /\ s.messages[i].name = s.messages[j].name => i = j
        /\ \A service \in ToSet(s.services) : \A m \in ToSet(service.methods) :
               m.input \in Identifier /\ m.output \in Identifier

VARIABLES
    stage,      \* what is being done
    schema,     \* the schema
    frontier,   \* stack of messages to look at
    needed,     \* messages found to be needed
    services,   \* the services for which code has been generated
    routes,     \* from keys to registrations
    added,      \* number of registrations
    fallback,   \* is there a fallback?
    next,       \* the shared counter
    load,       \* calls sent to each endpoint
    calls       \* the calls

building == <<stage, schema, frontier, needed, services>>
registry == <<routes, added, fallback>>
servicesVars == <<building, registry, next, load, calls>>

None == "none"
NoCall == [at |-> "free"]

ServicesInit ==
    /\ schema \in Schemas
    /\ stage = IF schema.kind = "fbs" THEN "collect" ELSE "generate"
    /\ frontier = IF schema.kind = "fbs" THEN SetToSeq(RpcIoMessages(schema)) ELSE <<>>
    /\ needed = {} /\ services = <<>>
    /\ routes = [key \in {} |-> None] /\ added = 0 /\ fallback = "no"
    /\ next = 0 /\ load = [e \in 1..Endpoints |-> 0]
    /\ calls = [c \in Slots |-> NoCall]
-----------------------------------------------------------------------------
(* Mutant of Collect: a message that is found again is looked at again.    *)
CollectAgain ==
    /\ stage = "collect" /\ frontier # <<>>
    /\ LET id == Last(frontier)
           found == FindMessage(schema.messages, SplitNamespace(id), LastAfter(id, "."))
       IN  /\ needed' = needed \cup {id}
           /\ frontier' = Front(frontier)
                  \o SetToSeq(UNION { Referenced(schema, m) : m \in found })
    /\ UNCHANGED <<stage, schema, services, registry, next, load, calls>>

(* Mutant of Collect: only what the messages of calls refer to themselves. *)
CollectFlat ==
    /\ stage = "collect" /\ frontier # <<>>
    /\ LET id == Last(frontier)
           found == IF id \in needed \/ id \notin RpcIoMessages(schema) THEN {}
                    ELSE FindMessage(schema.messages, SplitNamespace(id), LastAfter(id, "."))
       IN  /\ needed' = needed \cup {id}
           /\ frontier' = Front(frontier)
                  \o SetToSeq(UNION { Referenced(schema, m) : m \in found })
    /\ UNCHANGED <<stage, schema, services, registry, next, load, calls>>

(* collect_rpc_relevant_messages, one round of its loop.                   *)
Collect ==
    /\ stage = "collect" /\ frontier # <<>>
    /\ LET id == Last(frontier)
           found == IF id \in needed THEN {}
                    ELSE FindMessage(schema.messages, SplitNamespace(id), LastAfter(id, "."))
       IN  /\ needed' = needed \cup {id}
           /\ frontier' = Front(frontier)
                  \o SetToSeq(UNION { Referenced(schema, m) : m \in found })
    /\ UNCHANGED <<stage, schema, services, registry, next, load, calls>>

CollectDone ==
    /\ stage = "collect" /\ frontier = <<>>
    /\ stage' = "generate"
    /\ UNCHANGED <<schema, frontier, needed, services, registry, next, load, calls>>

Ir == [i \in DOMAIN schema.services |->
          IF schema.kind = "fbs" THEN ServiceToIr(schema.services[i])
          ELSE ServiceFromProto(schema.services[i], schema.services[i].package, "super")]

(* generate_grpc_stubs, compile_protos; then rustc.                        *)
Generate ==
    /\ stage = "generate"
    /\ LET accepted == \A s \in ToSet(schema.services) :
                           IF schema.kind = "fbs" THEN Supported(s) ELSE Complete(s)
       IN  IF accepted /\ \A i \in DOMAIN Ir : Compiles(GenerateServer(Ir[i]))
           THEN stage' = "register" /\ services' = Ir
           ELSE stage' = "failed" /\ UNCHANGED services
    /\ UNCHANGED <<schema, frontier, needed, registry, next, load, calls>>
-----------------------------------------------------------------------------
(* add_service: a later service of the same name takes the place.          *)
AddService ==
    /\ stage = "register" /\ added < MaxAdds
    /\ \E i \in DOMAIN services, chain \in Chains :
           LET key == <<"/">> \o GenerateServer(services[i]).name
               entry == [service |-> i, chain |-> chain, version |-> added + 1]
           IN  routes' = [k \in DOMAIN routes \cup {key} |->
                              IF k = key THEN entry ELSE routes[k]]
    /\ added' = added + 1
    /\ UNCHANGED <<building, fallback, next, load, calls>>

SetFallback ==
    /\ stage = "register" /\ fallback = "no"
    /\ fallback' = "yes"
    /\ UNCHANGED <<building, routes, added, next, load, calls>>

Serve ==
    /\ stage = "register"
    /\ stage' = "serve"
    /\ UNCHANGED <<schema, frontier, needed, services, registry, next, load, calls>>
-----------------------------------------------------------------------------
(* What a generated client asks for (prepare_request puts the path of its  *)
(* origin in front), and what others may.                                  *)
Asked == UNION { { [service |-> i, method |-> j, path |-> o \o GenerateClient(services[i])[j].path] :
                       j \in DOMAIN services[i].methods, o \in Origins } : i \in DOMAIN services }
Strangers == { [service |-> 0, method |-> 0, path |-> p] : p \in ForeignPaths }

(* Mutant of Send: the counter is read and written in two steps, so that   *)
(* another call may come in between.                                       *)
SendRacing(c) ==
    /\ stage = "serve" /\ calls[c].at \in {"free", "done"}
    /\ FoldFunction(+, 0, load) < MaxCalls
    /\ \E target \in Asked \cup Strangers :
           calls' = [calls EXCEPT ![c] = [at |-> "sent", target |-> target]]
    /\ load' = [load EXCEPT ![(next % Endpoints) + 1] = @ + 1]
    /\ next' \in {next, (next + 1) % CounterSize}
    /\ UNCHANGED <<building, registry>>

(* BalancedChannel::call: fetch_add is one step.                           *)
Send(c) ==
    /\ stage = "serve" /\ calls[c].at \in {"free", "done"}
    /\ FoldFunction(+, 0, load) < MaxCalls
    /\ \E target \in Asked \cup Strangers :
           calls' = [calls EXCEPT ![c] = [at |-> "sent", target |-> target]]
    /\ load' = [load EXCEPT ![(next % Endpoints) + 1] = @ + 1]
    /\ next' = (next + 1) % CounterSize
    /\ UNCHANGED <<building, registry>>

(* Mutant of Matches: the name need not end where the key ends.            *)
MatchesPrefix(key, path) == IsPrefix(key, path) /\ Len(path) > Len(key)

Matches(key, path) ==
    /\ IsPrefix(key, path)
    /\ Len(path) > Len(key) /\ path[Len(key) + 1] = "/"

Answered(target, answer) ==
    [at |-> "done", target |-> target, answer |-> answer, handler |-> None, marks |-> <<>>]

(* Router::call.  The routes are looked through in the order of a HashMap. *)
Route(c) ==
    /\ calls[c].at = "sent"
    /\ LET target == calls[c].target
           matching == { key \in DOMAIN routes : Matches(key, target.path) }
       IN  \/ \E key \in matching :
                  calls' = [calls EXCEPT ![c] =
                                [at |-> "intercept", target |-> target,
                                 entry |-> routes[key], marks |-> <<>>]]
           \/ /\ matching = {}
              /\ calls' = [calls EXCEPT ![c] = Answered(target,
                               IF fallback = "yes" THEN "fallback" ELSE "service not found")]
    /\ UNCHANGED <<building, registry, next, load>>

(* Mutant of Intercept: a refusal is kept, and the call goes on.           *)
InterceptAnyway(c) ==
    /\ calls[c].at = "intercept"
    /\ Len(calls[c].marks) < Len(calls[c].entry.chain)
    /\ calls' = [calls EXCEPT ![c].marks = Append(@, Len(@) + 1)]
    /\ UNCHANGED <<building, registry, next, load>>

(* InterceptedService::call, the next one inwards: the request goes on     *)
(* with the metadata the interceptor has returned, or is answered.         *)
Intercept(c) ==
    /\ calls[c].at = "intercept"
    /\ LET position == Len(calls[c].marks) + 1
       IN  /\ position <= Len(calls[c].entry.chain)
           /\ \/ /\ calls[c].entry.chain[position] = "mark"
                 /\ calls' = [calls EXCEPT ![c].marks = Append(@, position)]
              \/ /\ calls[c].entry.chain[position] = "reject"
                 /\ calls' = [calls EXCEPT ![c] = Answered(calls[c].target, "rejected")]
    /\ UNCHANGED <<building, registry, next, load>>

(* The arm hands the request to the struct it names, which calls the trait.*)
Handler(version, server, arm) ==
    [version |-> version, arm |-> arm,
     svc |-> CHOOSE svc \in ToSet(server.svcs) : svc.name = arm.svc]

(* The generated server: the first arm whose path is the request's.        *)
Dispatch(c) ==
    /\ calls[c].at = "intercept"
    /\ Len(calls[c].marks) = Len(calls[c].entry.chain)
    /\ LET call == calls[c]
           server == GenerateServer(services[call.entry.service])
           arms == server.arms
           hit == { j \in DOMAIN arms : arms[j].path = call.target.path }
       IN  calls' = [calls EXCEPT ![c] =
               IF hit = {} THEN Answered(call.target, "method not found")
               ELSE [Answered(call.target, "handled") EXCEPT
                         !.handler = Handler(call.entry.version, server, arms[Min(hit)]),
                         !.marks = call.marks]]
    /\ UNCHANGED <<building, registry, next, load>>

Build == Collect \/ CollectDone \/ Generate
Register == AddService \/ SetFallback \/ Serve
Call(c) == Send(c) \/ Route(c) \/ Intercept(c) \/ Dispatch(c)
ServicesNext == Build \/ Register \/ \E c \in Slots : Call(c)

ServicesSpec == ServicesInit /\ [][ServicesNext]_servicesVars
(* A generator runs to its end.                                            *)
ServicesFairSpec == ServicesSpec /\ WF_servicesVars(Build)
-----------------------------------------------------------------------------
DoneCalls == { calls[c] : c \in { d \in Slots : calls[d].at = "done" } }
Handled(call) == call.answer = "handled"
RouteOf(call) == routes[<<"/">> \o Fqn(services[call.target.service])]
Known(call) ==
    /\ call.target.service # 0
    /\ <<"/">> \o Fqn(services[call.target.service]) \in DOMAIN routes
    /\ call.target.path = GrpcPath(services[call.target.service],
                              services[call.target.service].methods[call.target.method])
Expected(call) == GenerateClient(services[call.target.service])[call.target.method]

(***************************************************************************)
(* A generated client's call that is not rejected runs the method of the   *)
(* same name in the service registered last, in the same shape, and each   *)
(* end decodes the type the other encodes, whatever other services are     *)
(* there, with names that begin with this one's (router.rs:95-104,         *)
(* server_gen.rs:194-298, client_gen.rs:107-207).                          *)
(***************************************************************************)
ReachesItsMethod ==
    \A call \in DoneCalls : Known(call) /\ "reject" \notin Range(RouteOf(call).chain) =>
        /\ Handled(call)
        /\ call.handler.version = RouteOf(call).version
        /\ call.handler.svc.calls = Expected(call).name
        /\ {call.handler.arm.shape, call.handler.svc.shape} = {Expected(call).shape}
        /\ call.handler.arm.decode = Expected(call).encode
        /\ call.handler.arm.encode = Expected(call).decode

(***************************************************************************)
(* A call that nobody generated a method for runs none: it is told so, or  *)
(* goes to the fallback if not even the service is there; so does a call   *)
(* whose client has a path in its origin (router.rs:95-104, 181-196,       *)
(* grpc-client/src/grpc.rs:239-252).                                       *)
(***************************************************************************)
StrangersTurnedAway ==
    \A call \in DoneCalls : ~Known(call) =>
        /\ Handled(call) => \E s \in ToSet(services) : \E m \in ToSet(s.methods) :
               call.target.path = GrpcPath(s, m)
        /\ call.answer = "service not found" => fallback = "no"
        /\ call.answer \in {"fallback", "service not found"} =>
               \A s \in ToSet(services) :
                   <<"/">> \o Fqn(s) \in DOMAIN routes =>
                       \A rest \in {m.name : m \in ToSet(s.methods)} :
                           call.target.path # <<"/">> \o Fqn(s) \o <<"/">> \o rest

(***************************************************************************)
(* A call runs the method it was generated for and nothing else            *)
(* (router.rs:95-104, 181-196, server_gen.rs:194-298).                     *)
(***************************************************************************)
CallsRouted ==
    /\ ReachesItsMethod
    /\ StrangersTurnedAway

(***************************************************************************)
(* No method runs past an interceptor that rejects, and one that runs has  *)
(* the metadata of all its interceptors, the outermost first               *)
(* (interceptor.rs:76-99).                                                 *)
(***************************************************************************)
InterceptorsGuard ==
    \A call \in DoneCalls : Handled(call) =>
        LET chain == (CHOOSE r \in Range(routes) : r.version = call.handler.version).chain
        IN  "reject" \notin Range(chain) /\ call.marks = [i \in DOMAIN chain |-> i]

(***************************************************************************)
(* Concurrent callers that share a channel spread their calls over the     *)
(* endpoints: none is ahead of another by more than one, and one more for  *)
(* each time the counter has wrapped around (balance.rs:71).               *)
(***************************************************************************)
EvenLoad ==
    \A a, b \in 1..Endpoints :
        load[a] <= load[b] + 1 + (FoldFunction(+, 0, load) \div CounterSize)

(* What is needed, as the least set that is closed under references.       *)
UniqueNames == IsInjective(Names(schema.messages))
Closed(set) == \A m \in ToSet(schema.messages) :
                   QualifiedName(m) \in set => Referenced(schema, m) \subseteq set
Reachable ==
    LET closed == { s \in SUBSET { QualifiedName(m) : m \in ToSet(schema.messages) } :
                        RpcIoMessages(schema) \subseteq s /\ Closed(s) }
    IN  { id \in UNION closed : \A s \in closed : id \in s }

(***************************************************************************)
(* The worklist ends with all messages a caller may have to construct, and *)
(* no others, also where they refer to each other in circles; each codec   *)
(* is for an alias that is there, and where names are unique the aliases   *)
(* do not collide (flatbuffers.rs:84-98, 113-138, 262-289).                *)
(***************************************************************************)
NeededExact ==
    stage = "generate" /\ schema.kind = "fbs" =>
        /\ needed = Reachable
        /\ CodecImpls(schema) \subseteq ToSet(Aliases(schema, needed))
        /\ UniqueNames => IsInjective(Aliases(schema, needed))

(***************************************************************************)
(* The worklist ends, also on circular schemas (flatbuffers.rs:269-287).   *)
(***************************************************************************)
CollectingEnds == <>(stage # "collect")

(***************************************************************************)
(* The Dart client has one pair of helpers for each type its methods name, *)
(* and annotates a method with the type its helpers are for                *)
(* (dart_client_gen.rs:122-138, 149-175, 285-327).                         *)
(***************************************************************************)
DartHelpersMatch ==
    stage = "generate" /\ schema.kind = "fbs" => \A s \in ToSet(schema.services) :
        LET dart == GenerateDart(s)
        IN  /\ IsInjective(dart.helpers)
            /\ \A i \in DOMAIN dart.methods :
                   LET m == dart.methods[i]
                   IN  /\ m.path = GenerateClient(s)[i].path
                       /\ m.shape = GenerateClient(s)[i].shape
                       /\ m.request = m.serialize /\ m.response = m.deserialize
                       /\ \E h, g \in ToSet(dart.helpers) :
                              h.serialize = m.serialize /\ g.deserialize = m.deserialize

(***************************************************************************)
(* What the generators write fits together: aliases, codecs and Dart       *)
(* helpers are those the methods need (flatbuffers.rs:84-138,              *)
(* dart_client_gen.rs:122-175).                                            *)
(***************************************************************************)
GeneratedFits ==
    /\ NeededExact
    /\ DartHelpersMatch
=============================================================================
