------------------------------ MODULE Codegen -------------------------------
(***************************************************************************)
(* What grpc-codegen and grpc-build generate from a schema: the server     *)
(* module and the client of each service, the Dart client, and the aliases *)
(* of FlatBuffers messages.  Generated code is described by what decides   *)
(* how calls find their way: paths, names, shapes and codecs.              *)
(*                                                                         *)
(* A text is a sequence of words and separators ("_", ".", "/", "::").     *)
(***************************************************************************)
EXTENDS Naturals, SequencesExt, FiniteSetsExt

CONSTANTS
    Word,       \* the words that names are made of
    Lower,      \* the lower case of each word
    Upper       \* and the upper camel case

ASSUME WordAssumption == Word \cap {"_", ".", "::", "/"} = {}

(* Identifiers, and the packages and types made of them.                   *)
Identifier == Seq(Word \cup {"_"})
Text == Seq(Word \cup {"_", ".", "::"})

Shape == {"unary", "server_streaming", "client_streaming", "streaming"}
StreamsReply(m) == m.shape \in {"server_streaming", "streaming"}

MethodDescriptor ==
    [name : Text, rust : Text, input : Text, output : Text, shape : Shape]
ServiceDescriptor == [package : Text, name : Text, methods : Seq(MethodDescriptor)]
MessageDescriptor ==
    [namespace : Text, name : Identifier, refs : SUBSET [package : Text, name : Identifier]]

(* heck.                                                                   *)
Words(name) ==
    LET words == SelectSeq(name, LAMBDA w : w # "_")
    IN  [i \in DOMAIN words |-> Lower[words[i]]]
Snake(name) ==
    LET w == Words(name)
    IN  [i \in 1..(2 * Len(w) - 1) |-> IF i % 2 = 1 THEN w[(i + 1) \div 2] ELSE "_"]
UpperCamel(name) == [i \in DOMAIN Words(name) |-> Upper[Words(name)[i]]]

(* make_fqn, qualified_name and fully_qualified_name; an empty package is  *)
(* none.                                                                   *)
Qualified(package, name) == IF package = <<>> THEN name ELSE package \o <<".">> \o name
LastAfter(text, separator) ==
    LET at == { i \in DOMAIN text : text[i] = separator }
    IN  IF at = {} THEN text ELSE SubSeq(text, Max(at) + 1, Len(text))

Fqn(service) == Qualified(service.package, service.name)
GrpcPath(service, method) == <<"/">> \o Fqn(service) \o <<"/">> \o method.name
RustName(method) == IF method.rust = <<>> THEN Snake(method.name) ELSE method.rust
-----------------------------------------------------------------------------
(* The adapters.  A descriptor lacks a name where the text is empty.       *)
ResolveType(type, prefix) == <<prefix, "::">> \o LastAfter(type, ".")

Complete(descriptor) ==
    /\ descriptor.name # <<>>
    /\ \A i \in DOMAIN descriptor.methods :
           LET m == descriptor.methods[i]
           IN  m.name # <<>> /\ m.input # <<>> /\ m.output # <<>>

ServiceFromProto(descriptor, package, prefix) ==
    [name |-> descriptor.name, package |-> package,
     methods |-> [i \in DOMAIN descriptor.methods |->
         LET m == descriptor.methods[i]
         IN  [m EXCEPT !.rust = <<>>,
                       !.input = ResolveType(@, prefix), !.output = ResolveType(@, prefix)]]]

Supported(service) == \A i \in DOMAIN service.methods : service.methods[i].shape = "unary"
ServiceToIr(service) ==
    [service EXCEPT !.methods = [i \in DOMAIN @ |->
         [@[i] EXCEPT !.input = <<"super", "::">> \o @, !.output = <<"super", "::">> \o @]]]
-----------------------------------------------------------------------------
(* server_gen: the items of the server module and the arms of its dispatch.*)
ResponseStreamIdent(name) ==
    (IF name # <<>> /\ Last(name) = "Stream" THEN Front(name) ELSE name)
        \o <<"Response", "Stream">>
SvcIdent(method) == UpperCamel(RustName(method)) \o <<"Svc">>

(* The struct that lets a method of the trait be called by the handler.    *)
SvcStruct(m) ==
    [name |-> SvcIdent(m), calls |-> RustName(m), shape |-> m.shape,
     input |-> m.input, output |-> m.output]

DispatchArm(service, m) ==
    [path |-> GrpcPath(service, m), svc |-> SvcIdent(m), shape |-> m.shape,
     decode |-> m.input, encode |-> m.output]

TraitMethod(m) ==
    [name |-> RustName(m), shape |-> m.shape, input |-> m.input, output |-> m.output,
     stream |-> IF StreamsReply(m) THEN ResponseStreamIdent(m.name) ELSE <<>>]

GenerateServer(service) ==
    LET ms == service.methods
    IN  [name |-> Fqn(service),
         types |-> <<service.name, service.name \o <<"Server">>>>,
         svcs |-> [i \in DOMAIN ms |-> SvcStruct(ms[i])],
         methods |-> [i \in DOMAIN ms |-> TraitMethod(ms[i])],
         streams |-> LET replying == SelectSeq(ms, StreamsReply)
                     IN  [i \in DOMAIN replying |-> ResponseStreamIdent(replying[i].name)],
         arms |-> [i \in DOMAIN ms |-> DispatchArm(service, ms[i])]]

(* client_gen.                                                             *)
ClientMethod(service, m) ==
    [name |-> RustName(m), path |-> GrpcPath(service, m), shape |-> m.shape,
     encode |-> m.input, decode |-> m.output, extension |-> <<Fqn(service), m.name>>]
GenerateClient(service) ==
    [i \in DOMAIN service.methods |-> ClientMethod(service, service.methods[i])]

(* What rustc asks of the names (external).                                *)
Names(items) == [i \in DOMAIN items |-> items[i].name]
Compiles(server) ==
    /\ IsInjective(server.types \o Names(server.svcs))
    /\ IsInjective(Names(server.methods))
    /\ IsInjective(server.streams)
-----------------------------------------------------------------------------
(* dart_client_gen: a descriptor and a method per RPC, and a pair of       *)
(* serialization helpers per type.                                         *)
ShortName(type) == LastAfter(type, "::")
TypeName(type) == IF Len(type) > 1 /\ SubSeq(type, 1, 2) = <<".", "::">>
                  THEN SubSeq(type, 3, Len(type))
                  ELSE [i \in DOMAIN type |-> IF type[i] = "::" THEN "." ELSE type[i]]

AddNew(types, type) == IF Contains(types, type) THEN types ELSE Append(types, type)

DartMethod(service, m) ==
    [name |-> RustName(m), path |-> GrpcPath(service, m), shape |-> m.shape,
     request |-> TypeName(m.input), response |-> TypeName(m.output),
     serialize |-> ShortName(m.input), deserialize |-> ShortName(m.output)]

AddTypes(types, m) == AddNew(AddNew(types, ShortName(m.input)), ShortName(m.output))
DartHelpers(service) == FoldLeft(AddTypes, <<>>, service.methods)

Serializers(types) ==
    [i \in DOMAIN types |-> [serialize |-> types[i], deserialize |-> types[i]]]

GenerateDart(service) ==
    [class |-> UpperCamel(service.name) \o <<"Client">>,
     methods |-> [i \in DOMAIN service.methods |-> DartMethod(service, service.methods[i])],
     helpers |-> Serializers(DartHelpers(service))]
-----------------------------------------------------------------------------
(* FlatBuffers messages.  `refs` are the messages a message's fields refer *)
(* to, through vectors, options, maps and unions, with the namespaces they *)
(* are written with (<<>>: none).                                          *)
QualifiedName(message) == Qualified(message.namespace, message.name)
FirstOf(messages, indices) ==
    IF indices = {} THEN {} ELSE {messages[Min(indices)]}

FindMessage(messages, namespace, name) ==
    FirstOf(messages, { i \in DOMAIN messages :
        /\ messages[i].name = name
        /\ namespace = <<>> \/ namespace = messages[i].namespace })
QualifyMessage(messages, raw) ==
    FirstOf(messages, { i \in DOMAIN messages : messages[i].name = LastAfter(raw, "::") })

SplitNamespace(id) ==
    LET name == LastAfter(id, ".")
    IN  IF name = id THEN <<>> ELSE SubSeq(id, 1, Len(id) - Len(name) - 1)

(* collect_rpc_io_messages.                                                *)
RpcIoMessages(schema) ==
    LET methods == UNION { ToSet(s.methods) : s \in ToSet(schema.services) }
        found == UNION { QualifyMessage(schema.messages, m.input)
                             \cup QualifyMessage(schema.messages, m.output) : m \in methods }
    IN  { QualifiedName(m) : m \in found }

(* collect_referenced_messages of all fields, in some order.               *)
Referenced(schema, message) ==
    { QualifiedName(m) : m \in UNION { FindMessage(schema.messages, r.package, r.name) :
                                           r \in message.refs } }

(* The aliases of the messages needed, at the places of the messages, and  *)
(* the aliases that get a codec.                                           *)
Aliases(schema, needed) ==
    LET messages == schema.messages
    IN  [i \in { j \in DOMAIN messages : QualifiedName(messages[j]) \in needed } |->
            messages[i].name]
CodecImpls(schema) == { LastAfter(id, ".") : id \in RpcIoMessages(schema) }
=============================================================================
