----------------------------- MODULE Reflection -----------------------------
(***************************************************************************)
(* Server reflection, from .proto files to answers: compile_protos of      *)
(* grpc-build (protobuf.rs), which leaves generated modules and one        *)
(* descriptor.bin in OUT_DIR; the builder and the index of                 *)
(* grpc-reflection (lib.rs); and the bidirectional stream                  *)
(* ServerReflectionInfo, whose task answers requests into a bounded        *)
(* channel while the client asks, reads, closes or leaves.                 *)
(*                                                                         *)
(* A dotted name is the sequence of its parts.  A file is a record of its  *)
(* name, package, imports (files), services (a sequence of records of a    *)
(* name and a set of methods), messages and enums (sets of sequences: a    *)
(* nested type is named with the messages around it).                      *)
(***************************************************************************)
EXTENDS Integers, Sequences, SequencesExt, FiniteSets

CONSTANTS
    Sources,        \* function from the .proto files that exist to files
    Compilations,   \* what the build script compiles: sequences of names
    ForeignSets,    \* other descriptor sets, sequences of files, or Corrupt
    ManualNames,    \* names given to register_service
    Requests,       \* what a client may ask
    Capacity,       \* slots of the channel of answers, 32 in the code
    MaxRegister,    \* bound: registrations
    MaxRequests     \* bound: requests of a client

Corrupt == <<[name |-> <<"corrupt">>]>>

ASSUME ReflectionAssumption ==
    /\ Capacity \in Nat \ {0} /\ MaxRegister \in Nat /\ MaxRequests \in Nat
    /\ \A q \in Requests :
           q.kind \in {"list", "symbol", "file", "extensions", "other", "undecodable"}

(* The compiler has found what a file imports, and a descriptor set that   *)
(* can be decoded is a list of files.                                      *)
ASSUME FilesAssumption ==
    /\ \A name \in DOMAIN Sources :
           /\ Sources[name].services \in Seq(ToSet(Sources[name].services))
           /\ Sources[name].imports \subseteq DOMAIN Sources
           /\ IsFiniteSet(Sources[name].imports)
    /\ \A fds \in ForeignSets : fds # Corrupt =>
           /\ fds \in Seq(ToSet(fds))
           /\ \A i \in DOMAIN fds : fds[i].services \in Seq(ToSet(fds[i].services))

VARIABLES
    stage,          \* "compile", "register", "serve" or "failed"
    todo,           \* .proto files to compile
    outDir,         \* generated modules: from packages to their services
    descriptorBin,  \* descriptor.bin, what FILE_DESCRIPTOR_SET includes
    registered,     \* the files registered so far, in order
    byHand,         \* the names given to register_service
    registrations,  \* number of registrations
    serviceNames,   \* service_names of the state
    symbols,        \* from symbols to files
    files,          \* from file names to files
    client,         \* "open", "closed" (its side) or "gone"
    asked,          \* all requests sent
    wire,           \* requests that the server has not read
    task,           \* "reading", "sending" or "ended"
    held,           \* the answer that the task sends, if any
    channel,        \* answers in the channel
    answers,        \* answers that the client has
    status          \* the status that the client has, or "none"

build == <<todo, outDir, descriptorBin>>
index == <<registered, byHand, registrations, serviceNames, symbols, files>>
stream == <<client, asked, wire, task, held, channel, answers, status>>
vars == <<stage, build, index, stream>>

Init ==
    /\ stage = "compile"
    /\ todo \in Compilations
    /\ outDir = [package \in {} |-> {}] /\ descriptorBin = <<>>
    /\ registered = <<>> /\ byHand = <<>> /\ registrations = 0 /\ serviceNames = <<>>
    /\ symbols = [s \in {} |-> <<>>] /\ files = [f \in {} |-> <<>>]
    /\ client = "open" /\ asked = <<>> /\ wire = <<>>
    /\ task = "reading" /\ held = <<>> /\ channel = <<>> /\ answers = <<>> /\ status = "none"
-----------------------------------------------------------------------------
(* A map after inserts: later ones take the place of earlier ones.         *)
Inserted(map, keys, value) ==
    [k \in DOMAIN map \cup keys |-> IF k \in keys THEN value ELSE map[k]]

(* analyze_files: a file with what it imports, imports first.              *)
Analyze(name) ==
    Append(SetToSeq({ Sources[i] : i \in Sources[name].imports }), Sources[name])

ServicesIn(fds) ==
    UNION { { f.package \o s.name : s \in ToSet(f.services) } : f \in ToSet(fds) }

(* generate_rust: a module for every package with types.                   *)
ModulesOf(fds) ==
    { f.package : f \in { g \in ToSet(fds) : g.messages \cup g.enums # {} } }

(* Where no module has types, a module is written for the services alone.  *)
ModulesWritten(fds) ==
    IF ModulesOf(fds) = {} /\ ServicesIn(fds) # {} THEN { fds[1].package } ELSE ModulesOf(fds)

(* Mutant of WriteDescriptors: the descriptors without those imported.     *)
WriteDescriptorsAlone(fds) == descriptorBin' = << Last(fds) >>

(* descriptor.bin has one name, whatever is compiled.                      *)
WriteDescriptors(fds) == descriptorBin' = fds

(* compile_protos, one round of its loop.  Every module that is written    *)
(* gets the stubs of all services of the set.                              *)
CompileProto ==
    /\ stage = "compile" /\ todo # <<>>
    /\ LET name == Head(todo)
       IN  \/ /\ name \notin DOMAIN Sources
              /\ stage' = "failed" /\ UNCHANGED build
           \/ /\ name \in DOMAIN Sources
              /\ LET fds == Analyze(name)
                 IN  /\ outDir' = Inserted(outDir, ModulesWritten(fds), ServicesIn(fds))
                     /\ WriteDescriptors(fds)
              /\ todo' = Tail(todo)
              /\ UNCHANGED stage
    /\ UNCHANGED <<index, stream>>

CompileDone ==
    /\ stage = "compile" /\ todo = <<>>
    /\ stage' = "register"
    /\ UNCHANGED <<build, index, stream>>
-----------------------------------------------------------------------------
(* Mutant of TypeSymbols: types inside of messages are not indexed.        *)
TypeSymbolsOuter(f) ==
    { f.package \o t : t \in { u \in f.messages \cup f.enums : Len(u) = 1 } }

(* index_message_types and the top-level enums.                            *)
TypeSymbols(f) == { f.package \o t : t \in f.messages \cup f.enums }

ServiceSymbols(f) ==
    UNION { {f.package \o s.name} \cup { f.package \o s.name \o m : m \in s.methods }
            : s \in ToSet(f.services) }

ServiceNames(f) == [i \in DOMAIN f.services |-> f.package \o f.services[i].name]

RegisterFile(state, f) ==
    [names |-> state.names \o ServiceNames(f),
     symbols |-> Inserted(state.symbols, ServiceSymbols(f) \cup TypeSymbols(f), f),
     files |-> Inserted(state.files, {f.name}, f)]

(* register_encoded_file_descriptor_set; an error consumes the builder.    *)
RegisterSet ==
    /\ stage = "register" /\ registrations < MaxRegister
    /\ \E fds \in ForeignSets \cup {descriptorBin} :
           IF fds = Corrupt
           THEN stage' = "failed"
                /\ UNCHANGED <<registered, serviceNames, symbols, files>>
           ELSE LET after == FoldLeft(RegisterFile,
                        [names |-> serviceNames, symbols |-> symbols, files |-> files], fds)
                IN  /\ registered' = registered \o fds
                    /\ serviceNames' = after.names
                    /\ symbols' = after.symbols
                    /\ files' = after.files
                    /\ UNCHANGED stage
    /\ registrations' = registrations + 1
    /\ UNCHANGED <<byHand, build, stream>>

RegisterService ==
    /\ stage = "register" /\ registrations < MaxRegister
    /\ \E name \in ManualNames :
           /\ serviceNames' = Append(serviceNames, name)
           /\ byHand' = Append(byHand, name)
    /\ registrations' = registrations + 1
    /\ UNCHANGED <<stage, registered, symbols, files, build, stream>>

Name == <<"grpc", "reflection", "v1", "ServerReflection">>

Build ==
    /\ stage = "register"
    /\ stage' = "serve"
    /\ serviceNames' = IF Name \in ToSet(serviceNames) THEN serviceNames
                       ELSE Append(serviceNames, Name)
    /\ UNCHANGED <<registered, byHand, registrations, symbols, files, build, stream>>
-----------------------------------------------------------------------------
(* The client: it asks, closes its side, or goes away.                     *)
Ask ==
    /\ stage = "serve" /\ client = "open" /\ Len(asked) < MaxRequests
    /\ \E q \in Requests :
           /\ asked' = Append(asked, q)
           /\ wire' = Append(wire, q)
    /\ UNCHANGED <<stage, build, index, client, task, held, channel, answers, status>>

CloseSide ==
    /\ stage = "serve" /\ client = "open"
    /\ client' = "closed"
    /\ UNCHANGED <<stage, build, index, asked, wire, task, held, channel, answers, status>>

(* The client resets the stream: the body of the response is dropped, and  *)
(* with it the receiving end of the channel.                               *)
Leave ==
    /\ stage = "serve" /\ client # "gone" /\ status = "none"
    /\ client' = "gone"
    /\ channel' = <<>>
    /\ UNCHANGED <<stage, build, index, asked, wire, task, held, answers, status>>

(* handle_reflection_request.                                              *)
Lookup(map, key) ==
    IF key \in DOMAIN map THEN [file |-> map[key]] ELSE [code |-> 5]

Response(q) ==
    CASE q.kind = "list" -> [services |-> serviceNames]
      [] q.kind = "symbol" -> Lookup(symbols, q.name)
      [] q.kind = "file" -> Lookup(files, q.name)
      [] q.kind = "extensions" -> [code |-> 12]
      [] OTHER -> [code |-> 3]

(* The task reads a request and prepares its answer.                       *)
ReadRequest ==
    /\ stage = "serve" /\ task = "reading" /\ wire # <<>>
    /\ Head(wire).kind # "undecodable"
    /\ task' = "sending"
    /\ held' = <<[original |-> Head(wire), response |-> Response(Head(wire))]>>
    /\ wire' = Tail(wire)
    /\ UNCHANGED <<stage, build, index, client, asked, channel, answers, status>>

(* Mutant of StopReading: a loop that errors leave, but not the end.       *)
StopReadingAtErrors ==
    /\ stage = "serve" /\ task = "reading"
    /\ \/ wire # <<>> /\ Head(wire).kind = "undecodable"
       \/ client = "gone"
    /\ task' = "ended"
    /\ UNCHANGED <<stage, build, index, client, asked, wire, held, channel, answers, status>>

(* `while let Some(Ok(req))`: the task ends with the requests, and at the  *)
(* first error among them, of decoding or of the transport.                *)
StopReading ==
    /\ stage = "serve" /\ task = "reading"
    /\ \/ wire = <<>> /\ client # "open"
       \/ wire # <<>> /\ Head(wire).kind = "undecodable"
       \/ client = "gone"
    /\ task' = "ended"
    /\ UNCHANGED <<stage, build, index, client, asked, wire, held, channel, answers, status>>

(* Mutant of SendAnswer: an answer that finds the channel full is dropped. *)
SendAnswerOrDrop ==
    /\ stage = "serve" /\ task = "sending" /\ client # "gone"
    /\ channel' = IF Len(channel) < Capacity THEN channel \o held ELSE channel
    /\ task' = "reading" /\ held' = <<>>
    /\ UNCHANGED <<stage, build, index, client, asked, wire, answers, status>>

(* `tx.send(..).await` waits for a slot.                                   *)
SendAnswer ==
    /\ stage = "serve" /\ task = "sending" /\ client # "gone"
    /\ Len(channel) < Capacity
    /\ channel' = channel \o held
    /\ task' = "reading" /\ held' = <<>>
    /\ UNCHANGED <<stage, build, index, client, asked, wire, answers, status>>

(* Without a receiver the send, waiting or new, fails.                     *)
SendFails ==
    /\ stage = "serve" /\ task = "sending" /\ client = "gone"
    /\ task' = "ended"
    /\ UNCHANGED <<stage, build, index, client, asked, wire, held, channel, answers, status>>

(* ReceiverStream, the body of the response and the client's reading.      *)
Receive ==
    /\ stage = "serve" /\ client # "gone" /\ channel # <<>>
    /\ answers' = Append(answers, Head(channel))
    /\ channel' = Tail(channel)
    /\ UNCHANGED <<stage, build, index, client, asked, wire, task, held, status>>

(* The sender is dropped with the task; the stream of answers ends, and    *)
(* with it the call: OK, whatever ended the task.                          *)
Finish ==
    /\ stage = "serve" /\ client # "gone" /\ status = "none"
    /\ task = "ended" /\ channel = <<>>
    /\ status' = "OK"
    /\ UNCHANGED <<stage, build, index, client, asked, wire, task, held, channel, answers>>

Task == ReadRequest \/ StopReading \/ SendAnswer \/ SendFails
Next ==
    \/ CompileProto \/ CompileDone \/ RegisterSet \/ RegisterService \/ Build
    \/ Ask \/ CloseSide \/ Leave \/ Task \/ Receive \/ Finish

(* The task is a task of the runtime; the client reads what arrives.       *)
Fairness == WF_vars(Task) /\ WF_vars(Receive) /\ WF_vars(Finish)
Spec == Init /\ [][Next]_vars /\ Fairness
-----------------------------------------------------------------------------
Received == answers \o channel \o held

(* The channel holds what it has room for, and what waits to be read is    *)
(* the end of what was asked (lib.rs, ServerReflectionInfo).               *)
TypeOK ==
    /\ stage \in {"compile", "register", "serve", "failed"}
    /\ client \in {"open", "closed", "gone"}
    /\ Len(channel) <= Capacity
    /\ IsSuffix(wire, asked)
    /\ status \in {"none", "OK"}

(* While the client is there no answer is lost, repeated or out of order,  *)
(* wherever it is: the i-th answer echoes the i-th request, and all that   *)
(* the task has read is answered, also when the channel was full.          *)
AnswersInOrder ==
    /\ \A i \in DOMAIN answers : answers[i].original = asked[i]
    /\ client # "gone" =>
           /\ Len(Received) = Len(asked) - Len(wire)
           /\ \A i \in DOMAIN Received : Received[i].original = asked[i]

(* What a file defines, with its dotted names.                             *)
Defines(f, symbol) ==
    \/ \E s \in ToSet(f.services) :
           \/ symbol = f.package \o s.name
           \/ \E m \in s.methods : symbol = f.package \o s.name \o m
    \/ \E t \in f.messages \cup f.enums : symbol = f.package \o t

(* A symbol that a registered file defines, at any depth, is answered with *)
(* a file that defines it, and one that none defines with NOT_FOUND; a     *)
(* file name is answered with a file of that name (the index built by      *)
(* register_encoded_file_descriptor_set, read by                           *)
(* handle_reflection_request).                                             *)
SymbolsResolve ==
    \A i \in DOMAIN answers :
        LET q == answers[i].original
            r == answers[i].response
            fits == CASE q.kind = "symbol" -> { f \in ToSet(registered) : Defines(f, q.name) }
                      [] q.kind = "file" -> { f \in ToSet(registered) : f.name = q.name }
                      [] OTHER -> {}
        IN  q.kind \in {"symbol", "file"} =>
                IF fits = {} THEN r = [code |-> 5]
                ELSE "file" \in DOMAIN r /\ r.file \in fits

Places(names, name) == { i \in DOMAIN names : names[i] = name }
Count(names, name) == Cardinality(Places(names, name))
Occurrences(fds, name) ==
    UNION { {j} \X Places(ServiceNames(fds[j]), name) : j \in DOMAIN fds }

(* The list names each service as often as it was registered, by hand or   *)
(* in a file, and reflection itself, which build adds only where it was    *)
(* not registered.                                                         *)
ListIsComplete ==
    \A i \in DOMAIN answers :
        answers[i].original.kind = "list" =>
            \A name \in {Name} \cup ManualNames \cup ServicesIn(registered) :
                LET times == Count(byHand, name) + Cardinality(Occurrences(registered, name))
                IN  Count(answers[i].response.services, name)
                        = IF name = Name /\ times = 0 THEN 1 ELSE times

(* The index answers for what was registered, with nothing missing,        *)
(* whatever the order and the way of registering                           *)
(* (ReflectionServer::build).                                              *)
IndexIsComplete ==
    /\ SymbolsResolve
    /\ ListIsComplete

(* A stream that a client sees end has answered all that it asked up to    *)
(* the first request that cannot be decoded.                               *)
CleanEndIsWhole ==
    status = "OK" =>
        Len(answers) = Cardinality({ i \in DOMAIN asked :
                                        \A j \in 1..i : asked[j].kind # "undecodable" })

(* A reflection stream at every moment: answers in order, none lost, and   *)
(* an end that comes behind all of them.                                   *)
StreamInv ==
    /\ TypeOK
    /\ AnswersInOrder
    /\ CleanEndIsWhole

(* A server that registers FILE_DESCRIPTOR_SET reflects every service for  *)
(* which the modules of that set have stubs, those of imported files too   *)
(* (compile_protos of grpc-build, protobuf.rs).  Modules of what was       *)
(* compiled before share the constant, not its contents: their services    *)
(* need not be reflected.                                                  *)
ModulesReflected ==
    (stage = "serve" /\ descriptorBin # <<>>
        /\ ToSet(descriptorBin) \subseteq ToSet(registered)) =>
        \A package \in ModulesWritten(descriptorBin) : outDir[package] \subseteq DOMAIN symbols

(* When the client has closed its side or is gone, the task ends: nothing  *)
(* keeps it waiting, neither a full channel nor one that nobody reads. A   *)
(* client that stays until then is told the end of the stream.             *)
StreamEnds ==
    /\ (client # "open") ~> (task = "ended")
    /\ (client = "closed") ~> (client = "gone" \/ status = "OK")
=============================================================================
