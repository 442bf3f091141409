----------------------------- MODULE MCServices -----------------------------
(***************************************************************************)
(* Instances of Services for TLC: services whose names begin with each     *)
(* other's, all four shapes, names that collide once they are put into the *)
(* case of an identifier, circular and ambiguous messages.                 *)
(***************************************************************************)
EXTENDS Services

UpperWords == {"Greeter", "Extra", "Say", "Hello", "Stream", "Many", "Svc"}
LowerOf(w) == CASE w = "Greeter" -> "greeter" [] w = "Extra" -> "extra" [] w = "Say" -> "say"
                [] w = "Hello" -> "hello" [] w = "Stream" -> "stream" [] w = "Many" -> "many"
                [] w = "Svc" -> "svc" [] OTHER -> w
MCLower == [w \in UpperWords \cup { LowerOf(u) : u \in UpperWords } |-> LowerOf(w)]
MCWord == DOMAIN MCLower \cup {"demo", "v0", "v1", "v2"}
              \cup {"Request", "Reply", "Item", "Leaf", "Two", "Other"}
MCUpper == [w \in { LowerOf(u) : u \in UpperWords } |->
                CHOOSE u \in UpperWords : LowerOf(u) = w]

Method(name, input, output, shape) ==
    [name |-> name, rust |-> <<>>, input |-> input, output |-> output, shape |-> shape]
Service(package, name, methods) == [package |-> package, name |-> name, methods |-> methods]
Proto(list) == [kind |-> "proto", services |-> list, messages |-> <<>>]
Fbs(list, messages) == [kind |-> "fbs", services |-> list, messages |-> messages]
Table(namespace, name, refs) == [namespace |-> namespace, name |-> name, refs |-> refs]
Ref(package, name) == [package |-> package, name |-> name]

P == <<"demo">>
Request == <<".", "demo", ".", "Request">>
Reply == <<".", "demo", ".", "Reply">>
Greeter == Service(P, <<"Greeter">>, <<Method(<<"Say", "Hello">>, Request, Reply, "unary"),
                                       Method(<<"Say", "Many">>, Request, Reply, "streaming")>>)
Extra == Service(P, <<"Greeter", "Extra">>,
                 <<Method(<<"Say", "Hello">>, Reply, Request, "server_streaming"),
                   Method(<<"Say">>, Reply, Request, "client_streaming")>>)
Bare == Service(<<>>, <<"Greeter">>, <<Method(<<"Say">>, Reply, Request, "unary")>>)
SameStreams == Service(P, <<"Greeter">>, <<Method(<<"Say">>, Request, Reply, "streaming"),
                                           Method(<<"Say", "Stream">>, Request, Reply, "streaming")>>)
SameIdents == Service(P, <<"Say", "Svc">>, <<Method(<<"Say">>, Request, Reply, "unary")>>)
Nameless == Service(P, <<"Greeter">>, <<Method(<<"Say">>, <<>>, Reply, "unary")>>)

N == <<"v1">>
Task == Service(N, <<"Greeter">>, <<Method(<<"Say">>, <<"Request">>, <<"Reply">>, "unary"),
                                    Method(<<"Many">>, <<"Request">>, <<"Request">>, "unary")>>)
Streamed == [Task EXCEPT !.methods[2].shape = "streaming"]
Circular == <<Table(N, <<"Request">>, {Ref(N, <<"Item">>)}),
              Table(N, <<"Reply">>, {}),
              Table(N, <<"Item">>, {Ref(<<>>, <<"Item">>), Ref(N, <<"Request">>), Ref(<<>>, <<"Leaf">>)}),
              Table(<<>>, <<"Leaf">>, {Ref(N, <<"Item">>)}),
              Table(N, <<"Leaf", "Two">>, {})>>
Plain == <<Table(N, <<"Request">>, {Ref(<<>>, <<"Leaf">>)}), Table(N, <<"Reply">>, {Ref(N, <<"Reply">>)}),
           Table(<<"v2">>, <<"Leaf">>, {Ref(N, <<"Request">>)}), Table(N, <<"Other">>, {Ref(N, <<"Reply">>)})>>
Ambiguous == <<Table(<<"v0">>, <<"Request">>, {Ref(N, <<"Request">>)}),
               Table(N, <<"Request">>, {}), Table(N, <<"Reply">>, {})>>

MCSchemas == {Proto(<<Greeter, Extra>>), Proto(<<Greeter, Bare>>),
              Proto(<<SameStreams>>), Proto(<<SameIdents>>), Proto(<<Nameless>>),
              Fbs(<<Task>>, Circular), Fbs(<<Task>>, Plain), Fbs(<<Task>>, Ambiguous),
              Fbs(<<Streamed>>, Plain)}
MCChains == {<<"mark", "mark">>, <<"mark", "reject">>}
MCOrigins == {<<>>, <<"/", "api">>}
MCForeignPaths == {<<"/", "demo", ".", "Greeter">>,
                   <<"/", "demo", ".", "Greeter", "/", "old", "/", "Say", "Hello">>,
                   <<"/", "Nobody", "/", "Say">>}
=============================================================================
