---------------------------- MODULE MCReflection ----------------------------
(* A file with nested types, one that imports it, one of the same package. *)
EXTENDS Reflection

Base ==
    [name |-> <<"base.proto">>, package |-> <<"p">>, imports |-> {},
     services |-> << [name |-> <<"Echo">>, methods |-> { <<"Send">> }] >>,
     messages |-> { <<"Ping">>, <<"Ping", "Part">> },
     enums |-> { <<"Ping", "Part", "Kind">> }]
Top ==
    [name |-> <<"top.proto">>, package |-> <<"q">>, imports |-> {"base"},
     services |-> << [name |-> <<"Chat">>, methods |-> { <<"Talk">> }] >>,
     messages |-> { <<"Line">> }, enums |-> {}]
Bare ==
    [name |-> <<"bare.proto">>, package |-> <<>>, imports |-> {},
     services |-> << [name |-> <<"Lone">>, methods |-> {}] >>,
     messages |-> {}, enums |-> {}]

(* A file of another set with the name of one and a symbol of another.     *)
Other ==
    [name |-> <<"base.proto">>, package |-> <<"q">>, imports |-> {}, services |-> <<>>,
     messages |-> { <<"Line">> }, enums |-> { <<"Side">> }]

MCSources == [base |-> Base, top |-> Top, bare |-> Bare]
MCCompilations ==
    { <<"base">>, <<"top">>, <<"bare">>, <<"base", "bare">>, <<"base", "missing">> }
MCForeignSets == { <<Other>>, Corrupt }
MCManualNames == { Name }
MCRequests ==
    { [kind |-> "symbol", name |-> <<"p", "Ping", "Part", "Kind">>],
      [kind |-> "symbol", name |-> <<"q", "Line">>],
      [kind |-> "file", name |-> <<"base.proto">>],
      [kind |-> "list"], [kind |-> "extensions"],
      [kind |-> "undecodable"] }
=============================================================================
