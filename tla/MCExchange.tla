----------------------------- MODULE MCExchange -----------------------------
(***************************************************************************)
(* Instances of Exchange for TLC: applications that use the protocol's     *)
(* names for their own metadata, names with several values, every          *)
(* combination of two encodings, and deadlines around the places where the *)
(* unit of a timeout of two digits changes.                                *)
(***************************************************************************)
EXTENDS Exchange

Forging == [n \in {"grpc-status", "grpc-message", "grpc-encoding", "grpc-accept-encoding",
                   "te", "content-type", "mine"} |->
                IF n = "mine" THEN <<<<"one">>, <<"two">>>> ELSE <<<<"Ok">>>>]
Meddling == [n \in {"te", "mine"} |-> <<<<"mine">>>>]
Plain == Insert(Insert(EmptyMap, "mine", <<"plain">>), "other", <<"other">>)
MCUserMetadata == {EmptyMap, Plain, Meddling, Forging}

MCEnabled == {{}, {"gzip"}, {"gzip", "zstd"}}
MCDeadlines == {0, 100, 1234, 99999, 4000000}
MCUnitSize == <<1, 10, 100, 1000, 6000, 36000>>

Rich == WithErrorDetails(<<"ErrorInfo", "a company's own", "RetryInfo", "ErrorInfo">>)
MCStatuses == {Success,
               Status("NotFound", "no such thing", Rich, Forging),
               Status("Internal", "", <<>>, Plain)}

MCForeignMaps ==
    LET coded(token) == Insert(EmptyMap, "grpc-status", <<token>>)
    IN  {EmptyMap, coded("Ok"), coded("NotFound"), coded("77"),
         Insert(coded("NotFound"), "grpc-message", <<NotUtf8>>),
         Insert(coded("Ok"), "grpc-status-details-bin", NotBase64),
         Insert(coded("NotFound"), "grpc-status-details-bin", NotBase64)}

Other == [type |-> "other"]
IoError(kind) == [type |-> "io", kind |-> kind]
Wrapped(code) == [type |-> "status", code |-> code]
MCChains == {<<Other>>, <<Other, IoError("ConnectionRefused")>>, <<IoError("TimedOut")>>,
             <<Wrapped("DeadlineExceeded")>>, <<Other, Other, Wrapped("Unavailable")>>,
             <<Other, IoError("BrokenPipe"), Wrapped("NotFound")>>}
=============================================================================
