------------------------------ MODULE Metadata ------------------------------
(***************************************************************************)
(* What is written into HTTP headers and read back from them: metadata     *)
(* (metadata.rs, request.rs, response.rs), a status (status.rs) with rich  *)
(* error details (grpc-types), the negotiation of compression              *)
(* (codec/compression.rs), and the timeout of a request (request.rs).      *)
(*                                                                         *)
(* A header map is a function from the names it has to the sequences of    *)
(* their values; a value is a sequence of tokens (a comma list, or one     *)
(* token).  All conversions are pure.                                      *)
(***************************************************************************)
EXTENDS GrpcStatus, Sequences, SequencesExt, FiniteSetsExt, Functions

Reserved == {"te", "content-type", "grpc-message", "grpc-message-type",
             "grpc-status", "grpc-status-details-bin", "grpc-encoding",
             "grpc-accept-encoding"}

EmptyMap == [name \in {} |-> <<>>]
Has(map, name) == name \in DOMAIN map
Get(map, name) == map[name][1]

(* HeaderMap::insert replaces all values of a name; so does                *)
(* MetadataMap::merge, with all the values of the other map.               *)
Insert(map, name, value) ==
    [n \in DOMAIN map \cup {name} |-> IF n = name THEN <<value>> ELSE map[n]]
Merge(map, other) ==
    [n \in DOMAIN map \cup DOMAIN other |-> IF n \in DOMAIN other THEN other[n] ELSE map[n]]

(* Mutant of IntoSanitized: the entries are inserted one by one.           *)
IntoSanitizedInserted(map) ==
    [n \in DOMAIN map \ Reserved |-> <<Last(map[n])>>]

IntoSanitized(map) == Restrict(map, DOMAIN map \ Reserved)

(* The value a loop of inserts leaves: the last one.                       *)
LastValues(map) == [n \in DOMAIN map |-> <<Last(map[n])>>]
ExtendSanitizedInto(map, target) == Merge(target, LastValues(IntoSanitized(map)))

(* Request::into_http (sanitized, as the dispatcher asks for it) and       *)
(* Response::into_http; from_http takes the headers over as they are.      *)
RequestIntoHttp(metadata) == IntoSanitized(metadata)
ResponseIntoHttp(metadata) == IntoSanitized(metadata)
RequestFromHttp(map) == map
ResponseFromHttp(map) == map
-----------------------------------------------------------------------------
(* A status: its code, its message ("" or some text), details and metadata.*)
(* Numbers stand for themselves in grpc-status; percent encoding, which    *)
(* makes every text a header value, for the text.                          *)
Status(code, message, details, metadata) ==
    [code |-> code, message |-> message, details |-> details, metadata |-> metadata]

CodeFromBytes(token) == IF token \in Code THEN token ELSE "Unknown"

(* Mutant of AddHeader: the metadata comes last, and is not sanitized.     *)
AddHeaderUnsanitized(status, target) ==
    LET coded == Insert(target, "grpc-status", <<status.code>>)
        told == IF status.message = "" THEN coded
                ELSE Insert(coded, "grpc-message", <<status.message>>)
        detailed == IF status.details = <<>> THEN told
                    ELSE Insert(told, "grpc-status-details-bin", status.details)
    IN  Merge(detailed, LastValues(status.metadata))

AddHeader(status, target) ==
    LET map == ExtendSanitizedInto(status.metadata, target)
        coded == Insert(map, "grpc-status", <<status.code>>)
        told == IF status.message = "" THEN coded
                ELSE Insert(coded, "grpc-message", <<status.message>>)
    IN  IF status.details = <<>> THEN told
        ELSE Insert(told, "grpc-status-details-bin", status.details)

IntoHttp(status) ==
    AddHeader(status, Insert(EmptyMap, "content-type", <<"application/grpc">>))

(* A text that is no UTF-8, and details that are no base64, come only from *)
(* a foreign peer.                                                         *)
NotUtf8 == "not utf-8"
NotBase64 == <<"not base64">>
StatusNames == {"grpc-status", "grpc-message", "grpc-status-details-bin"}

FromHeaderMap(map) ==
    LET message == IF Has(map, "grpc-message") THEN Get(map, "grpc-message")[1] ELSE ""
        details == IF Has(map, "grpc-status-details-bin")
                   THEN Get(map, "grpc-status-details-bin") ELSE <<>>
    IN  IF details = NotBase64
        THEN Status("Internal", "invalid base64", <<>>, EmptyMap)
        ELSE Status(CodeFromBytes(Get(map, "grpc-status")[1]),
                    IF message = NotUtf8 THEN "error deserializing" ELSE message,
                    details,
                    LastValues(Restrict(map, DOMAIN map \ StatusNames)))
-----------------------------------------------------------------------------
(* with_error_details and error_details: a google.rpc.Status whose details *)
(* are packed one by one.  A type this library does not know stays packed. *)
KnownDetails == {"ErrorInfo", "RetryInfo", "DebugInfo", "QuotaFailure",
                 "PreconditionFailure", "BadRequest", "RequestInfo",
                 "ResourceInfo", "Help", "LocalizedMessage"}
TypeUrl(variant) == IF variant \in KnownDetails THEN variant ELSE "other type"
DecodeAny(url) == IF url \in KnownDetails THEN url ELSE "Unknown"

WithErrorDetails(variants) ==
    <<"google.rpc.Status">> \o [i \in DOMAIN variants |-> TypeUrl(variants[i])]
ErrorDetails(details) ==
    IF details = <<>> THEN <<>>
    ELSE [i \in 1..(Len(details) - 1) |-> DecodeAny(details[i + 1])]
GetDetails(details, variant) ==
    LET found == { i \in DOMAIN ErrorDetails(details) : ErrorDetails(details)[i] = variant }
    IN  IF found = {} THEN 0 ELSE Min(found)
-----------------------------------------------------------------------------
(* Compression.  Which encodings there are is decided when a peer is       *)
(* built; it enables some of them.  Absent is no encoding.                 *)
Encoding == {"gzip", "deflate", "zstd"}
Absent == "identity"

(* A loop over the three ENCODINGS, in their order.                        *)
AcceptEncodingValue(enabled) ==
    LET part(e) == IF e \in enabled THEN <<e>> ELSE <<>>
    IN  part("gzip") \o part("deflate") \o part("zstd")

(* from_encoding_header: an encoding, or the code of the refusal.          *)
FromEncodingHeader(map, accepted) ==
    LET name == Get(map, "grpc-encoding")[1]
    IN  IF ~Has(map, "grpc-encoding") \/ name = Absent THEN Absent
        ELSE IF name \in accepted THEN name ELSE "Unimplemented"

(* from_accept_encoding_header: the first of the peer's that may be sent.  *)
FromAcceptEncodingHeader(map, send) ==
    IF ~Has(map, "grpc-accept-encoding") THEN Absent
    ELSE LET parts == Get(map, "grpc-accept-encoding")
             usable == { i \in DOMAIN parts : parts[i] \in send }
         IN  IF usable = {} THEN Absent ELSE parts[Min(usable)]
-----------------------------------------------------------------------------
(* Mutant of TimeoutValue: a value that is not exact is rounded up.        *)
TimeoutValueRounds(duration, max, size) ==
    LET longest == max * size[6]
        clamped == IF duration > longest THEN longest ELSE duration
        fits(u) == clamped \div size[u] <= max
        unit == CHOOSE u \in 1..6 : fits(u) /\ \A v \in 1..(u - 1) : ~fits(v)
        down == clamped \div size[unit]
    IN  [value |-> IF down * size[unit] < clamped THEN down + 1 ELSE down, unit |-> unit]

(* The grpc-timeout of a duration in nanoseconds (duration_to_grpc_timeout)*)
(* in the first of six units in which it has at most eight digits.  The    *)
(* digits and the sizes of the units are parameters: the code's are        *)
(* 99_999_999 and 1, 10^3, 10^6, 10^9, 60 * 10^9 and 3600 * 10^9.          *)
TimeoutValue(duration, max, size) ==
    LET longest == max * size[6]
        clamped == IF duration > longest THEN longest ELSE duration
        fits(u) == clamped \div size[u] <= max
        unit == CHOOSE u \in 1..6 : fits(u) /\ \A v \in 1..(u - 1) : ~fits(v)
    IN  [value |-> clamped \div size[unit], unit |-> unit]
=============================================================================
