----------------------------- MODULE GrpcStatus -----------------------------
(***************************************************************************)
(* The part of the gRPC status model (grpc-core/src/status.rs) that the    *)
(* other modules share: the codes, what a header map or a trailer map says *)
(* about the outcome of a call, and how an outcome is inferred when it     *)
(* says nothing.  Messages, details and user metadata are left out: only   *)
(* the code decides how a stream ends.                                     *)
(***************************************************************************)
EXTENDS Integers, Sequences

Code == {"Ok", "Cancelled", "Unknown", "InvalidArgument", "DeadlineExceeded",
         "NotFound", "AlreadyExists", "PermissionDenied", "ResourceExhausted",
         "FailedPrecondition", "Aborted", "OutOfRange", "Unimplemented",
         "Internal", "Unavailable", "DataLoss", "Unauthenticated"}

(* A header map carries a grpc-status or it does not.                      *)
NoStatus == "no grpc-status"
HeaderStatus == Code \cup {NoStatus}

(* `trailers: Option<HeaderMap>`, reduced to the grpc-status it carries.   *)
NoTrailers == "no trailers"
Trailers == HeaderStatus \cup {NoTrailers}

(* The code a missing grpc-status is given for each HTTP status.           *)
CodeOfHttp(http) ==
    CASE http = 400 -> "Internal"
      [] http = 401 -> "Unauthenticated"
      [] http = 403 -> "PermissionDenied"
      [] http = 404 -> "NotFound"
      [] http \in {429, 502, 503, 504} -> "Unavailable"
      [] OTHER -> "Unknown"

(***************************************************************************)
(* `infer_grpc_status(trailers, http)`.  The source's `Ok(())` is "Ok",    *)
(* its `Err(Some(status))` the code of that status, and its `Err(None)`    *)
(* (HTTP 200 and nothing said about the outcome) is NoStatus.              *)
(***************************************************************************)
InferGrpcStatus(trailers, http) ==
    IF trailers \in Code
    THEN trailers
    ELSE IF http = 200 THEN NoStatus ELSE CodeOfHttp(http)

(* From<io::Error>.                                                        *)
CodeOfIo(kind) ==
    CASE kind \in {"BrokenPipe", "WouldBlock", "WriteZero", "Interrupted"} -> "Internal"
      [] kind \in {"ConnectionRefused", "ConnectionReset", "NotConnected",
                   "AddrInUse", "AddrNotAvailable"} -> "Unavailable"
      [] kind = "ConnectionAborted" -> "Aborted"
      [] kind = "InvalidData" -> "DataLoss"
      [] kind = "InvalidInput" -> "InvalidArgument"
      [] kind = "TimedOut" -> "DeadlineExceeded"
      [] kind = "UnexpectedEof" -> "OutOfRange"
      [] kind \in {"AlreadyExists", "NotFound", "PermissionDenied"} -> kind
      [] OTHER -> "Unknown"

(***************************************************************************)
(* `Status::from_error` of an error and its sources, outermost first: the  *)
(* first of them that is a status or an io::Error gives the code.          *)
(***************************************************************************)
Recognized(err) == err.type \in {"status", "io"}
FromError(chain) ==
    IF \E i \in DOMAIN chain : Recognized(chain[i])
    THEN LET first == CHOOSE i \in DOMAIN chain :
                 Recognized(chain[i]) /\ \A j \in 1..(i - 1) : ~Recognized(chain[j])
         IN  IF chain[first].type = "status" THEN chain[first].code
             ELSE CodeOfIo(chain[first].kind)
    ELSE "Unknown"
=============================================================================
