------------------------------- MODULE Errors -------------------------------
(***************************************************************************)
(* The status codes a downstream call may end with, the HTTP error the     *)
(* gateway makes of each (app/errors.py), and the codes for which a        *)
(* handler of the core flow answers by itself instead of reporting the     *)
(* error (MOCKABLE_DOWNSTREAM_GAP_CODES in http_to_rpc_router.py).         *)
(*                                                                         *)
(* An error code "GRPC_X" of the gateway is written X: the prefix is the   *)
(* same for all of them.                                                   *)
(***************************************************************************)
EXTENDS Naturals

\* Every way a call can fail: the names of grpc.StatusCode except OK, which no
\* error carries.
StatusCode ==
    {"CANCELLED", "UNKNOWN", "INVALID_ARGUMENT", "DEADLINE_EXCEEDED",
     "NOT_FOUND", "ALREADY_EXISTS", "PERMISSION_DENIED", "UNAUTHENTICATED",
     "RESOURCE_EXHAUSTED", "FAILED_PRECONDITION", "ABORTED", "OUT_OF_RANGE",
     "UNIMPLEMENTED", "INTERNAL", "UNAVAILABLE", "DATA_LOSS"}

GRPC_STATUS_TO_HTTP ==
    [INVALID_ARGUMENT    |-> 400,
     UNAUTHENTICATED     |-> 401,
     PERMISSION_DENIED   |-> 403,
     NOT_FOUND           |-> 404,
     ALREADY_EXISTS      |-> 409,
     FAILED_PRECONDITION |-> 400,
     RESOURCE_EXHAUSTED  |-> 429,
     UNIMPLEMENTED       |-> 501,
     UNAVAILABLE         |-> 503,
     DEADLINE_EXCEEDED   |-> 504]

\* An exception whose code() is no StatusCode is reported as UNKNOWN.
MapGrpcError(status) ==
    IF status \in DOMAIN GRPC_STATUS_TO_HTTP
    THEN [code |-> status, status_code |-> GRPC_STATUS_TO_HTTP[status]]
    ELSE [code |-> IF status \in StatusCode THEN status ELSE "UNKNOWN",
          status_code |-> 502]

MOCKABLE_DOWNSTREAM_GAP_CODES ==
    {"UNIMPLEMENTED", "NOT_FOUND", "INVALID_ARGUMENT", "FAILED_PRECONDITION",
     "UNAVAILABLE", "DEADLINE_EXCEEDED"}

\* Mutated form of ShouldUseMockFallback: every error is covered up.
AlwaysFallBack(error) == TRUE

ShouldUseMockFallback(error) == error.code \in MOCKABLE_DOWNSTREAM_GAP_CODES

=============================================================================
