-------------------------------- MODULE Calls --------------------------------
(***************************************************************************)
(* The life of HTTP requests whose handlers make one downstream call.      *)
(*                                                                         *)
(* The gateway is one process with one event loop.  A handler runs without *)
(* interruption up to its only await, the gRPC call (_invoke_rpc in        *)
(* http_to_rpc_router.py), and without interruption from there to its      *)
(* answer; between the two, any other handler may run.  The call carries a *)
(* deadline (timeout=self.timeout_seconds in grpc_clients.py), so it ends  *)
(* in a reply, a refusal or an expired deadline.                           *)
(*                                                                         *)
(* The downstream service is not in this repository.  It executes a call   *)
(* at most once, at any time after it was sent: also after the gateway has *)
(* given up on it, or has been restarted.                                  *)
(*                                                                         *)
(* A component EXTENDS this module and adds to each step what its own      *)
(* handlers do to its own state.                                           *)
(***************************************************************************)
EXTENDS Errors

CONSTANTS Requests,      \* the HTTP requests of a behaviour
          FailureCodes,  \* the status codes with which calls fail
          MaxRestarts    \* bound on the restarts of the gateway process

ASSUME CallsAssumption ==
    /\ FailureCodes \subseteq StatusCode
    /\ "DEADLINE_EXCEEDED" \in FailureCodes
    /\ MaxRestarts \in Nat

VARIABLES
    pc,     \* where the handler of a request is
    svc,    \* what the service has made of the call of a request
    seen,   \* what the await of a request ended with
    epoch   \* the incarnation of the gateway process

callVars == <<pc, svc, seen, epoch>>

CallsTypeOK ==
    /\ pc \in [Requests -> {"idle", "waiting", "answered", "lost"}]
    /\ svc \in [Requests -> {"none", "pending", "executed", "dropped"}]
    /\ seen \in [Requests -> {"none", "OK"} \cup FailureCodes]
    /\ epoch \in 0..MaxRestarts

CallsInit ==
    /\ pc = [r \in Requests |-> "idle"]
    /\ svc = [r \in Requests |-> "none"]
    /\ seen = [r \in Requests |-> "none"]
    /\ epoch = 0

-----------------------------------------------------------------------------
(* The gateway. *)

\* The request is answered where it arrives: no call is made.
AnsweredAtOnce(r) ==
    /\ pc[r] = "idle"
    /\ pc' = [pc EXCEPT ![r] = "answered"]
    /\ UNCHANGED <<svc, seen, epoch>>

\* The handler reaches its await: the call is sent.
Sends(r) ==
    /\ pc[r] = "idle"
    /\ pc' = [pc EXCEPT ![r] = "waiting"]
    /\ svc' = [svc EXCEPT ![r] = "pending"]
    /\ UNCHANGED <<seen, epoch>>

\* The await returns the reply of the service.
Returns(r) ==
    /\ pc[r] = "waiting"
    /\ svc[r] = "executed"
    /\ pc' = [pc EXCEPT ![r] = "answered"]
    /\ seen' = [seen EXCEPT ![r] = "OK"]
    /\ UNCHANGED <<svc, epoch>>

\* The await raises RpcError because the service refused the call or broke before it
\* had carried it out.
Refused(r, status) ==
    /\ pc[r] = "waiting"
    /\ svc[r] = "pending"
    /\ pc' = [pc EXCEPT ![r] = "answered"]
    /\ svc' = [svc EXCEPT ![r] = "dropped"]
    /\ seen' = [seen EXCEPT ![r] = status]
    /\ UNCHANGED epoch

\* Codes the gRPC library raises by itself.
TransportCodes == {"DEADLINE_EXCEEDED", "UNAVAILABLE"}

\* Codes of a service that breaks, before or after it has carried the call out.
BreakCodes == {"INTERNAL", "UNKNOWN", "ABORTED", "DATA_LOSS"}

\* The await raises RpcError without news of the service, whose deadline is over or
\* whose connection broke: the call may have been executed, or may still be.  Or the
\* service has carried the call out and broke only then.
OutOfReach(r, status) ==
    /\ pc[r] = "waiting"
    /\ \/ status \in TransportCodes
       \/ status \in BreakCodes /\ svc[r] = "executed"
    /\ pc' = [pc EXCEPT ![r] = "answered"]
    /\ seen' = [seen EXCEPT ![r] = status]
    /\ UNCHANGED <<svc, epoch>>

Raises(r, status) == Refused(r, status) \/ OutOfReach(r, status)

\* The process dies and starts again: handlers in flight are gone with their
\* connections, calls already sent are not.
Crashes ==
    /\ epoch < MaxRestarts
    /\ epoch' = epoch + 1
    /\ pc' = [r \in Requests |-> IF pc[r] = "waiting" THEN "lost" ELSE pc[r]]
    /\ UNCHANGED <<svc, seen>>

-----------------------------------------------------------------------------
(* The service. *)

Executes(r) ==
    /\ svc[r] = "pending"
    /\ svc' = [svc EXCEPT ![r] = "executed"]
    /\ UNCHANGED <<pc, seen, epoch>>

=============================================================================
