------------------------------ MODULE Pipeline ------------------------------
(***************************************************************************)
(* The layers every request passes on its way to a handler and back        *)
(* (create_app in app/main.py, app/middleware/, app/security/jwt_utils.py, *)
(* app/gateway/metadata.py): access log, request id, authentication,       *)
(* routing and validation, the downstream call, and the error handlers.    *)
(*                                                                         *)
(* Between two layers the event loop may turn to any other request; what   *)
(* a request carries along is on its own request.state.                    *)
(***************************************************************************)
EXTENDS Errors, Access

CONSTANTS Requests,      \* the HTTP requests of a behaviour
          Users,         \* the subjects of tokens
          Roles,         \* the roles of tokens
          Paths,         \* the paths asked for
          ClientIds,     \* the x-request-id values the pattern admits
          FailureCodes   \* the status codes with which calls fail

None == "none"

\* None stands for what is not there: no request, id or user is called so.
ASSUME PipelineAssumption ==
    /\ FailureCodes \subseteq StatusCode
    /\ "DEADLINE_EXCEEDED" \in FailureCodes
    /\ None \notin Requests \cup ClientIds \cup Users

VARIABLES
    stage,   \* how far a request has come
    input,   \* what the client sent
    scope,   \* request.state: the id and the identity of the request
    sent,    \* the metadata of the request's downstream call
    answer,  \* the HTTP answer
    log      \* the lines of the access log

vars == <<stage, input, scope, sent, answer, log>>

Stage == {"idle", "received", "identified", "admitted", "waiting",
          "leaving", "stamped", "raised", "done"}

\* claimed is the x-user-id header, which any client may set; fit says whether
\* the body fits the request model.
Input == [path : Paths, token : {"absent", "expired", "invalid", "valid"},
          user : Users, role : Roles, claimed : Users,
          id : ClientIds \cup {"absent", "malformed"}, fit : BOOLEAN]

NoInput == [path |-> <<>>, token |-> None, user |-> None, role |-> None,
            claimed |-> None, id |-> None, fit |-> FALSE]

Identity == [user : Users, role : Roles]
Anonymous == [user |-> "anonymous", role |-> "ANONYMOUS"]
NoIdentity == [user |-> None, role |-> None]

\* uuid4() is fresh: the id generated for a request is written as the request.
Id == ClientIds \cup Requests

Metadata == [caller : Identity \cup {Anonymous}, id : Id]

ErrorCode == {"AUTH_REQUIRED", "TOKEN_EXPIRED", "TOKEN_INVALID", "FORBIDDEN",
              "INTERNAL_ERROR"} \cup {MapGrpcError(s).code : s \in FailureCodes}

Status == {200, 307, 401, 403, 404, 422, 500}
              \cup {MapGrpcError(s).status_code : s \in FailureCodes}

\* code and id are those of build_error_response, None in any other body; header
\* is x-request-id.
Answer == [status : Status, code : ErrorCode \cup {None}, id : Id \cup {None},
           header : Id \cup {None}]

NoAnswer == [status |-> 0, code |-> None, id |-> None, header |-> None]

Line == [id : Id, status : Status, user : Users \cup {None}]

TypeOK ==
    /\ stage \in [Requests -> Stage]
    /\ input \in [Requests -> Input \cup {NoInput}]
    /\ \A r \in Requests : stage[r] # "idle" => input[r] \in Input
    /\ scope \in [Requests -> [id : Id \cup {None}, identity : Identity \cup {NoIdentity}]]
    /\ sent \in [Requests -> Seq(Metadata)]
    /\ answer \in [Requests -> Answer \cup {NoAnswer}]
    /\ log \in [Requests -> Seq(Line)]

Init ==
    /\ stage = [r \in Requests |-> "idle"]
    /\ input = [r \in Requests |-> NoInput]
    /\ scope = [r \in Requests |-> [id |-> None, identity |-> NoIdentity]]
    /\ sent = [r \in Requests |-> <<>>]
    /\ answer = [r \in Requests |-> NoAnswer]
    /\ log = [r \in Requests |-> <<>>]

-----------------------------------------------------------------------------
(* The routes this model sends requests to: two that are answered in place, *)
(* and those that make a downstream call.                                  *)

LocalRoutes == {<<"healthz">>, <<"docs">>}

BodyRoutes ==
    {<<"api", "users", "v1", "auth", "register">>,
     <<"api", "users", "v1", "auth", "login">>,
     <<"api", "users", "v1", "orders", "dispatch">>,
     <<"api", "orders", "v1", "orders">>}

RpcRoutes ==
    BodyRoutes \cup {<<"api", "users", "v1", "profile">>,
                     <<"api", "users", "v1", "admin", "ping">>,
                     <<"api", "finance", "v1", "invoices", "invoice">>}

Routes == LocalRoutes \cup RpcRoutes

-----------------------------------------------------------------------------
(* On the way in. *)

Receive(r) ==
    /\ stage[r] = "idle"
    /\ stage' = [stage EXCEPT ![r] = "received"]
    /\ \E i \in Input : input' = [input EXCEPT ![r] = i]
    /\ UNCHANGED <<scope, sent, answer, log>>

\* Mutated form of EnsureRequestId: any header is taken over.
AnyRequestId(r) == IF input[r].id # "absent" THEN input[r].id ELSE r

EnsureRequestId(r) == IF input[r].id \in ClientIds THEN input[r].id ELSE r

AssignId(r) ==
    /\ stage[r] = "received"
    /\ stage' = [stage EXCEPT ![r] = "identified"]
    /\ scope' = [scope EXCEPT ![r].id = EnsureRequestId(r)]
    /\ UNCHANGED <<input, sent, answer, log>>

\* The body of an error, on its way out.
Fails(r, status, code) ==
    /\ stage' = [stage EXCEPT ![r] = "leaving"]
    /\ answer' = [answer EXCEPT ![r] = [status |-> status, code |-> code,
                                        id |-> scope[r].id, header |-> None]]

\* Any other answer, on its way out; also the errors the framework words itself.
Leaves(r, status) ==
    /\ stage' = [stage EXCEPT ![r] = "leaving"]
    /\ answer' = [answer EXCEPT ![r] = [status |-> status, code |-> None,
                                        id |-> None, header |-> None]]

\* Why a token is refused: expiry is told apart, every other fault of it is not.
TokenError ==
    [absent |-> "AUTH_REQUIRED", expired |-> "TOKEN_EXPIRED", invalid |-> "TOKEN_INVALID"]

\* Mutated form of WithIdentity: the identity is kept where all requests see it.
SharedIdentity(r, identity) ==
    [q \in Requests |-> [scope[q] EXCEPT !.identity = identity]]

WithIdentity(r, identity) == [scope EXCEPT ![r].identity = identity]

Authenticate(r) ==
    LET path == NormalizePath(input[r].path)
        identity == [user |-> input[r].user, role |-> input[r].role]
    IN  /\ stage[r] = "identified"
        /\ \/ /\ IsPublic(input[r].path)
              /\ stage' = [stage EXCEPT ![r] = "admitted"]
              /\ scope' = WithIdentity(r, NoIdentity)
              /\ UNCHANGED answer
           \/ /\ ~IsPublic(input[r].path)
              /\ input[r].token # "valid"
              /\ Fails(r, 401, TokenError[input[r].token])
              /\ UNCHANGED scope
           \/ /\ ~IsPublic(input[r].path)
              /\ input[r].token = "valid"
              /\ Forbidden(path, input[r].role)
              /\ Fails(r, 403, "FORBIDDEN")
              /\ UNCHANGED scope
           \/ /\ ~IsPublic(input[r].path)
              /\ input[r].token = "valid"
              /\ ~Forbidden(path, input[r].role)
              /\ stage' = [stage EXCEPT ![r] = "admitted"]
              /\ scope' = WithIdentity(r, identity)
              /\ UNCHANGED answer
        /\ UNCHANGED <<input, sent, log>>

-----------------------------------------------------------------------------
(* The router and the handler. *)

\* Mutated form of BuildGatewayMetadata: nobody is not called anonymous.
UndefaultedMetadata(r) == [caller |-> scope[r].identity, id |-> scope[r].id]

BuildGatewayMetadata(r) ==
    [caller |-> IF scope[r].identity = NoIdentity THEN Anonymous ELSE scope[r].identity,
     id |-> scope[r].id]

\* A slash too many is answered with a redirection to the route without it.
Route(r) ==
    LET path == input[r].path IN
    /\ stage[r] = "admitted"
    /\ \/ path \in LocalRoutes /\ Leaves(r, 200)
       \/ path \notin Routes /\ NormalizePath(path) \in Routes /\ Leaves(r, 307)
       \/ path \notin Routes /\ NormalizePath(path) \notin Routes /\ Leaves(r, 404)
       \/ path \in BodyRoutes /\ ~input[r].fit /\ Leaves(r, 422)
    /\ UNCHANGED <<input, scope, sent, log>>

\* The call goes out, or its message or metadata cannot be built (a number beyond
\* int32, a character the transport does not carry), which no handler expects.
Call(r) ==
    /\ stage[r] = "admitted"
    /\ input[r].path \in RpcRoutes
    /\ input[r].path \in BodyRoutes => input[r].fit
    /\ \/ /\ stage' = [stage EXCEPT ![r] = "waiting"]
          /\ sent' = [sent EXCEPT ![r] = Append(@, BuildGatewayMetadata(r))]
       \/ /\ stage' = [stage EXCEPT ![r] = "raised"]
          /\ UNCHANGED sent
    /\ UNCHANGED <<input, scope, answer, log>>

\* The reply fits the response model, or is an unhandled exception.
Returns(r) ==
    /\ stage[r] = "waiting"
    /\ \/ Leaves(r, 200)
       \/ stage' = [stage EXCEPT ![r] = "raised"] /\ UNCHANGED answer
    /\ UNCHANGED <<input, scope, sent, log>>

Raises(r, status) ==
    /\ stage[r] = "waiting"
    /\ Fails(r, MapGrpcError(status).status_code, MapGrpcError(status).code)
    /\ UNCHANGED <<input, scope, sent, log>>

-----------------------------------------------------------------------------
(* On the way out. *)

Stamp(r) ==
    /\ stage[r] = "leaving"
    /\ stage' = [stage EXCEPT ![r] = "stamped"]
    /\ answer' = [answer EXCEPT ![r].header = scope[r].id]
    /\ UNCHANGED <<input, scope, sent, log>>

\* Mutated form of LineOf: the line names the user the client claims to be.
LineOfClaim(r) == [id |-> scope[r].id, status |-> answer[r].status, user |-> input[r].claimed]

LineOf(r) == [id |-> scope[r].id, status |-> answer[r].status, user |-> scope[r].identity.user]

Log(r) ==
    /\ stage[r] = "stamped"
    /\ stage' = [stage EXCEPT ![r] = "done"]
    /\ log' = [log EXCEPT ![r] = Append(@, LineOf(r))]
    /\ UNCHANGED <<input, scope, sent, answer>>

\* An unhandled exception leaves every layer behind; the answer is made outside.
Breaks(r) ==
    /\ stage[r] = "raised"
    /\ stage' = [stage EXCEPT ![r] = "done"]
    /\ answer' = [answer EXCEPT ![r] = [status |-> 500, code |-> "INTERNAL_ERROR",
                                        id |-> scope[r].id, header |-> None]]
    /\ UNCHANGED <<input, scope, sent, log>>

-----------------------------------------------------------------------------

\* Mutated form of TimesOut: the call has no deadline.
NeverTimesOut(r) == FALSE

TimesOut(r) == Raises(r, "DEADLINE_EXCEEDED")

Terminated ==
    /\ \A r \in Requests : stage[r] = "done"
    /\ UNCHANGED vars

\* What the event loop gets done by itself.
Advances(r) ==
    AssignId(r) \/ Authenticate(r) \/ Route(r) \/ Call(r) \/ TimesOut(r)
        \/ Stamp(r) \/ Log(r) \/ Breaks(r)

Next ==
    \/ \E r \in Requests :
          \/ Receive(r)
          \/ AssignId(r)
          \/ Authenticate(r)
          \/ Route(r)
          \/ Call(r)
          \/ Returns(r)
          \/ \E status \in FailureCodes : Raises(r, status)
          \/ Stamp(r)
          \/ Log(r)
          \/ Breaks(r)
    \/ Terminated

\* Tasks that are ready are run, and timers fire.
Fairness == \A r \in Requests : WF_vars(Advances(r))

Spec == Init /\ [][Next]_vars /\ Fairness

-----------------------------------------------------------------------------
(* Properties. *)

\* Whom a request is made for: the subject of its own token, or nobody where no
\* token is asked for.
CallerOf(r) ==
    IF IsPublic(input[r].path) THEN Anonymous
    ELSE [user |-> input[r].user, role |-> input[r].role]

\* The downstream service is told of the caller whose token the gateway checked,
\* whatever headers the client set and whatever other requests are on their way;
\* and each request makes one call at most (build_gateway_metadata).
CallsCarryTheCaller ==
    \A r \in Requests :
        /\ Len(sent[r]) <= 1
        /\ \A i \in DOMAIN sent[r] : sent[r][i].caller = CallerOf(r)

\* No call goes out before its request has passed all the checks: a token that is
\* valid, a role that is admitted to the path, a body that fits
\* (AuthMiddleware.dispatch, _check_rbac, the request models).
OnlyCheckedRequestsCall ==
    \A r \in Requests :
        sent[r] # <<>> =>
            /\ input[r].path \in RpcRoutes
            /\ input[r].path \in BodyRoutes => input[r].fit
            /\ \/ IsPublic(input[r].path)
               \/ /\ input[r].token = "valid"
                  /\ input[r].role \in {"worker", "Worker", "WORKER"} =>
                        /\ ~IsPrefix(<<"api", "users", "v1", "admin">>, input[r].path)
                        /\ input[r].path # <<"api", "users", "v1", "orders", "dispatch">>

\* One id runs through everything a request leaves behind: the metadata of its
\* call, the error body, the header of the answer and the log line all carry the
\* same id, also when a handler breaks; it is the client's own if that is
\* admissible, and otherwise one no other request has (RequestIDMiddleware).
OneIdEverywhere ==
    \A r \in Requests :
        LET ids == {sent[r][i].id : i \in DOMAIN sent[r]}
                       \cup {log[r][i].id : i \in DOMAIN log[r]}
                       \cup ({answer[r].id, answer[r].header} \ {None})
        IN  /\ \A id \in ids : id = IF input[r].id \in ClientIds THEN input[r].id ELSE r
            /\ answer[r].code # None => answer[r].id # None
            /\ stage[r] = "done" /\ answer[r].status # 500 => answer[r].header # None

\* The access log tells what happened: a request that came to its end without
\* breaking has one line, with the status the client got and the caller the
\* service was told of; a request that is still on its way has none.
LogTellsTheAnswer ==
    \A r \in Requests :
        /\ log[r] # <<>> <=> (stage[r] = "done" /\ answer[r].status # 500)
        /\ Len(log[r]) <= 1
        /\ \A i \in DOMAIN log[r] :
              /\ log[r][i].status = answer[r].status
              /\ \A j \in DOMAIN sent[r] :
                    log[r][i].user = IF IsPublic(input[r].path) THEN None
                                     ELSE sent[r][j].caller.user

\* Every request the gateway takes in is answered, whatever the service does.
EveryRequestAnswered ==
    \A r \in Requests : stage[r] = "received" ~> stage[r] = "done"

=============================================================================
