---------------------------- MODULE PipelineProofs ----------------------------
(***************************************************************************)
(* Theorems about Pipeline, for every number of overlapping requests and   *)
(* every set of users, roles, paths, ids and failure codes.                *)
(***************************************************************************)
EXTENDS Pipeline, TLAPS

\* A step of the request r alone.
Step(r) ==
    \/ Receive(r) \/ AssignId(r) \/ Authenticate(r) \/ Route(r) \/ Call(r) \/ Returns(r)
    \/ \E status \in FailureCodes : Raises(r, status)
    \/ Stamp(r) \/ Log(r) \/ Breaks(r)

\* No downstream error is mapped to 500, which is left to unhandled exceptions.
LEMMA MappedStatus ==
    ASSUME NEW status \in StatusCode
    PROVE  /\ MapGrpcError(status).status_code \in
                  {400, 401, 403, 404, 409, 429, 501, 502, 503, 504}
           /\ MapGrpcError(status).code = status
  BY DEF MapGrpcError, GRPC_STATUS_TO_HTTP, StatusCode

\* Appending keeps a sequence one.
LEMMA AppendType ==
    ASSUME NEW S, NEW s \in Seq(S), NEW e \in S
    PROVE  Append(s, e) \in Seq(S)
  OBVIOUS

\* An id that is given to a request is one.
LEMMA IdType ==
    ASSUME NEW r \in Requests
    PROVE  EnsureRequestId(r) \in Id
  BY DEF EnsureRequestId, Id

-----------------------------------------------------------------------------
(* The inductive invariant. *)

\* The identity a request has once it is admitted.
Admitted(r) == IF IsPublic(input[r].path) THEN NoIdentity
               ELSE [user |-> input[r].user, role |-> input[r].role]

\* A request keeps the one id it was given.
IdInv ==
    \A r \in Requests :
        stage[r] \notin {"idle", "received"} => scope[r].id = EnsureRequestId(r)

\* A request that is admitted keeps the identity it was admitted with, and what it
\* sends tells of it.
CallerInv ==
    \A r \in Requests :
        /\ stage[r] = "admitted" => scope[r].identity = Admitted(r)
        /\ stage[r] \in {"idle", "received", "identified", "admitted"} => sent[r] = <<>>
        /\ sent[r] # <<>> =>
              /\ scope[r].identity = Admitted(r)
              /\ sent[r] = <<[caller |-> CallerOf(r), id |-> EnsureRequestId(r)]>>

\* An answer is made on the way out, with the id of the request.
AnswerInv ==
    \A r \in Requests :
        /\ stage[r] \in {"leaving", "stamped", "done"} =>
              /\ answer[r] \in Answer
              /\ answer[r].id = IF answer[r].code = None THEN None ELSE scope[r].id
        /\ stage[r] \in {"leaving", "stamped"} => answer[r].status # 500
        /\ stage[r] \notin {"leaving", "stamped", "done"} => answer[r] = NoAnswer
        /\ stage[r] = "leaving" => answer[r].header = None
        /\ stage[r] = "stamped" => answer[r].header = scope[r].id

\* The log line is the last thing a request leaves behind, unless it breaks.
LogInv ==
    \A r \in Requests :
        /\ stage[r] # "done" => log[r] = <<>>
        /\ stage[r] = "done" =>
              \/ answer[r].status # 500 /\ answer[r].header = scope[r].id /\ log[r] = <<LineOf(r)>>
              \/ answer[r].status = 500 /\ answer[r].header = None /\ log[r] = <<>>

IInv == TypeOK /\ IdInv /\ CallerInv /\ AnswerInv /\ LogInv

-----------------------------------------------------------------------------

\* What a request leaves behind is well typed.
LEMMA TypeStep == IInv /\ [Next]_vars => TypeOK'
  <1> SUFFICES ASSUME IInv, [Next]_vars PROVE TypeOK'
    OBVIOUS
  <1> DEFINE Scope == [id : Id \cup {None}, identity : Identity \cup {NoIdentity}]
             Moved == /\ stage' \in [Requests -> Stage]
                      /\ \A q \in Requests : stage'[q] # "idle" => stage[q] # "idle"
             Told == answer' \in [Requests -> Answer \cup {NoAnswer}]
  <1>0. /\ stage \in [Requests -> Stage]
        /\ input \in [Requests -> Input \cup {NoInput}]
        /\ \A r \in Requests : stage[r] # "idle" => input[r] \in Input
        /\ scope \in [Requests -> Scope]
        /\ sent \in [Requests -> Seq(Metadata)]
        /\ answer \in [Requests -> Answer \cup {NoAnswer}]
        /\ log \in [Requests -> Seq(Line)]
    BY DEF IInv, TypeOK
  <1>e. /\ {200, 307, 401, 403, 404, 422, 500} \subseteq Status
        /\ {"AUTH_REQUIRED", "TOKEN_EXPIRED", "TOKEN_INVALID", "FORBIDDEN", "INTERNAL_ERROR"}
              \subseteq ErrorCode
    BY DEF Status, ErrorCode
  <1>a. ASSUME NEW r \in Requests, stage[r] # "idle", NEW s \in Stage,
               stage' = [stage EXCEPT ![r] = s]
        PROVE  Moved
    BY <1>a, <1>0
  <1>b. ASSUME NEW r \in Requests, stage[r] # "idle", NEW status \in Status,
               NEW code \in ErrorCode, Fails(r, status, code)
        PROVE  Moved /\ Told
    <2>1. "leaving" \in Stage /\ scope[r].id \in Id \cup {None}
      BY <1>0 DEF Stage
    <2>2. [status |-> status, code |-> code, id |-> scope[r].id, header |-> None] \in Answer
      BY <2>1 DEF Answer
    <2> QED
      BY <1>b, <1>0, <1>a, <2>1, <2>2 DEF Fails
  <1>c. ASSUME NEW r \in Requests, stage[r] # "idle", NEW status \in Status, Leaves(r, status)
        PROVE  Moved /\ Told
    <2>1. "leaving" \in Stage
      BY DEF Stage
    <2>2. [status |-> status, code |-> None, id |-> None, header |-> None] \in Answer
      BY DEF Answer
    <2> QED
      BY <1>c, <1>0, <1>a, <2>1, <2>2 DEF Leaves
  <1>d. ASSUME Moved, Told, UNCHANGED <<input, sent, log>>, scope' \in [Requests -> Scope]
        PROVE  TypeOK'
    BY <1>d, <1>0 DEF TypeOK
  <1> HIDE DEF Scope, Moved, Told
  <1>1. ASSUME NEW r \in Requests, Receive(r) PROVE TypeOK'
    BY <1>1, <1>0 DEF Receive, Stage, TypeOK, Scope
  <1>2. ASSUME NEW r \in Requests, AssignId(r) PROVE TypeOK'
    <2>1. scope' \in [Requests -> Scope]
      BY <1>2, <1>0, IdType DEF AssignId, Scope
    <2>2. Moved
      BY <1>2, <1>0, <1>a DEF AssignId, Stage
    <2>3. Told
      BY <1>2, <1>0 DEF AssignId, Told
    <2> QED
      BY <1>2, <1>d, <2>1, <2>2, <2>3 DEF AssignId
  <1>3. ASSUME NEW r \in Requests, Authenticate(r) PROVE TypeOK'
    <2>1. stage[r] # "idle" /\ input[r] \in Input
      BY <1>3, <1>0 DEF Authenticate
    <2>2. [user |-> input[r].user, role |-> input[r].role] \in Identity
      BY <2>1 DEF Input, Identity
    <2>3. scope' \in [Requests -> Scope]
      <3>1. ASSUME NEW identity \in Identity \cup {NoIdentity},
                   scope' = [scope EXCEPT ![r].identity = identity]
            PROVE  scope' \in [Requests -> Scope]
        <4>1. [scope[r] EXCEPT !.identity = identity] \in Scope
          BY <1>0 DEF Scope
        <4> QED
          BY <3>1, <4>1, <1>0
      <3>2. \/ scope' = scope
            \/ scope' = [scope EXCEPT ![r].identity = NoIdentity]
            \/ scope' = [scope EXCEPT ![r].identity = [user |-> input[r].user,
                                                       role |-> input[r].role]]
        BY <1>3 DEF Authenticate, WithIdentity
      <3> QED
        BY <2>2, <3>1, <3>2, <1>0
    <2>4. input[r].token # "valid" => TokenError[input[r].token] \in ErrorCode
      BY <2>1, <1>e DEF Input, TokenError
    <2>5. \/ stage' = [stage EXCEPT ![r] = "admitted"] /\ UNCHANGED answer
          \/ Fails(r, 401, TokenError[input[r].token]) /\ input[r].token # "valid"
          \/ Fails(r, 403, "FORBIDDEN")
      BY <1>3 DEF Authenticate
    <2>6. Moved /\ Told
      BY <2>5, <2>4, <2>1, <1>0, <1>a, <1>b, <1>e DEF Stage, Told
    <2> QED
      BY <1>3, <1>d, <2>3, <2>6 DEF Authenticate
  <1>4. ASSUME NEW r \in Requests, Route(r) PROVE TypeOK'
    <2>1. \E status \in Status : Leaves(r, status)
      BY <1>4, <1>e DEF Route
    <2> QED
      BY <1>4, <2>1, <1>0, <1>c, <1>d DEF Route
  <1>5. ASSUME NEW r \in Requests, Call(r) PROVE TypeOK'
    <2>1. scope[r].id \in Id /\ stage[r] # "idle"
      BY <1>5, IdType DEF Call, IInv, IdInv
    <2>2. scope[r].identity = NoIdentity \/ scope[r].identity \in Identity
      BY <1>0 DEF Scope
    <2>3. BuildGatewayMetadata(r) \in Metadata
      BY <2>1, <2>2 DEF BuildGatewayMetadata, Metadata
    <2>4. sent[r] \in Seq(Metadata) /\ Append(sent[r], BuildGatewayMetadata(r)) \in Seq(Metadata)
      BY <2>3, <1>0, AppendType
    <2>5. sent' \in [Requests -> Seq(Metadata)]
      BY <1>5, <2>4, <1>0 DEF Call
    <2>6. Moved
      BY <1>5, <2>1, <1>0, <1>a DEF Call, Stage
    <2> QED
      BY <1>5, <2>5, <2>6, <1>0 DEF Call, TypeOK, Moved, Scope
  <1>6. ASSUME NEW r \in Requests, Returns(r) PROVE TypeOK'
    <2>1. \/ Leaves(r, 200)
          \/ stage' = [stage EXCEPT ![r] = "raised"] /\ UNCHANGED answer
      BY <1>6 DEF Returns
    <2>2. CASE Leaves(r, 200)
      <3>1. Moved /\ Told
        BY <1>6, <2>2, <1>c, <1>e DEF Returns
      <3> QED
        BY <1>6, <3>1, <1>0, <1>d DEF Returns
    <2>3. CASE stage' = [stage EXCEPT ![r] = "raised"] /\ UNCHANGED answer
      <3>1. Moved /\ Told
        BY <1>6, <2>3, <1>0, <1>a DEF Returns, Stage, Told
      <3> QED
        BY <1>6, <3>1, <1>0, <1>d DEF Returns
    <2> QED
      BY <2>1, <2>2, <2>3
  <1>7. ASSUME NEW r \in Requests, NEW status \in FailureCodes, Raises(r, status)
        PROVE  TypeOK'
    <2>1. MapGrpcError(status).status_code \in Status /\ MapGrpcError(status).code \in ErrorCode
      BY DEF Status, ErrorCode
    <2> QED
      BY <1>7, <2>1, <1>0, <1>b, <1>d DEF Raises
  <1>8. ASSUME NEW r \in Requests, Stamp(r) PROVE TypeOK'
    <2>1. answer[r] \in Answer /\ scope[r].id \in Id
      BY <1>8, IdType DEF Stamp, IInv, AnswerInv, IdInv
    <2>2. [answer[r] EXCEPT !.header = scope[r].id] \in Answer
      BY <2>1 DEF Answer
    <2>3. Told
      BY <1>8, <2>2, <1>0 DEF Stamp, Told
    <2>4. Moved
      BY <1>8, <1>0, <1>a DEF Stamp, Stage
    <2> QED
      BY <1>8, <2>3, <2>4, <1>0, <1>d DEF Stamp
  <1>9. ASSUME NEW r \in Requests, Log(r) PROVE TypeOK'
    <2>1. answer[r].status \in Status /\ scope[r].id \in Id
      BY <1>9, IdType DEF Log, IInv, AnswerInv, IdInv, Answer
    <2>2. scope[r].identity.user \in Users \cup {None}
      BY <1>0 DEF Scope, Identity, NoIdentity
    <2>3. LineOf(r) \in Line
      BY <2>1, <2>2 DEF LineOf, Line
    <2>4. Append(log[r], LineOf(r)) \in Seq(Line)
      BY <2>3, <1>0, AppendType
    <2>5. log' \in [Requests -> Seq(Line)]
      BY <1>9, <2>4, <1>0 DEF Log
    <2>6. Moved
      BY <1>9, <1>0, <1>a DEF Log, Stage
    <2> QED
      BY <1>9, <2>5, <2>6, <1>0 DEF Log, TypeOK, Moved, Scope
  <1>10. ASSUME NEW r \in Requests, Breaks(r) PROVE TypeOK'
    <2>1. scope[r].id \in Id \cup {None} /\ 500 \in Status /\ "INTERNAL_ERROR" \in ErrorCode
      BY <1>0, <1>e DEF Scope
    <2>2. [status |-> 500, code |-> "INTERNAL_ERROR", id |-> scope[r].id, header |-> None]
              \in Answer
      BY <2>1 DEF Answer
    <2>3. Told
      BY <1>10, <2>2, <1>0 DEF Breaks, Told
    <2>4. Moved
      BY <1>10, <1>0, <1>a DEF Breaks, Stage
    <2> QED
      BY <1>10, <2>3, <2>4, <1>0, <1>d DEF Breaks
  <1>11. CASE UNCHANGED vars
    BY <1>11, <1>0 DEF vars, TypeOK, Scope
  <1> QED
    BY <1>1, <1>2, <1>3, <1>4, <1>5, <1>6, <1>7, <1>8, <1>9, <1>10, <1>11 DEF Next, Terminated

\* The initial state is well typed.
LEMMA TypeInit == Init => TypeOK
  BY DEF Init, TypeOK, Stage, NoIdentity

-----------------------------------------------------------------------------

\* A step of one request leaves all others as they are: there is nothing they share.
LEMMA StepIsLocal ==
    ASSUME TypeOK, NEW r \in Requests, Step(r), NEW q \in Requests, q # r
    PROVE  UNCHANGED <<stage[q], input[q], scope[q], sent[q], answer[q], log[q]>>
  <1> USE DEF TypeOK
  <1>1. CASE Receive(r) \/ AssignId(r)
    BY <1>1 DEF Receive, AssignId
  <1>2. CASE Authenticate(r)
    BY <1>2 DEF Authenticate, WithIdentity, Fails
  <1>3. CASE Route(r) \/ Call(r) \/ Returns(r)
    BY <1>3 DEF Route, Call, Returns, Leaves
  <1>4. ASSUME NEW status \in FailureCodes, Raises(r, status)
        PROVE  UNCHANGED <<stage[q], input[q], scope[q], sent[q], answer[q], log[q]>>
    BY <1>4 DEF Raises, Fails
  <1>5. CASE Stamp(r) \/ Log(r) \/ Breaks(r)
    BY <1>5 DEF Stamp, Log, Breaks
  <1> QED
    BY <1>1, <1>2, <1>3, <1>4, <1>5 DEF Step

\* A step is one of some request, or changes nothing.
LEMMA WhoSteps ==
    ASSUME [Next]_vars
    PROVE  (\E r \in Requests : Step(r)) \/ UNCHANGED vars
  BY DEF Next, Step, Terminated

\* Either a request is left as it is, or the step is its own.
LEMMA OwnStep ==
    ASSUME TypeOK, [Next]_vars, NEW q \in Requests
    PROVE  \/ UNCHANGED <<stage[q], input[q], scope[q], sent[q], answer[q], log[q]>>
           \/ Step(q)
  <1>1. CASE UNCHANGED vars
    BY <1>1 DEF vars
  <1>2. ASSUME NEW r \in Requests, Step(r)
        PROVE  \/ UNCHANGED <<stage[q], input[q], scope[q], sent[q], answer[q], log[q]>>
               \/ Step(q)
    BY <1>2, StepIsLocal
  <1> QED
    BY <1>1, <1>2, WhoSteps

\* The input of a request is set as it comes in, its id is set once.
LEMMA IdStep == IInv /\ [Next]_vars => IdInv'
  <1> SUFFICES ASSUME IInv, [Next]_vars, NEW q \in Requests,
                      stage'[q] \notin {"idle", "received"}
               PROVE  scope'[q].id = EnsureRequestId(q)'
    BY DEF IdInv
  <1> USE DEF IInv, TypeOK, IdInv
  <1>1. CASE UNCHANGED <<stage[q], input[q], scope[q], sent[q], answer[q], log[q]>>
    BY <1>1 DEF EnsureRequestId
  <1>2. CASE Receive(q)
    BY <1>2 DEF Receive
  <1>3. CASE AssignId(q)
    BY <1>3 DEF AssignId, EnsureRequestId
  <1>4. CASE Authenticate(q)
    <2>1. stage[q] = "identified" /\ input' = input
      BY <1>4 DEF Authenticate
    <2>2. scope' = scope \/ \E identity : scope' = [scope EXCEPT ![q].identity = identity]
      BY <1>4, Zenon DEF Authenticate, WithIdentity
    <2>3. scope'[q].id = scope[q].id
      BY <2>2
    <2> QED
      BY <2>1, <2>3 DEF EnsureRequestId
  <1>5. CASE Route(q) \/ Call(q) \/ Returns(q) \/ Stamp(q) \/ Log(q) \/ Breaks(q)
    BY <1>5 DEF Route, Call, Returns, Stamp, Log, Breaks, EnsureRequestId
  <1>6. ASSUME NEW status \in FailureCodes, Raises(q, status)
        PROVE  scope'[q].id = EnsureRequestId(q)'
    BY <1>6 DEF Raises, EnsureRequestId
  <1> QED
    BY <1>1, <1>2, <1>3, <1>4, <1>5, <1>6, OwnStep DEF Step

\* An identity is given to a request when it is admitted, and only then.
LEMMA CallerStep == IInv /\ [Next]_vars => CallerInv'
  <1> DEFINE Holds(q) ==
        /\ stage[q] = "admitted" => scope[q].identity = Admitted(q)
        /\ stage[q] \in {"idle", "received", "identified", "admitted"} => sent[q] = <<>>
        /\ sent[q] # <<>> =>
              /\ scope[q].identity = Admitted(q)
              /\ sent[q] = <<[caller |-> CallerOf(q), id |-> EnsureRequestId(q)]>>
  <1> SUFFICES ASSUME IInv, [Next]_vars, NEW q \in Requests PROVE Holds(q)'
    BY DEF CallerInv
  <1> USE DEF TypeOK
  <1>0. TypeOK /\ Holds(q)
    BY DEF IInv, CallerInv
  <1>1. CASE UNCHANGED <<stage[q], input[q], scope[q], sent[q], answer[q], log[q]>>
    BY <1>0, <1>1 DEF EnsureRequestId, Admitted, CallerOf
  <1>2. CASE Receive(q)
    BY <1>0, <1>2 DEF Receive
  <1>3. CASE AssignId(q)
    BY <1>0, <1>3 DEF AssignId
  <1>4. CASE Authenticate(q)
    BY <1>0, <1>4 DEF Authenticate, WithIdentity, Admitted, Fails
  <1>5. CASE Route(q) \/ Returns(q)
    BY <1>0, <1>5 DEF Route, Returns, Leaves, EnsureRequestId, Admitted, CallerOf
  <1>6. CASE Stamp(q) \/ Log(q) \/ Breaks(q)
    BY <1>0, <1>6 DEF Stamp, Log, Breaks, EnsureRequestId, Admitted, CallerOf
  <1>7. CASE Call(q)
    <2>1. scope[q].identity = Admitted(q) /\ scope[q].id = EnsureRequestId(q) /\ sent[q] = <<>>
      BY <1>0, <1>7 DEF Call, IInv, IdInv
    <2>2. BuildGatewayMetadata(q) = [caller |-> CallerOf(q), id |-> EnsureRequestId(q)]
      <3>1. input[q] \in Input
        BY <1>0, <1>7 DEF Call
      <3>2. input[q].user # None
        BY <3>1, PipelineAssumption DEF Input
      <3> QED
        BY <2>1, <3>2 DEF BuildGatewayMetadata, CallerOf, Admitted, NoIdentity
    <2>3. UNCHANGED <<input, scope>>
      BY <1>7 DEF Call
    <2>4. \/ sent'[q] = <<BuildGatewayMetadata(q)>> /\ stage'[q] = "waiting"
          \/ sent'[q] = <<>> /\ stage'[q] = "raised"
      BY <1>7, <1>0, <2>1 DEF Call
    <2> QED
      BY <2>1, <2>2, <2>3, <2>4 DEF Admitted, CallerOf, EnsureRequestId
  <1>8. ASSUME NEW status \in FailureCodes, Raises(q, status) PROVE Holds(q)'
    BY <1>0, <1>8 DEF Raises, Fails, EnsureRequestId, Admitted, CallerOf
  <1> HIDE DEF Holds
  <1> QED
    BY <1>1, <1>2, <1>3, <1>4, <1>5, <1>6, <1>7, <1>8, <1>0, OwnStep DEF Step

\* Every answer is made on the way out, from what the request carries.
LEMMA AnswerStep == IInv /\ [Next]_vars => AnswerInv'
  <1> DEFINE Holds(q) ==
        /\ stage[q] \in {"leaving", "stamped", "done"} =>
              /\ answer[q] \in Answer
              /\ answer[q].id = IF answer[q].code = None THEN None ELSE scope[q].id
        /\ stage[q] \in {"leaving", "stamped"} => answer[q].status # 500
        /\ stage[q] \notin {"leaving", "stamped", "done"} => answer[q] = NoAnswer
        /\ stage[q] = "leaving" => answer[q].header = None
        /\ stage[q] = "stamped" => answer[q].header = scope[q].id
  <1> SUFFICES ASSUME IInv, [Next]_vars, NEW q \in Requests PROVE Holds(q)'
    BY DEF AnswerInv
  <1> USE DEF TypeOK
  <1>0. TypeOK /\ TypeOK' /\ Holds(q)
    BY TypeStep DEF IInv, AnswerInv
  <1>1. CASE UNCHANGED <<stage[q], input[q], scope[q], sent[q], answer[q], log[q]>>
    BY <1>0, <1>1
  <1>2. CASE Receive(q) \/ Call(q)
    BY <1>0, <1>2 DEF Receive, Call
  <1>3. CASE AssignId(q)
    BY <1>0, <1>3 DEF AssignId
  <1>4. ASSUME NEW status \in Nat \ {0, 500}, NEW code,
               (Fails(q, status, code) /\ code # None) \/ Leaves(q, status),
               UNCHANGED scope
        PROVE  Holds(q)'
    <2>1. /\ stage'[q] = "leaving"
          /\ \/ /\ answer'[q] = [status |-> status, code |-> code, id |-> scope[q].id, header |-> None]
                /\ code # None
             \/ answer'[q] = [status |-> status, code |-> None, id |-> None, header |-> None]
      BY <1>0, <1>4 DEF Fails, Leaves
    <2>2. answer'[q] # NoAnswer => answer'[q] \in Answer
      BY <1>0
    <2> QED
      BY <1>4, <2>1, <2>2 DEF NoAnswer
  <1>5. CASE Authenticate(q)
    <2>0. input[q] \in Input
      BY <1>0, <1>5 DEF Authenticate
    <2>1. input[q].token # "valid" => TokenError[input[q].token] # None
      BY <2>0 DEF Input, TokenError, None
    <2>2. CASE stage' = [stage EXCEPT ![q] = "admitted"] /\ UNCHANGED answer
      BY <1>0, <1>5, <2>2 DEF Authenticate
    <2>3. CASE /\ Fails(q, 401, TokenError[input[q].token]) /\ UNCHANGED scope
               /\ input[q].token # "valid"
      BY <1>4, <2>1, <2>3
    <2>4. CASE Fails(q, 403, "FORBIDDEN") /\ UNCHANGED scope
      BY <1>4, <2>4 DEF None
    <2> QED
      BY <1>5, <2>2, <2>3, <2>4 DEF Authenticate
  <1>6. CASE Route(q)
    BY <1>4, <1>6 DEF Route
  <1>7. CASE Returns(q)
    <2>1. CASE stage' = [stage EXCEPT ![q] = "raised"] /\ UNCHANGED answer
      BY <1>0, <1>7, <2>1 DEF Returns
    <2> QED
      BY <1>4, <1>7, <2>1 DEF Returns
  <1>8. ASSUME NEW status \in FailureCodes, Raises(q, status) PROVE Holds(q)'
    <2>1. /\ MapGrpcError(status).status_code \in Nat \ {0, 500}
          /\ MapGrpcError(status).code # None
      BY PipelineAssumption, MappedStatus DEF StatusCode, None
    <2> QED
      BY <1>4, <1>8, <2>1 DEF Raises
  <1>9. CASE Stamp(q)
    <2>1. answer'[q] = [answer[q] EXCEPT !.header = scope[q].id] /\ answer[q] \in Answer
      BY <1>0, <1>9 DEF Stamp
    <2>2. /\ answer'[q].status = answer[q].status /\ answer'[q].header = scope[q].id
          /\ answer'[q].code = answer[q].code /\ answer'[q].id = answer[q].id
      BY <2>1 DEF Answer
    <2>3. answer'[q] \in Answer
      BY <1>9, <2>1, IdType DEF Stamp, Answer, IInv, IdInv
    <2> QED
      BY <1>0, <1>9, <2>2, <2>3 DEF Stamp
  <1>10. CASE Log(q)
    BY <1>0, <1>10 DEF Log
  <1>11. CASE Breaks(q)
    <2>1. answer'[q] = [status |-> 500, code |-> "INTERNAL_ERROR", id |-> scope[q].id,
                        header |-> None]
      BY <1>0, <1>11 DEF Breaks
    <2>2. answer'[q] \in Answer
      BY <1>0, <2>1 DEF NoAnswer
    <2>3. stage'[q] = "done" /\ scope' = scope
      BY <1>0, <1>11 DEF Breaks
    <2> QED
      BY <2>1, <2>2, <2>3 DEF None
  <1> HIDE DEF Holds
  <1> QED
    BY <1>1, <1>2, <1>3, <1>5, <1>6, <1>7, <1>8, <1>9, <1>10, <1>11, <1>0, OwnStep DEF Step

\* A line is written once, when the answer is complete.
LEMMA LogStep == IInv /\ [Next]_vars => LogInv'
  <1> DEFINE Holds(q) ==
        /\ stage[q] # "done" => log[q] = <<>>
        /\ stage[q] = "done" =>
              \/ answer[q].status # 500 /\ answer[q].header = scope[q].id /\ log[q] = <<LineOf(q)>>
              \/ answer[q].status = 500 /\ answer[q].header = None /\ log[q] = <<>>
  <1> SUFFICES ASSUME IInv, [Next]_vars, NEW q \in Requests PROVE Holds(q)'
    BY DEF LogInv
  <1> USE DEF TypeOK
  <1>0. TypeOK /\ Holds(q)
    BY DEF IInv, LogInv
  <1>1. CASE UNCHANGED <<stage[q], input[q], scope[q], sent[q], answer[q], log[q]>>
    BY <1>0, <1>1 DEF LineOf
  <1>2. CASE Receive(q) \/ AssignId(q) \/ Call(q) \/ Stamp(q)
    BY <1>0, <1>2 DEF Receive, AssignId, Call, Stamp
  <1>3. CASE Authenticate(q)
    BY <1>0, <1>3 DEF Authenticate, Fails
  <1>4. CASE Route(q) \/ Returns(q)
    BY <1>0, <1>4 DEF Route, Returns, Leaves
  <1>5. ASSUME NEW status \in FailureCodes, Raises(q, status) PROVE Holds(q)'
    BY <1>0, <1>5 DEF Raises, Fails
  <1>6. CASE Log(q)
    BY <1>0, <1>6 DEF Log, LineOf, IInv, AnswerInv
  <1>7. CASE Breaks(q)
    BY <1>0, <1>7 DEF Breaks
  <1> HIDE DEF Holds
  <1> QED
    BY <1>1, <1>2, <1>3, <1>4, <1>5, <1>6, <1>7, <1>0, OwnStep DEF Step

-----------------------------------------------------------------------------
(* The theorems. *)

\* What a request has sent is one call, or none.
LEMMA SentOnce ==
    ASSUME IInv, NEW r \in Requests
    PROVE  /\ Len(sent[r]) <= 1
           /\ \A i \in DOMAIN sent[r] :
                 /\ sent[r][i] = [caller |-> CallerOf(r), id |-> EnsureRequestId(r)]
                 /\ scope[r].identity = Admitted(r)
  <1>1. CASE sent[r] = <<>>
    BY <1>1
  <1>2. CASE /\ sent[r] = <<[caller |-> CallerOf(r), id |-> EnsureRequestId(r)]>>
             /\ scope[r].identity = Admitted(r)
    BY <1>2
  <1> QED
    BY <1>1, <1>2 DEF IInv, CallerInv

\* So is what it has written to the log.
LEMMA LoggedOnce ==
    ASSUME IInv, NEW r \in Requests
    PROVE  /\ Len(log[r]) <= 1
           /\ \A i \in DOMAIN log[r] : log[r][i] = LineOf(r)
  <1>1. CASE log[r] = <<>>
    BY <1>1
  <1>2. CASE log[r] = <<LineOf(r)>>
    BY <1>2
  <1> QED
    BY <1>1, <1>2 DEF IInv, LogInv

\* The strengthened invariant holds in every reachable state.
LEMMA Invariance == Spec => []IInv
  <1>1. Init => IInv
    <2>1. Init => IdInv /\ CallerInv /\ AnswerInv /\ LogInv
      BY DEF Init, IdInv, CallerInv, AnswerInv, LogInv
    <2> QED
      BY <2>1, TypeInit DEF IInv
  <1>2. IInv /\ [Next]_vars => IInv'
    BY TypeStep, IdStep, CallerStep, AnswerStep, LogStep DEF IInv
  <1> QED
    BY <1>1, <1>2, PTL DEF Spec

\* Every variable keeps its type.
THEOREM TypeCorrect == Spec => []TypeOK
  <1>1. IInv => TypeOK
    BY DEF IInv
  <1> QED
    BY <1>1, Invariance, PTL

\* However many requests overlap, a downstream service is told of the caller whose
\* token the gateway checked for this very request, and called once at most
\* (AuthMiddleware.dispatch, build_gateway_metadata).
THEOREM CallerCarried == Spec => []CallsCarryTheCaller
  <1>1. IInv => CallsCarryTheCaller
    <2> SUFFICES ASSUME IInv, NEW r \in Requests
                 PROVE  /\ Len(sent[r]) <= 1
                        /\ \A i \in DOMAIN sent[r] : sent[r][i].caller = CallerOf(r)
      BY DEF CallsCarryTheCaller
    <2>1. /\ Len(sent[r]) <= 1
          /\ \A i \in DOMAIN sent[r] :
                 sent[r][i] = [caller |-> CallerOf(r), id |-> EnsureRequestId(r)]
      BY SentOnce, Zenon
    <2> QED
      BY <2>1
  <1> QED
    BY <1>1, Invariance, PTL

\* However many requests overlap, each leaves one and the same id behind in its
\* call, its answer and its log line (RequestIDMiddleware).
THEOREM IdCarried == Spec => []OneIdEverywhere
  <1>1. IInv => OneIdEverywhere
    <2> SUFFICES ASSUME IInv, NEW r \in Requests
                 PROVE  /\ \A i \in DOMAIN sent[r] : sent[r][i].id = EnsureRequestId(r)
                        /\ \A i \in DOMAIN log[r] : log[r][i].id = EnsureRequestId(r)
                        /\ answer[r].id \in {None, EnsureRequestId(r)}
                        /\ answer[r].header \in {None, EnsureRequestId(r)}
                        /\ answer[r].code # None => answer[r].id # None
                        /\ stage[r] = "done" /\ answer[r].status # 500 =>
                              answer[r].header # None
      BY DEF OneIdEverywhere, EnsureRequestId
    <2>1. EnsureRequestId(r) # None
      BY PipelineAssumption DEF EnsureRequestId
    <2>2. \A i \in DOMAIN sent[r] : sent[r][i].id = EnsureRequestId(r)
      <3>1. \A i \in DOMAIN sent[r] :
               sent[r][i] = [caller |-> CallerOf(r), id |-> EnsureRequestId(r)]
        BY SentOnce, Zenon
      <3> QED
        BY <3>1
    <2>3. \A i \in DOMAIN log[r] : log[r][i].id = scope[r].id
      <3>1. \A i \in DOMAIN log[r] : log[r][i] = LineOf(r)
        BY LoggedOnce, Zenon
      <3> QED
        BY <3>1 DEF LineOf
    <2>4. log[r] # <<>> \/ answer[r] # NoAnswer => scope[r].id = EnsureRequestId(r)
      BY DEF IInv, LogInv, AnswerInv, IdInv
    <2>5. /\ answer[r].id \in {None, scope[r].id}
          /\ answer[r].header \in {None, scope[r].id}
          /\ answer[r].code # None => answer[r].id = scope[r].id
          /\ stage[r] = "done" /\ answer[r].status # 500 => answer[r].header = scope[r].id
      BY DEF IInv, AnswerInv, LogInv, NoAnswer
    <2>6. answer[r] = NoAnswer =>
            answer[r].id = None /\ answer[r].header = None /\ answer[r].code = None
      BY DEF NoAnswer
    <2>7. stage[r] = "done" => scope[r].id = EnsureRequestId(r)
      BY DEF IInv, IdInv
    <2>8. CASE log[r] = <<>>
      BY <2>1, <2>2, <2>4, <2>5, <2>6, <2>7, <2>8
    <2>9. CASE log[r] # <<>>
      BY <2>1, <2>2, <2>3, <2>4, <2>5, <2>6, <2>7, <2>9
    <2> QED
      BY <2>8, <2>9
  <1> QED
    BY <1>1, Invariance, PTL

\* The log has one line of every answered request that did not break, and it tells
\* its status and its caller (access_log_middleware).
THEOREM LogTold == Spec => []LogTellsTheAnswer
  <1>1. IInv => LogTellsTheAnswer
    <2> SUFFICES ASSUME IInv, NEW r \in Requests
                 PROVE  /\ log[r] # <<>> <=> (stage[r] = "done" /\ answer[r].status # 500)
                        /\ Len(log[r]) <= 1
                        /\ \A i \in DOMAIN log[r] :
                              /\ log[r][i].status = answer[r].status
                              /\ \A j \in DOMAIN sent[r] :
                                    log[r][i].user = IF IsPublic(input[r].path) THEN None
                                                     ELSE sent[r][j].caller.user
      BY DEF LogTellsTheAnswer
    <2>1. CASE log[r] = <<>>
      BY <2>1 DEF IInv, LogInv
    <2>2. CASE log[r] # <<>>
      <3>1. /\ stage[r] = "done" /\ answer[r].status # 500
            /\ log[r] = <<LineOf(r)>>
        BY <2>2 DEF IInv, LogInv
      <3>2. ASSUME NEW j \in DOMAIN sent[r]
            PROVE  scope[r].identity.user = IF IsPublic(input[r].path) THEN None
                                            ELSE sent[r][j].caller.user
        <4>1. scope[r].identity = Admitted(r) /\ sent[r][j].caller = CallerOf(r)
          <5>1. sent[r][j] = [caller |-> CallerOf(r), id |-> EnsureRequestId(r)]
            BY <3>2, SentOnce, Zenon
          <5>2. scope[r].identity = Admitted(r)
            BY <3>2, SentOnce, Zenon
          <5> QED
            BY <5>1, <5>2
        <4> QED
          BY <4>1 DEF Admitted, CallerOf, NoIdentity
      <3> QED
        BY <3>1, <3>2 DEF LineOf
    <2> QED
      BY <2>1, <2>2
  <1> QED
    BY <1>1, Invariance, PTL

-----------------------------------------------------------------------------
(* Nobody calls unchecked. *)

\* The routes that make a call have no slash too many.
LEMMA RpcRoutesAreNormal ==
    ASSUME NEW path \in RpcRoutes
    PROVE  NormalizePath(path) = path
  <1> DEFINE Words == {"api", "users", "v1", "auth", "register", "login", "orders", "dispatch",
                      "profile", "admin", "ping", "finance", "invoices", "invoice"}
  <1>0. /\ "api" \in Words /\ "users" \in Words /\ "v1" \in Words /\ "auth" \in Words
        /\ "register" \in Words /\ "login" \in Words /\ "orders" \in Words
        /\ "dispatch" \in Words /\ "profile" \in Words /\ "admin" \in Words
        /\ "ping" \in Words /\ "finance" \in Words /\ "invoices" \in Words
        /\ "invoice" \in Words
    OBVIOUS
  <1>1. \A w \in Words : w # ""
    OBVIOUS
  <1> HIDE DEF Words
  <1>2. path \in Seq(Words) /\ Len(path) > 0
    <2>1. ASSUME NEW a \in Words, NEW b \in Words, NEW c \in Words, NEW d \in Words
          PROVE  <<a, b, c, d>> \in Seq(Words) /\ Len(<<a, b, c, d>>) > 0
      OBVIOUS
    <2>2. ASSUME NEW a \in Words, NEW b \in Words, NEW c \in Words, NEW d \in Words,
                 NEW e \in Words
          PROVE  <<a, b, c, d, e>> \in Seq(Words) /\ Len(<<a, b, c, d, e>>) > 0
      OBVIOUS
    <2>3. CASE path = <<"api", "orders", "v1", "orders">>
      BY <1>0, <2>1, <2>3
    <2>4. CASE path = <<"api", "users", "v1", "profile">>
      BY <1>0, <2>1, <2>4
    <2>5. CASE path = <<"api", "users", "v1", "auth", "register">>
      BY <1>0, <2>2, <2>5
    <2>6. CASE path = <<"api", "users", "v1", "auth", "login">>
      BY <1>0, <2>2, <2>6
    <2>7. CASE path = <<"api", "users", "v1", "orders", "dispatch">>
      BY <1>0, <2>2, <2>7
    <2>8. CASE path = <<"api", "users", "v1", "admin", "ping">>
      BY <1>0, <2>2, <2>8
    <2>9. CASE path = <<"api", "finance", "v1", "invoices", "invoice">>
      BY <1>0, <2>2, <2>9
    <2> QED
      BY <2>3, <2>4, <2>5, <2>6, <2>7, <2>8, <2>9, Zenon DEF RpcRoutes, BodyRoutes
  <1>3. \A i \in 1..Len(path) : path[i] # ""
    <2>1. \A i \in 1..Len(path) : path[i] \in Words
      BY <1>2
    <2> QED
      BY <1>1, <2>1
  <1>4. Len(path) \in Nat
    BY <1>2
  <1>5. SubSeq(path, 1, Len(path)) = path
    BY <1>2
  <1> DEFINE n == Len(path)
             kept == {i \in 1..n : path[i] # ""}
  <1>6. kept = 1..n
    BY <1>3
  <1>7. NormalizePath(path) = SubSeq(path, 1, IF kept = {} THEN 0
                                  ELSE CHOOSE i \in kept : \A j \in kept : j <= i)
    BY DEF NormalizePath
  <1>8. n \in Nat /\ n > 0
    BY <1>2, <1>4
  <1> HIDE DEF kept, n
  <1>9. /\ n \in kept /\ \A j \in kept : j <= n
        /\ \A i \in kept : (\A j \in kept : j <= i) => i = n
    BY <1>6, <1>8
  <1>10. (CHOOSE i \in kept : \A j \in kept : j <= i) = n
    BY <1>9
  <1>11. kept # {}
    BY <1>9
  <1> QED
    BY <1>5, <1>7, <1>10, <1>11 DEF n

\* What the middleware lets through.
Cleared(i) ==
    \/ IsPublic(i.path)
    \/ i.token = "valid" /\ ~Forbidden(NormalizePath(i.path), i.role)

\* A request that is admitted was let through, and one that has called had a body
\* that fits the route.
CheckInv ==
    \A r \in Requests :
        /\ stage[r] = "admitted" => Cleared(input[r])
        /\ sent[r] # <<>> =>
              /\ Cleared(input[r])
              /\ input[r].path \in RpcRoutes
              /\ input[r].path \in BodyRoutes => input[r].fit

\* A call is made by an admitted request, whose input stays what it was.
LEMMA CheckStep == IInv /\ CheckInv /\ [Next]_vars => CheckInv'
  <1> SUFFICES ASSUME IInv, CheckInv, [Next]_vars, NEW q \in Requests
               PROVE  /\ stage'[q] = "admitted" => Cleared(input'[q])
                      /\ sent'[q] # <<>> =>
                            /\ Cleared(input'[q])
                            /\ input'[q].path \in RpcRoutes
                            /\ input'[q].path \in BodyRoutes => input'[q].fit
    BY DEF CheckInv
  <1> USE DEF TypeOK
  <1>0. /\ TypeOK
        /\ stage[q] = "admitted" => Cleared(input[q])
        /\ sent[q] # <<>> =>
              /\ Cleared(input[q])
              /\ input[q].path \in RpcRoutes
              /\ input[q].path \in BodyRoutes => input[q].fit
        /\ stage[q] = "idle" => sent[q] = <<>>
    BY DEF IInv, CheckInv, CallerInv
  <1>1. CASE UNCHANGED <<stage[q], input[q], scope[q], sent[q], answer[q], log[q]>>
    BY <1>0, <1>1
  <1>2. CASE Receive(q)
    BY <1>0, <1>2 DEF Receive
  <1>3. CASE AssignId(q) \/ Stamp(q) \/ Log(q) \/ Breaks(q)
    BY <1>0, <1>3 DEF AssignId, Stamp, Log, Breaks
  <1>4. CASE Authenticate(q)
    BY <1>0, <1>4 DEF Authenticate, Fails, Cleared
  <1>5. CASE Route(q) \/ Returns(q)
    BY <1>0, <1>5 DEF Route, Returns, Leaves
  <1>6. CASE Call(q)
    BY <1>0, <1>6 DEF Call
  <1>7. ASSUME NEW status \in FailureCodes, Raises(q, status)
        PROVE  /\ stage'[q] # "admitted" /\ sent'[q] = sent[q] /\ input'[q] = input[q]
    BY <1>0, <1>7 DEF Raises, Fails
  <1> QED
    BY <1>0, <1>1, <1>2, <1>3, <1>4, <1>5, <1>6, <1>7, OwnStep DEF Step

\* No call goes out for a request whose token, role or body the gateway has not
\* checked (AuthMiddleware.dispatch, _check_rbac, the request models).
THEOREM OnlyCheckedCall == Spec => []OnlyCheckedRequestsCall
  <1>1. Init => CheckInv
    BY DEF Init, CheckInv
  <1>2. IInv /\ CheckInv /\ [Next]_vars => CheckInv'
    BY CheckStep
  <1>3. CheckInv => OnlyCheckedRequestsCall
    <2> SUFFICES ASSUME CheckInv, NEW r \in Requests, sent[r] # <<>>
                 PROVE  /\ input[r].path \in RpcRoutes
                        /\ input[r].path \in BodyRoutes => input[r].fit
                        /\ \/ IsPublic(input[r].path)
                           \/ /\ input[r].token = "valid"
                              /\ input[r].role \in {"worker", "Worker", "WORKER"} =>
                                    /\ ~IsPrefix(<<"api", "users", "v1", "admin">>, input[r].path)
                                    /\ input[r].path # <<"api", "users", "v1", "orders", "dispatch">>
      BY DEF OnlyCheckedRequestsCall
    <2>1. /\ Cleared(input[r])
          /\ input[r].path \in RpcRoutes
          /\ input[r].path \in BodyRoutes => input[r].fit
      BY DEF CheckInv
    <2>2. NormalizePath(input[r].path) = input[r].path
      BY <2>1, RpcRoutesAreNormal
    <2>3. input[r].role \in {"worker", "Worker", "WORKER"} => Upper(input[r].role) = "WORKER"
      BY DEF Upper
    <2>4. "WORKER" \notin Desk
      BY DEF Desk
    <2> QED
      BY <2>1, <2>2, <2>3, <2>4, Zenon DEF Cleared, Forbidden
  <1> QED
    BY <1>1, <1>2, <1>3, Invariance, PTL DEF Spec

===============================================================================
