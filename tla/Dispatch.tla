------------------------------ MODULE Dispatch ------------------------------
(***************************************************************************)
(* The dispatch routes of the gateway (available workers, assign, pending, *)
(* confirm, history in app/gateway/http_to_rpc_router.py, dispatch_* in    *)
(* grpc_clients.py), and the dispatch service behind them.                 *)
(*                                                                         *)
(* The gateway keeps nothing of dispatches.  It alone answers only when    *)
(* confirming one fails: then it reads the worker's response by itself.    *)
(*                                                                         *)
(* A dispatch is named by the request that assigned it.                    *)
(***************************************************************************)
EXTENDS Calls, Sequences, FiniteSets, Names

CONSTANTS Orders, Workers,
          Responses,  \* the names workers write for their response
          Accepting,  \* the words that end in ACCEPT
          Skilled,    \* the workers who can do what clients look for
          Limits      \* how many workers clients ask for at most

\* Skills are those of workers there are, a response is written as a name, and a
\* limit is what the query allows (le=200).
ASSUME DispatchAssumption ==
    /\ Skilled \subseteq Workers
    /\ Responses \subseteq Name(STRING)
    /\ "ACCEPT" \in Accepting /\ "REJECT" \notin Accepting
    /\ Limits \subseteq 1..200

None == "none"
NoResponse == Plain("")
NoLimit == 0
ResponseType == {"ACCEPT", "REJECT"}

VARIABLES
    call,     \* what a request asks for, and by whom
    reply,    \* the dispatches and the workers in the service's reply
    answer,   \* the HTTP answer to a request
    journal   \* the dispatches as the service entered them, in order

dispatchVars == <<call, reply, answer, journal>>
vars == <<callVars, dispatchVars>>

Ops == {"available", "assign", "pending", "confirm", "history"}

\* worker: the one assigned, or the caller.  skill: the service_type of a query, which
\* stands for the region and the time too; None without one.
Call == [op : Ops, order : Orders \cup {None}, worker : Workers \cup {None},
         dispatch : Requests \cup {None}, response : Responses \cup {NoResponse},
         skill : {"skill", None}, limit : Limits \cup {NoLimit}]
NoCall == [op |-> None, order |-> None, worker |-> None, dispatch |-> None,
           response |-> NoResponse, skill |-> None, limit |-> NoLimit]

Record == [dispatch : Requests, order : Orders, worker : Workers,
           status : {"PENDING_WORKER_CONFIRM", "ACCEPTED", "REJECTED"}]

\* A reply shows dispatches or workers.
NoReply == [dispatches |-> {}, workers |-> {}]

\* Mutated form of OwnStatus: the response is not brought to upper case.
StatusAsWritten(response) ==
    IF response.word \in Accepting /\ ~response.lower /\ "behind" \notin response.blanks
    THEN "ACCEPTED" ELSE "REJECTED"

\* payload.response.upper().endswith("ACCEPT"): whatever stands before, a blank behind
\* is not overlooked.
OwnStatus(response) ==
    LET upper == Upcased(response)
    IN  IF upper.word \in Accepting /\ "behind" \notin upper.blanks
        THEN "ACCEPTED" ELSE "REJECTED"

\* The dispatch the gateway makes up: it does not know the order.
OwnDispatch(r) == [dispatch |-> call[r].dispatch, order |-> None,
                   worker |-> call[r].worker, status |-> OwnStatus(call[r].response)]

OwnRecord == [dispatch : Requests, order : {None}, worker : Workers,
              status : {"ACCEPTED", "REJECTED"}]

Status == {200, 422, 500} \cup {MapGrpcError(s).status_code : s \in FailureCodes}

TypeOK ==
    /\ CallsTypeOK
    /\ call \in [Requests -> Call \cup {NoCall}]
    /\ \A r \in Requests :
          /\ reply[r].dispatches \subseteq Record
          /\ reply[r].workers \cup answer[r].workers \subseteq Workers
          /\ answer[r].status \in {0} \cup Status
          /\ answer[r].dispatches \subseteq Record \cup OwnRecord
    /\ journal \in Seq(Record)

Init ==
    /\ CallsInit
    /\ call = [r \in Requests |-> NoCall]
    /\ reply = [r \in Requests |-> NoReply]
    /\ answer = [r \in Requests |-> [status |-> 0, dispatches |-> {}, workers |-> {}]]
    /\ journal = <<>>

-----------------------------------------------------------------------------
(* The gateway. *)

Asks(op) ==
    [op : {op},
     order : IF op \in {"assign", "history"} THEN Orders ELSE {None},
     worker : IF op \in {"available", "history"} THEN {None} ELSE Workers,
     dispatch : IF op = "confirm" THEN Requests ELSE {None},
     response : IF op = "confirm" THEN Responses ELSE {NoResponse},
     skill : IF op = "available" THEN {"skill", None} ELSE {None},
     limit : IF op = "available" THEN Limits ELSE {NoLimit}]

\* str(payload.get("service_type") or ""): what is not there filters nothing.
FilterOf(skill) == IF skill = None THEN "" ELSE skill

Answers(r, status, reading) ==
    answer' = [answer EXCEPT ![r] = [status |-> status, dispatches |-> reading.dispatches,
                                     workers |-> reading.workers]]

\* list_available_workers, manual_assign_order, list_worker_pending_dispatches,
\* confirm_worker_response and get_order_dispatch_history up to their call.
Request(r) ==
    /\ pc[r] = "idle"
    /\ \E op \in Ops : \E c \in Asks(op) :
           /\ call' = [call EXCEPT ![r] = c]
           /\ \/ /\ op \in {"available", "assign", "confirm"}    \* unfit body or limit
                 /\ AnsweredAtOnce(r)
                 /\ Answers(r, 422, NoReply)
              \/ /\ Sends(r)
                 /\ UNCHANGED answer
           /\ UNCHANGED <<reply, journal>>

\* A reply without a dispatch fits only the model of a list.
Replies(r) ==
    /\ Returns(r)
    /\ IF call[r].op \in {"assign", "confirm"} /\ reply[r] = NoReply
       THEN Answers(r, 500, NoReply)
       ELSE Answers(r, 200, reply[r])
    /\ UNCHANGED <<call, reply, journal>>

\* Mutated forms of Covers: every failure of a confirmation is covered up; the
\* failures of every route are.
CoversAll(r, status) == call[r].op = "confirm"
CoversEveryRoute(r, status) == ShouldUseMockFallback(MapGrpcError(status))

\* Only a confirmation is answered by the gateway itself when its call has failed.
Covers(r, status) == call[r].op = "confirm" /\ ShouldUseMockFallback(MapGrpcError(status))

Fails(r, status) ==
    /\ call[r].op \in Ops
    /\ Raises(r, status)
    /\ IF Covers(r, status)
       THEN Answers(r, 200, [NoReply EXCEPT !.dispatches = {OwnDispatch(r)}])
       ELSE Answers(r, MapGrpcError(status).status_code, NoReply)
    /\ UNCHANGED <<call, reply, journal>>

-----------------------------------------------------------------------------
(* The dispatch service, and the process. *)

\* The dispatches entered, each as it was entered last.
Held ==
    {journal[i] : i \in {j \in DOMAIN journal :
                            \A k \in DOMAIN journal :
                               k > j => journal[k].dispatch # journal[j].dispatch}}

Enters(r, record) ==
    /\ Executes(r)
    /\ journal' = Append(journal, record)
    /\ \E shown \in {{record}, {}} : reply' = [reply EXCEPT ![r].dispatches = shown]
    /\ UNCHANGED <<call, answer>>

ServesAssign(r) ==
    /\ call[r].op = "assign"
    /\ Enters(r, [dispatch |-> r, order |-> call[r].order, worker |-> call[r].worker,
                  status |-> "PENDING_WORKER_CONFIRM"])

\* A worker responds once to each of his dispatches, with a response there is; the
\* service refuses anything else.
ServesConfirm(r) ==
    /\ call[r].op = "confirm"
    /\ LET response == Parse(call[r].response, ResponseType)
       IN  /\ response \in ResponseType
           /\ \E record \in Held :
                 /\ record.dispatch = call[r].dispatch
                 /\ record.worker = call[r].worker
                 /\ record.status = "PENDING_WORKER_CONFIRM"
                 /\ Enters(r, [record EXCEPT !.status = IF response = "ACCEPT"
                                                        THEN "ACCEPTED" ELSE "REJECTED"])

Shows(r, records) ==
    /\ Executes(r)
    /\ reply' = [reply EXCEPT ![r].dispatches = records]
    /\ UNCHANGED <<call, answer, journal>>

ServesPending(r) ==
    /\ call[r].op = "pending"
    /\ Shows(r, {record \in Held : /\ record.worker = call[r].worker
                                   /\ record.status = "PENDING_WORKER_CONFIRM"})

ServesHistory(r) ==
    /\ call[r].op = "history"
    /\ Shows(r, {record \in Held : record.order = call[r].order})

\* "" filters nothing.
Wanted(r) == IF FilterOf(call[r].skill) = "" THEN Workers ELSE Skilled

\* As many as the limit allows; which of them is up to the service.
ServesAvailable(r) ==
    /\ call[r].op = "available"
    /\ Executes(r)
    /\ \E shown \in SUBSET Wanted(r) :
          /\ Cardinality(shown) <= call[r].limit
          /\ shown = Wanted(r) \/ Cardinality(shown) = call[r].limit
          /\ reply' = [reply EXCEPT ![r].workers = shown]
    /\ UNCHANGED <<call, answer, journal>>

Restart == Crashes /\ UNCHANGED dispatchVars

\* Every request has come to its end.
Terminated ==
    /\ \A r \in Requests : pc[r] \in {"answered", "lost"}
    /\ UNCHANGED vars

Next ==
    \/ \E r \in Requests :
          \/ Request(r)
          \/ Replies(r)
          \/ \E status \in FailureCodes : Fails(r, status)
          \/ ServesAssign(r)
          \/ ServesConfirm(r)
          \/ ServesPending(r)
          \/ ServesHistory(r)
          \/ ServesAvailable(r)
    \/ Restart
    \/ Terminated

Spec == Init /\ [][Next]_vars

-----------------------------------------------------------------------------
(* Properties. *)

\* The gateway answers r by itself.
MadeUp(r) == call[r].op = "confirm" /\ seen[r] \in MOCKABLE_DOWNSTREAM_GAP_CODES

\* An answer shows dispatches as the service has them, at the time of the answer or
\* before; the one dispatch the gateway makes up is the one whose confirmation the
\* service could not serve (confirm_worker_response).
EveryAnswerIsBacked ==
    \A r \in Requests : \A record \in answer[r].dispatches :
        \/ \E i \in DOMAIN journal : journal[i] = record
        \/ /\ MadeUp(r)
           /\ record.dispatch = call[r].dispatch

Says(response) == IF response.word = "ACCEPT" THEN "ACCEPTED" ELSE "REJECTED"

\* A worker is answered with the response he gave: as the service entered it, or as
\* the gateway made it out by itself when the service failed.
AnsweredAsSaid(r) ==
    call[r].op = "confirm" =>
        \A record \in answer[r].dispatches : record.status = Says(call[r].response)

\* The two readings of a response, the parser's before the call and the fallback's
\* after it, agree on every documented name that has no blank behind it, in either
\* case, with the prefix or without and with blanks before it or not: whichever of
\* the two answers, early or late, tells the worker what he said
\* (_parse_worker_response_type, confirm_worker_response).  They do not agree on
\* other words that end in ACCEPT, nor on an acceptance with a blank behind it.
ReadingsAgree ==
    \A r \in Requests :
        (/\ call[r].response.word \in ResponseType
         /\ "behind" \notin call[r].response.blanks)
            => AnsweredAsSaid(r)

\* Nobody is told two outcomes of one dispatch, whoever reads it or confirms it again
\* and however late the service enters a response, unless the gateway has made one of
\* them up: a second response, the other way, is refused by the service, and only
\* because its failure falls back can the worker be told that it counts
\* (confirm_worker_response).
OneOutcome ==
    \A q, r \in Requests : \A one \in answer[q].dispatches, other \in answer[r].dispatches :
        (/\ one.dispatch = other.dispatch
         /\ one.status = "ACCEPTED" /\ other.status = "REJECTED")
            => MadeUp(q) \/ MadeUp(r)

=============================================================================
