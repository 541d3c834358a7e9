----------------------------- MODULE MockServices -----------------------------
(***************************************************************************)
(* The stand-ins that docker-compose runs for the services                 *)
(* (mock_services/server.py).  They speak Struct, as the gateway does with *)
(* two services only: finance and service execution.  They keep nothing:   *)
(* a reply is made of the request alone.                                   *)
(*                                                                         *)
(* Replies are written as in Finance and ServiceExecution; request names   *)
(* the request that carries the call.                                      *)
(***************************************************************************)
EXTENDS Sequences

None == "none"

\* Mutated form of MockRecord: a time that is not in the request is told as one.
MockRecordTimed(method, request) ==
    [status |-> IF method = "StartService" THEN "IN_SERVICE" ELSE "COMPLETE",
     started |-> IF method = "StartService" THEN request ELSE "",
     completed |-> IF method = "CompleteService" THEN request ELSE "",
     photos |-> <<>>,
     valid |-> TRUE]

\* Times are echoed, and "" where the request has none: a completion has no start.
MockRecord(method, request) ==
    [status |-> IF method = "StartService" THEN "IN_SERVICE" ELSE "COMPLETE",
     started |-> IF method = "StartService" THEN request ELSE None,
     completed |-> IF method = "CompleteService" THEN request ELSE None,
     photos |-> <<>>,
     valid |-> TRUE]

NoMockRecord ==
    [status |-> None, started |-> None, completed |-> None, photos |-> <<>>, valid |-> TRUE]

MockPhoto(request) == [of |-> request, own |-> FALSE, valid |-> TRUE]

MockPayment(request) == [payment_id |-> "service", amount |-> request, valid |-> TRUE]

\* Of the service execution service: a record or a photo.
BuildRecordResponse(method, request) ==
    IF method = "AddServicePhoto"
    THEN [record |-> NoMockRecord, photo |-> <<MockPhoto(request)>>]
    ELSE [record |-> MockRecord(method, request), photo |-> <<>>]

\* Of the finance service: the payment, or a list that is always empty.
BuildPaymentResponse(method, request) ==
    IF method = "CreatePayment" THEN <<MockPayment(request)>> ELSE <<>>

===============================================================================
