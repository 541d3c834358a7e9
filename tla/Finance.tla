------------------------------- MODULE Finance -------------------------------
(***************************************************************************)
(* The payment routes of the gateway (create_payment, list_order_payments  *)
(* in app/gateway/http_to_rpc_router.py), the part of the in-memory store  *)
(* they share, and the finance service behind them.                        *)
(*                                                                         *)
(* Confirming a payment asks the finance service; when the service is out  *)
(* of reach or not up to the call, the gateway confirms the payment by     *)
(* itself.  Either way the payment is kept in the store of the process,    *)
(* and a list is answered from the store whenever that has a payment of    *)
(* the order, from the service otherwise.                                  *)
(*                                                                         *)
(* A payment is told apart by the request that confirms it, which stands   *)
(* for the amount, method and dates of its body.                           *)
(***************************************************************************)
EXTENDS Calls, Access

CONSTANTS Orders, Roles

None == "none"

VARIABLES
    call,      \* what a request asks for, and by whom
    reply,     \* the payments in the service's reply to a request
    answer,    \* the HTTP answer to a request
    payments,  \* the gateway's store: core_flow_mock_store["payments"]
    ledger     \* the payments the finance service holds

financeVars == <<call, reply, answer, payments, ledger>>
vars == <<callVars, financeVars>>

\* A payment record.  The gateway numbers its own payments pay-{order_id}, the
\* service as it likes.  A record is valid when it fits PaymentRecordModel; the
\* service's reply is an untyped Struct and need not.
Payment ==
    [payment_id : {"pay-order", "service"}, amount : Requests, valid : BOOLEAN]

\* acked and epoch are history: the payments of the order acknowledged to
\* clients in this incarnation, and the incarnation, when the request came in.
Call == [op : {"create", "list"}, order : Orders, role : Roles,
         acked : SUBSET Requests, epoch : 0..MaxRestarts]
NoCall == [op |-> None, order |-> None, role |-> None, acked |-> {}, epoch |-> 0]

Status == {200, 403, 422, 500} \cup {MapGrpcError(s).status_code : s \in FailureCodes}

\* status 0 stands for no answer yet; epoch is the incarnation that answered.
Answer == [status : {0} \cup Status, body : Seq(Payment), epoch : 0..MaxRestarts]

TypeOK ==
    /\ CallsTypeOK
    /\ call \in [Requests -> Call \cup {NoCall}]
    /\ reply \in [Requests -> Seq(Payment)]
    /\ answer \in [Requests -> Answer]
    /\ payments \in [Orders -> Seq(Payment)]
    /\ ledger \in [Orders -> Seq(Payment)]

Init ==
    /\ CallsInit
    /\ call = [r \in Requests |-> NoCall]
    /\ reply = [r \in Requests |-> <<>>]
    /\ answer = [r \in Requests |-> [status |-> 0, body |-> <<>>, epoch |-> 0]]
    /\ payments = [o \in Orders |-> <<>>]
    /\ ledger = [o \in Orders |-> <<>>]

-----------------------------------------------------------------------------
(* What requests and answers carry. *)

PaymentsPath(o) == <<"api", "finance", "v1", "orders", o, "payments">>

\* The payments of o whose confirmation was answered 200 by this incarnation.
Acked(o) ==
    {q \in Requests : /\ call[q].op = "create"
                      /\ call[q].order = o
                      /\ answer[q].status = 200
                      /\ answer[q].epoch = epoch}

Asks(r, op, o, role) ==
    call' = [call EXCEPT ![r] = [op |-> op, order |-> o, role |-> role,
                                 acked |-> Acked(o), epoch |-> epoch]]

Answers(r, status, body) ==
    answer' = [answer EXCEPT ![r] = [status |-> status, body |-> body, epoch |-> epoch]]

WellFormed(body) == \A i \in DOMAIN body : body[i].valid

\* The answer is validated against the response model; a failure is an
\* unhandled exception of the handler.
Responds(r, body) ==
    IF WellFormed(body) THEN Answers(r, 200, body) ELSE Answers(r, 500, <<>>)

\* The downstream error is reported.
Fails(r, status) == Answers(r, MapGrpcError(status).status_code, <<>>)

FallsBackOn(status) == ShouldUseMockFallback(MapGrpcError(status))

\* Mutated forms of Kept: a payment with a number that is there already is
\* skipped; the default list is one object that all orders share; the list is
\* assigned instead of extended; what the gateway confirms by itself is not kept.
KeptOncePerNumber(o, added) ==
    IF \E i \in DOMAIN payments[o], j \in DOMAIN added :
          payments[o][i].payment_id = added[j].payment_id
    THEN payments
    ELSE [payments EXCEPT ![o] = @ \o added]
KeptInSharedList(o, added) == [p \in Orders |-> payments[p] \o added]
KeptAssigned(o, added) == [payments EXCEPT ![o] = added]
KeptUnlessOwn(o, added) ==
    [payments EXCEPT ![o] = @ \o SelectSeq(added, LAMBDA payment : payment.payment_id = "service")]

\* setdefault(order_id, []).append(...) for each payment of added.
Kept(o, added) == [payments EXCEPT ![o] = @ \o added]

\* Mutated form of OwnPayment: a field is filled from the order.
OwnPaymentOfOrder(r) == [payment_id |-> "pay-order", amount |-> call[r].order, valid |-> TRUE]

\* The payment the gateway makes up when it confirms by itself.
OwnPayment(r) == [payment_id |-> "pay-order", amount |-> r, valid |-> TRUE]

-----------------------------------------------------------------------------
(* create_payment *)

CreatePayment(r) ==
    \E o \in Orders, role \in Roles :
        /\ Asks(r, "create", o, role)
        /\ \/ /\ Forbidden(PaymentsPath(o), role)
              /\ AnsweredAtOnce(r)
              /\ Answers(r, 403, <<>>)
           \/ /\ ~Forbidden(PaymentsPath(o), role)   \* the body has no amount >= 1
              /\ AnsweredAtOnce(r)
              /\ Answers(r, 422, <<>>)
           \/ /\ ~Forbidden(PaymentsPath(o), role)
              /\ Sends(r)
              /\ UNCHANGED answer
        /\ UNCHANGED <<reply, payments, ledger>>

\* The reply holds one payment, or none: no "payment" in response.
CreateReturns(r) ==
    /\ call[r].op = "create"
    /\ Returns(r)
    /\ payments' = Kept(call[r].order, reply[r])
    /\ IF reply[r] = <<>> THEN Answers(r, 500, <<>>) ELSE Responds(r, reply[r])
    /\ UNCHANGED <<call, reply, ledger>>

CreateRaises(r, status) ==
    /\ call[r].op = "create"
    /\ Raises(r, status)
    /\ \/ /\ FallsBackOn(status)
          /\ payments' = Kept(call[r].order, <<OwnPayment(r)>>)
          /\ Responds(r, <<OwnPayment(r)>>)
       \/ /\ ~FallsBackOn(status)
          /\ Fails(r, status)
          /\ UNCHANGED payments
    /\ UNCHANGED <<call, reply, ledger>>

-----------------------------------------------------------------------------
(* list_order_payments *)

ListPayments(r) ==
    \E o \in Orders, role \in Roles :
        /\ Asks(r, "list", o, role)
        /\ \/ /\ Forbidden(PaymentsPath(o), role)
              /\ AnsweredAtOnce(r)
              /\ Answers(r, 403, <<>>)
           \/ /\ ~Forbidden(PaymentsPath(o), role)
              /\ payments[o] # <<>>
              /\ AnsweredAtOnce(r)
              /\ Responds(r, payments[o])
           \/ /\ ~Forbidden(PaymentsPath(o), role)
              /\ payments[o] = <<>>
              /\ Sends(r)
              /\ UNCHANGED answer
        /\ UNCHANGED <<reply, payments, ledger>>

\* Mutated form of RepliedList: the payments of the store are listed as well.
MergedList(r) == payments[call[r].order] \o reply[r]

RepliedList(r) == reply[r]

ListReturns(r) ==
    /\ call[r].op = "list"
    /\ Returns(r)
    /\ Responds(r, RepliedList(r))
    /\ UNCHANGED <<call, reply, payments, ledger>>

\* Mutated form of FallbackList: what was read before the await, an empty list.
StaleList(o) == <<>>

\* The list of the fallback is read after the await.
FallbackList(o) == payments[o]

ListRaises(r, status) ==
    /\ call[r].op = "list"
    /\ Raises(r, status)
    /\ \/ FallsBackOn(status) /\ Responds(r, FallbackList(call[r].order))
       \/ ~FallsBackOn(status) /\ Fails(r, status)
    /\ UNCHANGED <<call, reply, payments, ledger>>

-----------------------------------------------------------------------------
(* The finance service, and the process. *)

\* The service enters the payment and replies with a record of it, with a
\* record the gateway's model does not admit, or with none.
ServesCreate(r) ==
    /\ call[r].op = "create"
    /\ Executes(r)
    /\ LET entry == [payment_id |-> "service", amount |-> r, valid |-> TRUE]
           o == call[r].order
       IN  /\ ledger' = [ledger EXCEPT ![o] = Append(@, entry)]
           /\ \E body \in {<<entry>>, <<[entry EXCEPT !.valid = FALSE]>>, <<>>} :
                 reply' = [reply EXCEPT ![r] = body]
    /\ UNCHANGED <<call, answer, payments>>

ServesList(r) ==
    /\ call[r].op = "list"
    /\ Executes(r)
    /\ reply' = [reply EXCEPT ![r] = ledger[call[r].order]]
    /\ UNCHANGED <<call, answer, payments, ledger>>

\* The store lives on app.state and is made anew by the next process.
Restart ==
    /\ Crashes
    /\ payments' = [o \in Orders |-> <<>>]
    /\ UNCHANGED <<call, reply, answer, ledger>>

\* Every request has come to its end.
Terminated ==
    /\ \A r \in Requests : pc[r] \in {"answered", "lost"}
    /\ UNCHANGED vars

Gateway(r) ==
    \/ CreatePayment(r)
    \/ CreateReturns(r)
    \/ ListPayments(r)
    \/ ListReturns(r)
    \/ \E status \in FailureCodes : CreateRaises(r, status) \/ ListRaises(r, status)

Service(r) == ServesCreate(r) \/ ServesList(r)

Next ==
    \/ \E r \in Requests : Gateway(r) \/ Service(r)
    \/ Restart
    \/ Terminated

Spec == Init /\ [][Next]_vars

-----------------------------------------------------------------------------
(* Properties. *)

\* The payments a body shows, by the requests that confirmed them.
Shows(body) == {body[i].amount : i \in DOMAIN body}

\* Read your writes: a list that is answered shows every payment of the order
\* that had been acknowledged when the list was asked for, as long as the
\* process that acknowledged it lives, through whichever branch of
\* list_order_payments the answer comes.
AckedPaymentListed ==
    \A r \in Requests :
        (call[r].op = "list" /\ answer[r].status = 200)
            => call[r].acked \subseteq Shows(answer[r].body)

\* A list that falls back after its call failed shows the payments that other
\* handlers acknowledged while it was waiting: it must not answer with what it
\* read of the store before the await.
FallbackListIsFresh ==
    [][\A r \in Requests :
          (/\ call[r].op = "list"
           /\ pc[r] = "waiting"
           /\ answer'[r].status = 200
           /\ seen'[r] # "OK")
              => Acked(call[r].order) \subseteq Shows(answer'[r].body)]_vars

\* A payment in the store is there for a reason: a request of the desk for this
\* very order, which the service executed if the record is the service's, and
\* which the service could not serve if the record is the gateway's own.
EveryPaymentIsBacked ==
    \A o \in Orders : \A i \in DOMAIN payments[o] :
        LET q == payments[o][i].amount IN
        /\ call[q].op = "create"
        /\ call[q].order = o
        /\ Upper(call[q].role) \in Desk
        /\ payments[o][i].payment_id = "service" => svc[q] = "executed"
        /\ payments[o][i].payment_id = "pay-order" =>
              seen[q] \in MOCKABLE_DOWNSTREAM_GAP_CODES

\* The store and the answers agree: within one incarnation a payment answered
\* 200 is kept exactly once and under its own order, and one that was answered
\* with an error is not kept, except that a record that could not be delivered
\* (500) may have been kept first.
StoreMatchesAnswers ==
    \A q \in Requests, o \in Orders :
        LET kept == {i \in DOMAIN payments[o] : payments[o][i].amount = q}
            mine == call[q].op = "create" /\ call[q].order = o /\ answer[q].epoch = epoch
        IN  /\ \A i, j \in kept : i = j
            /\ mine /\ answer[q].status = 200 =>
                   \E i \in kept : payments[o][i].valid
            /\ kept # {} =>
                   /\ mine
                   /\ \/ answer[q].status = 200
                      \/ answer[q].status = 500 /\ \A i \in kept : ~payments[o][i].valid

\* No answer shows a payment twice: a payment that the gateway confirmed by
\* itself although the service executed it (the reply was late) is held by
\* both, and shown from one of them.
NoDoubleCount ==
    \A r \in Requests :
        \A i, j \in DOMAIN answer[r].body :
            answer[r].body[i].amount = answer[r].body[j].amount => i = j

\* The book the store amounts to.
BookOf == [o \in Orders |-> [i \in DOMAIN payments[o] |-> payments[o][i].amount]]

PhaseOf ==
    [r \in Requests |-> IF pc[r] = "idle" THEN "new"
                        ELSE IF pc[r] = "waiting" THEN "open" ELSE "done"]

AboutOf == [r \in Requests |-> IF pc[r] = "waiting" THEN call[r].order ELSE None]

OwedOf == [r \in Requests |-> IF pc[r] = "waiting" THEN call[r].acked ELSE {}]

ToldOf == [r \in Requests |-> Shows(answer[r].body)]

Book == INSTANCE PaymentBook
    WITH Nobody <- None, book <- BookOf, phase <- PhaseOf, about <- AboutOf,
         owed <- OwedOf, told <- ToldOf

\* The routes keep the promise of PaymentBook: whatever the service does and
\* however requests overlap, payments are entered once, by the confirmation they
\* belong to, are not taken out again, and are shown to whoever asks later.
KeepsBook == Book!Spec

\* A payment the service holds and the gateway acknowledged before a restart is
\* in every list of the order that is answered afterwards ("Lists payment records
\* for one order.", API_DOCUMENTATION.md).  A list whose call to the service has
\* failed is left out: nobody could tell of the payment then.
HeldPaymentListed ==
    \A r, q \in Requests :
        (/\ call[r].op = "list" /\ answer[r].status = 200
         /\ call[q].op = "create" /\ answer[q].status = 200
         /\ call[q].order = call[r].order
         /\ answer[q].epoch < call[r].epoch
         /\ seen[q] = "OK" /\ seen[r] \notin MOCKABLE_DOWNSTREAM_GAP_CODES)
            => q \in Shows(answer[r].body)

=============================================================================
