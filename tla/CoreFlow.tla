------------------------------- MODULE CoreFlow -------------------------------
(***************************************************************************)
(* The "Core Integration Flow" of API_DOCUMENTATION.md through the whole   *)
(* gateway: one order is created, dispatched, carried out, paid and closed *)
(* over the routes of Orders, Dispatch, ServiceExecution and Finance, all  *)
(* in one process that may be stopped or killed and started again          *)
(* (Lifecycle), before services of their own or, two of them, the mocks of *)
(* docker-compose (MockServices).                                          *)
(*                                                                         *)
(* The client is external: it takes one step after the other, each when    *)
(* all before it have been acknowledged, pays a second time when it has    *)
(* no acknowledgement of the first, and in the end takes one look, by one  *)
(* of the four APIs the documentation names.  A request is the step it     *)
(* makes.                                                                  *)
(***************************************************************************)
EXTENDS Lifecycle, Calls, Names, FiniteSets, Sequences

CONSTANTS Deployments,  \* "services" or "mocks"
          MaxFailures   \* bound on the steps that fail, but for the look and the last before a stop

VARIABLES
    deployment,
    orderCall, orderAsked, orderReply, orderAnswer, orderJournal,
    dispatchCall, dispatchReply, dispatchAnswer, dispatchJournal,
    serviceCall, serviceReply, serviceAnswer, records, archive,
    financeCall, financeReply, financeAnswer, payments, ledger

orderVars == <<orderCall, orderAsked, orderReply, orderAnswer, orderJournal>>
dispatchVars == <<dispatchCall, dispatchReply, dispatchAnswer, dispatchJournal>>
serviceVars == <<serviceCall, serviceReply, serviceAnswer, records, archive>>
financeVars == <<financeCall, financeReply, financeAnswer, payments, ledger>>
routeVars == <<orderVars, dispatchVars, serviceVars, financeVars>>
vars == <<processVars, callVars, deployment, routeVars>>

TheOrder == "order"

O == INSTANCE Orders
    WITH Orders <- {TheOrder}, Customers <- {"customer"}, Roles <- {"CUSTOMER_SERVICE"},
         Targets <- {}, Windows <- {}, call <- orderCall, asked <- orderAsked, reply <- orderReply,
         answer <- orderAnswer, journal <- orderJournal

D == INSTANCE Dispatch
    WITH Orders <- {TheOrder}, Workers <- {"worker"}, Responses <- {Plain("ACCEPT")},
         Accepting <- {"ACCEPT"}, Skilled <- {}, Limits <- {},
         call <- dispatchCall, reply <- dispatchReply, answer <- dispatchAnswer,
         journal <- dispatchJournal

S == INSTANCE ServiceExecution
    WITH Orders <- {TheOrder}, call <- serviceCall, reply <- serviceReply,
         answer <- serviceAnswer

F == INSTANCE Finance
    WITH Orders <- {TheOrder}, Roles <- {"CUSTOMER_SERVICE"}, call <- financeCall,
         reply <- financeReply, answer <- financeAnswer

Mock == INSTANCE MockServices

\* What each step asks of its component.
OrderOp == [create |-> "create", close |-> "close", detail |-> "get"]
DispatchOp == [assign |-> "assign", confirm |-> "confirm", history |-> "history"]
ServiceOp == [start |-> "start", complete |-> "complete", record |-> "get"]
FinanceOp == [pay |-> "create", again |-> "create", payments |-> "list"]

Steps == DOMAIN OrderOp \cup DOMAIN DispatchOp \cup DOMAIN ServiceOp \cup DOMAIN FinanceOp

ASSUME CoreFlowAssumption ==
    /\ Requests = Steps
    /\ Deployments \subseteq {"services", "mocks"}
    /\ MaxFailures \in Nat

\* What the components keep of their own is for their own runs to check.
TypeOK ==
    /\ ProcessTypeOK
    /\ deployment \in Deployments
    /\ CallsTypeOK
    /\ serviceReply \in [Steps -> S!Reply]
    /\ financeReply \in [Steps -> Seq(F!Payment)]

Init ==
    /\ ProcessInit
    /\ deployment \in Deployments
    /\ O!Init /\ D!Init /\ S!Init /\ F!Init

-----------------------------------------------------------------------------
(* The client. *)

Status(s) ==
    CASE s \in DOMAIN OrderOp    -> orderAnswer[s].status
      [] s \in DOMAIN DispatchOp -> dispatchAnswer[s].status
      [] s \in DOMAIN ServiceOp  -> serviceAnswer[s].status
      [] s \in DOMAIN FinanceOp  -> financeAnswer[s].status

Acked(s) == Status(s) = 200

Flow == <<"create", "assign", "confirm", "start", "complete", "pay", "close">>
Looks == {"detail", "history", "record", "payments"}

Paid == Acked("pay") \/ Acked("again")

InFlight == {s \in Steps : pc[s] = "waiting"}

\* It is the turn of step s.
Turn(s) ==
    /\ phase = "serving"
    /\ InFlight = {}
    /\ \/ \E i \in DOMAIN Flow :
             /\ Flow[i] = s
             /\ \A j \in 1..(i - 1) : Acked(Flow[j]) \/ (Flow[j] = "pay" /\ Paid)
       \/ /\ s = "again"
          /\ pc["pay"] \in {"answered", "lost"}
          /\ ~Acked("pay")
       \/ /\ s \in Looks
          /\ Acked("close")
          /\ \A t \in Looks : pc[t] = "idle"

-----------------------------------------------------------------------------
(* The gateway: a handler goes on, or begins if it is its turn. *)

Goes(s) == pc[s] = "waiting" \/ (pc[s] = "idle" /\ Turn(s))

Failed == {s \in Steps : seen[s] \in FailureCodes}

\* Within the bound on failures.
Bounded(s) ==
    seen'[s] \in FailureCodes =>
        Cardinality(Failed) < MaxFailures \/ s \in Looks \/ phase = "draining"

OrderRoute(s) ==
    /\ Goes(s)
    /\ \/ O!Request(s) /\ orderCall'[s].op = OrderOp[s] /\ pc'[s] = "waiting"
       \/ O!Replies(s)
       \/ \E status \in FailureCodes : O!Fails(s, status)
    /\ Bounded(s)
    /\ UNCHANGED <<processVars, deployment, dispatchVars, serviceVars, financeVars>>

DispatchRoute(s) ==
    /\ Goes(s)
    /\ \/ /\ D!Request(s)
          /\ dispatchCall'[s].op = DispatchOp[s]
          /\ dispatchCall'[s].dispatch \in {"assign", D!None}
          /\ pc'[s] = "waiting"
       \/ D!Replies(s)
       \/ \E status \in FailureCodes : D!Fails(s, status)
    /\ Bounded(s)
    /\ UNCHANGED <<processVars, deployment, orderVars, serviceVars, financeVars>>

ServiceRoute(s) ==
    /\ Goes(s)
    /\ S!Gateway(s)
    /\ serviceCall'[s].op = ServiceOp[s]
    /\ serviceAnswer'[s].status # 422
    /\ Bounded(s)
    /\ UNCHANGED <<processVars, deployment, orderVars, dispatchVars, financeVars>>

FinanceRoute(s) ==
    /\ Goes(s)
    /\ F!Gateway(s)
    /\ financeCall'[s].op = FinanceOp[s]
    /\ financeAnswer'[s].status # 422
    /\ Bounded(s)
    /\ UNCHANGED <<processVars, deployment, orderVars, dispatchVars, serviceVars>>

-----------------------------------------------------------------------------
(* The services. *)

OrderService(s) ==
    /\ O!ServesCreate(s) \/ O!ServesUpdate(s) \/ O!ServesGet(s)
    /\ UNCHANGED <<processVars, deployment, dispatchVars, serviceVars, financeVars>>

DispatchService(s) ==
    /\ D!ServesAssign(s) \/ D!ServesConfirm(s) \/ D!ServesHistory(s)
    /\ UNCHANGED <<processVars, deployment, orderVars, serviceVars, financeVars>>

\* The method of the Struct services that a step calls.
Method(s) ==
    CASE s = "start"           -> "StartService"
      [] s = "complete"        -> "CompleteService"
      [] s = "record"          -> "GetServiceRecord"
      [] s \in {"pay", "again"} -> "CreatePayment"
      [] s = "payments"        -> "ListOrderPayments"

ServiceExecutionService(s) ==
    /\ \/ deployment = "services" /\ S!Service(s)
       \/ /\ deployment = "mocks"
          /\ Executes(s)
          /\ serviceReply' = [serviceReply EXCEPT
                                 ![s] = Mock!BuildRecordResponse(Method(s), s)]
          /\ UNCHANGED <<serviceCall, serviceAnswer, records, archive>>
    /\ UNCHANGED <<processVars, deployment, orderVars, dispatchVars, financeVars>>

FinanceService(s) ==
    /\ \/ deployment = "services" /\ F!Service(s)
       \/ /\ deployment = "mocks"
          /\ Executes(s)
          /\ financeReply' = [financeReply EXCEPT
                                 ![s] = Mock!BuildPaymentResponse(Method(s), s)]
          /\ UNCHANGED <<financeCall, financeAnswer, payments, ledger>>
    /\ UNCHANGED <<processVars, deployment, orderVars, dispatchVars, serviceVars>>

-----------------------------------------------------------------------------
(* The process. *)

\* With the process goes what the handlers hold and the store.
Restarts == O!Restart /\ D!Restart /\ S!Restart /\ F!Restart /\ UNCHANGED deployment

Starts ==
    /\ Load \/ Startup
    /\ UNCHANGED <<callVars, deployment, routeVars>>

\* A stop takes a restart of MaxRestarts.
Stops ==
    /\ \/ Terminate /\ epoch < MaxRestarts
       \/ Close(InFlight)
    /\ UNCHANGED <<callVars, deployment, routeVars>>

Exits == Stopped /\ Restarts

Dies == Killed /\ Restarts

\* The server waits for requests.
Listens ==
    /\ phase = "serving"
    /\ InFlight = {}
    /\ UNCHANGED vars

Next ==
    \/ \E s \in DOMAIN OrderOp : OrderRoute(s) \/ OrderService(s)
    \/ \E s \in DOMAIN DispatchOp : DispatchRoute(s) \/ DispatchService(s)
    \/ \E s \in DOMAIN ServiceOp : ServiceRoute(s) \/ ServiceExecutionService(s)
    \/ \E s \in DOMAIN FinanceOp : FinanceRoute(s) \/ FinanceService(s)
    \/ Starts
    \/ Stops
    \/ Exits
    \/ Dies
    \/ Listens

\* Mutated form of TimesOut: the generic client calls without a timeout.
TypedTimesOut ==
    \/ /\ \E s \in DOMAIN OrderOp : O!Fails(s, "DEADLINE_EXCEEDED")
       /\ UNCHANGED <<processVars, deployment, dispatchVars, serviceVars, financeVars>>
    \/ /\ \E s \in DOMAIN DispatchOp : D!Fails(s, "DEADLINE_EXCEEDED")
       /\ UNCHANGED <<processVars, deployment, orderVars, serviceVars, financeVars>>

\* The deadline a call is sent with has passed.
TimesOut ==
    \/ /\ \E s \in DOMAIN OrderOp : O!Fails(s, "DEADLINE_EXCEEDED")
       /\ UNCHANGED <<processVars, deployment, dispatchVars, serviceVars, financeVars>>
    \/ /\ \E s \in DOMAIN DispatchOp : D!Fails(s, "DEADLINE_EXCEEDED")
       /\ UNCHANGED <<processVars, deployment, orderVars, serviceVars, financeVars>>
    \/ /\ \E s \in DOMAIN ServiceOp : S!TimesOut(s)
       /\ UNCHANGED <<processVars, deployment, orderVars, dispatchVars, financeVars>>
    \/ /\ \E s \in DOMAIN FinanceOp : F!CreateRaises(s, "DEADLINE_EXCEEDED")
                                      \/ F!ListRaises(s, "DEADLINE_EXCEEDED")
       /\ UNCHANGED <<processVars, deployment, orderVars, dispatchVars, serviceVars>>

\* While the server waits for requests in flight, the timers of their calls fire, and
\* then the lifespan goes on to its end.  Nothing is assumed of clients and services.
Fairness ==
    /\ WF_vars(phase = "draining" /\ TimesOut)
    /\ WF_vars(phase # "serving" /\ Stops)
    /\ WF_vars(Exits)

Spec == Init /\ [][Next]_vars /\ Fairness

-----------------------------------------------------------------------------
(* Properties. *)

\* The gateway acknowledged s in the service's stead.
FellBack(s) == Acked(s) /\ seen[s] \in MOCKABLE_DOWNSTREAM_GAP_CODES

\* The look in the end bears out what the client was told on the way ("Verify the
\* result with order detail, dispatch history, service record, and payment list
\* APIs.").  It may deny a close or a confirmation that the gateway acknowledged by
\* itself, for it remembers neither; a completion or a payment only if there was a
\* restart since and the service was out of reach, the one time or the other, or is a
\* mock, which keeps nothing.
VerificationHolds ==
    /\ Acked("detail") /\ ~FellBack("close") =>
          \E order \in orderAnswer["detail"].orders : order.status = "PAID"
    /\ Acked("history") /\ ~FellBack("confirm") =>
          \E dispatch \in dispatchAnswer["history"].dispatches :
             dispatch.dispatch = "assign" /\ dispatch.status = "ACCEPTED"
    /\ Acked("record") =>
          \/ serviceAnswer["record"].record.status = "COMPLETE"
          \/ /\ FellBack("complete")
             /\ serviceAnswer["complete"].epoch < serviceCall["record"].epoch
    /\ \A p \in {"pay", "again"} :
          Acked("payments") /\ Acked(p) =>
             \/ p \in F!Shows(financeAnswer["payments"].body)
             \/ /\ financeAnswer[p].epoch < financeCall["payments"].epoch
                /\ FellBack(p) \/ FellBack("payments") \/ deployment = "mocks"

HasPayment(p) ==
    \E book \in {payments[TheOrder], ledger[TheOrder]} : p \in F!Shows(book)

\* "`PAID` means payment has been confirmed": while the order service has the order as
\* PAID, a payment of it is in the store or with the finance service; there is none
\* only when the gateway confirmed it by itself, or through a mock, and was restarted
\* since (create_payment, close_order, _mock_store).
PaidMeansConfirmed ==
    O!IsHeld(TheOrder) /\ O!HeldAs(TheOrder).status = "PAID" =>
        \E p \in {"pay", "again"} :
            /\ Acked(p)
            /\ \/ HasPayment(p)
               \/ /\ financeAnswer[p].epoch < epoch
                  /\ FellBack(p) \/ deployment = "mocks"

\* The channel that a step calls on.
ChannelOf(s) ==
    CASE s \in DOMAIN OrderOp    -> "order"
      [] s \in DOMAIN DispatchOp -> "dispatch"
      [] s \in DOMAIN ServiceOp  -> "service_execution"
      [] s \in DOMAIN FinanceOp  -> "finance"

\* No handler waits on a channel that is closed (GatewayGrpcClients.close), whatever
\* is asked for while the process starts, stops or dies.
NoCallOnClosedChannel ==
    \A s \in InFlight : ChannelOf(s) \in channels

\* A stop comes to its end, whatever the services do: requests in flight are
\* answered, if by their deadline, and then the channels are closed (lifespan).
StopEnds == phase = "draining" ~> phase = "down"

===============================================================================
