---------------------------- MODULE CoreFlowProofs ----------------------------
(***************************************************************************)
(* Theorems about CoreFlow, for every set of deployments and failure codes *)
(* and every bound on restarts and failures.                               *)
(***************************************************************************)
EXTENDS CoreFlow, CallsProofs, SequenceTheorems

(* The steps, by what they do to the requests and to the process. *)

\* The gateway handles the request s.
Route(s) ==
    \/ s \in DOMAIN OrderOp /\ OrderRoute(s)
    \/ s \in DOMAIN DispatchOp /\ DispatchRoute(s)
    \/ s \in DOMAIN ServiceOp /\ ServiceRoute(s)
    \/ s \in DOMAIN FinanceOp /\ FinanceRoute(s)

\* The service handles the call of s.
Serves(s) ==
    \/ s \in DOMAIN OrderOp /\ OrderService(s)
    \/ s \in DOMAIN DispatchOp /\ DispatchService(s)
    \/ s \in DOMAIN ServiceOp /\ ServiceExecutionService(s)
    \/ s \in DOMAIN FinanceOp /\ FinanceService(s)

\* Every step is one of these.
LEMMA StepKinds ==
    ASSUME [Next]_vars
    PROVE  \/ \E s \in Steps : Route(s) \/ Serves(s)
           \/ Starts \/ Stops \/ Exits \/ Dies
           \/ UNCHANGED vars
  <1>1. /\ DOMAIN OrderOp \subseteq Steps /\ DOMAIN DispatchOp \subseteq Steps
        /\ DOMAIN ServiceOp \subseteq Steps /\ DOMAIN FinanceOp \subseteq Steps
    BY DEF Steps
  <1> QED
    BY <1>1 DEF Next, Route, Serves, Listens

\* The routes of each component treat a request as Calls says.
LEMMA RouteCalls ==
    ASSUME NEW s \in Steps, Route(s)
    PROVE  /\ Goes(s)
           /\ AnsweredAtOnce(s) \/ Sends(s) \/ Wakes(s)
           /\ UNCHANGED <<processVars, deployment>>
  <1>1. CASE s \in DOMAIN OrderOp /\ OrderRoute(s)
    BY <1>1 DEF OrderRoute, Wakes, O!Request, O!Replies, O!Fails, O!AnsweredAtOnce, O!Sends,
       O!Returns, O!Raises, O!Refused, O!OutOfReach, O!TransportCodes, AnsweredAtOnce, Sends,
       Returns, Raises, Refused, OutOfReach, TransportCodes, O!BreakCodes, BreakCodes
  <1>2. CASE s \in DOMAIN DispatchOp /\ DispatchRoute(s)
    BY <1>2 DEF DispatchRoute, Wakes, D!Request, D!Replies, D!Fails, D!AnsweredAtOnce,
       D!Sends, D!Returns, D!Raises, D!Refused, D!OutOfReach, D!TransportCodes,
       AnsweredAtOnce, Sends, Returns, Raises, Refused, OutOfReach, TransportCodes,
       D!BreakCodes, BreakCodes
  <1>3. CASE s \in DOMAIN ServiceOp /\ ServiceRoute(s)
    <2>1. S!AnsweredAtOnce(s) \/ S!Sends(s) \/ S!Returns(s)
          \/ \E status \in FailureCodes : S!Raises(s, status)
      BY <1>3 DEF ServiceRoute, S!Gateway, S!Write, S!GetRecord, S!StartReturns,
         S!CompleteReturns, S!PhotoReturns, S!GetReturns, S!StartRaises, S!CompleteRaises,
         S!PhotoRaises, S!GetRaises, S!Breaks
    <2> QED
      BY <1>3, <2>1 DEF ServiceRoute, Wakes, S!AnsweredAtOnce, S!Sends, S!Returns, S!Raises,
         S!Refused, S!OutOfReach, S!TransportCodes, AnsweredAtOnce, Sends, Returns, Raises,
         Refused, OutOfReach, TransportCodes, S!BreakCodes, BreakCodes
  <1>4. CASE s \in DOMAIN FinanceOp /\ FinanceRoute(s)
    <2>1. F!AnsweredAtOnce(s) \/ F!Sends(s) \/ F!Returns(s)
          \/ \E status \in FailureCodes : F!Raises(s, status)
      BY <1>4 DEF FinanceRoute, F!Gateway, F!CreatePayment, F!ListPayments, F!CreateReturns,
         F!ListReturns, F!CreateRaises, F!ListRaises
    <2> QED
      BY <1>4, <2>1 DEF FinanceRoute, Wakes, F!AnsweredAtOnce, F!Sends, F!Returns, F!Raises,
         F!Refused, F!OutOfReach, F!TransportCodes, AnsweredAtOnce, Sends, Returns, Raises,
         Refused, OutOfReach, TransportCodes, F!BreakCodes, BreakCodes
  <1> QED
    BY <1>1, <1>2, <1>3, <1>4 DEF Route

\* So do the services.
LEMMA ServesCalls ==
    ASSUME NEW s \in Steps, Serves(s)
    PROVE  Executes(s) /\ UNCHANGED <<processVars, deployment>>
  <1>1. CASE s \in DOMAIN OrderOp /\ OrderService(s)
    BY <1>1 DEF OrderService, O!ServesCreate, O!ServesUpdate, O!ServesGet, O!Enters, O!Shows,
       O!Executes, Executes
  <1>2. CASE s \in DOMAIN DispatchOp /\ DispatchService(s)
    BY <1>2 DEF DispatchService, D!ServesAssign, D!ServesConfirm, D!ServesHistory, D!Enters,
       D!Shows, D!Executes, Executes
  <1>3. CASE s \in DOMAIN ServiceOp /\ ServiceExecutionService(s)
    BY <1>3 DEF ServiceExecutionService, S!Service, S!ServesProgress, S!ServesPhoto,
       S!ServesGet, S!Executes, Executes
  <1>4. CASE s \in DOMAIN FinanceOp /\ FinanceService(s)
    BY <1>4 DEF FinanceService, F!Service, F!ServesCreate, F!ServesList, F!Executes, Executes
  <1> QED
    BY <1>1, <1>2, <1>3, <1>4 DEF Serves

\* A process that ends is one that crashes, for the requests.
LEMMA RestartCalls ==
    ASSUME Restarts
    PROVE  Crashes
  BY DEF Restarts, F!Restart, F!Crashes, Crashes

\* What a step does to the shared part.
LEMMA StepOfCalls ==
    ASSUME [Next]_vars
    PROVE  CallsStep
  <1>0. Steps = Requests
    BY CoreFlowAssumption DEF CoreFlowAssumption
  <1>1. ASSUME NEW s \in Steps, Route(s) PROVE CallsStep
    BY <1>0, <1>1, RouteCalls DEF CallsStep, Wakes
  <1>2. ASSUME NEW s \in Steps, Serves(s) PROVE CallsStep
    BY <1>0, <1>2, ServesCalls DEF CallsStep
  <1>3. CASE Starts \/ Stops \/ UNCHANGED vars
    BY <1>3 DEF Starts, Stops, vars, CallsStep
  <1>4. CASE Exits \/ Dies
    BY <1>4, RestartCalls DEF Exits, Dies, CallsStep
  <1> QED
    BY <1>1, <1>2, <1>3, <1>4, StepKinds

-----------------------------------------------------------------------------
(* The process. *)

\* Requests are served on open channels, and wait for a service only while the server
\* listens or drains.
ChannelInv ==
    /\ phase \in {"serving", "draining"} => channels = Channels
    /\ phase \notin {"serving", "draining"} => InFlight = {}

ProcessInv == CallsTypeOK /\ LifeInv /\ ProcessTypeOK /\ ChannelInv

\* It holds when the process has not been started yet.
LEMMA ProcessInvInit == Init => ProcessInv
  <1> SUFFICES ASSUME Init PROVE ProcessInv
    OBVIOUS
  <1>0. Steps = Requests
    BY CoreFlowAssumption DEF CoreFlowAssumption
  <1>1. CallsInit
    BY DEF Init, F!Init, F!CallsInit, CallsInit
  <1>2. CallsTypeOK /\ LifeInv
    BY <1>1, CallsTypeInit
  <1>3. ProcessTypeOK
    BY DEF Init, ProcessInit, ProcessTypeOK
  <1>4. ChannelInv
    BY <1>0, <1>1 DEF CallsInit, Init, ProcessInit, ChannelInv, InFlight
  <1> QED
    BY <1>2, <1>3, <1>4 DEF ProcessInv

\* A request begins to wait only while the server listens.
LEMMA BeginsServed ==
    ASSUME CallsTypeOK, NEW s \in Steps, Route(s)
    PROVE  /\ InFlight' \subseteq InFlight \cup {s}
           /\ s \in InFlight \/ phase = "serving"
  <1>0. Steps = Requests
    BY CoreFlowAssumption DEF CoreFlowAssumption
  <1>1. s \in InFlight \/ phase = "serving"
    BY RouteCalls DEF Goes, Turn, InFlight
  <1>2. \A t \in Steps : t # s => pc'[t] = pc[t]
    <2>1. CASE AnsweredAtOnce(s) \/ Sends(s)
      BY <2>1, <1>0 DEF AnsweredAtOnce, Sends, CallsTypeOK
    <2>2. CASE Wakes(s)
      BY <2>2, <1>0, Waking DEF CallsTypeOK
    <2> QED
      BY <2>1, <2>2, RouteCalls
  <1> QED
    BY <1>1, <1>2 DEF InFlight

\* No step of a request, of the process or of a service breaks it.
LEMMA ProcessInvStep == ProcessInv /\ [Next]_vars => ProcessInv'
  <1> SUFFICES ASSUME ProcessInv, [Next]_vars PROVE ProcessInv'
    OBVIOUS
  <1>0. Steps = Requests
    BY CoreFlowAssumption DEF CoreFlowAssumption
  <1>a. CallsTypeOK /\ LifeInv /\ ProcessTypeOK /\ ChannelInv
    BY DEF ProcessInv
  <1>b. CallsTypeOK' /\ LifeInv'
    BY <1>a, StepOfCalls, CallsType, LifeStep
  <1>1. ASSUME NEW s \in Steps, Route(s) PROVE ProcessTypeOK' /\ ChannelInv'
    <2>1. UNCHANGED processVars
      BY <1>1, RouteCalls
    <2>2. phase \notin {"serving", "draining"} => InFlight' = {}
      BY <1>1, <1>a, BeginsServed DEF ChannelInv
    <2> QED
      BY <2>1, <2>2, <1>a DEF processVars, ProcessTypeOK, ChannelInv
  <1>2. ASSUME NEW s \in Steps, Serves(s) PROVE ProcessTypeOK' /\ ChannelInv'
    <2>1. UNCHANGED processVars /\ pc' = pc
      BY <1>2, ServesCalls DEF Executes
    <2> QED
      BY <2>1, <1>a DEF processVars, ProcessTypeOK, ChannelInv, InFlight
  <1>3. CASE Starts
    <2>1. pc' = pc /\ (Load \/ Startup)
      BY <1>3 DEF Starts, callVars
    <2>2. CASE Load
      BY <2>1, <2>2, <1>a, <1>b DEF Load, ProcessTypeOK, ChannelInv, InFlight, ProcessInv
    <2>3. CASE Startup
      BY <2>1, <2>3, <1>a, <1>b DEF Startup, ProcessTypeOK, ChannelInv, InFlight, ProcessInv
    <2> QED
      BY <2>1, <2>2, <2>3
  <1>4. CASE Stops
    <2>1. pc' = pc /\ (Terminate \/ Close(InFlight))
      BY <1>4 DEF Stops, callVars
    <2>2. CASE Terminate
      BY <2>1, <2>2, <1>a, <1>b
         DEF Terminate, ProcessTypeOK, ChannelInv, InFlight, ProcessInv
    <2>3. CASE Close(InFlight)
      BY <2>1, <2>3, <1>a, <1>b
         DEF Close, Closed, ProcessTypeOK, ChannelInv, InFlight, ProcessInv
    <2> QED
      BY <2>1, <2>2, <2>3
  <1>5. CASE Exits \/ Dies
    <2>1. Gone /\ Crashes
      BY <1>5, RestartCalls DEF Exits, Dies, Stopped, Killed
    <2> QED
      BY <2>1, <1>0, <1>b
         DEF Gone, Crashes, ProcessTypeOK, ChannelInv, InFlight, ProcessInv
  <1>6. CASE UNCHANGED vars
    BY <1>6, <1>a, <1>b
       DEF vars, processVars, callVars, ProcessTypeOK, ChannelInv,
           InFlight, ProcessInv
  <1> QED
    BY <1>1, <1>2, <1>3, <1>4, <1>5, <1>6, <1>b, StepKinds DEF ProcessInv

\* And so it always holds.
LEMMA ProcessInvariance == Spec => []ProcessInv
  BY ProcessInvInit, ProcessInvStep, PTL DEF Spec

\* No handler waits on a closed channel: whatever closes channels comes after the last
\* await, or takes the handlers along.
THEOREM CallsHaveChannels == Spec => []NoCallOnClosedChannel
  <1>1. ProcessInv => NoCallOnClosedChannel
    <2> SUFFICES ASSUME ProcessInv, NEW s \in InFlight PROVE ChannelOf(s) \in channels
      BY DEF NoCallOnClosedChannel
    <2>1. channels = Channels
      BY DEF ProcessInv, ChannelInv
    <2>2. s \in Steps
      BY DEF InFlight
    <2>3. ChannelOf(s) \in Channels
      BY <2>2 DEF ChannelOf, Channels, Steps, OrderOp, DispatchOp, ServiceOp, FinanceOp
    <2> QED
      BY <2>1, <2>3
  <1> QED
    BY <1>1, ProcessInvariance, PTL

-----------------------------------------------------------------------------
(* What the finance routes and the finance service do. *)

Payments == {"pay", "again"}

\* The errors of the finance routes are those of Errors.
LEMMA FinanceErrors ==
    ASSUME NEW status \in FailureCodes
    PROVE  /\ F!MapGrpcError(status).status_code # 200
           /\ F!FallsBackOn(status) => status \in MOCKABLE_DOWNSTREAM_GAP_CODES
  <1>1. F!MapGrpcError(status) = MapGrpcError(status)
    BY DEF F!MapGrpcError, MapGrpcError, F!GRPC_STATUS_TO_HTTP, GRPC_STATUS_TO_HTTP,
       F!StatusCode, StatusCode
  <1>2. F!FallsBackOn(status) <=> ShouldUseMockFallback(MapGrpcError(status))
    BY <1>1 DEF F!FallsBackOn, F!ShouldUseMockFallback, ShouldUseMockFallback,
       F!MOCKABLE_DOWNSTREAM_GAP_CODES, MOCKABLE_DOWNSTREAM_GAP_CODES
  <1> QED
    BY <1>1, <1>2, FailureStatus, Failures

\* A book that is extended shows what it showed and what is new.
LEMMA ShowsBoth ==
    ASSUME NEW a \in Seq(F!Payment), NEW b \in Seq(F!Payment)
    PROVE  /\ a \o b \in Seq(F!Payment)
           /\ F!Shows(a) \subseteq F!Shows(a \o b)
           /\ F!Shows(b) \subseteq F!Shows(a \o b)
  <1>1. a \o b \in Seq(F!Payment) /\ Len(a \o b) = Len(a) + Len(b)
    BY ConcatProperties
  <1>2. \A i \in DOMAIN a : i \in DOMAIN (a \o b) /\ (a \o b)[i] = a[i]
    BY ConcatProperties
  <1>3. \A i \in DOMAIN b : Len(a) + i \in DOMAIN (a \o b) /\ (a \o b)[Len(a) + i] = b[i]
    BY ConcatProperties
  <1> HIDE DEF F!Payment
  <1>4. F!Shows(a) \subseteq F!Shows(a \o b)
    BY <1>2 DEF F!Shows
  <1>5. F!Shows(b) \subseteq F!Shows(a \o b)
    <2> SUFFICES ASSUME NEW i \in DOMAIN b PROVE b[i].amount \in F!Shows(a \o b)
      BY DEF F!Shows
    <2>1. Len(a) + i \in DOMAIN (a \o b) /\ (a \o b)[Len(a) + i].amount = b[i].amount
      BY <1>3
    <2> QED
      BY <2>1 DEF F!Shows
  <1> QED
    BY <1>1, <1>4, <1>5

\* A book of one payment.
LEMMA OnePayment ==
    ASSUME NEW payment \in F!Payment
    PROVE  /\ <<payment>> \in Seq(F!Payment)
           /\ \A i \in DOMAIN <<payment>> : <<payment>>[i].amount = payment.amount
           /\ payment.amount \in F!Shows(<<payment>>)
  <1> DEFINE body == <<payment>>
  <1>1. body \in Seq(F!Payment) /\ DOMAIN body = {1} /\ body[1] = payment
    OBVIOUS
  <1> HIDE DEF body
  <1>2. \A i \in DOMAIN body : body[i].amount = payment.amount
    BY <1>1
  <1>3. payment.amount \in F!Shows(body)
    <2>1. 1 \in DOMAIN body /\ body[1].amount = payment.amount
      BY <1>1
    <2> QED
      BY <2>1 DEF F!Shows
  <1> QED
    BY <1>1, <1>2, <1>3 DEF body

\* Where the payments of the gateway and of the service are, and what was asked.
MoneyTypeOK ==
    /\ deployment \in Deployments
    /\ DOMAIN financeCall = Requests
    /\ DOMAIN financeAnswer = Requests
    /\ financeReply \in [Requests -> Seq(F!Payment)]
    /\ payments \in [{TheOrder} -> Seq(F!Payment)]
    /\ ledger \in [{TheOrder} -> Seq(F!Payment)]

\* A finance request asks for what its step does, about the order; it is answered 200
\* only once it is answered, by an incarnation there has been.
FinanceStageInv ==
    \A s \in DOMAIN FinanceOp :
        /\ pc[s] # "idle" => financeCall[s].op = FinanceOp[s] /\ financeCall[s].order = TheOrder
        /\ Acked(s) => pc[s] = "answered"
        /\ financeAnswer[s].epoch \in 0..epoch

\* What the finance service made of a payment: it replies with that payment only, and
\* has entered it, unless it is a mock.
LedgerInv ==
    \A p \in Payments :
        /\ \A i \in DOMAIN financeReply[p] : financeReply[p][i].amount = p
        /\ deployment = "services" /\ svc[p] = "executed" => p \in F!Shows(ledger[TheOrder])

\* What the gateway acknowledged was done by the service or by itself, and is in the
\* store as long as the process lives.
AcknowledgedInv ==
    \A p \in Payments :
        Acked(p) =>
            /\ seen[p] = "OK" \/ seen[p] \in MOCKABLE_DOWNSTREAM_GAP_CODES
            /\ financeAnswer[p].epoch = epoch => p \in F!Shows(payments[TheOrder])

MoneyInv == MoneyTypeOK /\ FinanceStageInv /\ LedgerInv /\ AcknowledgedInv

\* What a finance route makes of the store and of its own answer.
FinanceHandled(s) ==
    /\ UNCHANGED <<financeReply, ledger>>
    /\ DOMAIN financeCall' = Requests /\ DOMAIN financeAnswer' = Requests
    /\ \A t \in Requests :
          t # s => financeCall'[t] = financeCall[t] /\ financeAnswer'[t] = financeAnswer[t]
    /\ financeCall'[s].op = FinanceOp[s] /\ financeCall'[s].order = TheOrder
    /\ financeAnswer'[s].status = 200 =>
          pc'[s] = "answered" /\ financeAnswer'[s].epoch = epoch
    /\ financeAnswer'[s].epoch \in {financeAnswer[s].epoch, epoch}
    /\ payments' \in [{TheOrder} -> Seq(F!Payment)]
    /\ F!Shows(payments[TheOrder]) \subseteq F!Shows(payments'[TheOrder])
    /\ s \in Payments /\ financeAnswer'[s].status = 200 =>
          /\ seen'[s] = "OK" \/ seen'[s] \in MOCKABLE_DOWNSTREAM_GAP_CODES
          /\ s \in F!Shows(payments'[TheOrder])

\* Each finance route does so, from where the invariants hold.
LEMMA FinanceRouteHandles ==
    ASSUME CallsTypeOK, MoneyInv, NEW s \in DOMAIN FinanceOp, FinanceRoute(s)
    PROVE  FinanceHandled(s)
  <1>0. s \in Requests /\ FinanceOp[s] \in {"create", "list"} /\ s \in Steps
    BY CoreFlowAssumption DEF CoreFlowAssumption, Steps, FinanceOp
  <1>p. s \in Payments <=> FinanceOp[s] = "create"
    BY DEF Payments, FinanceOp
  <1>a. MoneyTypeOK /\ FinanceStageInv /\ LedgerInv
    BY DEF MoneyInv
  <1>t. /\ DOMAIN financeCall = Requests /\ DOMAIN financeAnswer = Requests
        /\ payments[TheOrder] \in Seq(F!Payment) /\ financeReply[s] \in Seq(F!Payment)
        /\ payments \in [{TheOrder} -> Seq(F!Payment)]
    BY <1>0, <1>a DEF MoneyTypeOK
  <1>g. F!Gateway(s) /\ financeCall'[s].op = FinanceOp[s] /\ Goes(s)
    BY DEF FinanceRoute
  <1>s. Acked(s) = (financeAnswer[s].status = 200)
    BY DEF Acked, Status, FinanceOp, ServiceOp, DispatchOp, OrderOp
  \* A request that comes in is not a payment that is acknowledged.
  <1>1. ASSUME F!CreatePayment(s) \/ F!ListPayments(s) PROVE FinanceHandled(s)
    <2>1. PICK op \in {"create", "list"}, role \in {"CUSTOMER_SERVICE"} :
            /\ F!Asks(s, op, TheOrder, role)
            /\ \/ F!AnsweredAtOnce(s) /\ F!Answers(s, 403, <<>>)
               \/ op = "list" /\ F!AnsweredAtOnce(s) /\ F!Responds(s, payments[TheOrder])
               \/ F!AnsweredAtOnce(s) /\ F!Answers(s, 422, <<>>)
               \/ F!Sends(s) /\ UNCHANGED financeAnswer
            /\ UNCHANGED <<financeReply, payments, ledger>>
      BY <1>1 DEF F!CreatePayment, F!ListPayments
    <2>2. /\ DOMAIN financeCall' = Requests
          /\ \A t \in Requests : t # s => financeCall'[t] = financeCall[t]
          /\ financeCall'[s].op = op /\ financeCall'[s].order = TheOrder
      BY <2>1, <1>0, <1>t DEF F!Asks
    <2>3. pc[s] = "idle"
      BY <2>1 DEF F!AnsweredAtOnce, F!Sends
    <2>4. financeAnswer[s].status # 200
      BY <2>3, <1>a, <1>s DEF FinanceStageInv
    <2>5. CASE UNCHANGED financeAnswer
      BY <2>1, <2>2, <2>4, <2>5, <1>t, <1>g DEF FinanceHandled
    <2>6. ASSUME NEW status, NEW body, F!AnsweredAtOnce(s), F!Answers(s, status, body),
                 status = 200 => op = "list"
          PROVE  FinanceHandled(s)
      <3>1. /\ DOMAIN financeAnswer' = Requests
            /\ \A t \in Requests : t # s => financeAnswer'[t] = financeAnswer[t]
            /\ financeAnswer'[s].status = status /\ financeAnswer'[s].epoch = epoch
        BY <2>6, <1>0, <1>t DEF F!Answers
      <3>2. pc'[s] = "answered"
        BY <2>6, <1>0 DEF F!AnsweredAtOnce, CallsTypeOK
      <3> QED
        BY <2>1, <2>2, <2>6, <3>1, <3>2, <1>t, <1>g, <1>p DEF FinanceHandled
    <2> QED
      BY <2>1, <2>5, <2>6 DEF F!Responds
  \* An await that ends.
  <1>2. ASSUME ~(F!CreatePayment(s) \/ F!ListPayments(s)) PROVE FinanceHandled(s)
    <2>1. /\ UNCHANGED <<financeCall, financeReply, ledger>>
          /\ pc[s] = "waiting"
          /\ F!Returns(s) \/ \E status \in FailureCodes : F!Raises(s, status)
      BY <1>2, <1>g DEF F!Gateway, F!CreateReturns, F!ListReturns, F!CreateRaises,
         F!ListRaises, F!Returns, F!Raises, F!Refused, F!OutOfReach
    <2>2. /\ financeCall[s].op = FinanceOp[s] /\ financeCall[s].order = TheOrder
          /\ financeAnswer[s].status # 200
      BY <2>1, <1>a, <1>s DEF FinanceStageInv
    <2>3. pc'[s] = "answered"
      BY <2>1, <1>0 DEF CallsTypeOK, F!Returns, F!Raises, F!Refused, F!OutOfReach
    <2>4. ASSUME NEW status, NEW body, F!Answers(s, status, body)
          PROVE  /\ DOMAIN financeAnswer' = Requests
                 /\ \A t \in Requests : t # s => financeAnswer'[t] = financeAnswer[t]
                 /\ financeAnswer'[s].status = status /\ financeAnswer'[s].epoch = epoch
      BY <2>4, <1>0, <1>t DEF F!Answers
    \* A list leaves the store alone.
    <2>5. CASE FinanceOp[s] = "list"
      <3>1. UNCHANGED payments
        BY <1>2, <1>g, <2>2, <2>5 DEF F!Gateway, F!CreateReturns, F!ListReturns,
           F!CreateRaises, F!ListRaises
      <3>2. \E status, body : F!Answers(s, status, body)
        BY <1>2, <1>g DEF F!Gateway, F!CreateReturns, F!ListReturns,
           F!CreateRaises, F!ListRaises, F!Responds, F!Fails
      <3> QED
        BY <2>1, <2>2, <2>3, <2>4, <2>5, <3>1, <3>2, <1>p, <1>t DEF FinanceHandled
    \* A payment is kept before it is acknowledged.
    <2>6. CASE FinanceOp[s] = "create"
      <3>1. F!CreateReturns(s) \/ \E status \in FailureCodes : F!CreateRaises(s, status)
        BY <1>2, <1>g, <2>2, <2>6 DEF F!Gateway, F!ListReturns, F!ListRaises
      <3>2. ASSUME NEW added \in Seq(F!Payment), payments' = F!Kept(TheOrder, added)
            PROVE  /\ payments' \in [{TheOrder} -> Seq(F!Payment)]
                   /\ F!Shows(payments[TheOrder]) \subseteq F!Shows(payments'[TheOrder])
                   /\ F!Shows(added) \subseteq F!Shows(payments'[TheOrder])
        <4>1. payments'[TheOrder] = payments[TheOrder] \o added
          BY <3>2, <1>t DEF F!Kept
        <4>2. payments[TheOrder] \o added \in Seq(F!Payment)
          BY <1>t, ShowsBoth
        <4>3. payments' \in [{TheOrder} -> Seq(F!Payment)]
          BY <3>2, <1>t, <4>2 DEF F!Kept
        <4> QED
          BY <4>1, <4>3, <1>t, ShowsBoth
      <3>3. CASE F!CreateReturns(s)
        <4>1. payments' = F!Kept(TheOrder, financeReply[s]) /\ seen'[s] = "OK"
          BY <3>3, <2>2, <1>0 DEF F!CreateReturns, F!Returns, CallsTypeOK
        <4>2. \E status, body : /\ F!Answers(s, status, body)
                                /\ status = 200 => financeReply[s] # <<>>
          BY <3>3 DEF F!CreateReturns, F!Responds
        <4>3. financeReply[s] # <<>> => s \in F!Shows(financeReply[s])
          <5> SUFFICES ASSUME financeReply[s] # <<>> PROVE s \in F!Shows(financeReply[s])
            OBVIOUS
          <5>1. 1 \in DOMAIN financeReply[s]
            BY <1>t
          <5>2. financeReply[s][1].amount = s
            BY <5>1, <1>a, <1>p, <2>6 DEF LedgerInv
          <5> QED
            BY <5>1, <5>2 DEF F!Shows
        <4> QED
          BY <2>1, <2>2, <2>3, <2>4, <3>2, <4>1, <4>2, <4>3, <1>t DEF FinanceHandled
      <3>4. ASSUME NEW status \in FailureCodes, F!CreateRaises(s, status)
            PROVE  FinanceHandled(s)
        <4>1. seen'[s] = status
          BY <3>4, <1>0 DEF F!CreateRaises, F!Raises, F!Refused, F!OutOfReach, CallsTypeOK
        <4>2. CASE ~F!FallsBackOn(status)
          <5>1. F!Answers(s, F!MapGrpcError(status).status_code, <<>>) /\ UNCHANGED payments
            BY <3>4, <4>2 DEF F!CreateRaises, F!Fails
          <5>2. F!MapGrpcError(status).status_code # 200
            BY FinanceErrors
          <5> QED
            BY <2>1, <2>2, <2>3, <2>4, <5>1, <5>2, <1>t DEF FinanceHandled
        <4>3. CASE F!FallsBackOn(status)
          <5>1. /\ payments' = F!Kept(TheOrder, <<F!OwnPayment(s)>>)
                /\ F!Responds(s, <<F!OwnPayment(s)>>)
            BY <3>4, <4>3, <2>2 DEF F!CreateRaises
          <5>2. F!OwnPayment(s) \in F!Payment /\ F!OwnPayment(s).amount = s
            BY <1>0 DEF F!OwnPayment, F!Payment
          <5>3. <<F!OwnPayment(s)>> \in Seq(F!Payment) /\ s \in F!Shows(<<F!OwnPayment(s)>>)
            BY <5>2, OnePayment
          <5>4. \E code, body : F!Answers(s, code, body)
            BY <5>1 DEF F!Responds
          <5>5. status \in MOCKABLE_DOWNSTREAM_GAP_CODES
            BY <4>3, FinanceErrors
          <5>6. /\ DOMAIN financeAnswer' = Requests
                /\ \A t \in Requests : t # s => financeAnswer'[t] = financeAnswer[t]
                /\ financeAnswer'[s].epoch = epoch
            BY <5>4, <2>4
          <5>7. /\ payments' \in [{TheOrder} -> Seq(F!Payment)]
                /\ F!Shows(payments[TheOrder]) \subseteq F!Shows(payments'[TheOrder])
                /\ s \in F!Shows(payments'[TheOrder])
            BY <5>1, <5>3, <3>2
          <5> QED
            BY <2>1, <2>2, <2>3, <4>1, <5>5, <5>6, <5>7, <1>t DEF FinanceHandled
        <4> QED
          BY <4>2, <4>3
      <3> QED
        BY <3>1, <3>3, <3>4
    <2> QED
      BY <2>5, <2>6, <1>0
  <1> QED
    BY <1>1, <1>2

\* What the finance service, or its mock, makes of the ledger and of the reply.
FinanceServed(s) ==
    /\ UNCHANGED <<financeCall, financeAnswer, payments>>
    /\ financeReply' \in [Requests -> Seq(F!Payment)]
    /\ ledger' \in [{TheOrder} -> Seq(F!Payment)]
    /\ \A t \in Requests : t # s => financeReply'[t] = financeReply[t]
    /\ s \in Payments => \A i \in DOMAIN financeReply'[s] : financeReply'[s][i].amount = s
    /\ F!Shows(ledger[TheOrder]) \subseteq F!Shows(ledger'[TheOrder])
    /\ s \in Payments /\ deployment = "services" => s \in F!Shows(ledger'[TheOrder])

\* Each method of the service does so.
LEMMA FinanceServiceServes ==
    ASSUME CallsTypeOK, LifeInv, MoneyInv, NEW s \in DOMAIN FinanceOp, FinanceService(s)
    PROVE  FinanceServed(s)
  <1>0. s \in Requests /\ FinanceOp[s] \in {"create", "list"}
    BY CoreFlowAssumption DEF CoreFlowAssumption, Steps, FinanceOp
  <1>p. s \in Payments <=> FinanceOp[s] = "create"
    BY DEF Payments, FinanceOp
  <1>a. MoneyTypeOK /\ FinanceStageInv /\ LedgerInv
    BY DEF MoneyInv
  <1>t. /\ payments[TheOrder] \in Seq(F!Payment) /\ ledger[TheOrder] \in Seq(F!Payment)
        /\ ledger \in [{TheOrder} -> Seq(F!Payment)]
        /\ financeReply \in [Requests -> Seq(F!Payment)]
    BY <1>a DEF MoneyTypeOK
  <1>e. <<>> \in Seq(F!Payment)
    OBVIOUS
  \* The reply and the ledger, when the reply is body.
  <1>1. ASSUME NEW body \in Seq(F!Payment),
               financeReply' = [financeReply EXCEPT ![s] = body],
               s \in Payments => \A i \in DOMAIN body : body[i].amount = s
        PROVE  /\ financeReply' \in [Requests -> Seq(F!Payment)]
               /\ \A t \in Requests : t # s => financeReply'[t] = financeReply[t]
               /\ s \in Payments =>
                     \A i \in DOMAIN financeReply'[s] : financeReply'[s][i].amount = s
    BY <1>1, <1>0, <1>t
  <1>2. CASE deployment = "mocks"
    <2>1. /\ UNCHANGED <<financeCall, financeAnswer, payments, ledger>>
          /\ financeReply' = [financeReply EXCEPT
                                 ![s] = Mock!BuildPaymentResponse(Method(s), s)]
      BY <1>2 DEF FinanceService
    <2>2. Mock!MockPayment(s) \in F!Payment /\ Mock!MockPayment(s).amount = s
      BY <1>0 DEF Mock!MockPayment, F!Payment
    <2> DEFINE body == Mock!BuildPaymentResponse(Method(s), s)
    <2>3. body = <<Mock!MockPayment(s)>> \/ body = <<>>
      BY DEF Mock!BuildPaymentResponse
    <2> HIDE DEF body
    <2>4. body \in Seq(F!Payment) /\ \A i \in DOMAIN body : body[i].amount = s
      <3>1. CASE body = <<>>
        BY <3>1, <1>e
      <3>2. CASE body = <<Mock!MockPayment(s)>>
        BY <3>2, <2>2, OnePayment
      <3> QED
        BY <2>3, <3>1, <3>2
    <2> QED
      BY <2>1, <2>4, <1>1, <1>2, <1>t DEF FinanceServed, body
  <1>3. CASE deployment # "mocks"
    <2>1. F!Service(s)
      BY <1>3 DEF FinanceService
    <2>2. pc[s] # "idle"
      BY <2>1, <1>0 DEF F!Service, F!ServesCreate, F!ServesList, F!Executes, LifeInv
    <2>3. financeCall[s].op = FinanceOp[s] /\ financeCall[s].order = TheOrder
      BY <2>2, <1>a DEF FinanceStageInv
    <2>4. CASE FinanceOp[s] = "list"
      <3>1. /\ financeReply' = [financeReply EXCEPT ![s] = ledger[TheOrder]]
            /\ UNCHANGED <<financeCall, financeAnswer, payments, ledger>>
        BY <2>1, <2>3, <2>4 DEF F!Service, F!ServesCreate, F!ServesList
      <3> QED
        BY <3>1, <2>4, <1>1, <1>p, <1>t DEF FinanceServed
    <2>5. CASE FinanceOp[s] = "create"
      <3> DEFINE entry == [payment_id |-> "service", amount |-> s, valid |-> TRUE]
                 unfit == [entry EXCEPT !.valid = FALSE]
      <3>1. /\ ledger' = [ledger EXCEPT ![TheOrder] = Append(@, entry)]
            /\ \E body \in {<<entry>>, <<unfit>>, <<>>} :
                  financeReply' = [financeReply EXCEPT ![s] = body]
            /\ UNCHANGED <<financeCall, financeAnswer, payments>>
        BY <2>1, <2>3, <2>5 DEF F!Service, F!ServesCreate, F!ServesList
      <3>2. entry \in F!Payment /\ unfit \in F!Payment /\ entry.amount = s /\ unfit.amount = s
        BY <1>0 DEF F!Payment
      <3> HIDE DEF entry, unfit
      <3>3. PICK body \in {<<entry>>, <<unfit>>, <<>>} :
               financeReply' = [financeReply EXCEPT ![s] = body]
        BY <3>1
      <3>4. body \in Seq(F!Payment) /\ \A i \in DOMAIN body : body[i].amount = s
        <4>1. CASE body = <<>>
          BY <4>1, <1>e
        <4>2. CASE body # <<>>
          BY <4>2, <3>2, <3>3, OnePayment
        <4> QED
          BY <4>1, <4>2
      <3>5. <<entry>> \in Seq(F!Payment) /\ s \in F!Shows(<<entry>>)
        BY <3>2, OnePayment
      <3>6. Append(ledger[TheOrder], entry) = ledger[TheOrder] \o <<entry>>
        BY <1>t, <3>2, AppendIsConcat
      <3>7. ledger'[TheOrder] = ledger[TheOrder] \o <<entry>>
        BY <3>1, <3>6, <1>t
      <3>8. ledger'[TheOrder] \in Seq(F!Payment)
        BY <3>5, <3>7, <1>t, ShowsBoth
      <3>9. ledger' \in [{TheOrder} -> Seq(F!Payment)]
        BY <3>1, <3>8, <1>t
      <3>10. /\ F!Shows(ledger[TheOrder]) \subseteq F!Shows(ledger'[TheOrder])
             /\ s \in F!Shows(ledger'[TheOrder])
        BY <3>5, <3>7, <1>t, ShowsBoth
      <3> QED
        BY <3>1, <3>3, <3>4, <3>9, <3>10, <1>1 DEF FinanceServed
    <2> QED
      BY <2>4, <2>5, <1>0
  <1> QED
    BY <1>2, <1>3

\* The requests that a step is not about keep their accounts.
LEMMA OthersStay ==
    ASSUME CallsTypeOK, NEW s \in Steps, Route(s) \/ Serves(s)
    PROVE  /\ epoch' = epoch
           /\ \A t \in Steps : t # s => pc'[t] = pc[t] /\ svc'[t] = svc[t] /\ seen'[t] = seen[t]
  <1>0. Steps = Requests
    BY CoreFlowAssumption DEF CoreFlowAssumption
  <1>1. CASE AnsweredAtOnce(s) \/ Sends(s) \/ Executes(s)
    BY <1>1, <1>0 DEF AnsweredAtOnce, Sends, Executes, CallsTypeOK
  <1>2. CASE Wakes(s)
    BY <1>2, <1>0, Waking DEF CallsTypeOK
  <1> QED
    BY <1>1, <1>2, RouteCalls, ServesCalls

\* What a finance request is told is in its answer.
LEMMA AckedIs ==
    ASSUME NEW s \in DOMAIN FinanceOp
    PROVE  /\ Acked(s) <=> financeAnswer[s].status = 200
           /\ Acked(s)' <=> financeAnswer'[s].status = 200
           /\ s \in Steps /\ s \in Requests
  BY CoreFlowAssumption
     DEF CoreFlowAssumption, Acked, Status, Steps, FinanceOp, ServiceOp, DispatchOp, OrderOp

\* The first state has no payments.
LEMMA MoneyInvInit == Init => MoneyInv
  <1> SUFFICES ASSUME Init PROVE MoneyInv
    OBVIOUS
  <1>0. \A s \in DOMAIN FinanceOp : ~Acked(s) /\ s \in Requests
    BY AckedIs DEF Init, F!Init
  <1>1. /\ financeAnswer = [r \in Requests |-> [status |-> 0, body |-> <<>>, epoch |-> 0]]
        /\ financeReply = [r \in Requests |-> <<>>]
        /\ payments = [o \in {TheOrder} |-> <<>>] /\ ledger = [o \in {TheOrder} |-> <<>>]
        /\ DOMAIN financeCall = Requests
        /\ pc = [r \in Requests |-> "idle"] /\ svc = [r \in Requests |-> "none"] /\ epoch = 0
        /\ deployment \in Deployments
    BY DEF Init, F!Init, F!CallsInit
  <1>2. <<>> \in Seq(F!Payment)
    OBVIOUS
  <1>3. MoneyTypeOK
    BY <1>1, <1>2 DEF MoneyTypeOK
  <1>4. FinanceStageInv
    BY <1>0, <1>1 DEF FinanceStageInv
  <1>5. Payments \subseteq DOMAIN FinanceOp
    BY DEF Payments, FinanceOp
  <1>6. LedgerInv /\ AcknowledgedInv
    BY <1>0, <1>1, <1>5 DEF LedgerInv, AcknowledgedInv
  <1> QED
    BY <1>3, <1>4, <1>6 DEF MoneyInv

\* The steps of the finance requests keep the invariants, and the steps of others do
\* because they leave the finance requests alone.
LEMMA MoneyInvStep == ProcessInv /\ MoneyInv /\ [Next]_vars => MoneyInv'
  <1> SUFFICES ASSUME ProcessInv, MoneyInv, [Next]_vars PROVE MoneyInv'
    OBVIOUS
  <1>0. Steps = Requests
    BY CoreFlowAssumption DEF CoreFlowAssumption
  <1>a. CallsTypeOK /\ LifeInv /\ CallsTypeOK' /\ LifeInv'
    BY ProcessInvStep DEF ProcessInv
  <1>b. MoneyTypeOK /\ FinanceStageInv /\ LedgerInv /\ AcknowledgedInv
    BY DEF MoneyInv
  <1>e. epoch \in Nat /\ epoch' \in Nat
    BY <1>a, CallsAssumption DEF CallsTypeOK, CallsAssumption
  <1>p. \A p \in Payments : p \in DOMAIN FinanceOp /\ p \in Requests
    BY AckedIs DEF Payments, FinanceOp
  <1>k. \A t \in DOMAIN FinanceOp :
           /\ Acked(t) <=> financeAnswer[t].status = 200
           /\ Acked(t)' <=> financeAnswer'[t].status = 200
           /\ t \in Requests
    BY AckedIs
  \* The finance requests are left alone.
  <1>1. ASSUME UNCHANGED financeVars, UNCHANGED <<deployment, epoch>>,
               \A t \in DOMAIN FinanceOp :
                  pc'[t] = pc[t] /\ svc'[t] = svc[t] /\ seen'[t] = seen[t]
        PROVE  MoneyInv'
    <2>1. MoneyTypeOK'
      BY <1>1, <1>b DEF MoneyTypeOK, financeVars
    <2>2. FinanceStageInv'
      BY <1>1, <1>b, <1>k DEF FinanceStageInv, financeVars
    <2>3. LedgerInv' /\ AcknowledgedInv'
      BY <1>1, <1>b, <1>k, <1>p DEF LedgerInv, AcknowledgedInv, financeVars
    <2> QED
      BY <2>1, <2>2, <2>3 DEF MoneyInv
  \* A finance route.
  <1>2. ASSUME NEW s \in DOMAIN FinanceOp, FinanceRoute(s) PROVE MoneyInv'
    <2>1. FinanceHandled(s)
      BY <1>2, <1>a, FinanceRouteHandles
    <2>2. Route(s) /\ s \in Steps
      BY <1>2, <1>k, <1>0 DEF Route
    <2>3. /\ epoch' = epoch /\ deployment' = deployment
          /\ \A t \in Steps : t # s => pc'[t] = pc[t] /\ svc'[t] = svc[t] /\ seen'[t] = seen[t]
          /\ svc'[s] = "executed" => svc[s] = "executed"
      <3>1. svc'[s] = "executed" => svc[s] = "executed"
        BY <2>2, <1>0, <1>a, RouteCalls
           DEF AnsweredAtOnce, Sends, Wakes, Returns, Raises, Refused, OutOfReach, CallsTypeOK
      <3> QED
        BY <2>2, <3>1, <1>a, RouteCalls, OthersStay
    <2>4. MoneyTypeOK'
      BY <2>1, <2>3, <1>b DEF MoneyTypeOK, FinanceHandled
    <2>5. FinanceStageInv'
      <3> SUFFICES ASSUME NEW t \in DOMAIN FinanceOp
                   PROVE  /\ pc'[t] # "idle" => /\ financeCall'[t].op = FinanceOp[t]
                                                /\ financeCall'[t].order = TheOrder
                          /\ Acked(t)' => pc'[t] = "answered"
                          /\ financeAnswer'[t].epoch \in 0..epoch'
        BY DEF FinanceStageInv
      <3>1. CASE t = s
        BY <3>1, <2>1, <2>3, <1>b, <1>k, <1>e DEF FinanceHandled, FinanceStageInv
      <3>2. CASE t # s
        BY <3>2, <2>1, <2>3, <1>0, <1>b, <1>k DEF FinanceHandled, FinanceStageInv
      <3> QED
        BY <3>1, <3>2
    <2>6. LedgerInv'
      BY <2>1, <2>3, <1>0, <1>b, <1>p DEF LedgerInv, FinanceHandled
    <2>7. AcknowledgedInv'
      <3> SUFFICES ASSUME NEW t \in Payments, Acked(t)'
                   PROVE  /\ seen'[t] = "OK" \/ seen'[t] \in MOCKABLE_DOWNSTREAM_GAP_CODES
                          /\ financeAnswer'[t].epoch = epoch' =>
                                t \in F!Shows(payments'[TheOrder])
        BY DEF AcknowledgedInv
      <3>1. CASE t = s
        BY <3>1, <2>1, <1>k, <1>p DEF FinanceHandled
      <3>2. CASE t # s
        BY <3>2, <2>1, <2>3, <1>0, <1>b, <1>k, <1>p DEF FinanceHandled, AcknowledgedInv
      <3> QED
        BY <3>1, <3>2
    <2> QED
      BY <2>4, <2>5, <2>6, <2>7 DEF MoneyInv
  \* The finance service.
  <1>3. ASSUME NEW s \in DOMAIN FinanceOp, FinanceService(s) PROVE MoneyInv'
    <2>1. FinanceServed(s)
      BY <1>3, <1>a, FinanceServiceServes
    <2>2. Serves(s) /\ s \in Steps
      BY <1>3, <1>k, <1>0 DEF Serves
    <2>3. /\ epoch' = epoch /\ deployment' = deployment
          /\ pc' = pc /\ seen' = seen
          /\ \A t \in Steps : t # s => svc'[t] = svc[t]
      BY <2>2, <1>a, ServesCalls, OthersStay DEF Executes
    <2>4. MoneyTypeOK'
      BY <2>1, <2>3, <1>b DEF MoneyTypeOK, FinanceServed
    <2>5. FinanceStageInv'
      BY <2>1, <2>3, <1>b, <1>k DEF FinanceStageInv, FinanceServed
    <2>6. LedgerInv'
      <3> SUFFICES ASSUME NEW p \in Payments
                   PROVE  /\ \A i \in DOMAIN financeReply'[p] : financeReply'[p][i].amount = p
                          /\ deployment' = "services" /\ svc'[p] = "executed" =>
                                p \in F!Shows(ledger'[TheOrder])
        BY DEF LedgerInv
      <3>1. CASE p = s
        BY <3>1, <2>1, <2>3 DEF FinanceServed
      <3>2. CASE p # s
        BY <3>2, <2>1, <2>3, <1>0, <1>b, <1>p DEF FinanceServed, LedgerInv
      <3> QED
        BY <3>1, <3>2
    <2>7. AcknowledgedInv'
      BY <2>1, <2>3, <1>b, <1>k, <1>p DEF AcknowledgedInv, FinanceServed
    <2> QED
      BY <2>4, <2>5, <2>6, <2>7 DEF MoneyInv
  <1>4. ASSUME NEW s \in Steps, Route(s) \/ Serves(s) PROVE MoneyInv'
    <2>1. CASE (s \in DOMAIN FinanceOp /\ FinanceRoute(s))
               \/ (s \in DOMAIN FinanceOp /\ FinanceService(s))
      BY <2>1, <1>2, <1>3
    <2>2. CASE s \notin DOMAIN FinanceOp
      <3>1. UNCHANGED financeVars
        BY <1>4, <2>2 DEF Route, Serves, OrderRoute, OrderService, DispatchRoute,
           DispatchService, ServiceRoute, ServiceExecutionService
      <3>2. UNCHANGED <<deployment, epoch>>
        BY <1>4, <1>a, RouteCalls, ServesCalls, OthersStay
      <3> QED
        BY <3>1, <3>2, <2>2, <1>0, <1>1, <1>4, <1>a, <1>k, OthersStay
    <2>3. CASE s \in DOMAIN FinanceOp
      <3>1. s \notin DOMAIN OrderOp /\ s \notin DOMAIN DispatchOp /\ s \notin DOMAIN ServiceOp
        BY <2>3 DEF OrderOp, DispatchOp, ServiceOp, FinanceOp
      <3> QED
        BY <1>4, <2>1, <2>3, <3>1 DEF Route, Serves
    <2> QED
      BY <2>2, <2>3
  <1>5. CASE Starts \/ Stops \/ UNCHANGED vars
    BY <1>5, <1>1 DEF Starts, Stops, vars, callVars, routeVars, financeVars
  \* With the process goes its store, and a new incarnation begins.
  <1>6. CASE Exits \/ Dies
    <2>1. /\ Crashes /\ UNCHANGED <<financeCall, financeReply, financeAnswer, ledger, deployment>>
          /\ payments' = [o \in {TheOrder} |-> <<>>]
      BY <1>6, RestartCalls DEF Exits, Dies, Restarts, F!Restart
    <2>2. /\ epoch' = epoch + 1 /\ UNCHANGED <<svc, seen>>
          /\ \A t \in Requests : /\ pc'[t] # "idle" => pc[t] # "idle"
                                 /\ pc[t] = "answered" => pc'[t] = "answered"
      BY <2>1, <1>a DEF Crashes, CallsTypeOK
    <2>3. MoneyTypeOK'
      <3>1. <<>> \in Seq(F!Payment)
        OBVIOUS
      <3> QED
        BY <2>1, <3>1, <1>b DEF MoneyTypeOK
    <2>4. FinanceStageInv'
      BY <2>1, <2>2, <1>b, <1>k, <1>e DEF FinanceStageInv
    <2>5. LedgerInv'
      BY <2>1, <2>2, <1>b, <1>p DEF LedgerInv
    <2>6. AcknowledgedInv'
      <3>1. \A t \in Payments : financeAnswer'[t].epoch # epoch'
        BY <2>1, <2>2, <1>b, <1>e, <1>p DEF FinanceStageInv
      <3> QED
        BY <3>1, <2>1, <2>2, <1>b, <1>k, <1>p DEF AcknowledgedInv
    <2> QED
      BY <2>3, <2>4, <2>5, <2>6 DEF MoneyInv
  <1> QED
    BY <1>4, <1>5, <1>6, StepKinds

-----------------------------------------------------------------------------
(* What the order routes and the order service do. *)

Entry == [order : {TheOrder}, customer : {"customer", "", "None"}, by : Requests,
          status : O!OrderStatus \cup {"UNSPECIFIED"}]

\* What was asked of the order service, and what it has entered.
OrderTypeOK ==
    /\ DOMAIN orderCall = Requests
    /\ orderAsked \in [Requests -> O!Asked]
    /\ orderJournal \in Seq(Entry)

\* An order request asks for what its step does.
OrderStageInv ==
    \A s \in DOMAIN OrderOp : pc[s] # "idle" => orderCall[s].op = OrderOp[s]

\* Only the close makes an order PAID, and it is not asked for before a payment of the
\* order was acknowledged.
CloseInv ==
    /\ \A i \in DOMAIN orderJournal : orderJournal[i].status = "PAID" => pc["close"] # "idle"
    /\ pc["close"] # "idle" => Paid

OrderInv == OrderTypeOK /\ OrderStageInv /\ CloseInv

\* The first state has no orders.
LEMMA OrderInvInit == Init => OrderInv
  <1> SUFFICES ASSUME Init PROVE OrderInv
    OBVIOUS
  <1>1. /\ pc = [r \in Requests |-> "idle"] /\ DOMAIN orderCall = Requests
        /\ orderAsked = [r \in Requests |-> O!NoAsked] /\ orderJournal = <<>>
    BY DEF Init, O!Init, O!CallsInit
  <1>2. O!NoAsked \in O!Asked
    BY DEF O!NoAsked, O!Asked
  <1>3. DOMAIN OrderOp \subseteq Requests /\ "close" \in Requests
    BY CoreFlowAssumption DEF CoreFlowAssumption, Steps, OrderOp
  <1>4. <<>> \in Seq(Entry)
    OBVIOUS
  <1>5. DOMAIN orderJournal = {}
    BY <1>1
  <1> QED
    BY <1>1, <1>2, <1>3, <1>4, <1>5 DEF OrderInv, OrderTypeOK, OrderStageInv, CloseInv

\* An acknowledged payment stays acknowledged.
LEMMA PaidStays ==
    ASSUME ProcessInv, MoneyInv, [Next]_vars, Paid
    PROVE  Paid'
  <1>a. CallsTypeOK /\ FinanceStageInv
    BY DEF ProcessInv, MoneyInv
  <1>b. ASSUME NEW p \in Payments, Acked(p) PROVE Acked(p)'
    <2>1. p \in DOMAIN FinanceOp
      BY DEF Payments, FinanceOp
    <2>2. pc[p] = "answered" /\ financeAnswer[p].status = 200 /\ p \in Requests
      BY <1>a, <1>b, <2>1, AckedIs DEF FinanceStageInv
    <2>3. CASE financeAnswer' = financeAnswer
      BY <2>1, <2>2, <2>3, AckedIs
    <2>4. ASSUME NEW s \in DOMAIN FinanceOp, FinanceRoute(s) PROVE Acked(p)'
      <3>1. FinanceHandled(s)
        BY <2>4, <1>a, FinanceRouteHandles
      <3>2. p # s
        BY <2>2, <2>4 DEF FinanceRoute, Goes
      <3> QED
        BY <2>1, <2>2, <3>1, <3>2, AckedIs DEF FinanceHandled
    <2>5. ASSUME NEW s \in DOMAIN FinanceOp, FinanceService(s) PROVE Acked(p)'
      <3>1. financeAnswer' = financeAnswer
        BY <2>5, <1>a, FinanceServiceServes DEF FinanceServed, ProcessInv
      <3> QED
        BY <2>3, <3>1
    <2>6. ASSUME NEW s \in Steps, Route(s) \/ Serves(s) PROVE Acked(p)'
      BY <2>3, <2>4, <2>5, <2>6
         DEF Route, Serves, OrderRoute, OrderService, DispatchRoute, DispatchService,
             ServiceRoute, ServiceExecutionService, financeVars
    <2>7. CASE Starts \/ Stops \/ Exits \/ Dies \/ UNCHANGED vars
      BY <2>3, <2>7
         DEF Starts, Stops, Exits, Dies, Restarts, F!Restart, vars, routeVars, financeVars
    <2> QED
      BY <2>6, <2>7, StepKinds
  <1> QED
    BY <1>b DEF Paid, Payments

\* An order service that enters an order as PAID was asked to close it, and the gateway
\* asks that only when it is the turn of the close.
LEMMA OrderInvStep == ProcessInv /\ MoneyInv /\ OrderInv /\ [Next]_vars => OrderInv'
  <1> SUFFICES ASSUME ProcessInv, MoneyInv, OrderInv, [Next]_vars PROVE OrderInv'
    OBVIOUS
  <1>0. Steps = Requests /\ "close" \in Requests /\ "close" \in DOMAIN OrderOp
        /\ DOMAIN OrderOp \subseteq Requests
    BY CoreFlowAssumption DEF CoreFlowAssumption, Steps, OrderOp
  <1>a. CallsTypeOK /\ LifeInv /\ CallsTypeOK' /\ LifeInv'
    BY ProcessInvStep DEF ProcessInv
  <1>b. OrderTypeOK /\ OrderStageInv /\ CloseInv
    BY DEF OrderInv
  <1>p. Paid => Paid'
    BY PaidStays
  <1>g. \A t \in Requests : pc[t] # "idle" => pc'[t] # "idle"
    BY <1>a, StepOfCalls, LifeGoesOn
  \* The order requests are left alone, but for being lost.
  <1>1. ASSUME UNCHANGED orderVars, \A t \in DOMAIN OrderOp : pc'[t] # "idle" => pc[t] # "idle"
        PROVE  OrderInv'
    <2>1. OrderTypeOK'
      BY <1>1, <1>b DEF OrderTypeOK, orderVars
    <2>2. OrderStageInv'
      BY <1>1, <1>b DEF OrderStageInv, orderVars
    <2>3. CloseInv'
      BY <1>0, <1>1, <1>b, <1>g, <1>p DEF CloseInv, orderVars
    <2> QED
      BY <2>1, <2>2, <2>3 DEF OrderInv
  <1>2. ASSUME NEW s \in DOMAIN OrderOp, OrderRoute(s) PROVE OrderInv'
    <2>1. Route(s) /\ s \in Steps
      BY <1>0, <1>2 DEF Route
    <2>2. \A t \in Requests : t # s => pc'[t] = pc[t]
      BY <2>1, <1>0, <1>a, OthersStay
    <2>3. /\ orderJournal' = orderJournal /\ Goes(s)
          /\ \/ O!Request(s) /\ orderCall'[s].op = OrderOp[s] /\ pc'[s] = "waiting"
             \/ UNCHANGED <<orderCall, orderAsked>> /\ pc[s] = "waiting"
      <3>1. O!Request(s) => orderJournal' = orderJournal
        BY DEF O!Request
      <3>2. O!Replies(s) =>
               UNCHANGED <<orderCall, orderAsked, orderJournal>> /\ pc[s] = "waiting"
        BY DEF O!Replies, O!Returns
      <3>3. (\E status \in FailureCodes : O!Fails(s, status)) =>
               UNCHANGED <<orderCall, orderAsked, orderJournal>> /\ pc[s] = "waiting"
        BY DEF O!Fails, O!Raises, O!Refused, O!OutOfReach
      <3> QED
        BY <1>2, <3>1, <3>2, <3>3 DEF OrderRoute
    <2>4. /\ DOMAIN orderCall' = Requests
          /\ \A t \in Requests : t # s => orderCall'[t] = orderCall[t]
          /\ orderAsked' \in [Requests -> O!Asked]
          /\ orderCall'[s].op = OrderOp[s]
      <3>1. CASE UNCHANGED <<orderCall, orderAsked>> /\ pc[s] = "waiting"
        BY <3>1, <1>b DEF OrderTypeOK, OrderStageInv
      <3>2. CASE O!Request(s) /\ orderCall'[s].op = OrderOp[s] /\ pc'[s] = "waiting"
        <4>1. PICK op \in O!Ops : \E c \in O!Asks(op) :
                 /\ orderCall' = [orderCall EXCEPT ![s] = c]
                 /\ O!AnsweredAtOnce(s) \/ orderAsked' = [orderAsked EXCEPT ![s] = O!MessageOf(c)]
          BY <3>2 DEF O!Request
        <4>2. PICK c \in O!Asks(op) :
                 /\ orderCall' = [orderCall EXCEPT ![s] = c]
                 /\ O!AnsweredAtOnce(s) \/ orderAsked' = [orderAsked EXCEPT ![s] = O!MessageOf(c)]
          BY <4>1
        <4>3. c.op = op
          BY DEF O!Asks
        <4>4. op = OrderOp[s]
          BY <3>2, <4>2, <4>3, <1>0, <1>b DEF OrderTypeOK
        <4>5. op \in {"create", "close", "get"}
          BY <4>4 DEF OrderOp
        <4>6. op = "create" => c.customer = "customer"
          BY DEF O!Asks
        <4>7. O!MessageOf(c) \in O!Asked
          <5>1. c.window = O!NoWindow
            BY <4>3, <4>5 DEF O!Asks
          <5> HIDE DEF O!NoWindow
          <5> QED
            BY <4>3, <4>5, <4>6, <5>1 DEF O!MessageOf, O!Asked, O!OrderStatus
        <4>8. ~O!AnsweredAtOnce(s)
          BY <3>2, <1>0, <1>a DEF O!AnsweredAtOnce, CallsTypeOK
        <4> QED
          BY <3>2, <4>2, <4>7, <4>8, <1>0, <1>b DEF OrderTypeOK
      <3> QED
        BY <2>3, <3>1, <3>2
    <2>5. OrderTypeOK'
      BY <2>3, <2>4, <1>b DEF OrderTypeOK
    <2>6. OrderStageInv'
      BY <2>2, <2>4, <1>0, <1>b DEF OrderStageInv
    \* Whoever closes has paid.
    <2>7. CloseInv'
      <3>1. pc'["close"] # "idle" => Paid'
        <4>1. CASE pc["close"] # "idle"
          BY <4>1, <1>b, <1>p DEF CloseInv
        <4>2. CASE s # "close"
          BY <4>2, <2>2, <1>0, <1>b, <1>p DEF CloseInv
        <4>3. CASE s = "close" /\ pc["close"] = "idle"
          <5>1. Turn("close")
            BY <4>3, <2>3 DEF Goes
          <5>2. PICK i \in DOMAIN Flow :
                   /\ Flow[i] = "close"
                   /\ \A j \in 1..(i - 1) : Acked(Flow[j]) \/ (Flow[j] = "pay" /\ Paid)
            BY <5>1 DEF Turn, Looks
          <5>3. i = 7
            BY <5>2 DEF Flow
          <5>4. Flow[6] = "pay"
            BY DEF Flow
          <5>5. 6 \in 1..(i - 1)
            BY <5>3
          <5>6. Paid
            BY <5>2, <5>4, <5>5 DEF Paid
          <5> QED
            BY <5>6, <1>p
        <4> QED
          BY <4>1, <4>2, <4>3
      <3> QED
        BY <3>1, <2>3, <1>0, <1>b, <1>g DEF CloseInv
    <2> QED
      BY <2>5, <2>6, <2>7 DEF OrderInv
  <1>3. ASSUME NEW s \in DOMAIN OrderOp, OrderService(s) PROVE OrderInv'
    <2>1. Serves(s) /\ s \in Steps
      BY <1>0, <1>3 DEF Serves
    <2>2. pc' = pc /\ svc[s] = "pending"
      BY <2>1, ServesCalls DEF Executes
    <2>3. UNCHANGED <<orderCall, orderAsked>>
      BY <1>3 DEF OrderService, O!ServesCreate, O!ServesUpdate, O!ServesGet, O!Enters, O!Shows
    <2>4. pc[s] # "idle" /\ orderCall[s].op = OrderOp[s]
      BY <2>1, <2>2, <1>0, <1>a, <1>b DEF LifeInv, OrderStageInv
    <2>5. CASE orderJournal' = orderJournal
      BY <2>2, <2>3, <2>5, <1>b, <1>p DEF OrderInv, OrderTypeOK, OrderStageInv, CloseInv
    <2>6. ASSUME NEW entry \in Entry, orderJournal' = Append(orderJournal, entry),
                 entry.status = "PAID" => s = "close"
          PROVE  OrderInv'
      <3>1. orderJournal \in Seq(Entry)
        BY <1>b DEF OrderTypeOK
      <3>2. /\ orderJournal' \in Seq(Entry)
            /\ DOMAIN orderJournal' = 1..(Len(orderJournal) + 1)
            /\ \A i \in DOMAIN orderJournal : orderJournal'[i] = orderJournal[i]
            /\ orderJournal'[Len(orderJournal) + 1] = entry
        BY <2>6, <3>1, AppendProperties
      <3>3. Len(orderJournal) \in Nat /\ DOMAIN orderJournal = 1..Len(orderJournal)
        BY <3>1
      <3>4. \A i \in DOMAIN orderJournal' :
               i \in DOMAIN orderJournal \/ i = Len(orderJournal) + 1
        BY <3>2, <3>3
      <3>5. \A i \in DOMAIN orderJournal' :
               orderJournal'[i].status = "PAID" => pc'["close"] # "idle"
        BY <3>2, <3>4, <2>2, <2>4, <2>6, <1>b DEF CloseInv
      <3>6. CloseInv'
        BY <3>5, <2>2, <1>b, <1>p DEF CloseInv
      <3> QED
        BY <3>2, <3>6, <2>2, <2>3, <1>b DEF OrderInv, OrderTypeOK, OrderStageInv
    <2>7. CASE O!ServesGet(s)
      BY <2>5, <2>7 DEF O!ServesGet, O!Shows
    <2>8. CASE O!ServesCreate(s)
      <3> DEFINE entry == [order |-> TheOrder, customer |-> orderAsked[s].customer, by |-> s,
                           status |-> "CREATED"]
      <3>1. orderJournal' = Append(orderJournal, entry)
        BY <2>8 DEF O!ServesCreate, O!Enters
      <3>2. orderAsked[s].customer \in {"customer", "", "None"}
        BY <2>1, <1>0, <1>b DEF OrderTypeOK, O!Asked
      <3>3. entry \in Entry /\ entry.status # "PAID"
        BY <3>2, <2>1, <1>0 DEF Entry, O!OrderStatus
      <3> HIDE DEF entry
      <3> QED
        BY <3>1, <3>3, <2>6
    <2>9. CASE O!ServesUpdate(s)
      <3>1. s = "close" /\ O!IsHeld(orderCall[s].order)
        BY <2>4, <2>9 DEF O!ServesUpdate, OrderOp
      <3> DEFINE held == O!HeldAs(orderCall[s].order)
                 entry == [held EXCEPT !.status = orderAsked[s].status, !.by = s]
      <3>2. orderJournal' = Append(orderJournal, entry)
        BY <2>9 DEF O!ServesUpdate, O!Enters
      <3>3. held \in O!Held(orderJournal)
        BY <3>1 DEF O!IsHeld, O!HeldAs
      <3>4. held \in Entry
        BY <3>3, <1>b DEF O!Held, OrderTypeOK
      <3>5. orderAsked[s].status \in O!OrderStatus \cup {"UNSPECIFIED"}
        BY <2>1, <1>0, <1>b DEF OrderTypeOK, O!Asked
      <3>6. entry \in Entry
        <4> HIDE DEF held
        <4> QED
          BY <3>4, <3>5, <2>1, <1>0 DEF Entry
      <3> HIDE DEF entry
      <3> QED
        BY <3>1, <3>2, <3>6, <2>6
    <2> QED
      BY <1>3, <2>7, <2>8, <2>9 DEF OrderService
  <1>4. ASSUME NEW s \in Steps, Route(s) \/ Serves(s) PROVE OrderInv'
    <2>1. CASE s \in DOMAIN OrderOp
      <3>1. s \notin DOMAIN FinanceOp /\ s \notin DOMAIN DispatchOp /\ s \notin DOMAIN ServiceOp
        BY <2>1 DEF OrderOp, DispatchOp, ServiceOp, FinanceOp
      <3> QED
        BY <1>2, <1>3, <1>4, <2>1, <3>1 DEF Route, Serves
    <2>2. CASE s \notin DOMAIN OrderOp
      <3>1. UNCHANGED orderVars
        BY <1>4, <2>2 DEF Route, Serves, FinanceRoute, FinanceService, DispatchRoute,
           DispatchService, ServiceRoute, ServiceExecutionService
      <3>2. \A t \in DOMAIN OrderOp : pc'[t] = pc[t]
        BY <1>4, <2>2, <1>0, <1>a, OthersStay
      <3> QED
        BY <3>1, <3>2, <1>1
    <2> QED
      BY <2>1, <2>2
  <1>5. CASE Starts \/ Stops \/ UNCHANGED vars
    BY <1>5, <1>1 DEF Starts, Stops, vars, callVars, routeVars
  <1>6. CASE Exits \/ Dies
    <2>1. UNCHANGED orderVars /\ Crashes
      BY <1>6, RestartCalls DEF Exits, Dies, Restarts, O!Restart, O!orderVars, orderVars
    <2> QED
      BY <2>1, <1>0, <1>1 DEF Crashes
  <1> QED
    BY <1>4, <1>5, <1>6, StepKinds

\* Payments and orders, at all times.
FlowInv == ProcessInv /\ MoneyInv /\ OrderInv

\* They hold at all times.
LEMMA FlowInvariance == Spec => []FlowInv
  <1>1. Init => FlowInv
    BY ProcessInvInit, MoneyInvInit, OrderInvInit DEF FlowInv
  <1>2. FlowInv /\ [Next]_vars => FlowInv'
    BY ProcessInvStep, MoneyInvStep, OrderInvStep DEF FlowInv
  <1> QED
    BY <1>1, <1>2, PTL DEF Spec

\* An order that is PAID has a payment, which is in the store or with the finance
\* service unless the gateway or a mock confirmed it and the process was restarted since.
THEOREM PaidIsConfirmed == Spec => []PaidMeansConfirmed
  <1>1. ASSUME FlowInv, O!IsHeld(TheOrder) /\ O!HeldAs(TheOrder).status = "PAID"
        PROVE  \E p \in Payments :
                  /\ Acked(p)
                  /\ \/ HasPayment(p)
                     \/ /\ financeAnswer[p].epoch < epoch
                        /\ FellBack(p) \/ deployment = "mocks"
    <2>a. /\ LifeInv /\ MoneyTypeOK /\ FinanceStageInv /\ LedgerInv /\ AcknowledgedInv
          /\ OrderTypeOK /\ CloseInv /\ epoch \in Nat
      BY <1>1, CallsAssumption
         DEF FlowInv, ProcessInv, MoneyInv, OrderInv, CallsTypeOK, CallsAssumption
    \* The close was asked for, and so there is a payment that was acknowledged.
    <2>1. O!HeldAs(TheOrder) \in O!Held(orderJournal)
      BY <1>1 DEF O!IsHeld, O!HeldAs
    <2>2. \E i \in DOMAIN orderJournal : orderJournal[i] = O!HeldAs(TheOrder)
      BY <2>1 DEF O!Held
    <2>3. Paid
      BY <1>1, <2>2, <2>a DEF CloseInv
    <2>4. PICK p \in Payments : Acked(p)
      BY <2>3 DEF Paid, Payments
    <2>5. p \in DOMAIN FinanceOp /\ p \in Requests
      BY AckedIs DEF Payments, FinanceOp
    <2>6. financeAnswer[p].epoch \in 0..epoch
      BY <2>5, <2>a DEF FinanceStageInv
    \* Of this incarnation, it is in the store; carried out, with the service.
    <2>7. CASE financeAnswer[p].epoch = epoch
      BY <2>4, <2>7, <2>a DEF AcknowledgedInv, HasPayment
    <2>8. CASE financeAnswer[p].epoch # epoch
      <3>1. financeAnswer[p].epoch < epoch
        BY <2>6, <2>8, <2>a
      <3>2. CASE seen[p] = "OK"
        <4>1. svc[p] = "executed"
          BY <3>2, <2>5, <2>a DEF LifeInv
        <4>2. deployment = "services" \/ deployment = "mocks"
          BY <2>a, CoreFlowAssumption DEF MoneyTypeOK, CoreFlowAssumption
        <4>3. deployment = "services" => HasPayment(p)
          BY <4>1, <2>a DEF LedgerInv, HasPayment
        <4> QED
          BY <2>4, <3>1, <4>2, <4>3
      <3>3. CASE seen[p] \in MOCKABLE_DOWNSTREAM_GAP_CODES
        BY <2>4, <3>1, <3>3 DEF FellBack
      <3> QED
        BY <2>4, <3>2, <3>3, <2>a DEF AcknowledgedInv
    <2> QED
      BY <2>7, <2>8
  <1>2. FlowInv => PaidMeansConfirmed
    BY <1>1 DEF PaidMeansConfirmed, Payments
  <1> QED
    BY <1>2, FlowInvariance, PTL

-----------------------------------------------------------------------------
(* What the service execution service replies. *)

\* What was asked of the service, what it holds, and what it has replied.
RecordsTypeOK ==
    /\ DOMAIN serviceCall = Requests
    /\ serviceReply \in [Requests -> S!Reply]
    /\ archive \in [{TheOrder} -> S!Record]

\* A service request asks for what its step does, about the order.
ServiceStageInv ==
    \A s \in DOMAIN ServiceOp :
        pc[s] # "idle" => serviceCall[s].op = ServiceOp[s] /\ serviceCall[s].order = TheOrder

RecordsInv == RecordsTypeOK /\ ServiceStageInv

\* The record of an order that nothing is known of, and no reply.
LEMMA NothingKnown ==
    /\ S!NoRecord \in S!Record
    /\ S!NoReply \in S!Reply
  <1>1. S!NoRecord \in S!Record
    BY DEF S!NoRecord, S!Record, S!Token, S!None, Mock!None
  <1>2. <<>> \in Seq(S!Photo)
    OBVIOUS
  <1> QED
    BY <1>1, <1>2 DEF S!NoReply, S!Reply

\* The first state has no records.
LEMMA RecordsInvInit == Init => RecordsInv
  <1> SUFFICES ASSUME Init PROVE RecordsInv
    OBVIOUS
  <1>1. /\ pc = [r \in Requests |-> "idle"] /\ DOMAIN serviceCall = Requests
        /\ serviceReply = [r \in Requests |-> S!NoReply]
        /\ archive = [o \in {TheOrder} |-> S!NoRecord]
    BY DEF Init, S!Init, S!CallsInit
  <1>2. DOMAIN ServiceOp \subseteq Requests
    BY CoreFlowAssumption DEF CoreFlowAssumption, Steps, ServiceOp
  <1> QED
    BY <1>1, <1>2, NothingKnown DEF RecordsInv, RecordsTypeOK, ServiceStageInv

\* A request about a service asks for what its step does and leaves the service alone.
LEMMA ServiceRouteHandles ==
    ASSUME RecordsInv, NEW s \in DOMAIN ServiceOp, ServiceRoute(s)
    PROVE  /\ UNCHANGED <<serviceReply, archive>>
           /\ DOMAIN serviceCall' = Requests
           /\ \A t \in Requests : t # s => serviceCall'[t] = serviceCall[t]
           /\ serviceCall'[s].op = ServiceOp[s] /\ serviceCall'[s].order = TheOrder
  <1>0. s \in Requests
    BY CoreFlowAssumption DEF CoreFlowAssumption, Steps, ServiceOp
  <1>1. S!Gateway(s) /\ serviceCall'[s].op = ServiceOp[s]
    BY DEF ServiceRoute
  <1>2. CASE (\E op \in S!Writes : S!Write(s, op)) \/ S!GetRecord(s)
    <2>1. PICK op \in S!Writes \cup {"get"} :
             S!Asks(s, op, TheOrder) /\ UNCHANGED <<serviceReply, archive>>
      BY <1>2 DEF S!Write, S!GetRecord
    <2> QED
      BY <2>1, <1>0, <1>1 DEF S!Asks, RecordsInv, RecordsTypeOK
  <1>3. CASE ~((\E op \in S!Writes : S!Write(s, op)) \/ S!GetRecord(s))
    <2>1. UNCHANGED <<serviceCall, serviceReply, archive>>
      BY <1>1, <1>3 DEF S!Gateway, S!StartReturns, S!CompleteReturns, S!PhotoReturns,
         S!GetReturns, S!StartRaises, S!CompleteRaises, S!PhotoRaises, S!GetRaises, S!Breaks
    <2>2. pc[s] = "waiting"
      BY <1>1, <1>3 DEF S!Gateway, S!StartReturns, S!CompleteReturns, S!PhotoReturns,
         S!GetReturns, S!StartRaises, S!CompleteRaises, S!PhotoRaises, S!GetRaises, S!Returns,
         S!Raises, S!Refused, S!OutOfReach, S!Breaks
    <2> QED
      BY <2>1, <2>2, <1>0 DEF RecordsInv, RecordsTypeOK, ServiceStageInv
  <1> QED
    BY <1>2, <1>3

\* The service, or its mock, replies with a record and keeps records.
LEMMA ServiceServesRecords ==
    ASSUME LifeInv, RecordsInv, NEW s \in DOMAIN ServiceOp, ServiceExecutionService(s)
    PROVE  /\ UNCHANGED serviceCall
           /\ serviceReply' \in [Requests -> S!Reply]
           /\ archive' \in [{TheOrder} -> S!Record]
  <1>0. s \in Requests /\ ServiceOp[s] \in {"start", "complete", "get"}
    BY CoreFlowAssumption DEF CoreFlowAssumption, Steps, ServiceOp
  <1>t. /\ serviceReply \in [Requests -> S!Reply] /\ serviceReply[s] \in S!Reply
        /\ archive \in [{TheOrder} -> S!Record] /\ archive[TheOrder] \in S!Record
    BY <1>0 DEF RecordsInv, RecordsTypeOK
  <1>1. CASE deployment = "mocks"
    <2> DEFINE record == Mock!MockRecord(Method(s), s)
               made == Mock!BuildRecordResponse(Method(s), s)
    <2>1. /\ serviceReply' = [serviceReply EXCEPT ![s] = made]
          /\ UNCHANGED <<serviceCall, archive>>
      BY <1>1 DEF ServiceExecutionService
    <2>2. Method(s) # "AddServicePhoto"
      BY DEF Method, ServiceOp
    <2>3. <<>> \in Seq(S!Photo)
      OBVIOUS
    <2>4. record \in S!Record
      BY <1>0, <2>3 DEF Mock!MockRecord, S!Record, S!Token, S!None, Mock!None
    <2>5. made = [record |-> record, photo |-> <<>>]
      BY <2>2 DEF Mock!BuildRecordResponse
    <2> HIDE DEF record, made
    <2>6. made \in S!Reply
      BY <2>3, <2>4, <2>5 DEF S!Reply
    <2> QED
      BY <2>1, <2>6, <1>t
  <1>2. CASE deployment # "mocks"
    <2>1. S!Service(s)
      BY <1>2 DEF ServiceExecutionService
    <2>2. pc[s] # "idle"
      BY <2>1, <1>0 DEF S!Service, S!ServesProgress, S!ServesPhoto, S!ServesGet, S!Executes,
         LifeInv
    <2>3. serviceCall[s].op = ServiceOp[s] /\ serviceCall[s].order = TheOrder
      BY <2>2 DEF RecordsInv, ServiceStageInv
    <2>4. CASE S!ServesGet(s)
      BY <2>3, <2>4, <1>t DEF S!ServesGet, S!Reply
    <2>5. CASE S!ServesProgress(s)
      <3> DEFINE record == IF serviceCall[s].op = "start"
                           THEN [archive[TheOrder] EXCEPT !.status = "IN_SERVICE", !.started = s]
                           ELSE [archive[TheOrder] EXCEPT !.status = "COMPLETE", !.completed = s]
      <3>1. /\ archive' = [archive EXCEPT ![TheOrder] = record]
            /\ \E shown \in {record, [record EXCEPT !.valid = FALSE], S!NoRecord} :
                  serviceReply' = [serviceReply EXCEPT ![s].record = shown]
            /\ serviceCall' = serviceCall
        BY <2>3, <2>5 DEF S!ServesProgress
      <3>2. record \in S!Record
        BY <1>0, <1>t DEF S!Record, S!Token
      <3> HIDE DEF record
      <3>3. [record EXCEPT !.valid = FALSE] \in S!Record
        BY <3>2 DEF S!Record
      <3>4. PICK shown \in S!Record : serviceReply' = [serviceReply EXCEPT ![s].record = shown]
        BY <3>1, <3>2, <3>3, NothingKnown
      <3> QED
        BY <3>1, <3>2, <3>4, <1>t DEF S!Reply
    <2> QED
      BY <2>1, <2>3, <2>4, <2>5, <1>0 DEF S!Service, S!ServesPhoto
  <1> QED
    BY <1>1, <1>2

\* The steps of the service requests keep the invariant, the others leave it alone.
LEMMA RecordsInvStep == ProcessInv /\ RecordsInv /\ [Next]_vars => RecordsInv'
  <1> SUFFICES ASSUME ProcessInv, RecordsInv, [Next]_vars PROVE RecordsInv'
    OBVIOUS
  <1>0. Steps = Requests /\ DOMAIN ServiceOp \subseteq Requests
    BY CoreFlowAssumption DEF CoreFlowAssumption, Steps, ServiceOp
  <1>a. CallsTypeOK /\ LifeInv
    BY DEF ProcessInv
  <1>b. RecordsTypeOK /\ ServiceStageInv
    BY DEF RecordsInv
  <1>1. ASSUME UNCHANGED <<serviceCall, serviceReply, archive>>,
               \A t \in DOMAIN ServiceOp : pc'[t] # "idle" => pc[t] # "idle"
        PROVE  RecordsInv'
    BY <1>1, <1>b DEF RecordsInv, RecordsTypeOK, ServiceStageInv
  <1>2. ASSUME NEW s \in DOMAIN ServiceOp, ServiceRoute(s) PROVE RecordsInv'
    <2>1. Route(s) /\ s \in Steps
      BY <1>0, <1>2 DEF Route
    <2>2. \A t \in Requests : t # s => pc'[t] = pc[t]
      BY <2>1, <1>0, <1>a, OthersStay
    <2> QED
      BY <1>0, <1>2, <2>2, <1>b, ServiceRouteHandles
         DEF RecordsInv, RecordsTypeOK, ServiceStageInv
  <1>3. ASSUME NEW s \in DOMAIN ServiceOp, ServiceExecutionService(s) PROVE RecordsInv'
    <2>1. Serves(s) /\ s \in Steps
      BY <1>0, <1>3 DEF Serves
    <2>2. pc' = pc
      BY <2>1, ServesCalls DEF Executes
    <2> QED
      BY <1>3, <2>2, <1>a, <1>b, ServiceServesRecords
         DEF RecordsInv, RecordsTypeOK, ServiceStageInv
  <1>4. ASSUME NEW s \in Steps, Route(s) \/ Serves(s) PROVE RecordsInv'
    <2>1. CASE s \in DOMAIN ServiceOp
      <3>1. s \notin DOMAIN FinanceOp /\ s \notin DOMAIN DispatchOp /\ s \notin DOMAIN OrderOp
        BY <2>1 DEF OrderOp, DispatchOp, ServiceOp, FinanceOp
      <3> QED
        BY <1>2, <1>3, <1>4, <2>1, <3>1 DEF Route, Serves
    <2>2. CASE s \notin DOMAIN ServiceOp
      <3>1. UNCHANGED serviceVars
        BY <1>4, <2>2 DEF Route, Serves, FinanceRoute, FinanceService, DispatchRoute,
           DispatchService, OrderRoute, OrderService
      <3>2. \A t \in DOMAIN ServiceOp : pc'[t] = pc[t]
        BY <1>4, <2>2, <1>0, <1>a, OthersStay
      <3> QED
        BY <3>1, <3>2, <1>1 DEF serviceVars
    <2> QED
      BY <2>1, <2>2
  <1>5. CASE Starts \/ Stops \/ UNCHANGED vars
    BY <1>5, <1>1 DEF Starts, Stops, vars, callVars, routeVars, serviceVars
  <1>6. CASE Exits \/ Dies
    <2>1. UNCHANGED <<serviceCall, serviceReply, archive>> /\ Crashes
      BY <1>6, RestartCalls DEF Exits, Dies, Restarts, S!Restart
    <2> QED
      BY <2>1, <1>0, <1>1 DEF Crashes
  <1> QED
    BY <1>4, <1>5, <1>6, StepKinds

\* Every variable that the core flow has a type for keeps it: the process, the requests,
\* and the replies of the two services that a mock may stand in for.
THEOREM TypeCorrect == Spec => []TypeOK
  <1>1. Init => ProcessInv /\ MoneyInv /\ RecordsInv
    BY ProcessInvInit, MoneyInvInit, RecordsInvInit
  <1>2. ProcessInv /\ MoneyInv /\ RecordsInv /\ [Next]_vars
           => (ProcessInv /\ MoneyInv /\ RecordsInv)'
    BY ProcessInvStep, MoneyInvStep, RecordsInvStep
  <1>3. ProcessInv /\ MoneyInv /\ RecordsInv => TypeOK
    BY CoreFlowAssumption
       DEF CoreFlowAssumption, ProcessInv, MoneyInv, MoneyTypeOK, RecordsInv, RecordsTypeOK,
           TypeOK
  <1> QED
    BY <1>1, <1>2, <1>3, PTL DEF Spec

-----------------------------------------------------------------------------
(* What the client is told, and in which order it goes on. *)

AnswersOf ==
    /\ DOMAIN orderAnswer = Requests /\ DOMAIN dispatchAnswer = Requests
    /\ DOMAIN serviceAnswer = Requests /\ DOMAIN financeAnswer = Requests

\* A step is acknowledged only once its request is answered.
AnsweredInv == AnswersOf /\ \A s \in Steps : Acked(s) => pc[s] = "answered"

\* Only the answer of s may change.
ChangesAt(f, g, s) == DOMAIN g = DOMAIN f /\ \A t \in DOMAIN f : t # s => g[t] = f[t]

\* The status of a step is that of the answer of its component.
LEMMA StatusIs ==
    /\ \A s \in DOMAIN OrderOp :
          /\ Status(s) = orderAnswer[s].status /\ Status(s)' = orderAnswer'[s].status
          /\ s \in Requests /\ s \in Steps
    /\ \A s \in DOMAIN DispatchOp :
          /\ Status(s) = dispatchAnswer[s].status /\ Status(s)' = dispatchAnswer'[s].status
          /\ s \in Requests /\ s \in Steps
    /\ \A s \in DOMAIN ServiceOp :
          /\ Status(s) = serviceAnswer[s].status /\ Status(s)' = serviceAnswer'[s].status
          /\ s \in Requests /\ s \in Steps
    /\ \A s \in DOMAIN FinanceOp :
          /\ Status(s) = financeAnswer[s].status /\ Status(s)' = financeAnswer'[s].status
          /\ s \in Requests /\ s \in Steps
    /\ \A s \in Steps :
          s \in DOMAIN OrderOp \/ s \in DOMAIN DispatchOp \/ s \in DOMAIN ServiceOp
          \/ s \in DOMAIN FinanceOp
    /\ \A s \in Steps : (Acked(s) <=> Status(s) = 200) /\ (Acked(s)' <=> Status(s)' = 200)
  <1>1. \A s \in Steps : (Acked(s) <=> Status(s) = 200) /\ (Acked(s)' <=> Status(s)' = 200)
    BY DEF Acked
  <1> QED
    BY <1>1, CoreFlowAssumption
       DEF CoreFlowAssumption, Status, Steps, FinanceOp, ServiceOp, DispatchOp, OrderOp

\* A route changes its own answer only, and what a service does changes none.
LEMMA AnswersOwn ==
    ASSUME AnswersOf, NEW s \in Steps, Route(s)
    PROVE  AnswersOf' /\ \A t \in Steps : t # s => Status(t)' = Status(t)
  <1>1. ASSUME ChangesAt(orderAnswer, orderAnswer', s),
               ChangesAt(dispatchAnswer, dispatchAnswer', s),
               ChangesAt(serviceAnswer, serviceAnswer', s),
               ChangesAt(financeAnswer, financeAnswer', s)
        PROVE  AnswersOf' /\ \A t \in Steps : t # s => Status(t)' = Status(t)
    <2>1. AnswersOf'
      BY <1>1 DEF ChangesAt, AnswersOf
    <2>2. ASSUME NEW t \in Steps, t # s PROVE Status(t)' = Status(t)
      BY <1>1, <2>2, StatusIs DEF ChangesAt, AnswersOf
    <2> QED
      BY <2>1, <2>2
  <1>a. /\ orderAnswer' = orderAnswer => ChangesAt(orderAnswer, orderAnswer', s)
        /\ dispatchAnswer' = dispatchAnswer => ChangesAt(dispatchAnswer, dispatchAnswer', s)
        /\ serviceAnswer' = serviceAnswer => ChangesAt(serviceAnswer, serviceAnswer', s)
        /\ financeAnswer' = financeAnswer => ChangesAt(financeAnswer, financeAnswer', s)
    BY DEF ChangesAt
  <1>2. CASE s \in DOMAIN OrderOp /\ OrderRoute(s)
    <2>1. \/ orderAnswer' = orderAnswer
          \/ \E status, orders : O!Answers(s, status, orders)
      BY <1>2 DEF OrderRoute, O!Request, O!Replies, O!Fails
    <2>2. ChangesAt(orderAnswer, orderAnswer', s)
      BY <2>1, <1>a DEF O!Answers, ChangesAt
    <2> QED
      BY <1>1, <1>2, <1>a, <2>2 DEF OrderRoute, dispatchVars, serviceVars, financeVars
  <1>3. CASE s \in DOMAIN DispatchOp /\ DispatchRoute(s)
    <2>1. \/ dispatchAnswer' = dispatchAnswer
          \/ \E status, reading : D!Answers(s, status, reading)
      BY <1>3 DEF DispatchRoute, D!Request, D!Replies, D!Fails
    <2>2. ChangesAt(dispatchAnswer, dispatchAnswer', s)
      BY <2>1, <1>a DEF D!Answers, ChangesAt
    <2> QED
      BY <1>1, <1>3, <1>a, <2>2 DEF DispatchRoute, orderVars, serviceVars, financeVars
  <1>4. CASE s \in DOMAIN ServiceOp /\ ServiceRoute(s)
    <2>1. \/ serviceAnswer' = serviceAnswer
          \/ \E status, record : S!Answers(s, status, record)
      BY <1>4 DEF ServiceRoute, S!Gateway, S!Write, S!GetRecord, S!StartReturns,
         S!CompleteReturns, S!PhotoReturns, S!GetReturns, S!StartRaises, S!CompleteRaises,
         S!PhotoRaises, S!GetRaises, S!Responds, S!Fails, S!Breaks
    <2>2. ChangesAt(serviceAnswer, serviceAnswer', s)
      BY <2>1, <1>a DEF S!Answers, ChangesAt
    <2> QED
      BY <1>1, <1>4, <1>a, <2>2 DEF ServiceRoute, orderVars, dispatchVars, financeVars
  <1>5. CASE s \in DOMAIN FinanceOp /\ FinanceRoute(s)
    <2>1. \/ financeAnswer' = financeAnswer
          \/ \E status, body : F!Answers(s, status, body)
      BY <1>5 DEF FinanceRoute, F!Gateway, F!CreatePayment, F!ListPayments, F!CreateReturns,
         F!ListReturns, F!CreateRaises, F!ListRaises, F!Responds, F!Fails
    <2>2. ChangesAt(financeAnswer, financeAnswer', s)
      BY <2>1, <1>a DEF F!Answers, ChangesAt
    <2> QED
      BY <1>1, <1>5, <1>a, <2>2 DEF FinanceRoute, orderVars, dispatchVars, serviceVars
  <1> QED
    BY <1>2, <1>3, <1>4, <1>5 DEF Route

\* Nobody but a route changes an answer.
LEMMA AnswersStay ==
    ASSUME AnswersOf, [Next]_vars, ~\E s \in Steps : Route(s)
    PROVE  AnswersOf' /\ \A t \in Steps : Status(t)' = Status(t)
  <1>1. UNCHANGED <<orderAnswer, dispatchAnswer, serviceAnswer, financeAnswer>>
    <2>1. ASSUME NEW s \in Steps, Serves(s)
          PROVE  UNCHANGED <<orderAnswer, dispatchAnswer, serviceAnswer, financeAnswer>>
      <3>1. OrderService(s) => orderAnswer' = orderAnswer
        BY DEF OrderService, O!ServesCreate, O!ServesUpdate, O!ServesGet, O!Enters, O!Shows
      <3>2. DispatchService(s) => dispatchAnswer' = dispatchAnswer
        BY DEF DispatchService, D!ServesAssign, D!ServesConfirm, D!ServesHistory, D!Enters,
           D!Shows
      <3>3. ServiceExecutionService(s) => serviceAnswer' = serviceAnswer
        BY DEF ServiceExecutionService, S!Service, S!ServesProgress, S!ServesPhoto, S!ServesGet
      <3>4. FinanceService(s) => financeAnswer' = financeAnswer
        BY DEF FinanceService, F!Service, F!ServesCreate, F!ServesList
      <3> QED
        BY <2>1, <3>1, <3>2, <3>3, <3>4
           DEF Serves, OrderService, DispatchService, ServiceExecutionService, FinanceService,
               orderVars, dispatchVars, serviceVars, financeVars
    <2>2. CASE Starts \/ Stops \/ UNCHANGED vars
      BY <2>2 DEF Starts, Stops, vars, routeVars, orderVars, dispatchVars, serviceVars,
         financeVars
    <2>3. CASE Exits \/ Dies
      BY <2>3 DEF Exits, Dies, Restarts, O!Restart, D!Restart, S!Restart, F!Restart,
         O!orderVars, D!dispatchVars
    <2> QED
      BY <2>1, <2>2, <2>3, StepKinds
  <1>2. AnswersOf'
    BY <1>1 DEF AnswersOf
  <1>3. ASSUME NEW t \in Steps PROVE Status(t)' = Status(t)
    BY <1>1, StatusIs
  <1> QED
    BY <1>2, <1>3

\* A route that does not answer leaves the answer as it is.
LEMMA AnswersAtTheEnd ==
    ASSUME CallsTypeOK, NEW s \in Steps, Route(s)
    PROVE  pc'[s] = "answered" \/ Status(s)' = Status(s)
  <1>0. s \in Requests
    BY CoreFlowAssumption DEF CoreFlowAssumption
  <1>1. CASE s \in DOMAIN OrderOp /\ OrderRoute(s)
    <2>1. \/ O!AnsweredAtOnce(s) \/ O!Returns(s) \/ \E status \in FailureCodes : O!Raises(s, status)
          \/ orderAnswer' = orderAnswer
      BY <1>1 DEF OrderRoute, O!Request, O!Replies, O!Fails
    <2>2. pc'[s] = "answered" \/ orderAnswer' = orderAnswer
      BY <2>1, <1>0 DEF CallsTypeOK, O!AnsweredAtOnce, O!Returns, O!Raises, O!Refused,
         O!OutOfReach
    <2> QED
      BY <1>1, <2>2, StatusIs
  <1>2. CASE s \in DOMAIN DispatchOp /\ DispatchRoute(s)
    <2>1. \/ D!AnsweredAtOnce(s) \/ D!Returns(s) \/ \E status \in FailureCodes : D!Raises(s, status)
          \/ dispatchAnswer' = dispatchAnswer
      BY <1>2 DEF DispatchRoute, D!Request, D!Replies, D!Fails
    <2>2. pc'[s] = "answered" \/ dispatchAnswer' = dispatchAnswer
      BY <2>1, <1>0 DEF CallsTypeOK, D!AnsweredAtOnce, D!Returns, D!Raises, D!Refused,
         D!OutOfReach
    <2> QED
      BY <1>2, <2>2, StatusIs
  <1>3. CASE s \in DOMAIN ServiceOp /\ ServiceRoute(s)
    <2>1. \/ S!AnsweredAtOnce(s) \/ S!Returns(s) \/ \E status \in FailureCodes : S!Raises(s, status)
          \/ serviceAnswer' = serviceAnswer
      BY <1>3 DEF ServiceRoute, S!Gateway, S!Write, S!GetRecord, S!StartReturns,
         S!CompleteReturns, S!PhotoReturns, S!GetReturns, S!StartRaises, S!CompleteRaises,
         S!PhotoRaises, S!GetRaises, S!Breaks
    <2>2. pc'[s] = "answered" \/ serviceAnswer' = serviceAnswer
      BY <2>1, <1>0 DEF CallsTypeOK, S!AnsweredAtOnce, S!Returns, S!Raises, S!Refused,
         S!OutOfReach
    <2> QED
      BY <1>3, <2>2, StatusIs
  <1>4. CASE s \in DOMAIN FinanceOp /\ FinanceRoute(s)
    <2>1. \/ F!AnsweredAtOnce(s) \/ F!Returns(s) \/ \E status \in FailureCodes : F!Raises(s, status)
          \/ financeAnswer' = financeAnswer
      BY <1>4 DEF FinanceRoute, F!Gateway, F!CreatePayment, F!ListPayments, F!CreateReturns,
         F!ListReturns, F!CreateRaises, F!ListRaises
    <2>2. pc'[s] = "answered" \/ financeAnswer' = financeAnswer
      BY <2>1, <1>0 DEF CallsTypeOK, F!AnsweredAtOnce, F!Returns, F!Raises, F!Refused,
         F!OutOfReach
    <2> QED
      BY <1>4, <2>2, StatusIs
  <1> QED
    BY <1>1, <1>2, <1>3, <1>4 DEF Route

\* A step that has come in does not come in again, one that is over stays over, and what
\* was acknowledged stays so; only a route makes a new acknowledgement, of its own step.
LEMMA AckedSteps ==
    ASSUME CallsTypeOK, LifeInv, AnsweredInv, [Next]_vars, NEW t \in Steps
    PROVE  /\ Acked(t) => Acked(t)'
           /\ Acked(t)' /\ ~Acked(t) => Route(t) /\ pc'[t] = "answered"
           /\ pc[t] # "idle" => pc'[t] # "idle"
           /\ pc[t] \in {"answered", "lost"} => pc'[t] = pc[t] /\ seen'[t] = seen[t]
           /\ pc'[t] # "idle" /\ pc[t] = "idle" => Route(t) /\ Turn(t)
           /\ pc'[t] = "waiting" => pc[t] = "waiting" \/ (Route(t) /\ Turn(t))
           /\ Status(t)' # Status(t) => Route(t)
  <1>0. t \in Requests /\ Steps = Requests
    BY CoreFlowAssumption DEF CoreFlowAssumption
  <1>1. ASSUME NEW s \in Steps, Route(s)
        PROVE  /\ Acked(t) => Acked(t)'
               /\ Acked(t)' /\ ~Acked(t) => Route(t) /\ pc'[t] = "answered"
               /\ pc[t] # "idle" => pc'[t] # "idle"
               /\ pc[t] \in {"answered", "lost"} => pc'[t] = pc[t] /\ seen'[t] = seen[t]
               /\ pc'[t] # "idle" /\ pc[t] = "idle" => Route(t) /\ Turn(t)
               /\ pc'[t] = "waiting" => pc[t] = "waiting" \/ (Route(t) /\ Turn(t))
               /\ Status(t)' # Status(t) => Route(t)
    <2>1. CASE t # s
      <3>1. Status(t)' = Status(t) /\ pc'[t] = pc[t] /\ seen'[t] = seen[t]
        BY <1>1, <2>1, AnswersOwn, OthersStay DEF AnsweredInv
      <3> QED
        BY <3>1, StatusIs
    <2>2. CASE t = s
      <3>1. pc[t] \in {"idle", "waiting"} /\ (pc[t] = "idle" => Turn(t))
        BY <1>1, <2>2, RouteCalls DEF Goes
      <3>2. ~Acked(t)
        BY <3>1 DEF AnsweredInv
      <3>3. pc'[t] = "answered" \/ Status(t)' = Status(t)
        BY <1>1, <2>2, AnswersAtTheEnd
      <3>4. pc[t] # "idle" => pc'[t] # "idle"
        BY <1>0, StepOfCalls, LifeGoesOn
      <3> QED
        BY <1>1, <2>2, <3>1, <3>2, <3>3, <3>4, StatusIs
    <2> QED
      BY <2>1, <2>2
  <1>2. CASE ~\E s \in Steps : Route(s)
    <2>1. Status(t)' = Status(t)
      BY <1>2, AnswersStay DEF AnsweredInv
    <2>2. \/ pc' = pc /\ seen' = seen
          \/ Crashes
      <3>1. ASSUME NEW s \in Steps, Serves(s) PROVE pc' = pc /\ seen' = seen
        BY <3>1, ServesCalls DEF Executes
      <3>2. CASE Starts \/ Stops \/ UNCHANGED vars
        BY <3>2 DEF Starts, Stops, vars, callVars
      <3>3. CASE Exits \/ Dies
        BY <3>3, RestartCalls DEF Exits, Dies
      <3> QED
        BY <1>2, <3>1, <3>2, <3>3, StepKinds
    <2>3. /\ pc[t] # "idle" <=> pc'[t] # "idle"
          /\ pc[t] \in {"answered", "lost"} => pc'[t] = pc[t] /\ seen'[t] = seen[t]
          /\ pc'[t] = "waiting" => pc[t] = "waiting"
      BY <2>2, <1>0 DEF Crashes
    <2> QED
      BY <2>1, <2>3, StatusIs
  <1> QED
    BY <1>1, <1>2

\* So an acknowledged step is answered at all times.
LEMMA AnsweredInvStep == ProcessInv /\ AnsweredInv /\ [Next]_vars => AnsweredInv'
  <1> SUFFICES ASSUME ProcessInv, AnsweredInv, [Next]_vars PROVE AnsweredInv'
    OBVIOUS
  <1>1. AnswersOf'
    BY AnswersOwn, AnswersStay DEF AnsweredInv
  <1>2. ASSUME NEW t \in Steps, Acked(t)' PROVE pc'[t] = "answered"
    BY <1>2, AckedSteps DEF AnsweredInv, ProcessInv
  <1> QED
    BY <1>1, <1>2 DEF AnsweredInv

\* The client takes its steps in their order, and looks only at what is over: a step
\* of the flow comes in after all before it were acknowledged, a second payment after
\* the first had come to nothing, and no payment is under way from the close on.
TurnInv ==
    /\ \A i \in DOMAIN Flow :
          pc[Flow[i]] # "idle" =>
             \A j \in 1..(i - 1) : Acked(Flow[j]) \/ (Flow[j] = "pay" /\ Paid)
    /\ \A s \in Looks : pc[s] # "idle" => Acked("close")
    /\ pc["again"] # "idle" => pc["pay"] \in {"answered", "lost"} /\ ~Acked("pay")
    /\ pc["close"] # "idle" => \A p \in Payments : pc[p] # "waiting"

\* No two steps of the flow are the same, and the others are none of them.
LEMMA FlowSteps ==
    /\ \A i \in DOMAIN Flow : Flow[i] \in Steps /\ Flow[i] # "again" /\ Flow[i] \notin Looks
    /\ \A i, j \in DOMAIN Flow : Flow[i] = Flow[j] => i = j
    /\ \A i \in DOMAIN Flow : \A j \in 1..(i - 1) : j \in DOMAIN Flow
    /\ Looks \subseteq Steps /\ Payments \subseteq Steps /\ "again" \notin Looks
    /\ "close" \in Steps /\ "close" \notin Payments
    /\ DOMAIN Flow = 1..7 /\ Flow[6] = "pay" /\ Flow[7] = "close"
  BY DEF Flow, Looks, Payments, Steps, OrderOp, DispatchOp, ServiceOp, FinanceOp

\* A step comes in when it is its turn, and what made it its turn does not pass.
LEMMA TurnInvStep == ProcessInv /\ AnsweredInv /\ TurnInv /\ [Next]_vars => TurnInv'
  <1> SUFFICES ASSUME ProcessInv, AnsweredInv, TurnInv, [Next]_vars PROVE TurnInv'
    OBVIOUS
  <1>0. "pay" \in Steps /\ "again" \in Steps /\ "close" \in Steps /\ Payments = {"pay", "again"}
    BY FlowSteps DEF Payments
  <1>a. CallsTypeOK /\ LifeInv
    BY DEF ProcessInv
  <1>s. \A t \in Steps :
           /\ Acked(t) => Acked(t)'
           /\ Acked(t)' /\ ~Acked(t) => Route(t) /\ pc'[t] = "answered"
           /\ pc[t] # "idle" => pc'[t] # "idle"
           /\ pc[t] \in {"answered", "lost"} => pc'[t] = pc[t] /\ seen'[t] = seen[t]
           /\ pc'[t] # "idle" /\ pc[t] = "idle" => Route(t) /\ Turn(t)
           /\ pc'[t] = "waiting" => pc[t] = "waiting" \/ (Route(t) /\ Turn(t))
    BY <1>a, AckedSteps
  <1>p. Paid => Paid'
    BY <1>0, <1>s DEF Paid
  <1>t. ASSUME NEW t \in Steps, Route(t) PROVE pc[t] \in {"idle", "waiting"}
    BY <1>t, RouteCalls DEF Goes
  <1>1. ASSUME NEW i \in DOMAIN Flow, pc'[Flow[i]] # "idle", NEW j \in 1..(i - 1)
        PROVE  Acked(Flow[j])' \/ (Flow[j] = "pay" /\ Paid')
    <2>1. Flow[i] \in Steps /\ Flow[j] \in Steps /\ j \in DOMAIN Flow
      BY FlowSteps
    <2>2. Acked(Flow[j]) \/ (Flow[j] = "pay" /\ Paid)
      <3>1. CASE pc[Flow[i]] # "idle"
        BY <3>1 DEF TurnInv
      <3>2. CASE pc[Flow[i]] = "idle"
        <4>1. Turn(Flow[i])
          BY <3>2, <1>1, <1>s, <2>1
        <4>2. PICK k \in DOMAIN Flow :
                 /\ Flow[k] = Flow[i]
                 /\ \A l \in 1..(k - 1) : Acked(Flow[l]) \/ (Flow[l] = "pay" /\ Paid)
          BY <4>1, FlowSteps DEF Turn
        <4>3. k = i
          BY <4>2, FlowSteps
        <4> QED
          BY <4>2, <4>3
      <3> QED
        BY <3>1, <3>2
    <2> QED
      BY <2>1, <2>2, <1>p, <1>s
  <1>2. ASSUME NEW t \in Looks, pc'[t] # "idle" PROVE Acked("close")'
    <2>1. t \in Steps /\ t # "again" /\ \A i \in DOMAIN Flow : Flow[i] # t
      BY FlowSteps
    <2>2. Acked("close")
      BY <2>1, <1>2, <1>s DEF TurnInv, Turn
    <2> QED
      BY <2>2, <1>0, <1>s
  <1>3. ASSUME pc'["again"] # "idle"
        PROVE  pc'["pay"] \in {"answered", "lost"} /\ ~Acked("pay")'
    <2>1. pc["pay"] \in {"answered", "lost"} /\ ~Acked("pay")
      <3>1. CASE pc["again"] # "idle"
        BY <3>1 DEF TurnInv
      <3>2. CASE pc["again"] = "idle"
        BY <3>2, <1>0, <1>3, <1>s, FlowSteps DEF Turn
      <3> QED
        BY <3>1, <3>2
    <2> QED
      BY <2>1, <1>0, <1>s, <1>t
  <1>4. ASSUME pc'["close"] # "idle", NEW p \in Payments PROVE pc'[p] # "waiting"
    <2>1. CASE pc["close"] = "idle"
      <3>1. Turn("close") /\ Route("close")
        BY <2>1, <1>0, <1>4, <1>s
      <3>2. pc[p] # "waiting"
        BY <3>1, <1>0 DEF Turn, InFlight
      <3>3. p # "close" /\ p \in Steps
        BY FlowSteps
      <3>4. pc'[p] = pc[p]
        BY <3>1, <3>3, <1>0, <1>a, OthersStay
      <3> QED
        BY <3>2, <3>4
    <2>2. CASE pc["close"] # "idle"
      <3>1. pc[p] # "waiting" /\ p \in Steps
        BY <2>2, <1>0 DEF TurnInv
      <3>2. Paid
        <4>1. 6 \in 1..(7 - 1) /\ 7 \in DOMAIN Flow
          BY FlowSteps
        <4> QED
          BY <4>1, <2>2, FlowSteps DEF TurnInv, Paid
      <3>3. pc["pay"] \in {"answered", "lost"}
        BY <3>2, <1>0 DEF Paid, AnsweredInv, TurnInv
      <3>4. pc[p] = "idle" => p = "again" /\ ~Turn(p)
        <4>1. CASE p = "pay"
          BY <3>3, <4>1
        <4>2. CASE p = "again"
          <5> SUFFICES ASSUME pc["again"] = "idle", Turn("again") PROVE FALSE
            BY <4>2
          <5>1. ~Acked("pay")
            BY FlowSteps DEF Turn
          <5>2. Acked("again")
            BY <3>2, <5>1 DEF Paid
          <5> QED
            BY <5>2, <1>0 DEF AnsweredInv
        <4> QED
          BY <1>0, <4>1, <4>2
      <3> QED
        BY <3>1, <3>4, <1>s, <1>t
    <2> QED
      BY <2>1, <2>2
  <1> QED
    BY <1>1, <1>2, <1>3, <1>4 DEF TurnInv

-----------------------------------------------------------------------------
(* The close, and the look at the order. *)

\* What was entered last.
Latest(entries) == entries[Len(entries)]

\* The look at the order comes in after the close was acknowledged.  A close that the
\* service has carried out is its last word on the order, and the look shows it.
DetailInv ==
    /\ DOMAIN orderReply = Requests
    /\ pc["close"] # "idle" => orderAsked["close"].status = "PAID"
    /\ Acked("close") => seen["close"] = "OK" \/ seen["close"] \in MOCKABLE_DOWNSTREAM_GAP_CODES
    /\ svc["close"] = "executed" =>
          orderJournal # <<>> /\ Latest(orderJournal).status = "PAID"
    /\ svc["detail"] = "executed" /\ seen["close"] = "OK" =>
          \E order \in orderReply["detail"] : order.status = "PAID"
    /\ Acked("detail") =>
          svc["detail"] = "executed" /\ orderAnswer["detail"].orders = orderReply["detail"]

\* The errors of the order routes are those of Errors.
LEMMA OrderErrors ==
    ASSUME NEW status \in FailureCodes, NEW s
    PROVE  /\ O!MapGrpcError(status).status_code # 200
           /\ O!Covers(s, status) => /\ orderCall[s].op = "close"
                                     /\ status \in MOCKABLE_DOWNSTREAM_GAP_CODES
  <1>1. O!MapGrpcError(status) = MapGrpcError(status)
    BY DEF O!MapGrpcError, MapGrpcError, O!GRPC_STATUS_TO_HTTP, GRPC_STATUS_TO_HTTP,
       O!StatusCode, StatusCode
  <1>2. O!ShouldUseMockFallback(O!MapGrpcError(status))
           <=> ShouldUseMockFallback(MapGrpcError(status))
    BY <1>1 DEF O!ShouldUseMockFallback, ShouldUseMockFallback,
       O!MOCKABLE_DOWNSTREAM_GAP_CODES, MOCKABLE_DOWNSTREAM_GAP_CODES
  <1> QED
    BY <1>1, <1>2, FailureStatus, Failures DEF O!Covers

\* What an order route asks for and answers: the order of the reply, or, of a close that
\* failed, the gateway's own.
LEMMA OrderRouteHandles ==
    ASSUME ProcessInv, OrderInv, AnsweredInv, NEW s \in DOMAIN OrderOp, OrderRoute(s)
    PROVE  /\ UNCHANGED <<orderReply, orderJournal>>
           /\ \A t \in Requests : t # s => orderAsked'[t] = orderAsked[t]
           /\ \A t \in Requests : t # s => orderAnswer'[t] = orderAnswer[t]
           /\ pc[s] # "idle" => orderAsked'[s] = orderAsked[s]
           /\ s = "close" /\ pc[s] = "idle" => orderAsked'[s].status = "PAID"
           /\ Acked(s)' =>
                 \/ /\ seen'[s] = "OK" /\ svc'[s] = "executed"
                    /\ orderAnswer'[s].orders = orderReply[s]
                 \/ s = "close" /\ seen'[s] \in MOCKABLE_DOWNSTREAM_GAP_CODES
  <1>0. s \in Requests /\ s \in Steps
    BY StatusIs
  <1>a. CallsTypeOK /\ AnswersOf /\ OrderTypeOK /\ OrderStageInv
    BY DEF ProcessInv, AnsweredInv, OrderInv
  <1>k. Acked(s)' <=> orderAnswer'[s].status = 200
    BY StatusIs
  <1>1. CASE O!Request(s) /\ orderCall'[s].op = OrderOp[s] /\ pc'[s] = "waiting"
    <2>1. PICK op \in O!Ops : \E c \in O!Asks(op) :
             /\ orderCall' = [orderCall EXCEPT ![s] = c]
             /\ \/ O!AnsweredAtOnce(s)
                \/ /\ orderAsked' = [orderAsked EXCEPT ![s] = O!MessageOf(c)]
                   /\ orderAnswer' = orderAnswer
                   /\ pc[s] = "idle"
             /\ UNCHANGED <<orderReply, orderJournal>>
      BY <1>1 DEF O!Request, O!Sends
    <2>2. PICK c \in O!Asks(op) :
             /\ orderCall' = [orderCall EXCEPT ![s] = c]
             /\ \/ O!AnsweredAtOnce(s)
                \/ /\ orderAsked' = [orderAsked EXCEPT ![s] = O!MessageOf(c)]
                   /\ orderAnswer' = orderAnswer
                   /\ pc[s] = "idle"
      BY <2>1
    <2>3. ~O!AnsweredAtOnce(s)
      BY <1>1, <1>0, <1>a DEF O!AnsweredAtOnce, CallsTypeOK
    <2>4. s = "close" => c.op = "close"
      BY <1>1, <2>2, <1>0, <1>a DEF OrderTypeOK, OrderOp
    <2>5. s = "close" => O!MessageOf(c).status = "PAID"
      BY <2>4 DEF O!MessageOf
    <2>6. ~Acked(s)'
      BY <2>2, <2>3, <1>0, StatusIs DEF AnsweredInv
    <2> QED
      BY <2>1, <2>2, <2>3, <2>5, <2>6, <1>0, <1>a DEF OrderTypeOK
  <1>2. CASE O!Replies(s)
    <2>1. /\ UNCHANGED <<orderAsked, orderReply, orderJournal>>
          /\ pc[s] = "waiting" /\ seen' = [seen EXCEPT ![s] = "OK"]
          /\ svc[s] = "executed" /\ svc' = svc
          /\ \/ O!Answers(s, 500, {})
             \/ O!Answers(s, 200, orderReply[s])
      BY <1>2 DEF O!Replies, O!Returns
    <2>2. seen'[s] = "OK" /\ svc'[s] = "executed"
      BY <2>1, <1>0, <1>a DEF CallsTypeOK
    <2>3. CASE O!Answers(s, 500, {})
      BY <2>1, <2>3, <1>0, <1>a, <1>k DEF O!Answers, AnswersOf
    <2>4. CASE O!Answers(s, 200, orderReply[s])
      BY <2>1, <2>2, <2>4, <1>0, <1>a, <1>k DEF O!Answers, AnswersOf
    <2> QED
      BY <2>1, <2>3, <2>4
  <1>3. ASSUME NEW status \in FailureCodes, O!Fails(s, status)
        PROVE  /\ UNCHANGED <<orderReply, orderJournal>>
               /\ \A t \in Requests : t # s => orderAsked'[t] = orderAsked[t]
               /\ \A t \in Requests : t # s => orderAnswer'[t] = orderAnswer[t]
               /\ pc[s] # "idle" => orderAsked'[s] = orderAsked[s]
               /\ s = "close" /\ pc[s] = "idle" => orderAsked'[s].status = "PAID"
               /\ Acked(s)' => s = "close" /\ seen'[s] \in MOCKABLE_DOWNSTREAM_GAP_CODES
    <2>1. /\ UNCHANGED <<orderAsked, orderReply, orderJournal>>
          /\ pc[s] = "waiting" /\ seen' = [seen EXCEPT ![s] = status]
          /\ \/ O!Covers(s, status) /\ O!Answers(s, 200, {O!OwnClose(s)})
             \/ O!Answers(s, O!MapGrpcError(status).status_code, {})
      BY <1>3 DEF O!Fails, O!Raises, O!Refused, O!OutOfReach
    <2>2. seen'[s] = status
      BY <2>1, <1>0, <1>a DEF CallsTypeOK
    <2>3. CASE O!Covers(s, status) /\ O!Answers(s, 200, {O!OwnClose(s)})
      <3>1. OrderOp[s] = "close" /\ status \in MOCKABLE_DOWNSTREAM_GAP_CODES
        BY <2>1, <2>3, <1>a, OrderErrors DEF OrderStageInv
      <3>2. s = "close"
        BY <3>1 DEF OrderOp
      <3> QED
        BY <2>1, <2>2, <2>3, <3>1, <3>2, <1>a DEF O!Answers, AnswersOf
    <2>4. CASE O!Answers(s, O!MapGrpcError(status).status_code, {})
      BY <2>1, <2>4, <1>0, <1>a, <1>k, OrderErrors DEF O!Answers, AnswersOf
    <2> QED
      BY <2>1, <2>3, <2>4
  <1> QED
    BY <1>1, <1>2, <1>3 DEF OrderRoute

\* The service holds the order, if it holds one, as it was entered last.
LEMMA LatestIsHeld ==
    ASSUME orderJournal \in Seq(Entry), orderJournal # <<>>
    PROVE  /\ O!Held(orderJournal) = {Latest(orderJournal)}
           /\ O!IsHeld(TheOrder) /\ O!HeldAs(TheOrder) = Latest(orderJournal)
  <1> DEFINE n == Len(orderJournal)
             last == Latest(orderJournal)
  <1>1. n \in Nat /\ n > 0 /\ DOMAIN orderJournal = 1..n /\ n \in 1..n
    OBVIOUS
  <1>a. \A i \in 1..n : orderJournal[i] \in Entry
    BY <1>1
  <1>b. last = orderJournal[n]
    BY DEF Latest
  <1> HIDE DEF n, last
  <1>2. \A i \in 1..n : orderJournal[i].order = TheOrder
    BY <1>a DEF Entry
  <1>3. last.order = TheOrder
    BY <1>1, <1>2, <1>b
  <1>4. \A j \in 1..n : (\A k \in 1..n : k > j => orderJournal[k].order # orderJournal[j].order)
                           <=> j = n
    <2> SUFFICES ASSUME NEW j \in 1..n
                 PROVE  (\A k \in 1..n : k > j => orderJournal[k].order # orderJournal[j].order)
                           <=> j = n
      OBVIOUS
    <2>1. j # n => n > j
      BY <1>1
    <2>2. j = n => ~\E k \in 1..n : k > j
      BY <1>1
    <2> QED
      BY <2>1, <2>2, <1>1, <1>2
  <1>5. O!Held(orderJournal) = {last}
    BY <1>1, <1>b, <1>4 DEF O!Held
  <1>6. O!IsHeld(TheOrder)
    BY <1>3, <1>5 DEF O!IsHeld
  <1>7. O!HeldAs(TheOrder) = last
    BY <1>3, <1>5 DEF O!HeldAs
  <1> QED
    BY <1>5, <1>6, <1>7 DEF last

\* What the order service does: after the close it enters nothing more, and shows what it
\* has entered last.
LEMMA OrderServiceServes ==
    ASSUME ProcessInv, OrderInv, DetailInv, NEW s \in DOMAIN OrderOp, OrderService(s)
    PROVE  /\ UNCHANGED <<orderAsked, orderAnswer>>
           /\ DOMAIN orderReply' = Requests
           /\ \A t \in Requests : t # s => orderReply'[t] = orderReply[t]
           /\ svc["close"] = "executed" => orderJournal' = orderJournal
           /\ s = "close" => orderJournal' # <<>> /\ Latest(orderJournal').status = "PAID"
           /\ s = "detail" => orderJournal' = orderJournal
           /\ s = "detail" /\ orderJournal # <<>> =>
                 \E order \in orderReply'[s] : order = Latest(orderJournal)
  <1>0. s \in Requests /\ s \in Steps
    BY StatusIs
  <1>a. CallsTypeOK /\ LifeInv /\ OrderTypeOK /\ OrderStageInv /\ DOMAIN orderReply = Requests
    BY DEF ProcessInv, OrderInv, DetailInv
  <1>1. Serves(s)
    BY DEF Serves
  <1>2. pc[s] # "idle" /\ orderCall[s].op = OrderOp[s]
    BY <1>0, <1>1, <1>a, ServesCalls DEF Executes, LifeInv, OrderStageInv
  <1>3. svc["close"] = "executed" => s # "close"
    BY <1>0, <1>1, ServesCalls DEF Executes
  <1>4. UNCHANGED <<orderAsked, orderAnswer>>
    BY DEF OrderService, O!ServesCreate, O!ServesUpdate, O!ServesGet, O!Enters, O!Shows
  <1>5. /\ DOMAIN orderReply' = Requests
        /\ \A t \in Requests : t # s => orderReply'[t] = orderReply[t]
    <2>1. PICK orders : orderReply' = [orderReply EXCEPT ![s] = orders]
      BY DEF OrderService, O!ServesCreate, O!ServesUpdate, O!ServesGet, O!Enters, O!Shows
    <2> QED
      BY <2>1, <1>a
  <1>6. CASE O!ServesCreate(s)
    <2>1. s = "create"
      BY <1>2, <1>6 DEF O!ServesCreate, OrderOp
    <2>2. orderJournal = <<>>
      BY <1>6, <1>a, LatestIsHeld DEF O!ServesCreate, OrderTypeOK
    <2> QED
      BY <2>1, <2>2, <1>4, <1>5 DEF DetailInv
  <1>7. CASE O!ServesUpdate(s)
    <2>1. s = "close"
      BY <1>2, <1>7 DEF O!ServesUpdate, OrderOp
    <2> DEFINE held == O!HeldAs(orderCall[s].order)
               entry == [held EXCEPT !.status = orderAsked[s].status, !.by = s]
    <2>2. orderJournal' = Append(orderJournal, entry)
      BY <1>7 DEF O!ServesUpdate, O!Enters
    <2>3. held \in O!Held(orderJournal)
      BY <1>7 DEF O!ServesUpdate, O!IsHeld, O!HeldAs
    <2>4. held \in Entry
      BY <2>3, <1>a DEF O!Held, OrderTypeOK
    <2>5. orderAsked[s].status = "PAID"
      BY <1>2, <2>1 DEF DetailInv
    <2>6. entry \in Entry /\ entry.status = "PAID"
      <3> HIDE DEF held
      <3> QED
        BY <2>4, <2>5, <1>0 DEF Entry, O!OrderStatus
    <2> HIDE DEF held, entry
    <2>7. orderJournal' # <<>> /\ Latest(orderJournal') = entry
      BY <2>2, <2>6, <1>a, AppendProperties DEF OrderTypeOK, Latest
    <2> QED
      BY <2>1, <2>6, <2>7, <1>3, <1>4, <1>5
  <1>8. CASE O!ServesGet(s)
    <2>1. s = "detail"
      BY <1>2, <1>8 DEF O!ServesGet, OrderOp
    <2>2. /\ orderJournal' = orderJournal
          /\ orderReply' = [orderReply EXCEPT ![s] = {O!HeldAs(orderCall[s].order)}]
          /\ O!IsHeld(orderCall[s].order)
      BY <1>8 DEF O!ServesGet, O!Shows
    <2>3. O!HeldAs(orderCall[s].order) \in O!Held(orderJournal)
      BY <2>2 DEF O!IsHeld, O!HeldAs
    <2>4. orderJournal # <<>> => O!HeldAs(orderCall[s].order) = Latest(orderJournal)
      BY <2>3, <1>a, LatestIsHeld DEF OrderTypeOK
    <2>5. orderReply'[s] = {O!HeldAs(orderCall[s].order)}
      BY <2>2, <1>0, <1>a
    <2> QED
      BY <2>1, <2>2, <2>4, <2>5, <1>4, <1>5
  <1> QED
    BY <1>6, <1>7, <1>8 DEF OrderService

\* It holds in the first state.
LEMMA DetailInvInit == Init => DetailInv
  <1> SUFFICES ASSUME Init PROVE DetailInv
    OBVIOUS
  <1>1. "close" \in DOMAIN OrderOp /\ "detail" \in DOMAIN OrderOp
    BY DEF OrderOp
  <1>2. /\ pc["close"] = "idle" /\ svc["close"] = "none" /\ svc["detail"] = "none"
        /\ ~Acked("close") /\ ~Acked("detail") /\ DOMAIN orderReply = Requests
    BY <1>1, StatusIs DEF Init, O!Init, O!CallsInit
  <1> QED
    BY <1>2 DEF DetailInv

\* The steps keep it: the close is over when the look comes in.
LEMMA DetailInvStep ==
    ProcessInv /\ OrderInv /\ AnsweredInv /\ TurnInv /\ DetailInv /\ [Next]_vars => DetailInv'
  <1> SUFFICES ASSUME ProcessInv, OrderInv, AnsweredInv, TurnInv, DetailInv, [Next]_vars
               PROVE  DetailInv'
    OBVIOUS
  <1> DEFINE close == "close"
             detail == "detail"
  <1>0. /\ Steps = Requests /\ close \in Requests /\ detail \in Requests /\ close # detail
        /\ close \in DOMAIN OrderOp /\ detail \in DOMAIN OrderOp /\ detail \in Looks
    BY CoreFlowAssumption DEF CoreFlowAssumption, Steps, OrderOp, Looks
  <1>a. CallsTypeOK /\ LifeInv /\ LifeInv' /\ OrderTypeOK
    BY ProcessInvStep DEF ProcessInv, OrderInv
  <1>c. /\ DOMAIN orderReply = Requests
        /\ pc[close] # "idle" => orderAsked[close].status = "PAID"
        /\ Acked(close) => seen[close] = "OK" \/ seen[close] \in MOCKABLE_DOWNSTREAM_GAP_CODES
        /\ svc[close] = "executed" => orderJournal # <<>> /\ Latest(orderJournal).status = "PAID"
        /\ svc[detail] = "executed" /\ seen[close] = "OK" =>
              \E order \in orderReply[detail] : order.status = "PAID"
        /\ Acked(detail) => svc[detail] = "executed" /\ orderAnswer[detail].orders = orderReply[detail]
    BY DEF DetailInv
  <1>d. ASSUME /\ DOMAIN orderReply' = Requests
               /\ pc'[close] # "idle" => orderAsked'[close].status = "PAID"
               /\ Acked(close)' =>
                     seen'[close] = "OK" \/ seen'[close] \in MOCKABLE_DOWNSTREAM_GAP_CODES
               /\ svc'[close] = "executed" =>
                     orderJournal' # <<>> /\ Latest(orderJournal').status = "PAID"
               /\ svc'[detail] = "executed" /\ seen'[close] = "OK" =>
                     \E order \in orderReply'[detail] : order.status = "PAID"
               /\ Acked(detail)' =>
                     svc'[detail] = "executed" /\ orderAnswer'[detail].orders = orderReply'[detail]
        PROVE  DetailInv'
    BY <1>d DEF DetailInv, Latest
  \* What the accounts of the two requests may become.
  <1>s. \A t \in {close, detail} :
           /\ Acked(t) => Acked(t)'
           /\ Acked(t)' /\ ~Acked(t) => Route(t)
           /\ pc'[t] # "idle" /\ pc[t] = "idle" => Route(t)
           /\ pc[t] \in {"answered", "lost"} => seen'[t] = seen[t]
    BY <1>0, <1>a, AckedSteps
  <1>g. /\ svc[detail] = "executed" => svc'[detail] = "executed"
        /\ svc[detail] # "none" => pc[close] = "answered"
    <2>1. svc[detail] = "executed" => svc'[detail] = "executed"
      BY <1>0, <1>a, StepOfCalls, LifeGoesOn
    <2>2. svc[detail] # "none" => pc[detail] # "idle"
      BY <1>0, <1>a DEF LifeInv
    <2>3. pc[detail] # "idle" => pc[close] = "answered"
      BY <1>0 DEF TurnInv, AnsweredInv
    <2> QED
      BY <2>1, <2>2, <2>3
  <1> HIDE DEF close, detail
  <1>1. ASSUME UNCHANGED orderVars, UNCHANGED <<svc>>, UNCHANGED <<seen[close]>>,
               ~Route(close), ~Route(detail)
        PROVE  DetailInv'
    BY <1>1, <1>c, <1>d, <1>s DEF orderVars
  <1>2. ASSUME NEW s \in DOMAIN OrderOp, OrderRoute(s) PROVE DetailInv'
    <2>1. s \in Steps /\ Route(s) /\ s \in Requests
      BY <1>2, StatusIs DEF Route
    <2>2. /\ UNCHANGED <<orderReply, orderJournal>>
          /\ \A t \in Requests : t # s => orderAsked'[t] = orderAsked[t]
          /\ \A t \in Requests : t # s => orderAnswer'[t] = orderAnswer[t]
          /\ pc[s] # "idle" => orderAsked'[s] = orderAsked[s]
          /\ s = "close" /\ pc[s] = "idle" => orderAsked'[s].status = "PAID"
          /\ Acked(s)' =>
                \/ /\ seen'[s] = "OK" /\ svc'[s] = "executed"
                   /\ orderAnswer'[s].orders = orderReply[s]
                \/ s = "close" /\ seen'[s] \in MOCKABLE_DOWNSTREAM_GAP_CODES
      BY <1>2, OrderRouteHandles
    <2>3. \A t \in Requests : t # s => pc'[t] = pc[t] /\ svc'[t] = svc[t] /\ seen'[t] = seen[t]
      BY <2>1, <1>0, <1>a, OthersStay
    <2>4. \A t \in Requests : t # s => (Acked(t)' <=> Acked(t))
      BY <2>1, <1>0, AnswersOwn, StatusIs DEF AnsweredInv
    <2>5. svc'[s] = "executed" => svc[s] = "executed"
      BY <2>1, <1>0, <1>a, RouteCalls
         DEF AnsweredAtOnce, Sends, Wakes, Returns, Raises, Refused, OutOfReach, CallsTypeOK
    <2>6. pc[s] \in {"idle", "waiting"}
      BY <2>1, RouteCalls DEF Goes
    <2>7. CASE s = close
      <3>1. svc[detail] = "none"
        BY <2>6, <2>7, <1>g
      <3>2. ~Acked(detail)
        BY <3>1, <1>c
      <3>3. svc'[detail] = "none" /\ ~Acked(detail)'
        BY <2>3, <2>4, <2>7, <3>1, <3>2, <1>0
      <3>4. pc'[close] # "idle" => orderAsked'[close].status = "PAID"
        BY <2>2, <2>7, <1>c DEF close
      <3>5. Acked(close)' =>
               seen'[close] = "OK" \/ seen'[close] \in MOCKABLE_DOWNSTREAM_GAP_CODES
        BY <2>2, <2>7
      <3> QED
        BY <2>2, <2>5, <2>7, <3>3, <3>4, <3>5, <1>c, <1>d
    <2>8. CASE s = detail
      <3>1. /\ pc'[close] = pc[close] /\ svc'[close] = svc[close] /\ seen'[close] = seen[close]
            /\ orderAsked'[close] = orderAsked[close]
            /\ (Acked(close)' <=> Acked(close))
        BY <2>2, <2>3, <2>4, <2>8, <1>0
      <3>2. Acked(detail)' =>
               svc'[detail] = "executed" /\ orderAnswer'[detail].orders = orderReply'[detail]
        <4>1. detail # "close"
          BY <1>0 DEF close
        <4> QED
          BY <2>2, <2>8, <4>1
      <3> QED
        BY <2>2, <2>5, <2>8, <3>1, <3>2, <1>c, <1>d
    <2>9. CASE s # close /\ s # detail
      <3>1. /\ pc'[close] = pc[close] /\ svc'[close] = svc[close] /\ seen'[close] = seen[close]
            /\ orderAsked'[close] = orderAsked[close] /\ svc'[detail] = svc[detail]
            /\ orderAnswer'[detail] = orderAnswer[detail]
            /\ (Acked(close)' <=> Acked(close)) /\ (Acked(detail)' <=> Acked(detail))
        BY <2>2, <2>3, <2>4, <2>9, <1>0
      <3> QED
        BY <2>2, <3>1, <1>c, <1>d
    <2> QED
      BY <2>7, <2>8, <2>9
  <1>3. ASSUME NEW s \in DOMAIN OrderOp, OrderService(s) PROVE DetailInv'
    <2>1. s \in Steps /\ Serves(s) /\ s \in Requests
      BY <1>3, StatusIs DEF Serves
    <2>2. /\ UNCHANGED <<orderAsked, orderAnswer>>
          /\ DOMAIN orderReply' = Requests
          /\ \A t \in Requests : t # s => orderReply'[t] = orderReply[t]
          /\ svc["close"] = "executed" => orderJournal' = orderJournal
          /\ s = "close" => orderJournal' # <<>> /\ Latest(orderJournal').status = "PAID"
          /\ s = "detail" => orderJournal' = orderJournal
          /\ s = "detail" /\ orderJournal # <<>> =>
                \E order \in orderReply'[s] : order = Latest(orderJournal)
      BY <1>3, OrderServiceServes
    <2>3. /\ pc' = pc /\ seen' = seen /\ svc[s] = "pending"
          /\ \A t \in Requests : t # s => svc'[t] = svc[t]
      BY <2>1, <1>0, <1>a, ServesCalls, OthersStay DEF Executes
    <2>4. (Acked(close)' <=> Acked(close)) /\ (Acked(detail)' <=> Acked(detail))
      BY <2>2, <1>0, StatusIs
    <2>5. svc'[close] = "executed" =>
             orderJournal' # <<>> /\ Latest(orderJournal').status = "PAID"
      <3>1. CASE s = close
        BY <2>2, <3>1 DEF close
      <3>2. CASE s # close
        BY <2>2, <2>3, <3>2, <1>0, <1>c DEF close
      <3> QED
        BY <3>1, <3>2
    <2>6. svc'[detail] = "executed" /\ seen'[close] = "OK" =>
             \E order \in orderReply'[detail] : order.status = "PAID"
      <3>1. CASE s = detail
        <4> SUFFICES ASSUME seen[close] = "OK"
                     PROVE  \E order \in orderReply'[detail] : order.status = "PAID"
          BY <2>3
        <4>1. svc[close] = "executed"
          BY <1>0, <1>a DEF LifeInv
        <4>2. orderJournal # <<>> /\ Latest(orderJournal).status = "PAID"
          BY <4>1, <1>c
        <4> QED
          BY <2>2, <3>1, <4>2 DEF detail
      <3>2. CASE s # detail
        BY <2>2, <2>3, <3>2, <1>0, <1>c
      <3> QED
        BY <3>1, <3>2
    <2>7. Acked(detail)' =>
             svc'[detail] = "executed" /\ orderAnswer'[detail].orders = orderReply'[detail]
      <3>1. CASE s = detail
        BY <2>3, <2>4, <3>1, <1>c
      <3>2. CASE s # detail
        BY <2>2, <2>3, <2>4, <3>2, <1>0, <1>c
      <3> QED
        BY <3>1, <3>2
    <2> QED
      BY <2>2, <2>3, <2>4, <2>5, <2>6, <2>7, <1>c, <1>d
  <1>4. ASSUME NEW s \in Steps, Route(s) \/ Serves(s), s \notin DOMAIN OrderOp PROVE DetailInv'
    <2>1. UNCHANGED orderVars
      BY <1>4 DEF Route, Serves, FinanceRoute, FinanceService, DispatchRoute,
         DispatchService, ServiceRoute, ServiceExecutionService
    <2>2. /\ s # close /\ s # detail
          /\ \A t \in {close, detail} :
                pc'[t] = pc[t] /\ svc'[t] = svc[t] /\ seen'[t] = seen[t]
      BY <1>0, <1>4, <1>a, OthersStay
    <2>3. (Acked(close)' <=> Acked(close)) /\ (Acked(detail)' <=> Acked(detail))
      BY <2>1, <1>0, StatusIs DEF orderVars
    <2> QED
      BY <2>1, <2>2, <2>3, <1>c, <1>d DEF orderVars
  <1>5. ASSUME NEW s \in Steps, Route(s) \/ Serves(s), s \in DOMAIN OrderOp PROVE DetailInv'
    <2>1. s \notin DOMAIN FinanceOp /\ s \notin DOMAIN DispatchOp /\ s \notin DOMAIN ServiceOp
      BY <1>5 DEF OrderOp, DispatchOp, ServiceOp, FinanceOp
    <2> QED
      BY <1>2, <1>3, <1>5, <2>1 DEF Route, Serves
  <1>6. CASE Starts \/ Stops \/ Exits \/ Dies \/ UNCHANGED vars
    <2>1. UNCHANGED orderVars /\ svc' = svc /\ seen' = seen
      BY <1>6, RestartCalls
         DEF Starts, Stops, Exits, Dies, Restarts, O!Restart, O!orderVars, orderVars, Crashes,
             vars, callVars, routeVars
    <2>2. (Acked(close)' <=> Acked(close)) /\ (Acked(detail)' <=> Acked(detail))
      BY <2>1, <1>0, StatusIs DEF orderVars
    <2>3. pc'[close] # "idle" => pc[close] # "idle"
      <3>1. CASE pc' = pc
        BY <3>1
      <3>2. CASE Crashes
        BY <3>2, <1>0 DEF Crashes
      <3> QED
        BY <1>6, <3>1, <3>2, RestartCalls
           DEF Starts, Stops, Exits, Dies, vars, callVars
    <2> QED
      BY <2>1, <2>2, <2>3, <1>c, <1>d DEF orderVars
  <1> QED
    BY <1>4, <1>5, <1>6, StepKinds

-----------------------------------------------------------------------------
(* The confirmation, and the look at the dispatches. *)

\* What a dispatch request asks for: what its step does, about the order, and to confirm
\* an assignment, that the worker accepts it.
DispatchAsked(s) ==
    /\ dispatchCall[s].op = DispatchOp[s]
    /\ s \in {"assign", "history"} => dispatchCall[s].order = TheOrder
    /\ s = "assign" => dispatchCall[s].worker = "worker"
    /\ s = "confirm" => dispatchCall[s].response = Plain("ACCEPT")

\* The one dispatch that the service may hold.
DispatchEntry == [dispatch : {"assign"}, order : {TheOrder}, worker : {"worker"},
                  status : {"PENDING_WORKER_CONFIRM", "ACCEPTED", "REJECTED"}]

DispatchTypeOK ==
    /\ DOMAIN dispatchCall = Requests
    /\ DOMAIN dispatchReply = Requests
    /\ \A s \in Requests : "dispatches" \in DOMAIN dispatchReply[s]
    /\ dispatchJournal \in Seq(DispatchEntry)

\* The service has entered nothing before the assignment, and nothing after it but the
\* confirmation, which is therefore its last word and what it shows from then on.
HistoryInv ==
    /\ DispatchTypeOK
    /\ \A s \in DOMAIN DispatchOp : pc[s] # "idle" => DispatchAsked(s)
    /\ dispatchJournal # <<>> => svc["assign"] = "executed"
    /\ Acked("confirm") =>
          seen["confirm"] = "OK" \/ seen["confirm"] \in MOCKABLE_DOWNSTREAM_GAP_CODES
    /\ svc["confirm"] = "executed" =>
          dispatchJournal # <<>> /\ Latest(dispatchJournal).status = "ACCEPTED"
    /\ svc["history"] = "executed" /\ seen["confirm"] = "OK" =>
          \E dispatch \in dispatchReply["history"].dispatches :
             dispatch.dispatch = "assign" /\ dispatch.status = "ACCEPTED"
    /\ Acked("history") =>
          /\ svc["history"] = "executed"
          /\ dispatchAnswer["history"].dispatches = dispatchReply["history"].dispatches

\* The errors of the dispatch routes are those of Errors, and the worker's "ACCEPT" is
\* read as such.
LEMMA DispatchErrors ==
    ASSUME NEW status \in FailureCodes, NEW s
    PROVE  /\ D!MapGrpcError(status).status_code # 200
           /\ D!Covers(s, status) => /\ dispatchCall[s].op = "confirm"
                                     /\ status \in MOCKABLE_DOWNSTREAM_GAP_CODES
  <1>1. D!MapGrpcError(status) = MapGrpcError(status)
    BY DEF D!MapGrpcError, MapGrpcError, D!GRPC_STATUS_TO_HTTP, GRPC_STATUS_TO_HTTP,
       D!StatusCode, StatusCode
  <1>2. D!ShouldUseMockFallback(D!MapGrpcError(status))
           <=> ShouldUseMockFallback(MapGrpcError(status))
    BY <1>1 DEF D!ShouldUseMockFallback, ShouldUseMockFallback,
       D!MOCKABLE_DOWNSTREAM_GAP_CODES, MOCKABLE_DOWNSTREAM_GAP_CODES
  <1> QED
    BY <1>1, <1>2, FailureStatus, Failures DEF D!Covers

\* The service reads the response as it is meant.
LEMMA AcceptIsRead == D!Parse(Plain("ACCEPT"), D!ResponseType) = "ACCEPT"
  <1>1. Plain("ACCEPT") \in Name({"ACCEPT"})
    <2> DEFINE no == FALSE
               bare == {}
               word == "ACCEPT"
               name == Plain(word)
    <2>1. no \in BOOLEAN /\ bare \in SUBSET {"before", "behind"}
      OBVIOUS
    <2>2. name = [word |-> word, prefixed |-> no, lower |-> no, blanks |-> bare]
      BY DEF Plain
    <2> HIDE DEF no, bare, word, name
    <2>3. name \in Name({word})
      BY <2>1, <2>2 DEF Name
    <2> QED
      BY <2>3 DEF name, word
  <1>2. Plain("ACCEPT").word = "ACCEPT" /\ "ACCEPT" \in D!ResponseType
    BY DEF Plain, D!ResponseType
  <1>3. Parse(Plain("ACCEPT"), D!ResponseType) = "ACCEPT"
    BY <1>1, <1>2, ParsedName
  <1>4. D!Parse(Plain("ACCEPT"), D!ResponseType) = Parse(Plain("ACCEPT"), D!ResponseType)
    BY DEF D!Parse, Parse, D!Normalized, Normalized, D!Upcased, Upcased, D!Plain, Plain
  <1> QED
    BY <1>3, <1>4

\* What a dispatch route asks for and answers: the dispatches of the reply, or, of a
\* confirmation that failed, the gateway's own.
LEMMA DispatchRouteHandles ==
    ASSUME ProcessInv, AnsweredInv, HistoryInv, NEW s \in DOMAIN DispatchOp, DispatchRoute(s)
    PROVE  /\ UNCHANGED <<dispatchReply, dispatchJournal>>
           /\ DOMAIN dispatchCall' = Requests
           /\ \A t \in Requests : t # s => dispatchCall'[t] = dispatchCall[t]
           /\ \A t \in Requests : t # s => dispatchAnswer'[t] = dispatchAnswer[t]
           /\ DispatchAsked(s)'
           /\ Acked(s)' =>
                 \/ /\ seen'[s] = "OK" /\ svc'[s] = "executed"
                    /\ dispatchAnswer'[s].dispatches = dispatchReply[s].dispatches
                 \/ s = "confirm" /\ seen'[s] \in MOCKABLE_DOWNSTREAM_GAP_CODES
  <1>0. s \in Requests /\ s \in Steps /\ DispatchOp[s] = s /\ s \in {"assign", "confirm", "history"}
    BY StatusIs DEF DispatchOp
  <1>a. CallsTypeOK /\ AnswersOf /\ DispatchTypeOK
    BY DEF ProcessInv, AnsweredInv, HistoryInv
  <1>b. pc[s] # "idle" => DispatchAsked(s)
    BY DEF HistoryInv
  <1>k. Acked(s)' <=> dispatchAnswer'[s].status = 200
    BY StatusIs
  <1>1. CASE D!Request(s) /\ dispatchCall'[s].op = DispatchOp[s] /\ pc'[s] = "waiting"
    <2>1. PICK op \in D!Ops : \E c \in D!Asks(op) :
             /\ dispatchCall' = [dispatchCall EXCEPT ![s] = c]
             /\ \/ D!AnsweredAtOnce(s)
                \/ dispatchAnswer' = dispatchAnswer /\ pc[s] = "idle"
             /\ UNCHANGED <<dispatchReply, dispatchJournal>>
      BY <1>1 DEF D!Request, D!Sends
    <2>2. PICK c \in D!Asks(op) :
             /\ dispatchCall' = [dispatchCall EXCEPT ![s] = c]
             /\ \/ D!AnsweredAtOnce(s)
                \/ dispatchAnswer' = dispatchAnswer /\ pc[s] = "idle"
      BY <2>1
    <2>3. ~D!AnsweredAtOnce(s)
      BY <1>1, <1>0, <1>a DEF D!AnsweredAtOnce, CallsTypeOK
    <2>4. dispatchCall'[s] = c
      BY <2>2, <1>0, <1>a DEF DispatchTypeOK
    <2>5. c.op = op /\ op = s
      BY <1>1, <2>4, <1>0 DEF D!Asks
    <2>6. /\ s \in {"assign", "history"} => c.order = TheOrder
          /\ s = "assign" => c.worker = "worker"
      BY <2>5 DEF D!Asks
    <2>7. s = "confirm" => c.response = Plain("ACCEPT")
      BY <2>5 DEF D!Asks
    <2>8. DispatchAsked(s)'
      BY <2>4, <2>5, <2>6, <2>7, <1>0 DEF DispatchAsked
    <2>9. ~Acked(s)'
      BY <2>2, <2>3, <1>0, StatusIs DEF AnsweredInv
    <2> QED
      BY <2>1, <2>2, <2>3, <2>8, <2>9, <1>0, <1>a DEF DispatchTypeOK
  <1>2. CASE D!Replies(s)
    <2>1. /\ UNCHANGED <<dispatchCall, dispatchReply, dispatchJournal>>
          /\ pc[s] = "waiting" /\ seen' = [seen EXCEPT ![s] = "OK"]
          /\ svc[s] = "executed" /\ svc' = svc
          /\ \/ D!Answers(s, 500, D!NoReply)
             \/ D!Answers(s, 200, dispatchReply[s])
      BY <1>2 DEF D!Replies, D!Returns
    <2>2. seen'[s] = "OK" /\ svc'[s] = "executed"
      BY <2>1, <1>0, <1>a DEF CallsTypeOK
    <2>3. DispatchAsked(s)'
      BY <2>1, <1>b DEF DispatchAsked
    <2>4. CASE D!Answers(s, 500, D!NoReply)
      BY <2>1, <2>3, <2>4, <1>0, <1>a, <1>k DEF D!Answers, AnswersOf, DispatchTypeOK
    <2>5. CASE D!Answers(s, 200, dispatchReply[s])
      BY <2>1, <2>2, <2>3, <2>5, <1>0, <1>a, <1>k DEF D!Answers, AnswersOf, DispatchTypeOK
    <2> QED
      BY <2>1, <2>4, <2>5
  <1>3. ASSUME NEW status \in FailureCodes, D!Fails(s, status)
        PROVE  /\ UNCHANGED <<dispatchReply, dispatchJournal>>
               /\ DOMAIN dispatchCall' = Requests
               /\ \A t \in Requests : t # s => dispatchCall'[t] = dispatchCall[t]
               /\ \A t \in Requests : t # s => dispatchAnswer'[t] = dispatchAnswer[t]
               /\ DispatchAsked(s)'
               /\ Acked(s)' => s = "confirm" /\ seen'[s] \in MOCKABLE_DOWNSTREAM_GAP_CODES
    <2>1. /\ UNCHANGED <<dispatchCall, dispatchReply, dispatchJournal>>
          /\ pc[s] = "waiting" /\ seen' = [seen EXCEPT ![s] = status]
          /\ \/ /\ D!Covers(s, status)
                /\ D!Answers(s, 200, [D!NoReply EXCEPT !.dispatches = {D!OwnDispatch(s)}])
             \/ D!Answers(s, D!MapGrpcError(status).status_code, D!NoReply)
      BY <1>3 DEF D!Fails, D!Raises, D!Refused, D!OutOfReach
    <2>2. seen'[s] = status
      BY <2>1, <1>0, <1>a DEF CallsTypeOK
    <2>3. DispatchAsked(s)' /\ DispatchAsked(s)
      BY <2>1, <1>b DEF DispatchAsked
    <2>4. CASE D!Covers(s, status)
               /\ D!Answers(s, 200, [D!NoReply EXCEPT !.dispatches = {D!OwnDispatch(s)}])
      <3>1. s = "confirm" /\ status \in MOCKABLE_DOWNSTREAM_GAP_CODES
        BY <2>3, <2>4, <1>0, DispatchErrors DEF DispatchAsked
      <3> QED
        BY <2>1, <2>2, <2>3, <2>4, <3>1, <1>a DEF D!Answers, AnswersOf, DispatchTypeOK
    <2>5. CASE D!Answers(s, D!MapGrpcError(status).status_code, D!NoReply)
      BY <2>1, <2>3, <2>5, <1>0, <1>a, <1>k, DispatchErrors
         DEF D!Answers, AnswersOf, DispatchTypeOK
    <2> QED
      BY <2>1, <2>4, <2>5
  <1> QED
    BY <1>1, <1>2, <1>3 DEF DispatchRoute

\* The service holds the dispatch, if it holds one, as it was entered last.
LEMMA LatestDispatch ==
    ASSUME dispatchJournal \in Seq(DispatchEntry), dispatchJournal # <<>>
    PROVE  D!Held = {Latest(dispatchJournal)} /\ Latest(dispatchJournal) \in DispatchEntry
  <1> DEFINE n == Len(dispatchJournal)
             last == Latest(dispatchJournal)
  <1>1. n \in Nat /\ n > 0 /\ DOMAIN dispatchJournal = 1..n /\ n \in 1..n
    OBVIOUS
  <1>a. \A i \in 1..n : dispatchJournal[i] \in DispatchEntry
    BY <1>1
  <1>b. last = dispatchJournal[n]
    BY DEF Latest
  <1> HIDE DEF n, last
  <1>2. \A i \in 1..n : dispatchJournal[i].dispatch = "assign"
    BY <1>a DEF DispatchEntry
  <1>3. \A j \in 1..n :
           (\A k \in 1..n : k > j => dispatchJournal[k].dispatch # dispatchJournal[j].dispatch)
              <=> j = n
    <2> SUFFICES ASSUME NEW j \in 1..n
                 PROVE  (\A k \in 1..n :
                            k > j => dispatchJournal[k].dispatch # dispatchJournal[j].dispatch)
                           <=> j = n
      OBVIOUS
    <2>1. j # n => n > j
      BY <1>1
    <2>2. j = n => ~\E k \in 1..n : k > j
      BY <1>1
    <2> QED
      BY <2>1, <2>2, <1>1, <1>2
  <1>4. D!Held = {last}
    BY <1>1, <1>b, <1>3 DEF D!Held
  <1>5. last \in DispatchEntry
    BY <1>1, <1>a, <1>b
  <1> QED
    BY <1>4, <1>5 DEF last

\* What the dispatch service does: after the confirmation it enters nothing more, and
\* shows what it has entered last.
LEMMA DispatchServiceServes ==
    ASSUME ProcessInv, HistoryInv, NEW s \in DOMAIN DispatchOp, DispatchService(s)
    PROVE  /\ UNCHANGED <<dispatchCall, dispatchAnswer>>
           /\ DispatchTypeOK'
           /\ \A t \in Requests : t # s => dispatchReply'[t] = dispatchReply[t]
           /\ dispatchJournal' # dispatchJournal => dispatchJournal = <<>> \/ s = "confirm"
           /\ dispatchJournal' # <<>> => svc["assign"] = "executed" \/ s = "assign"
           /\ s = "confirm" =>
                 dispatchJournal' # <<>> /\ Latest(dispatchJournal').status = "ACCEPTED"
           /\ s = "history" => dispatchJournal' = dispatchJournal
           /\ s = "history" /\ dispatchJournal # <<>> =>
                 \E dispatch \in dispatchReply'[s].dispatches :
                    /\ dispatch = Latest(dispatchJournal)
                    /\ dispatch.dispatch = "assign"
  <1>0. /\ s \in Requests /\ s \in Steps /\ DispatchOp[s] = s
        /\ s \in {"assign", "confirm", "history"}
    BY StatusIs DEF DispatchOp
  <1>a. CallsTypeOK /\ LifeInv /\ DispatchTypeOK
    BY DEF ProcessInv, HistoryInv
  <1>1. Serves(s)
    BY DEF Serves
  <1>2. DispatchAsked(s)
    BY <1>0, <1>1, <1>a, ServesCalls DEF Executes, LifeInv, HistoryInv
  <1>3. svc["assign"] = "executed" => s # "assign"
    BY <1>0, <1>1, ServesCalls DEF Executes
  <1>b. dispatchJournal # <<>> => svc["assign"] = "executed"
    BY DEF HistoryInv
  <1>4. UNCHANGED <<dispatchCall, dispatchAnswer>>
    BY DEF DispatchService, D!ServesAssign, D!ServesConfirm, D!ServesHistory, D!Enters,
       D!Shows
  <1>5. /\ DOMAIN dispatchReply' = Requests
        /\ \A t \in Requests : "dispatches" \in DOMAIN dispatchReply'[t]
        /\ \A t \in Requests : t # s => dispatchReply'[t] = dispatchReply[t]
    <2>1. PICK shown : dispatchReply' = [dispatchReply EXCEPT ![s].dispatches = shown]
      BY DEF DispatchService, D!ServesAssign, D!ServesConfirm, D!ServesHistory, D!Enters,
         D!Shows
    <2> QED
      BY <2>1, <1>a DEF DispatchTypeOK
  <1>6. CASE D!ServesAssign(s)
    <2> DEFINE entry == [dispatch |-> s, order |-> dispatchCall[s].order,
                         worker |-> dispatchCall[s].worker, status |-> "PENDING_WORKER_CONFIRM"]
    <2>1. s = "assign" /\ dispatchJournal = <<>>
      BY <1>0, <1>2, <1>3, <1>6, <1>b DEF D!ServesAssign, DispatchAsked
    <2>2. dispatchJournal' = Append(dispatchJournal, entry)
      BY <1>6 DEF D!ServesAssign, D!Enters
    <2>3. entry \in DispatchEntry
      BY <2>1, <1>2 DEF DispatchAsked, DispatchEntry
    <2> HIDE DEF entry
    <2>4. dispatchJournal' \in Seq(DispatchEntry)
      BY <2>2, <2>3, <1>a, AppendProperties DEF DispatchTypeOK
    <2> QED
      BY <2>1, <2>4, <1>4, <1>5, <1>a DEF DispatchTypeOK
  <1>7. CASE D!ServesConfirm(s)
    <2>1. s = "confirm"
      BY <1>0, <1>2, <1>7 DEF D!ServesConfirm, DispatchAsked
    <2>2. PICK record \in D!Held :
             D!Enters(s, [record EXCEPT !.status =
                IF D!Parse(dispatchCall[s].response, D!ResponseType) = "ACCEPT"
                THEN "ACCEPTED" ELSE "REJECTED"])
      BY <1>7 DEF D!ServesConfirm
    <2> DEFINE entry == [record EXCEPT !.status = "ACCEPTED"]
    <2>3. D!Parse(dispatchCall[s].response, D!ResponseType) = "ACCEPT"
      BY <2>1, <1>2, AcceptIsRead DEF DispatchAsked
    <2>4. dispatchJournal' = Append(dispatchJournal, entry)
      BY <2>2, <2>3 DEF D!Enters
    <2>5. dispatchJournal # <<>>
      BY <2>2 DEF D!Held
    <2>6. record \in DispatchEntry
      BY <2>2, <2>5, <1>a, LatestDispatch DEF DispatchTypeOK
    <2>7. entry \in DispatchEntry /\ entry.status = "ACCEPTED"
      BY <2>6 DEF DispatchEntry
    <2> HIDE DEF entry
    <2>8. /\ dispatchJournal' \in Seq(DispatchEntry) /\ dispatchJournal' # <<>>
          /\ Latest(dispatchJournal') = entry
      BY <2>4, <2>7, <1>a, AppendProperties DEF DispatchTypeOK, Latest
    <2> QED
      BY <2>1, <2>5, <2>7, <2>8, <1>4, <1>5, <1>a, <1>b DEF DispatchTypeOK
  <1>8. CASE D!ServesHistory(s)
    <2>1. s = "history"
      BY <1>0, <1>2, <1>8 DEF D!ServesHistory, DispatchAsked
    <2> DEFINE shown == {record \in D!Held : record.order = dispatchCall[s].order}
    <2>2. /\ dispatchJournal' = dispatchJournal
          /\ dispatchReply' = [dispatchReply EXCEPT ![s].dispatches = shown]
      BY <1>8 DEF D!ServesHistory, D!Shows
    <2>3. dispatchJournal # <<>> =>
             /\ Latest(dispatchJournal) \in shown
             /\ Latest(dispatchJournal).dispatch = "assign"
      <3> SUFFICES ASSUME dispatchJournal # <<>>
                   PROVE  /\ Latest(dispatchJournal) \in shown
                          /\ Latest(dispatchJournal).dispatch = "assign"
        OBVIOUS
      <3>1. D!Held = {Latest(dispatchJournal)} /\ Latest(dispatchJournal) \in DispatchEntry
        BY <1>a, LatestDispatch DEF DispatchTypeOK
      <3> QED
        BY <3>1, <2>1, <1>2 DEF DispatchEntry, DispatchAsked
    <2> HIDE DEF shown
    <2>4. dispatchReply'[s].dispatches = shown
      BY <2>2, <1>0, <1>a DEF DispatchTypeOK
    <2> QED
      BY <2>1, <2>2, <2>3, <2>4, <1>4, <1>5, <1>a, <1>b DEF DispatchTypeOK
  <1> QED
    BY <1>6, <1>7, <1>8 DEF DispatchService

\* It holds in the first state.
LEMMA HistoryInvInit == Init => HistoryInv
  <1> SUFFICES ASSUME Init PROVE HistoryInv
    OBVIOUS
  <1>1. \A s \in DOMAIN DispatchOp :
           pc[s] = "idle" /\ svc[s] = "none" /\ ~Acked(s)
    BY StatusIs DEF Init, D!Init, D!CallsInit
  <1>2. DispatchTypeOK
    BY DEF Init, D!Init, D!NoReply, DispatchTypeOK
  <1>3. /\ "assign" \in DOMAIN DispatchOp /\ "confirm" \in DOMAIN DispatchOp
        /\ "history" \in DOMAIN DispatchOp
    BY DEF DispatchOp
  <1>4. dispatchJournal = <<>>
    BY DEF Init, D!Init
  <1> QED
    BY <1>1, <1>2, <1>3, <1>4 DEF HistoryInv

\* When a look comes in, all that the flow asks for has been acknowledged.
LEMMA LooksComeLast ==
    ASSUME AnsweredInv, TurnInv, NEW s \in Looks, pc[s] # "idle"
    PROVE  /\ Acked("confirm") /\ pc["confirm"] = "answered"
           /\ Acked("complete") /\ pc["complete"] = "answered"
           /\ Acked("close") /\ pc["close"] = "answered"
  <1>1. Acked("close") /\ pc["close"] = "answered"
    BY FlowSteps DEF TurnInv, AnsweredInv
  <1>2. /\ 7 \in DOMAIN Flow /\ Flow[7] = "close" /\ 3 \in 1..(7 - 1) /\ 5 \in 1..(7 - 1)
        /\ Flow[3] = "confirm" /\ Flow[5] = "complete"
    BY DEF Flow
  <1>3. Acked(Flow[3]) \/ Flow[3] = "pay"
    BY <1>1, <1>2 DEF TurnInv
  <1>4. Acked(Flow[5]) \/ Flow[5] = "pay"
    BY <1>1, <1>2 DEF TurnInv
  <1>5. Acked("confirm") /\ Acked("complete")
    BY <1>2, <1>3, <1>4
  <1>6. "confirm" \in Steps /\ "complete" \in Steps
    BY DEF Steps, DispatchOp, ServiceOp
  <1> QED
    BY <1>1, <1>5, <1>6 DEF AnsweredInv

\* The steps keep it: the confirmation is over when the look comes in.
LEMMA HistoryInvStep ==
    ProcessInv /\ AnsweredInv /\ TurnInv /\ HistoryInv /\ [Next]_vars => HistoryInv'
  <1> SUFFICES ASSUME ProcessInv, AnsweredInv, TurnInv, HistoryInv, [Next]_vars
               PROVE  HistoryInv'
    OBVIOUS
  <1> DEFINE assign == "assign"
             confirm == "confirm"
             history == "history"
  <1>0. /\ Steps = Requests /\ DOMAIN DispatchOp = {assign, confirm, history}
        /\ assign \in Requests /\ confirm \in Requests /\ history \in Requests
        /\ confirm # history /\ assign # confirm /\ assign # history
    BY CoreFlowAssumption DEF CoreFlowAssumption, Steps, DispatchOp
  <1>a. CallsTypeOK /\ LifeInv /\ LifeInv' /\ DispatchTypeOK
    BY ProcessInvStep DEF ProcessInv, HistoryInv
  <1>c. /\ \A s \in DOMAIN DispatchOp : pc[s] # "idle" => DispatchAsked(s)
        /\ dispatchJournal # <<>> => svc[assign] = "executed"
        /\ Acked(confirm) =>
              seen[confirm] = "OK" \/ seen[confirm] \in MOCKABLE_DOWNSTREAM_GAP_CODES
        /\ svc[confirm] = "executed" =>
              dispatchJournal # <<>> /\ Latest(dispatchJournal).status = "ACCEPTED"
        /\ svc[history] = "executed" /\ seen[confirm] = "OK" =>
              \E dispatch \in dispatchReply[history].dispatches :
                 dispatch.dispatch = "assign" /\ dispatch.status = "ACCEPTED"
        /\ Acked(history) =>
              /\ svc[history] = "executed"
              /\ dispatchAnswer[history].dispatches = dispatchReply[history].dispatches
    BY DEF HistoryInv
  <1>d. ASSUME /\ DispatchTypeOK'
               /\ \A s \in DOMAIN DispatchOp : pc'[s] # "idle" => DispatchAsked(s)'
               /\ dispatchJournal' # <<>> => svc'[assign] = "executed"
               /\ Acked(confirm)' =>
                     seen'[confirm] = "OK" \/ seen'[confirm] \in MOCKABLE_DOWNSTREAM_GAP_CODES
               /\ svc'[confirm] = "executed" =>
                     dispatchJournal' # <<>> /\ Latest(dispatchJournal').status = "ACCEPTED"
               /\ svc'[history] = "executed" /\ seen'[confirm] = "OK" =>
                     \E dispatch \in dispatchReply'[history].dispatches :
                        dispatch.dispatch = "assign" /\ dispatch.status = "ACCEPTED"
               /\ Acked(history)' =>
                     /\ svc'[history] = "executed"
                     /\ dispatchAnswer'[history].dispatches = dispatchReply'[history].dispatches
        PROVE  HistoryInv'
    BY <1>d DEF HistoryInv, Latest
  \* What the accounts of the requests may become.
  <1>s. \A t \in {assign, confirm, history} :
           /\ Acked(t)' /\ ~Acked(t) => Route(t)
           /\ pc'[t] # "idle" /\ pc[t] = "idle" => Route(t)
           /\ pc[t] \in {"answered", "lost"} => seen'[t] = seen[t]
    BY <1>0, <1>a, AckedSteps
  <1>e. \A t \in {assign, confirm, history} : svc[t] = "executed" => svc'[t] = "executed"
    BY <1>0, <1>a, StepOfCalls, LifeGoesOn
  <1>g. svc[history] # "none" => pc[confirm] = "answered"
    <2>1. svc[history] # "none" => pc[history] # "idle"
      BY <1>0, <1>a DEF LifeInv
    <2>2. history \in Looks
      BY DEF Looks
    <2> QED
      BY <2>1, <2>2, LooksComeLast
  <1>t. ASSUME UNCHANGED <<dispatchCall, dispatchReply>>, dispatchJournal' = dispatchJournal
        PROVE  DispatchTypeOK' /\ \A s \in Requests : DispatchAsked(s) => DispatchAsked(s)'
    BY <1>t, <1>a DEF DispatchTypeOK, DispatchAsked
  <1> HIDE DEF assign, confirm, history
  <1>1. ASSUME UNCHANGED dispatchVars, UNCHANGED <<svc>>, UNCHANGED <<seen[confirm]>>,
               \A t \in {assign, confirm, history} :
                  /\ Acked(t)' <=> Acked(t)
                  /\ pc'[t] # "idle" => pc[t] # "idle"
        PROVE  HistoryInv'
    BY <1>0, <1>1, <1>c, <1>d, <1>t DEF dispatchVars
  <1>2. ASSUME NEW s \in DOMAIN DispatchOp, DispatchRoute(s) PROVE HistoryInv'
    <2>1. s \in Steps /\ Route(s) /\ s \in Requests
      BY <1>2, StatusIs DEF Route
    <2>2. /\ UNCHANGED <<dispatchReply, dispatchJournal>>
          /\ DOMAIN dispatchCall' = Requests
          /\ \A t \in Requests : t # s => dispatchCall'[t] = dispatchCall[t]
          /\ \A t \in Requests : t # s => dispatchAnswer'[t] = dispatchAnswer[t]
          /\ DispatchAsked(s)'
          /\ Acked(s)' =>
                \/ /\ seen'[s] = "OK" /\ svc'[s] = "executed"
                   /\ dispatchAnswer'[s].dispatches = dispatchReply[s].dispatches
                \/ s = "confirm" /\ seen'[s] \in MOCKABLE_DOWNSTREAM_GAP_CODES
      BY <1>2, DispatchRouteHandles
    <2>3. \A t \in Requests : t # s => pc'[t] = pc[t] /\ svc'[t] = svc[t] /\ seen'[t] = seen[t]
      BY <2>1, <1>0, <1>a, OthersStay
    <2>4. \A t \in Requests : t # s => (Acked(t)' <=> Acked(t))
      BY <2>1, <1>0, AnswersOwn, StatusIs DEF AnsweredInv
    <2>5. svc'[s] = "executed" => svc[s] = "executed"
      BY <2>1, <1>0, <1>a, RouteCalls
         DEF AnsweredAtOnce, Sends, Wakes, Returns, Raises, Refused, OutOfReach, CallsTypeOK
    <2>6. pc[s] \in {"idle", "waiting"}
      BY <2>1, RouteCalls DEF Goes
    <2>7. DispatchTypeOK'
      BY <2>2, <1>a DEF DispatchTypeOK
    <2>8. \A t \in DOMAIN DispatchOp : pc'[t] # "idle" => DispatchAsked(t)'
      <3> SUFFICES ASSUME NEW t \in DOMAIN DispatchOp, t # s, pc[t] # "idle"
                   PROVE  DispatchAsked(t)'
        BY <2>2, <2>3, StatusIs
      <3>1. dispatchCall'[t] = dispatchCall[t] /\ DispatchAsked(t)
        BY <2>2, <1>c, StatusIs
      <3> QED
        BY <3>1 DEF DispatchAsked
    <2>9. \A t \in Requests : svc'[t] = "executed" => svc[t] = "executed"
      BY <2>3, <2>5
    <2>10. Acked(confirm)' =>
              seen'[confirm] = "OK" \/ seen'[confirm] \in MOCKABLE_DOWNSTREAM_GAP_CODES
      <3>1. CASE s = confirm
        BY <2>2, <3>1
      <3>2. CASE s # confirm
        BY <2>3, <2>4, <3>2, <1>0, <1>c
      <3> QED
        BY <3>1, <3>2
    <2>11. svc'[history] = "executed" /\ seen'[confirm] = "OK" => seen[confirm] = "OK"
      <3>1. svc'[history] = "executed" => pc[confirm] = "answered"
        BY <2>9, <1>0, <1>g
      <3> QED
        BY <3>1, <1>s
    <2>12. Acked(history)' =>
              /\ svc'[history] = "executed"
              /\ dispatchAnswer'[history].dispatches = dispatchReply'[history].dispatches
      <3>1. CASE s = history
        <4>1. s # "confirm"
          BY <3>1, <1>0 DEF confirm
        <4> QED
          BY <2>2, <3>1, <4>1
      <3>2. CASE s # history
        BY <2>2, <2>3, <2>4, <3>2, <1>0, <1>c
      <3> QED
        BY <3>1, <3>2
    <2> QED
      BY <2>2, <2>7, <2>8, <2>9, <2>10, <2>11, <2>12, <1>0, <1>c, <1>d, <1>e
  <1>3. ASSUME NEW s \in DOMAIN DispatchOp, DispatchService(s) PROVE HistoryInv'
    <2>1. s \in Steps /\ Serves(s) /\ s \in Requests
      BY <1>3, StatusIs DEF Serves
    <2>2. /\ UNCHANGED <<dispatchCall, dispatchAnswer>>
          /\ DispatchTypeOK'
          /\ \A t \in Requests : t # s => dispatchReply'[t] = dispatchReply[t]
          /\ dispatchJournal' # dispatchJournal => dispatchJournal = <<>> \/ s = "confirm"
          /\ dispatchJournal' # <<>> => svc["assign"] = "executed" \/ s = "assign"
          /\ s = "confirm" =>
                dispatchJournal' # <<>> /\ Latest(dispatchJournal').status = "ACCEPTED"
          /\ s = "history" => dispatchJournal' = dispatchJournal
          /\ s = "history" /\ dispatchJournal # <<>> =>
                \E dispatch \in dispatchReply'[s].dispatches :
                   /\ dispatch = Latest(dispatchJournal)
                   /\ dispatch.dispatch = "assign"
      BY <1>3, DispatchServiceServes
    <2>3. /\ pc' = pc /\ seen' = seen /\ svc[s] = "pending" /\ svc'[s] = "executed"
          /\ \A t \in Requests : t # s => svc'[t] = svc[t]
      BY <2>1, <1>0, <1>a, ServesCalls, OthersStay DEF Executes, CallsTypeOK
    <2>4. \A t \in Requests : Acked(t)' <=> Acked(t)
      <3>1. ~\E t \in Steps : Route(t)
        <4> SUFFICES ASSUME NEW t \in Steps, Route(t) PROVE FALSE
          OBVIOUS
        <4>1. pc[t] \in {"idle", "waiting"} /\ (AnsweredAtOnce(t) \/ Sends(t) \/ Wakes(t))
          BY RouteCalls DEF Goes
        <4>2. pc'[t] # pc[t]
          BY <4>1, <1>0, <1>a, Waking DEF AnsweredAtOnce, Sends, CallsTypeOK
        <4> QED
          BY <2>3, <4>2
      <3> QED
        BY <3>1, <1>0, AnswersStay, StatusIs DEF AnsweredInv
    <2>5. \A t \in DOMAIN DispatchOp : pc'[t] # "idle" => DispatchAsked(t)'
      BY <2>2, <2>3, <1>c DEF DispatchAsked
    <2>6. dispatchJournal' # <<>> => svc'[assign] = "executed"
      BY <2>2, <2>3, <1>e DEF assign
    <2>7. svc'[confirm] = "executed" =>
             dispatchJournal' # <<>> /\ Latest(dispatchJournal').status = "ACCEPTED"
      <3>1. CASE s = confirm
        BY <2>2, <3>1 DEF confirm
      <3>2. CASE s # confirm
        BY <2>2, <2>3, <3>2, <1>0, <1>c DEF confirm
      <3> QED
        BY <3>1, <3>2
    <2>8. svc'[history] = "executed" /\ seen'[confirm] = "OK" =>
             \E dispatch \in dispatchReply'[history].dispatches :
                dispatch.dispatch = "assign" /\ dispatch.status = "ACCEPTED"
      <3>1. CASE s = history
        <4> SUFFICES ASSUME seen[confirm] = "OK"
                     PROVE  \E dispatch \in dispatchReply'[history].dispatches :
                               dispatch.dispatch = "assign" /\ dispatch.status = "ACCEPTED"
          BY <2>3
        <4>1. svc[confirm] = "executed"
          BY <1>0, <1>a DEF LifeInv
        <4>2. dispatchJournal # <<>> /\ Latest(dispatchJournal).status = "ACCEPTED"
          BY <4>1, <1>c
        <4> QED
          BY <2>2, <3>1, <4>2 DEF history
      <3>2. CASE s # history
        BY <2>2, <2>3, <3>2, <1>0, <1>c
      <3> QED
        BY <3>1, <3>2
    <2>9. Acked(history)' =>
             /\ svc'[history] = "executed"
             /\ dispatchAnswer'[history].dispatches = dispatchReply'[history].dispatches
      <3>1. CASE s = history
        BY <2>3, <2>4, <3>1, <1>0, <1>c
      <3>2. CASE s # history
        BY <2>2, <2>3, <2>4, <3>2, <1>0, <1>c
      <3> QED
        BY <3>1, <3>2
    <2> QED
      BY <2>2, <2>3, <2>4, <2>5, <2>6, <2>7, <2>8, <2>9, <1>0, <1>c, <1>d
  <1>4. ASSUME NEW s \in Steps, Route(s) \/ Serves(s), s \notin DOMAIN DispatchOp
        PROVE  HistoryInv'
    <2>1. UNCHANGED dispatchVars
      BY <1>4 DEF Route, Serves, FinanceRoute, FinanceService, OrderRoute,
         OrderService, ServiceRoute, ServiceExecutionService
    <2>2. \A t \in {assign, confirm, history} :
             t # s /\ pc'[t] = pc[t] /\ svc'[t] = svc[t] /\ seen'[t] = seen[t]
      BY <1>0, <1>4, <1>a, OthersStay
    <2>3. \A t \in {assign, confirm, history} : Acked(t)' <=> Acked(t)
      BY <2>1, <1>0, StatusIs DEF dispatchVars
    <2>4. DispatchTypeOK' /\ \A t \in Requests : DispatchAsked(t) => DispatchAsked(t)'
      BY <2>1, <1>t DEF dispatchVars
    <2> QED
      BY <2>1, <2>2, <2>3, <2>4, <1>0, <1>c, <1>d DEF dispatchVars
  <1>5. ASSUME NEW s \in Steps, Route(s) \/ Serves(s), s \in DOMAIN DispatchOp PROVE HistoryInv'
    <2>1. s \notin DOMAIN FinanceOp /\ s \notin DOMAIN OrderOp /\ s \notin DOMAIN ServiceOp
      BY <1>5 DEF OrderOp, DispatchOp, ServiceOp, FinanceOp
    <2> QED
      BY <1>2, <1>3, <1>5, <2>1 DEF Route, Serves
  <1>6. CASE Starts \/ Stops \/ Exits \/ Dies \/ UNCHANGED vars
    <2>1. UNCHANGED dispatchVars /\ svc' = svc /\ seen' = seen
      BY <1>6, RestartCalls
         DEF Starts, Stops, Exits, Dies, Restarts, D!Restart, D!dispatchVars, dispatchVars,
             Crashes, vars, callVars, routeVars
    <2>2. \A t \in {assign, confirm, history} : Acked(t)' <=> Acked(t)
      BY <2>1, <1>0, StatusIs DEF dispatchVars
    <2>3. \A t \in {assign, confirm, history} : pc'[t] # "idle" => pc[t] # "idle"
      <3>1. CASE pc' = pc
        BY <3>1
      <3>2. CASE Crashes
        BY <3>2, <1>0 DEF Crashes
      <3> QED
        BY <1>6, <3>1, <3>2, RestartCalls
           DEF Starts, Stops, Exits, Dies, vars, callVars
    <2> QED
      BY <2>1, <2>2, <2>3, <1>1
  <1> QED
    BY <1>4, <1>5, <1>6, StepKinds

-----------------------------------------------------------------------------
(* The completion, and the look at the record. *)

\* A record that is told as complete, or none.
Done(record) == record = S!NoRecord \/ record.status = "COMPLETE"

\* The service told the client that it is done, or the gateway did.  The store of the
\* incarnation that did so has the record as complete; that of a later one has it so or
\* not at all, and asks the service.
RecordInv ==
    /\ records \in [{TheOrder} -> S!Record]
    /\ serviceAnswer["complete"].epoch \in 0..epoch
    /\ Acked("complete") =>
          /\ seen["complete"] = "OK" \/ seen["complete"] \in MOCKABLE_DOWNSTREAM_GAP_CODES
          /\ Done(records[TheOrder])
          /\ serviceAnswer["complete"].epoch = epoch => records[TheOrder].status = "COMPLETE"
    /\ Done(serviceReply["complete"].record)
    /\ svc["complete"] = "executed" /\ deployment = "services" =>
          archive[TheOrder].status = "COMPLETE"
    /\ svc["record"] = "executed" /\ (deployment = "mocks" \/ seen["complete"] = "OK") =>
          serviceReply["record"].record.status = "COMPLETE"
    /\ pc["record"] = "waiting" =>
          serviceAnswer["complete"].epoch < serviceCall["record"].epoch
    /\ Acked("record") =>
          \/ serviceAnswer["record"].record.status = "COMPLETE"
          \/ /\ FellBack("complete")
             /\ serviceAnswer["complete"].epoch < serviceCall["record"].epoch

\* The errors of the service routes are those of Errors.
LEMMA ServiceErrors ==
    ASSUME NEW status \in FailureCodes
    PROVE  /\ S!MapGrpcError(status).status_code # 200
           /\ S!FallsBackOn(status) => status \in MOCKABLE_DOWNSTREAM_GAP_CODES
  <1>1. S!MapGrpcError(status) = MapGrpcError(status)
    BY DEF S!MapGrpcError, MapGrpcError, S!GRPC_STATUS_TO_HTTP, GRPC_STATUS_TO_HTTP,
       S!StatusCode, StatusCode
  <1>2. S!FallsBackOn(status) <=> ShouldUseMockFallback(MapGrpcError(status))
    BY <1>1 DEF S!FallsBackOn, S!ShouldUseMockFallback, ShouldUseMockFallback,
       S!MOCKABLE_DOWNSTREAM_GAP_CODES, MOCKABLE_DOWNSTREAM_GAP_CODES
  <1> QED
    BY <1>1, <1>2, FailureStatus, Failures

\* The records that the gateway makes up are records, and those of a completion say so.
LEMMA OwnRecords ==
    ASSUME NEW s \in Requests, NEW record \in S!Record
    PROVE  /\ S!OwnStart(s) \in S!Record
           /\ S!Completed(record, s) \in S!Record
           /\ S!Completed(record, s).status = "COMPLETE"
           /\ S!Invented.status = "COMPLETE"
           /\ S!NoRecord.status # "COMPLETE"
  <1>1. <<>> \in Seq(S!Photo)
    OBVIOUS
  <1>2. S!OwnStart(s) \in S!Record
    BY <1>1 DEF S!OwnStart, S!Record, S!Token
  <1>3. S!Completed(record, s) \in S!Record /\ S!Completed(record, s).status = "COMPLETE"
    BY DEF S!Completed, S!Record, S!Token
  <1>4. S!Invented.status = "COMPLETE" /\ S!NoRecord.status # "COMPLETE"
    BY DEF S!Invented, S!NoRecord, S!None
  <1> QED
    BY <1>2, <1>3, <1>4

\* What a service route makes of the store and of its own answer.
ServiceHandled(s) ==
    /\ \A t \in Requests : t # s => serviceAnswer'[t] = serviceAnswer[t]
    /\ serviceAnswer'[s].epoch \in {serviceAnswer[s].epoch, epoch}
    /\ pc[s] # "idle" => serviceCall'[s] = serviceCall[s]
    /\ records' \in [{TheOrder} -> S!Record]
    /\ s = "record" =>
          /\ records' = records
          /\ pc'[s] = "waiting" =>
                records[TheOrder] = S!NoRecord /\ serviceCall'[s].epoch = epoch
    /\ Acked(s)' /\ s = "complete" =>
          /\ seen'[s] = "OK" \/ seen'[s] \in MOCKABLE_DOWNSTREAM_GAP_CODES
          /\ records'[TheOrder].status = "COMPLETE"
    /\ Acked(s)' /\ s = "record" =>
          \/ serviceAnswer'[s].record.status = "COMPLETE"
          \/ /\ serviceAnswer'[s].record = records[TheOrder]
             /\ records[TheOrder] # S!NoRecord
          \/ /\ pc[s] = "waiting" /\ svc[s] = "executed"
             /\ serviceAnswer'[s].record = serviceReply[s].record

\* Each service route does so, from where the invariants hold.
LEMMA ServiceRouteAnswers ==
    ASSUME ProcessInv, AnsweredInv, RecordsInv, RecordInv,
           NEW s \in DOMAIN ServiceOp, ServiceRoute(s)
    PROVE  ServiceHandled(s)
  <1>0. /\ s \in Requests /\ s \in Steps
        /\ \/ s = "start" /\ ServiceOp[s] = "start"
           \/ s = "complete" /\ ServiceOp[s] = "complete"
           \/ s = "record" /\ ServiceOp[s] = "get"
    BY StatusIs DEF ServiceOp
  <1>a. /\ CallsTypeOK /\ AnswersOf /\ RecordsTypeOK
        /\ records \in [{TheOrder} -> S!Record] /\ records[TheOrder] \in S!Record
        /\ Done(serviceReply["complete"].record)
        /\ serviceReply[s].record \in S!Record
    BY <1>0 DEF ProcessInv, AnsweredInv, RecordsInv, RecordsTypeOK, RecordInv, S!Reply
  <1>b. S!Gateway(s) /\ serviceCall'[s].op = ServiceOp[s] /\ serviceAnswer'[s].status # 422
    BY DEF ServiceRoute
  <1>k. (Acked(s)' <=> serviceAnswer'[s].status = 200) /\ (Acked(s) => pc[s] = "answered")
    BY StatusIs DEF AnsweredInv
  <1>o. pc[s] # "idle" => serviceCall[s].op = ServiceOp[s] /\ serviceCall[s].order = TheOrder
    BY DEF RecordsInv, ServiceStageInv
  \* What the answer is.
  <1>w. ASSUME NEW status, NEW record, S!Answers(s, status, record)
        PROVE  /\ \A t \in Requests : t # s => serviceAnswer'[t] = serviceAnswer[t]
               /\ serviceAnswer'[s].epoch \in {serviceAnswer[s].epoch, epoch}
               /\ serviceAnswer'[s].record = record
               /\ Acked(s)' <=> status = 200
    BY <1>w, <1>0, <1>a, <1>k DEF S!Answers, AnswersOf
  <1>r. ASSUME NEW record, S!Responds(s, record)
        PROVE  /\ \A t \in Requests : t # s => serviceAnswer'[t] = serviceAnswer[t]
               /\ serviceAnswer'[s].epoch \in {serviceAnswer[s].epoch, epoch}
               /\ Acked(s)' => record # S!NoRecord /\ serviceAnswer'[s].record = record
    BY <1>r, <1>w DEF S!Responds
  \* A request for a write comes in.
  <1>1. ASSUME NEW op \in S!Writes, S!Write(s, op) PROVE ServiceHandled(s)
    <2>1. /\ S!Asks(s, op, TheOrder)
          /\ \/ S!AnsweredAtOnce(s) /\ S!Answers(s, 422, S!NoRecord)
             \/ S!Sends(s) /\ UNCHANGED serviceAnswer
          /\ UNCHANGED <<serviceReply, records, archive>>
      BY <1>1 DEF S!Write
    <2>2. pc[s] = "idle" /\ UNCHANGED <<serviceAnswer, records>>
      BY <2>1, <1>0, <1>a, <1>b DEF S!Answers, AnswersOf, S!Sends
    <2>3. serviceCall'[s].op = op
      BY <2>1, <1>0, <1>a DEF S!Asks, RecordsTypeOK
    <2>4. s # "record"
      BY <2>3, <1>0, <1>b DEF S!Writes
    <2>5. ~Acked(s)'
      BY <2>2, <1>k, StatusIs
    <2> QED
      BY <2>2, <2>4, <2>5, <1>0, <1>a DEF ServiceHandled
  \* A look comes in.
  <1>2. CASE S!GetRecord(s)
    <2>1. /\ S!Asks(s, "get", TheOrder)
          /\ \/ /\ records[TheOrder] # S!NoRecord
                /\ S!AnsweredAtOnce(s)
                /\ S!Responds(s, records[TheOrder])
             \/ /\ records[TheOrder] = S!NoRecord
                /\ S!Sends(s)
                /\ UNCHANGED serviceAnswer
          /\ UNCHANGED <<serviceReply, records, archive>>
      BY <1>2 DEF S!GetRecord
    <2>2. serviceCall'[s].op = "get" /\ serviceCall'[s].epoch = epoch
      BY <2>1, <1>0, <1>a DEF S!Asks, RecordsTypeOK
    <2>3. s = "record"
      BY <2>2, <1>0, <1>b
    <2>4. CASE S!AnsweredAtOnce(s) /\ S!Responds(s, records[TheOrder])
      <3>1. pc[s] = "idle" /\ pc'[s] = "answered"
        BY <2>4, <1>0, <1>a DEF S!AnsweredAtOnce, CallsTypeOK
      <3> QED
        BY <2>1, <2>3, <2>4, <3>1, <1>r, <1>a DEF ServiceHandled
    <2>5. CASE records[TheOrder] = S!NoRecord /\ S!Sends(s) /\ UNCHANGED serviceAnswer
      <3>1. pc[s] = "idle" /\ ~Acked(s)'
        BY <2>5, <1>k, StatusIs DEF S!Sends
      <3> QED
        BY <2>1, <2>2, <2>3, <2>5, <3>1, <1>0, <1>a DEF ServiceHandled
    <2> QED
      BY <2>1, <2>4, <2>5
  \* The service has replied, or has not.
  <1>3. ASSUME S!Returns(s), UNCHANGED serviceCall PROVE
               /\ pc[s] = "waiting" /\ pc'[s] = "answered" /\ svc[s] = "executed"
               /\ seen'[s] = "OK" /\ serviceCall[s].order = TheOrder
    BY <1>3, <1>0, <1>a, <1>o DEF S!Returns, CallsTypeOK
  <1>4. ASSUME NEW status \in FailureCodes, S!Raises(s, status), UNCHANGED serviceCall PROVE
               /\ pc[s] = "waiting" /\ pc'[s] = "answered" /\ seen'[s] = status
               /\ serviceCall[s].order = TheOrder
    BY <1>4, <1>0, <1>a, <1>o DEF S!Raises, S!Refused, S!OutOfReach, CallsTypeOK
  \* A failure that is passed on is no acknowledgement.
  <1>5. ASSUME NEW status \in FailureCodes, S!Fails(s, status), UNCHANGED <<serviceCall, records>>,
               pc[s] = "waiting", pc'[s] = "answered"
        PROVE  ServiceHandled(s)
    BY <1>5, <1>a, <1>w, ServiceErrors DEF S!Fails, ServiceHandled
  <1>6. CASE S!StartReturns(s) \/ S!CompleteReturns(s)
    <2>1. /\ serviceCall[s].op \in {"start", "complete"} /\ S!Returns(s) /\ UNCHANGED serviceCall
          /\ records' = IF serviceReply[s].record = S!NoRecord THEN records
                        ELSE S!Put(serviceCall[s].order, serviceReply[s].record)
          /\ S!Responds(s, serviceReply[s].record)
      BY <1>6 DEF S!StartReturns, S!CompleteReturns
    <2>2. s # "record"
      BY <2>1, <1>0, <1>b
    <2>3. /\ pc[s] = "waiting" /\ pc'[s] = "answered" /\ seen'[s] = "OK"
          /\ serviceCall[s].order = TheOrder
      BY <2>1, <1>3
    <2>4. /\ records' \in [{TheOrder} -> S!Record]
          /\ serviceReply[s].record # S!NoRecord => records'[TheOrder] = serviceReply[s].record
      BY <2>1, <2>3, <1>a DEF S!Put
    <2> QED
      BY <2>1, <2>2, <2>3, <2>4, <1>r, <1>a DEF ServiceHandled, Done
  <1>7. ASSUME NEW status \in FailureCodes, S!StartRaises(s, status) PROVE ServiceHandled(s)
    <2>1. /\ serviceCall[s].op = "start" /\ S!Raises(s, status) /\ UNCHANGED serviceCall
          /\ \/ /\ records' = S!Put(serviceCall[s].order, S!OwnStart(s))
                /\ S!Responds(s, S!OwnStart(s))
             \/ S!Fails(s, status) /\ UNCHANGED records
      BY <1>7 DEF S!StartRaises
    <2>2. s = "start" /\ pc[s] = "waiting" /\ pc'[s] = "answered" /\ serviceCall[s].order = TheOrder
      BY <2>1, <1>0, <1>b, <1>4
    <2>3. CASE records' = S!Put(serviceCall[s].order, S!OwnStart(s)) /\ S!Responds(s, S!OwnStart(s))
      <3>1. records' \in [{TheOrder} -> S!Record]
        BY <2>2, <2>3, <1>0, <1>a, OwnRecords DEF S!Put
      <3> QED
        BY <2>1, <2>2, <2>3, <3>1, <1>r DEF ServiceHandled
    <2> QED
      BY <2>1, <2>2, <2>3, <1>5
  <1>8. ASSUME NEW status \in FailureCodes, S!CompleteRaises(s, status) PROVE ServiceHandled(s)
    <2> DEFINE record == S!Completed(records[serviceCall[s].order], s)
    <2>1. /\ serviceCall[s].op = "complete" /\ S!Raises(s, status) /\ UNCHANGED serviceCall
          /\ \/ /\ S!FallsBackOn(status)
                /\ records' = S!Put(serviceCall[s].order, record)
                /\ S!Responds(s, record)
             \/ S!Answers(s, 500, S!NoRecord) /\ UNCHANGED records
             \/ S!Fails(s, status) /\ UNCHANGED records
      BY <1>8 DEF S!CompleteRaises, S!Breaks
    <2>2. /\ s = "complete" /\ pc[s] = "waiting" /\ pc'[s] = "answered" /\ seen'[s] = status
          /\ serviceCall[s].order = TheOrder
      BY <2>1, <1>0, <1>b, <1>4
    <2>3. record \in S!Record /\ record.status = "COMPLETE"
      BY <2>2, <1>0, <1>a, OwnRecords
    <2> HIDE DEF record
    <2>4. CASE /\ S!FallsBackOn(status)
               /\ records' = S!Put(serviceCall[s].order, record)
               /\ S!Responds(s, record)
      <3>1. records' \in [{TheOrder} -> S!Record] /\ records'[TheOrder] = record
        BY <2>2, <2>3, <2>4, <1>a DEF S!Put
      <3> QED
        BY <2>1, <2>2, <2>3, <2>4, <3>1, <1>r, ServiceErrors DEF ServiceHandled
    <2>5. CASE S!Answers(s, 500, S!NoRecord) /\ UNCHANGED records
      BY <2>1, <2>2, <2>5, <1>w, <1>a DEF ServiceHandled
    <2> QED
      BY <2>1, <2>2, <2>4, <2>5, <1>5
  <1>9. CASE S!GetReturns(s)
    <2>1. /\ serviceCall[s].op = "get" /\ S!Returns(s) /\ UNCHANGED <<serviceCall, records>>
          /\ S!Responds(s, serviceReply[s].record)
      BY <1>9 DEF S!GetReturns
    <2>2. s = "record" /\ pc[s] = "waiting" /\ pc'[s] = "answered" /\ svc[s] = "executed"
      BY <2>1, <1>0, <1>b, <1>3
    <2> QED
      BY <2>1, <2>2, <1>r, <1>a DEF ServiceHandled
  <1>10. ASSUME NEW status \in FailureCodes, S!GetRaises(s, status) PROVE ServiceHandled(s)
    <2>1. /\ serviceCall[s].op = "get" /\ S!Raises(s, status) /\ UNCHANGED <<serviceCall, records>>
          /\ \/ S!Responds(s, S!FallbackRecord(serviceCall[s].order))
             \/ S!Fails(s, status)
      BY <1>10 DEF S!GetRaises
    <2>2. /\ s = "record" /\ pc[s] = "waiting" /\ pc'[s] = "answered"
          /\ serviceCall[s].order = TheOrder
      BY <2>1, <1>0, <1>b, <1>4
    <2>3. CASE S!Responds(s, S!FallbackRecord(TheOrder))
      <3>1. \/ S!FallbackRecord(TheOrder) = S!Invented
            \/ /\ S!FallbackRecord(TheOrder) = records[TheOrder]
               /\ records[TheOrder] # S!NoRecord
        BY DEF S!FallbackRecord
      <3> QED
        BY <2>1, <2>2, <2>3, <3>1, <1>0, <1>r, <1>a, OwnRecords DEF ServiceHandled
    <2> QED
      BY <2>1, <2>2, <2>3, <1>5
  <1>11. /\ ~S!PhotoReturns(s)
         /\ \A status \in FailureCodes : ~S!PhotoRaises(s, status)
    BY <1>0, <1>b DEF S!PhotoReturns, S!PhotoRaises
  <1> QED
    BY <1>1, <1>2, <1>6, <1>7, <1>8, <1>9, <1>10, <1>11, <1>b DEF S!Gateway

\* What the service does, or its mock: what it has completed it keeps and shows as
\* complete, and its mock shows every record as complete.
LEMMA ServiceServesComplete ==
    ASSUME ProcessInv, MoneyTypeOK, RecordsInv, NEW s \in DOMAIN ServiceOp,
           ServiceExecutionService(s)
    PROVE  /\ UNCHANGED <<serviceCall, serviceAnswer, records>>
           /\ \A t \in Requests : t # s => serviceReply'[t] = serviceReply[t]
           /\ deployment = "services" /\ archive[TheOrder].status = "COMPLETE" =>
                 archive'[TheOrder].status = "COMPLETE"
           /\ s = "complete" =>
                 /\ Done(serviceReply'[s].record)
                 /\ deployment = "services" => archive'[TheOrder].status = "COMPLETE"
           /\ s = "record" /\ (deployment = "mocks" \/ archive[TheOrder].status = "COMPLETE") =>
                 serviceReply'[s].record.status = "COMPLETE"
  <1>0. /\ s \in Requests /\ s \in Steps
        /\ \/ s = "start" /\ ServiceOp[s] = "start"
           \/ s = "complete" /\ ServiceOp[s] = "complete"
           \/ s = "record" /\ ServiceOp[s] = "get"
    BY StatusIs DEF ServiceOp
  <1>a. /\ LifeInv /\ serviceReply \in [Requests -> S!Reply]
        /\ archive \in [{TheOrder} -> S!Record] /\ archive[TheOrder] \in S!Record
        /\ deployment \in {"services", "mocks"}
    BY CoreFlowAssumption
       DEF CoreFlowAssumption, ProcessInv, RecordsInv, RecordsTypeOK, MoneyTypeOK
  <1>1. CASE deployment = "mocks"
    <2> DEFINE record == Mock!MockRecord(Method(s), s)
               made == Mock!BuildRecordResponse(Method(s), s)
    <2>1. /\ serviceReply' = [serviceReply EXCEPT ![s] = made]
          /\ UNCHANGED <<serviceCall, serviceAnswer, records, archive>>
      BY <1>1 DEF ServiceExecutionService
    <2>2. /\ Method(s) # "AddServicePhoto"
          /\ s # "start" => Method(s) # "StartService"
      BY <1>0 DEF Method
    <2>3. made.record = record
      BY <2>2 DEF Mock!BuildRecordResponse
    <2>4. s # "start" => record.status = "COMPLETE"
      BY <2>2 DEF Mock!MockRecord
    <2> HIDE DEF record, made
    <2>5. serviceReply'[s] = made
      BY <2>1, <1>0, <1>a
    <2> QED
      BY <2>1, <2>3, <2>4, <2>5, <1>0, <1>1, <1>a DEF Done
  <1>2. CASE deployment = "services"
    <2>1. S!Service(s)
      BY <1>2 DEF ServiceExecutionService
    <2>2. pc[s] # "idle"
      BY <2>1, <1>0, <1>a DEF S!Service, S!ServesProgress, S!ServesPhoto, S!ServesGet,
         S!Executes, LifeInv
    <2>3. serviceCall[s].op = ServiceOp[s] /\ serviceCall[s].order = TheOrder
      BY <2>2 DEF RecordsInv, ServiceStageInv
    <2>4. CASE S!ServesGet(s)
      <3>1. /\ s = "record" /\ UNCHANGED <<serviceCall, serviceAnswer, records, archive>>
            /\ serviceReply' = [serviceReply EXCEPT ![s].record = archive[TheOrder]]
        BY <2>3, <2>4, <1>0 DEF S!ServesGet
      <3>2. serviceReply'[s].record = archive[TheOrder]
        BY <3>1, <1>0, <1>a DEF S!Reply
      <3> QED
        BY <3>1, <3>2, <1>2, <1>a
    <2>5. CASE S!ServesProgress(s)
      <3> DEFINE record == IF serviceCall[s].op = "start"
                           THEN [archive[TheOrder] EXCEPT !.status = "IN_SERVICE", !.started = s]
                           ELSE [archive[TheOrder] EXCEPT !.status = "COMPLETE", !.completed = s]
      <3>1. /\ archive' = [archive EXCEPT ![TheOrder] = record]
            /\ \E shown \in {record, [record EXCEPT !.valid = FALSE], S!NoRecord} :
                  serviceReply' = [serviceReply EXCEPT ![s].record = shown]
            /\ UNCHANGED <<serviceCall, serviceAnswer, records>>
            /\ archive[TheOrder].status # "COMPLETE"
            /\ serviceCall[s].op \in {"start", "complete"}
        BY <2>3, <2>5 DEF S!ServesProgress
      <3>2. record \in S!Record
        BY <1>0, <1>a DEF S!Record, S!Token
      <3>3. s = "complete" => record.status = "COMPLETE"
        BY <2>3, <1>0, <1>a DEF S!Record
      <3> HIDE DEF record
      <3>4. [record EXCEPT !.valid = FALSE].status = record.status
        BY <3>2 DEF S!Record
      <3>5. PICK shown : /\ shown = S!NoRecord \/ shown.status = record.status
                         /\ serviceReply' = [serviceReply EXCEPT ![s].record = shown]
        BY <3>1, <3>4
      <3>6. serviceReply'[s].record = shown /\ archive'[TheOrder] = record
        BY <3>1, <3>5, <1>0, <1>a DEF S!Reply
      <3>7. s # "record"
        BY <3>1, <2>3, <1>0
      <3> QED
        BY <3>1, <3>3, <3>5, <3>6, <3>7, <1>a DEF Done
    <2> QED
      BY <2>1, <2>3, <2>4, <2>5, <1>0 DEF S!Service, S!ServesPhoto
  <1> QED
    BY <1>1, <1>2, <1>a

\* It holds in the first state.
LEMMA RecordInvInit == Init => RecordInv
  <1> SUFFICES ASSUME Init PROVE RecordInv
    OBVIOUS
  <1>0. "complete" \in DOMAIN ServiceOp /\ "record" \in DOMAIN ServiceOp
    BY DEF ServiceOp
  <1>1. \A s \in DOMAIN ServiceOp :
           /\ pc[s] = "idle" /\ svc[s] = "none" /\ ~Acked(s)
           /\ serviceReply[s] = S!NoReply /\ serviceAnswer[s].epoch = 0
    BY StatusIs DEF Init, S!Init, S!CallsInit
  <1>2. epoch = 0 /\ records = [o \in {TheOrder} |-> S!NoRecord]
    BY DEF Init, S!Init, S!CallsInit
  <1>3. S!NoReply.record = S!NoRecord
    BY DEF S!NoReply
  <1> QED
    BY <1>0, <1>1, <1>2, <1>3, NothingKnown DEF RecordInv, Done

\* The steps keep it.  The start is over when the completion is acknowledged, so nobody
\* else writes the record; the completion is over when the look comes in; and a store
\* that lacks the record is not that of the incarnation that acknowledged it.
LEMMA RecordInvStep ==
    ProcessInv /\ MoneyTypeOK /\ RecordsInv /\ AnsweredInv /\ TurnInv /\ RecordInv /\ [Next]_vars
        => RecordInv'
  <1> SUFFICES ASSUME ProcessInv, MoneyTypeOK, RecordsInv, AnsweredInv, TurnInv, RecordInv,
                      [Next]_vars
               PROVE  RecordInv'
    OBVIOUS
  <1> DEFINE start == "start"
             complete == "complete"
             record == "record"
             held == records[TheOrder]
  <1>0. /\ Steps = Requests /\ DOMAIN ServiceOp = {start, complete, record}
        /\ start \in Requests /\ complete \in Requests /\ record \in Requests
        /\ start # complete /\ start # record /\ complete # record
    BY CoreFlowAssumption DEF CoreFlowAssumption, Steps, ServiceOp
  <1>a. /\ CallsTypeOK /\ LifeInv /\ LifeInv' /\ epoch \in Nat /\ S!NoRecord.status # "COMPLETE"
        /\ CallsTypeOK' /\ epoch' \in Nat
    BY ProcessInvStep, CallsAssumption, NothingKnown
       DEF CallsAssumption, ProcessInv, CallsTypeOK, S!NoRecord, S!None
  <1>c. /\ records \in [{TheOrder} -> S!Record]
        /\ serviceAnswer[complete].epoch \in 0..epoch
        /\ Acked(complete) =>
              /\ seen[complete] = "OK" \/ seen[complete] \in MOCKABLE_DOWNSTREAM_GAP_CODES
              /\ Done(held)
              /\ serviceAnswer[complete].epoch = epoch => held.status = "COMPLETE"
        /\ Done(serviceReply[complete].record)
        /\ svc[complete] = "executed" /\ deployment = "services" =>
              archive[TheOrder].status = "COMPLETE"
        /\ svc[record] = "executed" /\ (deployment = "mocks" \/ seen[complete] = "OK") =>
              serviceReply[record].record.status = "COMPLETE"
        /\ pc[record] = "waiting" => serviceAnswer[complete].epoch < serviceCall[record].epoch
        /\ Acked(record) =>
              \/ serviceAnswer[record].record.status = "COMPLETE"
              \/ /\ FellBack(complete)
                 /\ serviceAnswer[complete].epoch < serviceCall[record].epoch
    BY DEF RecordInv
  <1>d. ASSUME /\ records' \in [{TheOrder} -> S!Record]
               /\ serviceAnswer'[complete].epoch \in 0..epoch'
               /\ Acked(complete)' =>
                     /\ seen'[complete] = "OK" \/ seen'[complete] \in MOCKABLE_DOWNSTREAM_GAP_CODES
                     /\ Done(records'[TheOrder])
                     /\ serviceAnswer'[complete].epoch = epoch' =>
                           records'[TheOrder].status = "COMPLETE"
               /\ Done(serviceReply'[complete].record)
               /\ svc'[complete] = "executed" /\ deployment' = "services" =>
                     archive'[TheOrder].status = "COMPLETE"
               /\ svc'[record] = "executed" /\ (deployment' = "mocks" \/ seen'[complete] = "OK") =>
                     serviceReply'[record].record.status = "COMPLETE"
               /\ pc'[record] = "waiting" =>
                     serviceAnswer'[complete].epoch < serviceCall'[record].epoch
               /\ Acked(record)' =>
                     \/ serviceAnswer'[record].record.status = "COMPLETE"
                     \/ /\ FellBack(complete)'
                        /\ serviceAnswer'[complete].epoch < serviceCall'[record].epoch
        PROVE  RecordInv'
    BY <1>d DEF RecordInv, Done
  <1>f. /\ FellBack(complete)' <=>
              Acked(complete)' /\ seen'[complete] \in MOCKABLE_DOWNSTREAM_GAP_CODES
        /\ FellBack(complete) <=>
              Acked(complete) /\ seen[complete] \in MOCKABLE_DOWNSTREAM_GAP_CODES
    BY DEF FellBack
  \* When the look comes in.
  <1>l. pc[record] # "idle" => Acked(complete) /\ pc[complete] = "answered"
    BY LooksComeLast DEF Looks
  <1>m. svc[record] # "none" => pc[record] # "idle"
    BY <1>0, <1>a DEF LifeInv
  <1>n. pc[complete] # "idle" => pc[start] = "answered"
    <2>1. /\ 5 \in DOMAIN Flow /\ Flow[5] = "complete" /\ 4 \in 1..(5 - 1)
          /\ Flow[4] = "start" /\ "start" \in Steps
      BY DEF Flow, Steps, ServiceOp
    <2>2. pc[complete] # "idle" => Acked(Flow[4]) \/ Flow[4] = "pay"
      BY <2>1 DEF TurnInv
    <2> QED
      BY <2>1, <2>2 DEF AnsweredInv
  <1>p. /\ Acked(complete) => pc[complete] = "answered"
        /\ Acked(record) => pc[record] = "answered"
    BY <1>0 DEF AnsweredInv
  <1> HIDE DEF start, complete, record, held
  <1>1. ASSUME NEW s \in DOMAIN ServiceOp, ServiceRoute(s) PROVE RecordInv'
    <2>1. s \in Steps /\ Route(s) /\ s \in Requests /\ s \in {start, complete, record}
      BY <1>0, <1>1, StatusIs DEF Route
    <2>h. ServiceHandled(s)
      BY <1>1, ServiceRouteAnswers
    <2>2. /\ UNCHANGED <<serviceReply, archive>>
          /\ \A t \in Requests : t # s => serviceCall'[t] = serviceCall[t]
      BY <1>1, ServiceRouteHandles
    <2>3. /\ \A t \in Requests : t # s => pc'[t] = pc[t] /\ svc'[t] = svc[t] /\ seen'[t] = seen[t]
          /\ epoch' = epoch /\ deployment' = deployment
      BY <2>1, <1>0, <1>a, OthersStay, RouteCalls
    <2>4. \A t \in Requests : t # s => (Acked(t)' <=> Acked(t))
      BY <2>1, <1>0, AnswersOwn, StatusIs DEF AnsweredInv
    <2>5. svc'[s] = "executed" => svc[s] = "executed"
      BY <2>1, <1>0, <1>a, RouteCalls
         DEF AnsweredAtOnce, Sends, Wakes, Returns, Raises, Refused, OutOfReach, CallsTypeOK
    <2>6. pc[s] \in {"idle", "waiting"}
      BY <2>1, RouteCalls DEF Goes
    <2>7. CASE s = start
      <3>1. ~Acked(complete) /\ pc[complete] = "idle"
        BY <2>6, <2>7, <1>n, <1>p
      <3>2. pc[record] = "idle" /\ svc[record] = "none"
        BY <3>1, <1>l, <1>m
      <3>3. ~Acked(record)
        BY <3>2, <1>p
      <3>4. /\ serviceAnswer'[complete] = serviceAnswer[complete]
            /\ pc'[record] = "idle" /\ svc'[record] = "none" /\ ~Acked(record)'
            /\ ~Acked(complete)' /\ svc'[complete] = svc[complete]
        BY <2>3, <2>4, <2>7, <2>h, <3>1, <3>2, <3>3, <1>0 DEF ServiceHandled
      <3> QED
        BY <2>2, <2>3, <2>h, <3>4, <1>c, <1>d DEF ServiceHandled
    <2>8. CASE s = complete
      <3>1. pc[record] = "idle" /\ svc[record] = "none"
        BY <2>6, <2>8, <1>l, <1>m
      <3>2. ~Acked(record)
        BY <3>1, <1>p
      <3>3. pc'[record] = "idle" /\ svc'[record] = "none" /\ ~Acked(record)'
        BY <2>3, <2>4, <2>8, <3>1, <3>2, <1>0
      <3>4. serviceAnswer'[complete].epoch \in 0..epoch
        BY <2>8, <2>h, <1>a, <1>c DEF ServiceHandled
      <3>5. Acked(complete)' =>
               /\ seen'[complete] = "OK" \/ seen'[complete] \in MOCKABLE_DOWNSTREAM_GAP_CODES
               /\ records'[TheOrder].status = "COMPLETE"
        BY <2>8, <2>h DEF ServiceHandled, complete
      <3>6. svc'[complete] = "executed" => svc[complete] = "executed"
        BY <2>5, <2>8
      <3>7. records' \in [{TheOrder} -> S!Record]
        BY <2>h DEF ServiceHandled
      <3> QED
        BY <2>2, <2>3, <3>3, <3>4, <3>5, <3>6, <3>7, <1>c, <1>d DEF Done
    <2>9. CASE s = record
      <3>h. /\ records' = records
            /\ serviceAnswer'[complete] = serviceAnswer[complete]
            /\ pc[record] # "idle" => serviceCall'[record] = serviceCall[record]
            /\ pc'[record] = "waiting" => held = S!NoRecord /\ serviceCall'[record].epoch = epoch
            /\ Acked(record)' =>
                  \/ serviceAnswer'[record].record.status = "COMPLETE"
                  \/ serviceAnswer'[record].record = held /\ held # S!NoRecord
                  \/ /\ pc[record] = "waiting" /\ svc[record] = "executed"
                     /\ serviceAnswer'[record].record = serviceReply[record].record
        BY <2>9, <2>h, <1>0 DEF ServiceHandled, record, held
      <3>1. Acked(complete) /\ pc[complete] = "answered"
        <4>1. CASE pc[record] # "idle"
          BY <4>1, <1>l
        <4>2. CASE pc[record] = "idle"
          <5>1. Turn(record)
            BY <4>2, <2>1, <2>9, RouteCalls DEF Goes
          <5>2. Acked("close") /\ pc["close"] # "idle"
            BY <5>1, FlowSteps DEF Turn, record, Looks, AnsweredInv
          <5>3. /\ 7 \in DOMAIN Flow /\ Flow[7] = "close" /\ 5 \in 1..(7 - 1)
                /\ Flow[5] = "complete"
            BY DEF Flow
          <5>4. Acked(Flow[5]) \/ Flow[5] = "pay"
            BY <5>2, <5>3 DEF TurnInv
          <5> QED
            BY <5>3, <5>4, <1>p DEF complete
        <4> QED
          BY <4>1, <4>2
      <3>2. Acked(complete)' /\ seen'[complete] = seen[complete] /\ svc'[complete] = svc[complete]
        BY <3>1, <2>3, <2>4, <2>9, <1>0
      <3>3. pc'[record] = "waiting" =>
               serviceAnswer'[complete].epoch < serviceCall'[record].epoch
        BY <3>h, <3>1, <1>a, <1>c
      <3>4. svc'[record] = "executed" => svc[record] = "executed"
        BY <2>5, <2>9
      <3>5. Acked(record)' =>
               \/ serviceAnswer'[record].record.status = "COMPLETE"
               \/ /\ FellBack(complete)'
                  /\ serviceAnswer'[complete].epoch < serviceCall'[record].epoch
        <4> SUFFICES ASSUME Acked(record)',
                            ~(serviceAnswer'[record].record.status = "COMPLETE")
                     PROVE  /\ FellBack(complete)'
                            /\ serviceAnswer'[complete].epoch < serviceCall'[record].epoch
          OBVIOUS
        <4>1. ~(serviceAnswer'[record].record = held /\ held # S!NoRecord)
          BY <3>1, <1>c DEF Done
        <4>2. /\ pc[record] = "waiting" /\ svc[record] = "executed"
              /\ serviceAnswer'[record].record = serviceReply[record].record
          BY <3>h, <4>1
        <4>3. serviceAnswer'[complete].epoch < serviceCall'[record].epoch
          BY <3>h, <4>2, <1>c
        <4>4. seen[complete] # "OK"
          BY <4>2, <1>c
        <4> QED
          BY <3>1, <3>2, <4>3, <4>4, <1>c, <1>f
      <3> QED
        BY <2>2, <2>3, <3>h, <3>1, <3>2, <3>3, <3>4, <3>5, <1>c, <1>d DEF held
    <2> QED
      BY <2>1, <2>7, <2>8, <2>9
  <1>2. ASSUME NEW s \in DOMAIN ServiceOp, ServiceExecutionService(s) PROVE RecordInv'
    <2>1. s \in Steps /\ Serves(s) /\ s \in Requests
      BY <1>2, StatusIs DEF Serves
    <2>2. /\ UNCHANGED <<serviceCall, serviceAnswer, records>>
          /\ \A t \in Requests : t # s => serviceReply'[t] = serviceReply[t]
          /\ deployment = "services" /\ archive[TheOrder].status = "COMPLETE" =>
                archive'[TheOrder].status = "COMPLETE"
          /\ s = "complete" =>
                /\ Done(serviceReply'[s].record)
                /\ deployment = "services" => archive'[TheOrder].status = "COMPLETE"
          /\ s = "record" /\ (deployment = "mocks" \/ archive[TheOrder].status = "COMPLETE") =>
                serviceReply'[s].record.status = "COMPLETE"
      BY <1>2, ServiceServesComplete
    <2>3. /\ pc' = pc /\ seen' = seen /\ svc[s] = "pending" /\ epoch' = epoch
          /\ \A t \in Requests : t # s => svc'[t] = svc[t]
          /\ deployment' = deployment
      BY <2>1, <1>0, <1>a, ServesCalls, OthersStay DEF Executes
    <2>4. (Acked(complete)' <=> Acked(complete)) /\ (Acked(record)' <=> Acked(record))
      BY <2>2, <1>0, StatusIs
    <2>5. Done(serviceReply'[complete].record)
      <3>1. CASE s = complete
        BY <2>2, <3>1 DEF complete
      <3>2. CASE s # complete
        BY <2>2, <3>2, <1>0, <1>c
      <3> QED
        BY <3>1, <3>2
    <2>6. svc'[complete] = "executed" /\ deployment' = "services" =>
             archive'[TheOrder].status = "COMPLETE"
      <3>1. CASE s = complete
        BY <2>2, <2>3, <3>1 DEF complete
      <3>2. CASE s # complete
        BY <2>2, <2>3, <3>2, <1>0, <1>c
      <3> QED
        BY <3>1, <3>2
    <2>7. svc'[record] = "executed" /\ (deployment' = "mocks" \/ seen'[complete] = "OK") =>
             serviceReply'[record].record.status = "COMPLETE"
      <3>1. CASE s = record
        <4> SUFFICES ASSUME deployment = "mocks" \/ seen[complete] = "OK"
                     PROVE  serviceReply'[record].record.status = "COMPLETE"
          BY <2>3
        <4>1. CASE deployment = "mocks"
          BY <2>2, <3>1, <4>1 DEF record
        <4>2. CASE deployment # "mocks"
          <5>1. deployment = "services"
            BY <4>2, CoreFlowAssumption DEF CoreFlowAssumption, MoneyTypeOK
          <5>2. svc[complete] = "executed"
            BY <4>2, <1>0, <1>a DEF LifeInv
          <5> QED
            BY <2>2, <3>1, <5>1, <5>2, <1>c DEF record
        <4> QED
          BY <4>1, <4>2
      <3>2. CASE s # record
        BY <2>2, <2>3, <3>2, <1>0, <1>c
      <3> QED
        BY <3>1, <3>2
    <2>8. FellBack(complete)' <=> FellBack(complete)
      BY <2>3, <2>4, <1>f
    <2> QED
      BY <2>2, <2>3, <2>4, <2>5, <2>6, <2>7, <2>8, <1>c, <1>d DEF held
  <1>3. ASSUME UNCHANGED <<serviceVars, svc, seen, deployment, epoch>>,
               Acked(complete)' <=> Acked(complete), Acked(record)' <=> Acked(record),
               pc'[record] = "waiting" => pc[record] = "waiting"
        PROVE  RecordInv'
    BY <1>3, <1>c, <1>d, <1>f DEF serviceVars, held
  <1>4. ASSUME NEW s \in Steps, Route(s) \/ Serves(s), s \notin DOMAIN ServiceOp PROVE RecordInv'
    <2>1. UNCHANGED serviceVars /\ deployment' = deployment
      BY <1>4 DEF Route, Serves, FinanceRoute, FinanceService, DispatchRoute,
         DispatchService, OrderRoute, OrderService
    <2>2. /\ \A t \in {start, complete, record} :
                pc'[t] = pc[t] /\ svc'[t] = svc[t] /\ seen'[t] = seen[t]
          /\ epoch' = epoch
      BY <1>0, <1>4, <1>a, OthersStay
    <2>3. (Acked(complete)' <=> Acked(complete)) /\ (Acked(record)' <=> Acked(record))
      BY <2>1, <1>0, StatusIs DEF serviceVars
    <2>4. FellBack(complete)' <=> FellBack(complete)
      BY <2>2, <2>3, <1>f
    <2> QED
      BY <2>1, <2>2, <2>3, <2>4, <1>c, <1>d DEF serviceVars, held
  <1>5. ASSUME NEW s \in Steps, Route(s) \/ Serves(s), s \in DOMAIN ServiceOp PROVE RecordInv'
    <2>1. s \notin DOMAIN FinanceOp /\ s \notin DOMAIN OrderOp /\ s \notin DOMAIN DispatchOp
      BY <1>5 DEF OrderOp, DispatchOp, ServiceOp, FinanceOp
    <2> QED
      BY <1>1, <1>2, <1>5, <2>1 DEF Route, Serves
  <1>6. CASE Starts \/ Stops \/ UNCHANGED vars
    <2>1. UNCHANGED serviceVars /\ UNCHANGED <<pc, svc, seen, epoch, deployment>>
      BY <1>6 DEF Starts, Stops, vars, callVars, routeVars
    <2>2. (Acked(complete)' <=> Acked(complete)) /\ (Acked(record)' <=> Acked(record))
      BY <2>1, <1>0, StatusIs DEF serviceVars
    <2> QED
      BY <2>1, <2>2, <1>3
  \* The store is gone, and with it all that this incarnation knew.
  <1>7. CASE Exits \/ Dies
    <2>1. /\ Crashes /\ UNCHANGED <<serviceCall, serviceReply, serviceAnswer, archive, deployment>>
          /\ records' = [o \in {TheOrder} |-> S!NoRecord]
      BY <1>7, RestartCalls DEF Exits, Dies, Restarts, S!Restart
    <2>2. /\ svc' = svc /\ seen' = seen /\ epoch' = epoch + 1
          /\ pc'[record] # "waiting"
      BY <2>1, <1>0 DEF Crashes
    <2>3. (Acked(complete)' <=> Acked(complete)) /\ (Acked(record)' <=> Acked(record))
      BY <2>1, <1>0, StatusIs
    <2>4. records' \in [{TheOrder} -> S!Record] /\ Done(records'[TheOrder])
      BY <2>1, NothingKnown DEF Done
    <2>5. serviceAnswer'[complete].epoch \in 0..epoch' /\ serviceAnswer'[complete].epoch # epoch'
      BY <2>1, <2>2, <1>a, <1>c
    <2>6. FellBack(complete)' <=> FellBack(complete)
      BY <2>2, <2>3, <1>f
    <2> QED
      BY <2>1, <2>2, <2>3, <2>4, <2>5, <2>6, <1>c, <1>d
  <1> QED
    BY <1>4, <1>5, <1>6, <1>7, StepKinds

-----------------------------------------------------------------------------
(* The payment, and the look at the payments. *)

\* A store that lacks a payment the client knows of is of a later incarnation than the
\* one that acknowledged it, and empty: the list is the service's then, which has every
\* payment that it has told of, unless it is a mock.
ListInv ==
    /\ \A p \in Payments :
          Acked(p) /\ financeAnswer[p].epoch # epoch => payments[TheOrder] = <<>>
    /\ pc["payments"] = "waiting" =>
          \A p \in Payments :
             Acked(p) => financeAnswer[p].epoch < financeCall["payments"].epoch
    /\ svc["payments"] = "executed" /\ deployment = "services" =>
          \A p \in Payments :
             Acked(p) /\ seen[p] = "OK" => p \in F!Shows(financeReply["payments"])
    /\ \A p \in Payments :
          Acked("payments") /\ Acked(p) =>
             \/ p \in F!Shows(financeAnswer["payments"].body)
             \/ /\ financeAnswer[p].epoch < financeCall["payments"].epoch
                /\ FellBack(p) \/ FellBack("payments") \/ deployment = "mocks"

\* When a payment is acknowledged there is no payment under way, and none comes in.
LEMMA PaidOnce ==
    ASSUME AnsweredInv, TurnInv, NEW p \in Payments, NEW q \in Payments, Acked(p)
    PROVE  ~Route(q)
  <1> SUFFICES ASSUME Route(q) PROVE FALSE
    OBVIOUS
  <1>0. "pay" \in Steps /\ "again" \in Steps /\ Payments = {"pay", "again"}
    BY FlowSteps DEF Payments
  <1>1. pc[q] = "waiting" \/ (pc[q] = "idle" /\ Turn(q))
    BY <1>0, RouteCalls DEF Goes
  <1>2. pc[p] = "answered"
    BY <1>0 DEF AnsweredInv
  <1>3. CASE q = "pay"
    BY <1>0, <1>1, <1>2, <1>3 DEF TurnInv
  <1>4. CASE q = "again"
    <2>1. p = "pay"
      BY <1>0, <1>1, <1>2, <1>4
    <2>2. pc["again"] = "idle"
      BY <1>1, <1>4, <2>1 DEF TurnInv
    <2> QED
      BY <1>1, <1>4, <2>1, <2>2, FlowSteps DEF Turn
  <1> QED
    BY <1>0, <1>3, <1>4

\* When the list is asked for, a payment has been acknowledged.
LEMMA ListComesLast ==
    ASSUME AnsweredInv, TurnInv, pc["payments"] # "idle" \/ Turn("payments")
    PROVE  \E p \in Payments : Acked(p)
  <1>1. Acked("close")
    BY FlowSteps DEF TurnInv, Turn, Looks
  <1>2. pc["close"] # "idle"
    BY <1>1, FlowSteps DEF AnsweredInv
  <1>3. 7 \in DOMAIN Flow /\ Flow[7] = "close" /\ 6 \in 1..(7 - 1) /\ Flow[6] = "pay"
    BY DEF Flow
  <1>4. Acked(Flow[6]) \/ (Flow[6] = "pay" /\ Paid)
    BY <1>2, <1>3 DEF TurnInv
  <1>5. Paid
    BY <1>3, <1>4 DEF Paid
  <1> QED
    BY <1>5 DEF Paid, Payments

\* What the route of the list answers: the store as it is, or the service's list, or the
\* store again when the service has failed.
LEMMA ListRouteAnswers ==
    ASSUME ProcessInv, AnsweredInv, MoneyInv, FinanceRoute("payments")
    PROVE  /\ payments' = payments
           /\ pc["payments"] # "idle" => financeCall'["payments"] = financeCall["payments"]
           /\ pc'["payments"] = "waiting" =>
                 payments[TheOrder] = <<>> /\ financeCall'["payments"].epoch = epoch
           /\ Acked("payments")' =>
                 \/ /\ payments[TheOrder] # <<>>
                    /\ financeAnswer'["payments"].body = payments[TheOrder]
                 \/ /\ pc["payments"] = "waiting"
                    /\ \/ /\ svc["payments"] = "executed"
                          /\ financeAnswer'["payments"].body = financeReply["payments"]
                       \/ seen'["payments"] \in MOCKABLE_DOWNSTREAM_GAP_CODES
  <1> DEFINE s == "payments"
  <1>0. s \in Requests /\ s \in Steps /\ s \in DOMAIN FinanceOp /\ FinanceOp[s] = "list"
    BY CoreFlowAssumption DEF CoreFlowAssumption, Steps, FinanceOp
  <1>a. /\ CallsTypeOK /\ AnswersOf /\ MoneyTypeOK /\ FinanceStageInv
        /\ DOMAIN financeCall = Requests /\ DOMAIN financeAnswer = Requests
    BY DEF ProcessInv, AnsweredInv, MoneyInv, MoneyTypeOK
  <1>b. F!Gateway(s) /\ financeCall'[s].op = "list" /\ financeAnswer'[s].status # 422
    BY <1>0 DEF FinanceRoute
  <1>k. (Acked(s)' <=> financeAnswer'[s].status = 200) /\ (Acked(s) => pc[s] = "answered")
    BY <1>0, StatusIs DEF AnsweredInv
  <1>d. ASSUME /\ payments' = payments
               /\ pc[s] # "idle" => financeCall'[s] = financeCall[s]
               /\ pc'[s] = "waiting" =>
                     payments[TheOrder] = <<>> /\ financeCall'[s].epoch = epoch
               /\ Acked(s)' =>
                     \/ /\ payments[TheOrder] # <<>>
                        /\ financeAnswer'[s].body = payments[TheOrder]
                     \/ /\ pc[s] = "waiting"
                        /\ \/ /\ svc[s] = "executed"
                              /\ financeAnswer'[s].body = financeReply[s]
                           \/ seen'[s] \in MOCKABLE_DOWNSTREAM_GAP_CODES
        PROVE  /\ payments' = payments
               /\ pc["payments"] # "idle" => financeCall'["payments"] = financeCall["payments"]
               /\ pc'["payments"] = "waiting" =>
                     payments[TheOrder] = <<>> /\ financeCall'["payments"].epoch = epoch
               /\ Acked("payments")' =>
                     \/ /\ payments[TheOrder] # <<>>
                        /\ financeAnswer'["payments"].body = payments[TheOrder]
                     \/ /\ pc["payments"] = "waiting"
                        /\ \/ /\ svc["payments"] = "executed"
                              /\ financeAnswer'["payments"].body = financeReply["payments"]
                           \/ seen'["payments"] \in MOCKABLE_DOWNSTREAM_GAP_CODES
    BY <1>d
  <1> HIDE DEF s
  <1>r. ASSUME NEW body, F!Responds(s, body)
        PROVE  Acked(s)' => financeAnswer'[s].body = body
    BY <1>r, <1>0, <1>a, <1>k DEF F!Responds, F!Answers
  <1>w. ASSUME NEW status, NEW body, F!Answers(s, status, body)
        PROVE  Acked(s)' => status = 200
    BY <1>w, <1>0, <1>a, <1>k DEF F!Answers
  <1>1. ASSUME F!CreatePayment(s) PROVE FALSE
    <2>1. PICK role \in {"CUSTOMER_SERVICE"} : F!Asks(s, "create", TheOrder, role)
      BY <1>1 DEF F!CreatePayment
    <2>2. financeCall'[s].op = "create"
      BY <2>1, <1>0, <1>a DEF F!Asks
    <2> QED
      BY <2>2, <1>b
  <1>2. CASE F!ListPayments(s)
    <2>1. PICK role \in {"CUSTOMER_SERVICE"} :
            /\ F!Asks(s, "list", TheOrder, role)
            /\ \/ F!AnsweredAtOnce(s) /\ F!Answers(s, 403, <<>>)
               \/ /\ payments[TheOrder] # <<>>
                  /\ F!AnsweredAtOnce(s)
                  /\ F!Responds(s, payments[TheOrder])
               \/ payments[TheOrder] = <<>> /\ F!Sends(s) /\ UNCHANGED financeAnswer
            /\ UNCHANGED <<financeReply, payments, ledger>>
      BY <1>2 DEF F!ListPayments
    <2>2. financeCall'[s].epoch = epoch
      BY <2>1, <1>0, <1>a DEF F!Asks
    <2>3. pc[s] = "idle"
      BY <2>1 DEF F!AnsweredAtOnce, F!Sends
    <2>4. F!AnsweredAtOnce(s) => pc'[s] = "answered"
      BY <1>0, <1>a DEF F!AnsweredAtOnce, CallsTypeOK
    <2>5. CASE F!AnsweredAtOnce(s) /\ F!Answers(s, 403, <<>>)
      BY <2>1, <2>3, <2>4, <2>5, <1>d, <1>w
    <2>6. CASE /\ payments[TheOrder] # <<>>
               /\ F!AnsweredAtOnce(s)
               /\ F!Responds(s, payments[TheOrder])
      BY <2>1, <2>3, <2>4, <2>6, <1>d, <1>r
    <2>7. CASE payments[TheOrder] = <<>> /\ F!Sends(s) /\ UNCHANGED financeAnswer
      <3>1. ~Acked(s)'
        BY <2>3, <2>7, <1>0, <1>k, StatusIs
      <3> QED
        BY <2>1, <2>2, <2>3, <2>7, <3>1, <1>d
    <2> QED
      BY <2>1, <2>5, <2>6, <2>7
  <1>3. CASE F!ListReturns(s)
    <2>1. /\ UNCHANGED <<financeCall, payments>> /\ F!Responds(s, financeReply[s])
          /\ F!Returns(s)
      BY <1>3 DEF F!ListReturns, F!RepliedList
    <2>2. pc[s] = "waiting" /\ pc'[s] = "answered" /\ svc[s] = "executed"
      BY <2>1, <1>0, <1>a DEF F!Returns, CallsTypeOK
    <2> QED
      BY <2>1, <2>2, <1>d, <1>r
  <1>4. ASSUME NEW status \in FailureCodes, F!ListRaises(s, status)
        PROVE  /\ UNCHANGED <<financeCall, payments>>
               /\ pc[s] = "waiting" /\ pc'[s] = "answered"
               /\ Acked(s)' => seen'[s] \in MOCKABLE_DOWNSTREAM_GAP_CODES
    <2>1. /\ UNCHANGED <<financeCall, payments>> /\ F!Raises(s, status)
          /\ F!FallsBackOn(status) \/ F!Fails(s, status)
      BY <1>4 DEF F!ListRaises
    <2>2. pc[s] = "waiting" /\ pc'[s] = "answered" /\ seen'[s] = status
      BY <2>1, <1>0, <1>a DEF F!Raises, F!Refused, F!OutOfReach, CallsTypeOK
    <2>3. F!Fails(s, status) => ~Acked(s)'
      BY <1>w, FinanceErrors DEF F!Fails
    <2> QED
      BY <2>1, <2>2, <2>3, FinanceErrors
  <1>5. (\E status \in FailureCodes : F!ListRaises(s, status))
           => /\ UNCHANGED <<financeCall, payments>>
              /\ pc[s] = "waiting" /\ pc'[s] = "answered"
              /\ Acked(s)' => seen'[s] \in MOCKABLE_DOWNSTREAM_GAP_CODES
    BY <1>4
  <1>6. /\ ~F!CreateReturns(s)
        /\ \A status \in FailureCodes : ~F!CreateRaises(s, status)
    BY <1>b DEF F!CreateReturns, F!CreateRaises
  <1>7. CASE \E status \in FailureCodes : F!ListRaises(s, status)
    BY <1>5, <1>7, <1>d
  <1> QED
    BY <1>1, <1>2, <1>3, <1>6, <1>7, <1>b DEF F!Gateway

\* It holds in the first state.
LEMMA ListInvInit == Init => ListInv
  <1> SUFFICES ASSUME Init PROVE ListInv
    OBVIOUS
  <1>0. "payments" \in DOMAIN FinanceOp /\ Payments \subseteq DOMAIN FinanceOp
    BY DEF FinanceOp, Payments
  <1>1. \A s \in DOMAIN FinanceOp : pc[s] = "idle" /\ svc[s] = "none" /\ ~Acked(s)
    BY StatusIs DEF Init, F!Init, F!CallsInit
  <1> QED
    BY <1>0, <1>1 DEF ListInv

\* The steps keep it.  A payment that is acknowledged is the last word on payments, until
\* the store is gone; and the list is asked for after that.
LEMMA ListInvStep ==
    ProcessInv /\ MoneyInv /\ AnsweredInv /\ TurnInv /\ ListInv /\ [Next]_vars => ListInv'
  <1> SUFFICES ASSUME ProcessInv, MoneyInv, AnsweredInv, TurnInv, ListInv, [Next]_vars
               PROVE  ListInv'
    OBVIOUS
  <1> DEFINE list == "payments"
             held == payments[TheOrder]
  <1>0. /\ Steps = Requests /\ DOMAIN FinanceOp = Payments \cup {list}
        /\ list \in Requests /\ Payments \subseteq Requests /\ list \notin Payments
    BY CoreFlowAssumption DEF CoreFlowAssumption, Steps, FinanceOp, Payments
  <1>a. /\ CallsTypeOK /\ LifeInv /\ MoneyTypeOK /\ FinanceStageInv /\ LedgerInv
        /\ AcknowledgedInv /\ epoch \in Nat
    BY CallsAssumption DEF CallsAssumption, ProcessInv, MoneyInv, CallsTypeOK
  <1>b. \A p \in Payments :
           /\ financeAnswer[p].epoch \in 0..epoch
           /\ Acked(p) => /\ seen[p] = "OK" \/ seen[p] \in MOCKABLE_DOWNSTREAM_GAP_CODES
                          /\ financeAnswer[p].epoch = epoch => p \in F!Shows(held)
    BY <1>0, <1>a DEF FinanceStageInv, AcknowledgedInv
  <1>c. /\ \A p \in Payments : Acked(p) /\ financeAnswer[p].epoch # epoch => held = <<>>
        /\ pc[list] = "waiting" =>
              \A p \in Payments : Acked(p) => financeAnswer[p].epoch < financeCall[list].epoch
        /\ svc[list] = "executed" /\ deployment = "services" =>
              \A p \in Payments : Acked(p) /\ seen[p] = "OK" => p \in F!Shows(financeReply[list])
        /\ \A p \in Payments :
              Acked(list) /\ Acked(p) =>
                 \/ p \in F!Shows(financeAnswer[list].body)
                 \/ /\ financeAnswer[p].epoch < financeCall[list].epoch
                    /\ FellBack(p) \/ FellBack(list) \/ deployment = "mocks"
    BY DEF ListInv
  <1>d. ASSUME /\ \A p \in Payments :
                     Acked(p)' /\ financeAnswer'[p].epoch # epoch' => payments'[TheOrder] = <<>>
               /\ pc'[list] = "waiting" =>
                     \A p \in Payments :
                        Acked(p)' => financeAnswer'[p].epoch < financeCall'[list].epoch
               /\ svc'[list] = "executed" /\ deployment' = "services" =>
                     \A p \in Payments :
                        Acked(p)' /\ seen'[p] = "OK" => p \in F!Shows(financeReply'[list])
               /\ \A p \in Payments :
                     Acked(list)' /\ Acked(p)' =>
                        \/ p \in F!Shows(financeAnswer'[list].body)
                        \/ /\ financeAnswer'[p].epoch < financeCall'[list].epoch
                           /\ FellBack(p)' \/ FellBack(list)' \/ deployment' = "mocks"
        PROVE  ListInv'
    BY <1>d DEF ListInv, F!Shows
  <1>f. \A t \in Payments \cup {list} :
           /\ FellBack(t)' <=> Acked(t)' /\ seen'[t] \in MOCKABLE_DOWNSTREAM_GAP_CODES
           /\ FellBack(t) <=> Acked(t) /\ seen[t] \in MOCKABLE_DOWNSTREAM_GAP_CODES
    BY DEF FellBack
  <1>p. \A p, q \in Payments : Acked(p) => ~Route(q)
    BY PaidOnce
  <1>l. pc[list] # "idle" \/ Turn(list) => \E p \in Payments : Acked(p)
    BY ListComesLast
  <1>m. svc[list] # "none" => pc[list] # "idle"
    BY <1>0, <1>a DEF LifeInv
  <1>n. Acked(list) => pc[list] = "answered"
    BY <1>0 DEF AnsweredInv
  <1> HIDE DEF list, held
  \* What is left alone.
  <1>o. ASSUME NEW s \in Steps, Route(s) \/ Serves(s)
        PROVE  /\ \A t \in Requests :
                     t # s => pc'[t] = pc[t] /\ svc'[t] = svc[t] /\ seen'[t] = seen[t]
               /\ epoch' = epoch /\ deployment' = deployment
    BY <1>o, <1>0, <1>a, OthersStay, RouteCalls, ServesCalls
  <1>e. ASSUME NEW s \in Steps, Route(s)
        PROVE  \A t \in Requests : t # s => (Acked(t)' <=> Acked(t))
    BY <1>e, <1>0, AnswersOwn, StatusIs DEF AnsweredInv
  <1>1. ASSUME NEW q \in Payments, FinanceRoute(q) PROVE ListInv'
    <2>1. q \in Steps /\ Route(q) /\ q \in DOMAIN FinanceOp /\ q # list
      BY <1>0, <1>1 DEF Route
    <2>2. \A p \in Payments : ~Acked(p)
      BY <2>1, <1>p
    <2>3. pc[list] = "idle" /\ svc[list] = "none" /\ ~Acked(list)
      BY <2>2, <1>l, <1>m, <1>n
    <2>4. pc'[list] = "idle" /\ svc'[list] = "none" /\ ~Acked(list)'
      BY <2>1, <2>3, <1>0, <1>e, <1>o
    <2>5. FinanceHandled(q)
      BY <1>1, <1>a, <2>1, FinanceRouteHandles
    <2>6. ASSUME NEW p \in Payments, Acked(p)' PROVE financeAnswer'[p].epoch = epoch'
      <3>1. p = q
        BY <2>1, <2>2, <2>6, <1>0, <1>e
      <3>2. financeAnswer'[q].status = 200
        BY <2>1, <2>6, <3>1, StatusIs
      <3> QED
        BY <2>1, <2>5, <3>1, <3>2, <1>o DEF FinanceHandled
    <2> QED
      BY <2>4, <2>6, <1>d
  <1>2. CASE FinanceRoute(list)
    <2>1. list \in Steps /\ Route(list) /\ list \in DOMAIN FinanceOp
      BY <1>0, <1>2 DEF Route
    <2>2. /\ payments' = payments
          /\ pc[list] # "idle" => financeCall'[list] = financeCall[list]
          /\ pc'[list] = "waiting" => held = <<>> /\ financeCall'[list].epoch = epoch
          /\ Acked(list)' =>
                \/ /\ held # <<>>
                   /\ financeAnswer'[list].body = held
                \/ /\ pc[list] = "waiting"
                   /\ \/ /\ svc[list] = "executed"
                         /\ financeAnswer'[list].body = financeReply[list]
                      \/ seen'[list] \in MOCKABLE_DOWNSTREAM_GAP_CODES
      BY <1>2, ListRouteAnswers DEF MoneyInv, list, held
    <2>3. FinanceHandled(list)
      BY <1>2, <1>a, <2>1, FinanceRouteHandles
    <2>4. /\ financeReply' = financeReply
          /\ \A p \in Payments : /\ financeAnswer'[p] = financeAnswer[p]
                                 /\ seen'[p] = seen[p] /\ (Acked(p)' <=> Acked(p))
          /\ epoch' = epoch /\ deployment' = deployment
      BY <2>1, <2>3, <1>0, <1>e, <1>o DEF FinanceHandled
    <2>5. svc'[list] = "executed" => svc[list] = "executed"
      BY <2>1, <1>0, <1>a, RouteCalls
         DEF AnsweredAtOnce, Sends, Wakes, Returns, Raises, Refused, OutOfReach, CallsTypeOK
    <2>6. \A p \in Payments : ~(p \in F!Shows(<<>>))
      BY DEF F!Shows
    <2>7. pc'[list] = "waiting" =>
             \A p \in Payments : Acked(p)' => financeAnswer'[p].epoch < financeCall'[list].epoch
      <3> SUFFICES ASSUME pc'[list] = "waiting", NEW p \in Payments, Acked(p)
                   PROVE  financeAnswer'[p].epoch < financeCall'[list].epoch
        BY <2>4
      <3>1. financeAnswer[p].epoch # epoch
        BY <2>2, <2>6, <1>b
      <3> QED
        BY <2>2, <2>4, <3>1, <1>a, <1>b
    <2>8. ASSUME NEW p \in Payments, Acked(list)', Acked(p)'
          PROVE  \/ p \in F!Shows(financeAnswer'[list].body)
                 \/ /\ financeAnswer'[p].epoch < financeCall'[list].epoch
                    /\ FellBack(p)' \/ FellBack(list)' \/ deployment' = "mocks"
      <3>1. Acked(p)
        BY <2>4, <2>8
      <3>2. CASE held # <<>> /\ financeAnswer'[list].body = held
        BY <3>1, <3>2, <1>b, <1>c
      <3>3. CASE pc[list] = "waiting" /\ svc[list] = "executed"
                 /\ financeAnswer'[list].body = financeReply[list]
        <4>1. financeAnswer'[p].epoch < financeCall'[list].epoch
          BY <2>2, <2>4, <3>1, <3>3, <1>c
        <4>2. seen[p] = "OK" \/ FellBack(p)'
          BY <2>4, <2>8, <3>1, <1>b, <1>f
        <4>3. deployment = "services" \/ deployment' = "mocks"
          BY <2>4, <1>a, CoreFlowAssumption DEF CoreFlowAssumption, MoneyTypeOK
        <4> QED
          BY <3>1, <3>3, <4>1, <4>2, <4>3, <1>c
      <3>4. CASE pc[list] = "waiting" /\ seen'[list] \in MOCKABLE_DOWNSTREAM_GAP_CODES
        <4>1. financeAnswer'[p].epoch < financeCall'[list].epoch
          BY <2>2, <2>4, <3>1, <3>4, <1>c
        <4>2. FellBack(list)'
          BY <2>8, <3>4, <1>f
        <4> QED
          BY <4>1, <4>2
      <3> QED
        BY <2>2, <2>8, <3>2, <3>3, <3>4
    <2>9. \A p \in Payments :
             Acked(p)' /\ financeAnswer'[p].epoch # epoch' => payments'[TheOrder] = <<>>
      BY <2>2, <2>4, <1>c DEF held
    <2>10. svc'[list] = "executed" /\ deployment' = "services" =>
              \A p \in Payments :
                 Acked(p)' /\ seen'[p] = "OK" => p \in F!Shows(financeReply'[list])
      BY <2>4, <2>5, <1>c
    <2> QED
      BY <2>7, <2>8, <2>9, <2>10, <1>d
  <1>3. ASSUME NEW s \in DOMAIN FinanceOp, FinanceService(s) PROVE ListInv'
    <2>1. s \in Steps /\ Serves(s)
      BY <1>0, <1>3 DEF Serves
    <2>2. FinanceServed(s)
      BY <1>3, <1>a, FinanceServiceServes
    <2>3. /\ UNCHANGED <<financeCall, financeAnswer, payments>>
          /\ pc' = pc /\ seen' = seen /\ epoch' = epoch /\ deployment' = deployment
          /\ \A t \in Requests : t # s => svc'[t] = svc[t]
      BY <2>1, <2>2, <1>o, ServesCalls DEF FinanceServed, Executes
    <2>4. \A t \in Payments \cup {list} :
             (Acked(t)' <=> Acked(t)) /\ (FellBack(t)' <=> FellBack(t))
      BY <2>3, <1>0, <1>f, StatusIs
    <2>5. svc'[list] = "executed" /\ deployment' = "services" =>
             \A p \in Payments :
                Acked(p)' /\ seen'[p] = "OK" => p \in F!Shows(financeReply'[list])
      <3> SUFFICES ASSUME svc'[list] = "executed", deployment = "services",
                          NEW p \in Payments, Acked(p), seen[p] = "OK"
                   PROVE  p \in F!Shows(financeReply'[list])
        BY <2>3, <2>4
      <3>1. CASE s = list
        <4>1. p \in F!Shows(ledger[TheOrder])
          BY <1>0, <1>a DEF LifeInv, LedgerInv
        <4>2. F!ServesList(s)
          <5>1. F!Service(s)
            BY <1>3 DEF FinanceService
          <5>2. pc[s] # "idle"
            BY <2>1, <1>0, <1>a, ServesCalls DEF Executes, LifeInv
          <5>3. financeCall[s].op = "list"
            BY <3>1, <5>2, <1>0, <1>a DEF FinanceStageInv, FinanceOp, list
          <5> QED
            BY <5>1, <5>3 DEF F!Service, F!ServesCreate
        <4>3. financeCall[s].order = TheOrder
          <5>1. pc[s] # "idle"
            BY <2>1, <1>0, <1>a, ServesCalls DEF Executes, LifeInv
          <5> QED
            BY <5>1, <1>a DEF FinanceStageInv
        <4>4. financeReply'[list] = ledger[TheOrder]
          BY <3>1, <4>2, <4>3, <1>0, <1>a DEF F!ServesList, MoneyTypeOK
        <4> QED
          BY <4>1, <4>4
      <3>2. CASE s # list
        BY <2>2, <2>3, <3>2, <1>0, <1>c DEF FinanceServed
      <3> QED
        BY <3>1, <3>2
    <2> QED
      BY <2>3, <2>4, <2>5, <1>c, <1>d DEF held
  <1>4. ASSUME UNCHANGED financeVars, UNCHANGED <<epoch, deployment>>, pc'[list] = pc[list],
               svc'[list] = svc[list],
               \A t \in Payments \cup {list} : seen'[t] = seen[t]
        PROVE  ListInv'
    <2>1. \A t \in Payments \cup {list} :
             (Acked(t)' <=> Acked(t)) /\ (FellBack(t)' <=> FellBack(t))
      BY <1>0, <1>4, <1>f, StatusIs DEF financeVars
    <2> QED
      BY <2>1, <1>4, <1>c, <1>d DEF financeVars, held
  <1>5. ASSUME NEW s \in Steps, Route(s) \/ Serves(s), s \notin DOMAIN FinanceOp PROVE ListInv'
    <2>1. UNCHANGED financeVars
      BY <1>5 DEF Route, Serves, ServiceRoute, ServiceExecutionService, DispatchRoute,
         DispatchService, OrderRoute, OrderService
    <2> QED
      BY <2>1, <1>0, <1>4, <1>5, <1>o
  <1>6. ASSUME NEW s \in Steps, Route(s) \/ Serves(s), s \in DOMAIN FinanceOp PROVE ListInv'
    <2>1. s \notin DOMAIN ServiceOp /\ s \notin DOMAIN OrderOp /\ s \notin DOMAIN DispatchOp
      BY <1>6 DEF OrderOp, DispatchOp, ServiceOp, FinanceOp
    <2> QED
      BY <1>0, <1>1, <1>2, <1>3, <1>6, <2>1 DEF Route, Serves
  <1>7. CASE Starts \/ Stops \/ UNCHANGED vars
    BY <1>4, <1>7 DEF Starts, Stops, vars, callVars, routeVars
  \* The store is gone, and with it all that this incarnation knew.
  <1>8. CASE Exits \/ Dies
    <2>1. /\ Crashes /\ UNCHANGED <<financeCall, financeReply, financeAnswer, ledger, deployment>>
          /\ payments' = [o \in {TheOrder} |-> <<>>]
      BY <1>8, RestartCalls DEF Exits, Dies, Restarts, F!Restart
    <2>2. svc' = svc /\ seen' = seen /\ pc'[list] # "waiting"
      BY <2>1, <1>0 DEF Crashes
    <2>3. \A t \in Payments \cup {list} :
             (Acked(t)' <=> Acked(t)) /\ (FellBack(t)' <=> FellBack(t))
      BY <2>1, <2>2, <1>0, <1>f, StatusIs
    <2>4. payments'[TheOrder] = <<>>
      BY <2>1
    <2> QED
      BY <2>1, <2>2, <2>3, <2>4, <1>c, <1>d
  <1> QED
    BY <1>5, <1>6, <1>7, <1>8, StepKinds

-----------------------------------------------------------------------------

\* What the looks rest on: what happened on the way, and what they were answered.
LookInv == AnsweredInv /\ TurnInv /\ DetailInv /\ HistoryInv /\ RecordInv /\ ListInv

\* The looks, by any of the four APIs, bear out what the client was told on the way,
\* but for what the gateway acknowledged by itself and forgets: at once a close or a
\* confirmation, with a restart a completion or a payment.
THEOREM LooksBearOut == Spec => []VerificationHolds
  <1>1. Init => ProcessInv /\ MoneyInv /\ OrderInv /\ RecordsInv /\ LookInv
    <2>1. Init => AnsweredInv /\ TurnInv
      <3> SUFFICES ASSUME Init PROVE AnsweredInv /\ TurnInv
        OBVIOUS
      <3>a. orderAnswer = [r \in Requests |-> [status |-> 0, orders |-> {}]]
        BY DEF Init, O!Init
      <3>b. dispatchAnswer
               = [r \in Requests |-> [status |-> 0, dispatches |-> {}, workers |-> {}]]
        BY DEF Init, D!Init
      <3>c. serviceAnswer
               = [r \in Requests |-> [status |-> 0, record |-> S!NoRecord, epoch |-> 0]]
        BY DEF Init, S!Init
      <3>d. financeAnswer = [r \in Requests |-> [status |-> 0, body |-> <<>>, epoch |-> 0]]
        BY DEF Init, F!Init
      <3>e. pc = [r \in Requests |-> "idle"]
        BY DEF Init, F!Init, F!CallsInit
      <3>f. Requests = Steps
        BY CoreFlowAssumption DEF CoreFlowAssumption
      <3>1. ASSUME NEW s \in Steps PROVE pc[s] = "idle" /\ ~Acked(s)
        <4>1. /\ orderAnswer[s].status = 0 /\ dispatchAnswer[s].status = 0
              /\ serviceAnswer[s].status = 0 /\ financeAnswer[s].status = 0
          BY <3>a, <3>b, <3>c, <3>d, <3>f
        <4>2. Status(s) = 0
          BY <4>1, StatusIs
        <4> QED
          BY <4>2, <3>e, <3>f, StatusIs
      <3>2. AnswersOf
        BY <3>a, <3>b, <3>c, <3>d DEF AnswersOf
      <3>3. "again" \in Steps
        BY DEF Steps, FinanceOp
      <3>4. \A s \in Steps : pc[s] = "idle"
        BY <3>1
      <3> QED
        BY <3>1, <3>2, <3>3, <3>4, FlowSteps DEF AnsweredInv, TurnInv
    <2> QED
      BY <2>1, ProcessInvInit, MoneyInvInit, OrderInvInit, RecordsInvInit, DetailInvInit,
         HistoryInvInit, RecordInvInit, ListInvInit DEF LookInv
  <1>2. ProcessInv /\ MoneyInv /\ OrderInv /\ RecordsInv /\ LookInv /\ [Next]_vars
           => (ProcessInv /\ MoneyInv /\ OrderInv /\ RecordsInv /\ LookInv)'
    BY ProcessInvStep, MoneyInvStep, OrderInvStep, RecordsInvStep, AnsweredInvStep, TurnInvStep,
       DetailInvStep, HistoryInvStep, RecordInvStep, ListInvStep DEF LookInv, MoneyInv
  <1>3. AnsweredInv /\ TurnInv /\ DetailInv /\ HistoryInv /\ RecordInv /\ ListInv
           => VerificationHolds
    <2> SUFFICES ASSUME AnsweredInv, TurnInv, DetailInv, HistoryInv, RecordInv, ListInv
                 PROVE  VerificationHolds
      OBVIOUS
    <2>1. ASSUME Acked("detail"), ~FellBack("close")
          PROVE  \E order \in orderAnswer["detail"].orders : order.status = "PAID"
      <3>0. "detail" \in Steps
        BY DEF Steps, OrderOp
      <3>1. pc["detail"] # "idle"
        BY <2>1, <3>0 DEF AnsweredInv
      <3>2. Acked("close")
        BY <3>1, LooksComeLast DEF Looks
      <3> QED
        BY <2>1, <3>2 DEF DetailInv, FellBack
    <2>2. ASSUME Acked("history"), ~FellBack("confirm")
          PROVE  \E dispatch \in dispatchAnswer["history"].dispatches :
                    dispatch.dispatch = "assign" /\ dispatch.status = "ACCEPTED"
      <3>0. "history" \in Steps
        BY DEF Steps, DispatchOp
      <3>1. pc["history"] # "idle"
        BY <2>2, <3>0 DEF AnsweredInv
      <3>2. Acked("confirm")
        BY <3>1, LooksComeLast DEF Looks
      <3> QED
        BY <2>2, <3>2 DEF HistoryInv, FellBack
    <2> QED
      BY <2>1, <2>2 DEF VerificationHolds, RecordInv, ListInv, Payments
  <1> QED
    BY <1>1, <1>2, <1>3, PTL DEF Spec, LookInv

===============================================================================
