---------------------------- MODULE FinanceProofs ----------------------------
(***************************************************************************)
(* Theorems about Finance, for every set of requests, orders, roles and    *)
(* failure codes and every bound on restarts.                              *)
(***************************************************************************)
EXTENDS Finance, CallsProofs, SequenceTheorems

\* A sequence of one element.
LEMMA Singleton ==
    ASSUME NEW S, NEW e \in S
    PROVE  <<e>> \in Seq(S)
  OBVIOUS

\* Appending payments to the book of an order leaves the store well typed.
LEMMA KeptType ==
    ASSUME payments \in [Orders -> Seq(Payment)],
           NEW o \in Orders, NEW added \in Seq(Payment)
    PROVE  Kept(o, added) \in [Orders -> Seq(Payment)]
  <1>1. payments[o] \o added \in Seq(Payment)
    BY ConcatProperties
  <1> QED
    BY <1>1 DEF Kept

\* An answer with one of the statuses is well typed.
LEMMA AnswersType ==
    ASSUME TypeOK, NEW r \in Requests, NEW status \in Status,
           NEW body \in Seq(Payment), Answers(r, status, body)
    PROVE  answer' \in [Requests -> Answer]
  BY DEF TypeOK, CallsTypeOK, Answers, Answer

\* So is the answer to a request whose body is validated.
LEMMA RespondsType ==
    ASSUME TypeOK, NEW r \in Requests, NEW body \in Seq(Payment), Responds(r, body)
    PROVE  answer' \in [Requests -> Answer]
  <1>1. 200 \in Status /\ 500 \in Status
    BY DEF Status
  <1>2. <<>> \in Seq(Payment)
    OBVIOUS
  <1> QED
    BY <1>1, <1>2, AnswersType DEF Responds

\* And one that reports a downstream error.
LEMMA FailsType ==
    ASSUME TypeOK, NEW r \in Requests, NEW status \in FailureCodes, Fails(r, status)
    PROVE  answer' \in [Requests -> Answer]
  <1>1. MapGrpcError(status).status_code \in Status
    BY DEF Status
  <1>2. <<>> \in Seq(Payment)
    OBVIOUS
  <1> QED
    BY <1>1, <1>2, AnswersType DEF Fails

\* A request that comes in is well typed.
LEMMA AsksType ==
    ASSUME TypeOK, NEW r \in Requests, NEW op \in {"create", "list"},
           NEW o \in Orders, NEW role \in Roles, Asks(r, op, o, role)
    PROVE  call' \in [Requests -> Call \cup {NoCall}]
  <1>1. Acked(o) \in SUBSET Requests
    BY DEF Acked
  <1> QED
    BY <1>1 DEF TypeOK, CallsTypeOK, Asks, Call

-----------------------------------------------------------------------------

\* No step makes a variable leave its type.
LEMMA TypeStep == TypeOK /\ [Next]_vars => TypeOK'
  <1> SUFFICES ASSUME TypeOK, [Next]_vars PROVE TypeOK'
    OBVIOUS
  <1> USE CallsAssumption
  <1>0. /\ call \in [Requests -> Call \cup {NoCall}]
        /\ reply \in [Requests -> Seq(Payment)]
        /\ answer \in [Requests -> Answer]
        /\ payments \in [Orders -> Seq(Payment)]
        /\ ledger \in [Orders -> Seq(Payment)]
        /\ CallsTypeOK
    BY DEF TypeOK
  <1>a. <<>> \in Seq(Payment)
    OBVIOUS
  <1>b. 200 \in Status /\ 403 \in Status /\ 422 \in Status /\ 500 \in Status
    BY DEF Status
  <1>1. ASSUME NEW r \in Requests, CreatePayment(r) PROVE TypeOK'
    <2>1. PICK o \in Orders, role \in Roles :
            /\ Asks(r, "create", o, role)
            /\ \/ AnsweredAtOnce(r) /\ Answers(r, 403, <<>>)
               \/ AnsweredAtOnce(r) /\ Answers(r, 422, <<>>)
               \/ Sends(r) /\ UNCHANGED answer
            /\ UNCHANGED <<reply, payments, ledger>>
      BY <1>1 DEF CreatePayment
    <2>2. call' \in [Requests -> Call \cup {NoCall}]
      BY <2>1, AsksType
    <2>3. answer' \in [Requests -> Answer]
      <3>1. CASE Answers(r, 403, <<>>)
        BY <3>1, <1>a, <1>b, AnswersType
      <3>2. CASE Answers(r, 422, <<>>)
        BY <3>2, <1>a, <1>b, AnswersType
      <3> QED
        BY <2>1, <3>1, <3>2, <1>0
    <2>4. CallsTypeOK'
      BY <2>1, <1>0, CallsType DEF CallsStep
    <2> QED
      BY <2>1, <2>2, <2>3, <2>4, <1>0 DEF TypeOK
  <1>2. ASSUME NEW r \in Requests, CreateReturns(r) PROVE TypeOK'
    <2>1. call[r].order \in Orders /\ reply[r] \in Seq(Payment)
      BY <1>2, <1>0 DEF CreateReturns, NoCall, Call, None
    <2>2. payments' \in [Orders -> Seq(Payment)]
      BY <1>2, <2>1, <1>0, KeptType DEF CreateReturns
    <2>3. answer' \in [Requests -> Answer]
      BY <1>2, <2>1, <1>a, <1>b, AnswersType, RespondsType DEF CreateReturns
    <2>4. CallsTypeOK'
      BY <1>2, <1>0, CallsType DEF CallsStep, CreateReturns
    <2> QED
      BY <1>2, <2>2, <2>3, <2>4, <1>0 DEF TypeOK, CreateReturns
  <1>3. ASSUME NEW r \in Requests, NEW status \in FailureCodes, CreateRaises(r, status)
        PROVE  TypeOK'
    <2>1. call[r].order \in Orders
      BY <1>3, <1>0 DEF CreateRaises, NoCall, Call, None
    <2>2. <<OwnPayment(r)>> \in Seq(Payment)
      BY DEF OwnPayment, Payment
    <2>3. payments' \in [Orders -> Seq(Payment)]
      <3>1. Kept(call[r].order, <<OwnPayment(r)>>) \in [Orders -> Seq(Payment)]
        BY <2>1, <2>2, <1>0, KeptType
      <3> QED
        BY <1>3, <3>1, <1>0 DEF CreateRaises
    <2>4. answer' \in [Requests -> Answer]
      BY <1>3, <2>2, RespondsType, FailsType DEF CreateRaises
    <2>5. CallsTypeOK'
      BY <1>3, <1>0, CallsType DEF CallsStep, CreateRaises
    <2> QED
      BY <1>3, <2>3, <2>4, <2>5, <1>0 DEF TypeOK, CreateRaises
  <1>4. ASSUME NEW r \in Requests, ListPayments(r) PROVE TypeOK'
    <2>1. PICK o \in Orders, role \in Roles :
            /\ Asks(r, "list", o, role)
            /\ \/ AnsweredAtOnce(r) /\ Answers(r, 403, <<>>)
               \/ AnsweredAtOnce(r) /\ Responds(r, payments[o])
               \/ Sends(r) /\ UNCHANGED answer
            /\ UNCHANGED <<reply, payments, ledger>>
      BY <1>4 DEF ListPayments
    <2>2. call' \in [Requests -> Call \cup {NoCall}]
      BY <2>1, AsksType
    <2>3. payments[o] \in Seq(Payment)
      BY <1>0
    <2>4. answer' \in [Requests -> Answer]
      <3>1. CASE Answers(r, 403, <<>>)
        BY <3>1, <1>a, <1>b, AnswersType
      <3>2. CASE Responds(r, payments[o])
        BY <3>2, <2>3, RespondsType
      <3> QED
        BY <2>1, <3>1, <3>2, <1>0
    <2>5. CallsTypeOK'
      BY <2>1, <1>0, CallsType DEF CallsStep
    <2> QED
      BY <2>1, <2>2, <2>4, <2>5, <1>0 DEF TypeOK
  <1>5. ASSUME NEW r \in Requests, ListReturns(r) PROVE TypeOK'
    <2>1. RepliedList(r) \in Seq(Payment)
      BY <1>0 DEF RepliedList
    <2>2. answer' \in [Requests -> Answer]
      BY <1>5, <2>1, RespondsType DEF ListReturns
    <2>3. CallsTypeOK'
      BY <1>5, <1>0, CallsType DEF CallsStep, ListReturns
    <2> QED
      BY <1>5, <2>2, <2>3, <1>0 DEF TypeOK, ListReturns
  <1>6. ASSUME NEW r \in Requests, NEW status \in FailureCodes, ListRaises(r, status)
        PROVE  TypeOK'
    <2>1. FallbackList(call[r].order) \in Seq(Payment)
      BY <1>6, <1>0 DEF ListRaises, NoCall, Call, None, FallbackList
    <2>2. answer' \in [Requests -> Answer]
      BY <1>6, <2>1, RespondsType, FailsType DEF ListRaises
    <2>3. CallsTypeOK'
      BY <1>6, <1>0, CallsType DEF CallsStep, ListRaises
    <2> QED
      BY <1>6, <2>2, <2>3, <1>0 DEF TypeOK, ListRaises
  <1>7. ASSUME NEW r \in Requests, ServesCreate(r) PROVE TypeOK'
    <2> DEFINE entry == [payment_id |-> "service", amount |-> r, valid |-> TRUE]
               o == call[r].order
    <2>1. o \in Orders
      BY <1>7, <1>0 DEF ServesCreate, NoCall, Call, None
    <2>2. entry \in Payment /\ [entry EXCEPT !.valid = FALSE] \in Payment
      BY DEF Payment
    <2>3. ledger' = [ledger EXCEPT ![o] = Append(@, entry)]
      BY <1>7 DEF ServesCreate
    <2>4. PICK body \in {<<entry>>, <<[entry EXCEPT !.valid = FALSE]>>, <<>>} :
            reply' = [reply EXCEPT ![r] = body]
      BY <1>7 DEF ServesCreate
    <2>5. Append(ledger[o], entry) \in Seq(Payment)
      BY <2>1, <2>2, <1>0, AppendProperties
    <2>6. ledger' \in [Orders -> Seq(Payment)]
      BY <2>1, <2>3, <2>5, <1>0
    <2>7. body \in Seq(Payment)
      <3> HIDE DEF entry
      <3>1. <<entry>> \in Seq(Payment) /\ <<[entry EXCEPT !.valid = FALSE]>> \in Seq(Payment)
        BY <2>2, Singleton
      <3> QED
        BY <2>4, <3>1, <1>a
    <2>8. reply' \in [Requests -> Seq(Payment)]
      BY <2>4, <2>7, <1>0
    <2>9. CallsTypeOK'
      BY <1>7, <1>0, CallsType DEF CallsStep, ServesCreate
    <2> QED
      BY <1>7, <2>6, <2>8, <2>9, <1>0 DEF TypeOK, ServesCreate
  <1>8. ASSUME NEW r \in Requests, ServesList(r) PROVE TypeOK'
    <2>1. ledger[call[r].order] \in Seq(Payment)
      BY <1>8, <1>0 DEF ServesList, NoCall, Call, None
    <2>2. reply' \in [Requests -> Seq(Payment)]
      BY <1>8, <2>1, <1>0 DEF ServesList
    <2>3. CallsTypeOK'
      BY <1>8, <1>0, CallsType DEF CallsStep, ServesList
    <2> QED
      BY <1>8, <2>2, <2>3, <1>0 DEF TypeOK, ServesList
  <1>9. ASSUME Restart PROVE TypeOK'
    <2>1. CallsTypeOK'
      BY <1>9, <1>0, CallsType DEF CallsStep, Restart
    <2> QED
      BY <1>9, <2>1, <1>0, <1>a DEF TypeOK, Restart
  <1>10. CASE UNCHANGED vars
    BY <1>10, <1>0 DEF TypeOK, CallsTypeOK, vars, financeVars, callVars
  <1> QED
    BY <1>1, <1>2, <1>3, <1>4, <1>5, <1>6, <1>7, <1>8, <1>9, <1>10
       DEF Next, Gateway, Service, Terminated

\* The initial state is well typed.
LEMMA TypeInit == Init => TypeOK
  BY CallsAssumption
     DEF Init, CallsInit, CallsAssumption, TypeOK, CallsTypeOK, Answer, Payment

\* Every variable keeps its type.
THEOREM TypeCorrect == Spec => []TypeOK
  BY TypeInit, TypeStep, PTL DEF Spec

-----------------------------------------------------------------------------
(* The inductive invariant. *)

Entries(body) == {body[i] : i \in DOMAIN body}

\* A request that has not come in has left no trace, one that is not answered
\* has no answer, and no answer is from a later incarnation.
StageInv ==
    \A r \in Requests :
        /\ pc[r] = "idle" => call[r] = NoCall /\ svc[r] = "none" /\ reply[r] = <<>>
        /\ pc[r] # "answered" => answer[r].status = 0
        /\ answer[r].epoch <= epoch

\* A confirmation under way is from the desk, and its reply can only hold the
\* service's record of it.
CreateInv ==
    \A r \in Requests :
        call[r].op = "create" =>
            /\ pc[r] = "waiting" => Upper(call[r].role) \in Desk
            /\ \A p \in Entries(reply[r]) : p.amount = r /\ p.payment_id = "service"

\* p may be in the store under o.
MayKeep(p, o) ==
    /\ pc[p.amount] = "answered"
    /\ call[p.amount].op = "create"
    /\ call[p.amount].order = o
    /\ Upper(call[p.amount].role) \in Desk
    /\ p.payment_id = "service" => svc[p.amount] = "executed"
    /\ p.payment_id = "pay-order" => seen[p.amount] \in MOCKABLE_DOWNSTREAM_GAP_CODES

StoreInv == \A o \in Orders : \A p \in Entries(payments[o]) : MayKeep(p, o)

\* What this incarnation has acknowledged, it holds.
AckedInv == \A o \in Orders : Acked(o) \subseteq Shows(payments[o])

\* A list waits for the service only if nothing was owed to it.
WaitInv ==
    \A r \in Requests :
        (pc[r] = "waiting" /\ call[r].op = "list") => call[r].acked = {}

IInv ==
    TypeOK /\ StageInv /\ CreateInv /\ StoreInv /\ AckedInv /\ WaitInv /\ AckedPaymentListed

\* The two sides of a concatenation.
LEMMA EntriesOfConcat ==
    ASSUME NEW S, NEW s \in Seq(S), NEW t \in Seq(S)
    PROVE  Entries(s \o t) = Entries(s) \cup Entries(t)
  <1>1. /\ s \o t \in Seq(S)
        /\ Len(s \o t) = Len(s) + Len(t)
        /\ \A i \in 1..Len(s) + Len(t) :
              (s \o t)[i] = IF i <= Len(s) THEN s[i] ELSE t[i - Len(s)]
    BY ConcatProperties
  <1>2. ASSUME NEW i \in 1..Len(s) + Len(t)
        PROVE  (s \o t)[i] \in Entries(s) \cup Entries(t)
    BY <1>1 DEF Entries
  <1>3. ASSUME NEW i \in 1..Len(s) PROVE s[i] \in Entries(s \o t)
    <2>1. i \in DOMAIN (s \o t) /\ (s \o t)[i] = s[i]
      BY <1>1
    <2> QED
      BY <2>1 DEF Entries
  <1>4. ASSUME NEW i \in 1..Len(t) PROVE t[i] \in Entries(s \o t)
    <2>1. /\ i + Len(s) \in DOMAIN (s \o t)
          /\ (s \o t)[i + Len(s)] = t[i + Len(s) - Len(s)]
          /\ i + Len(s) - Len(s) = i
      BY <1>1
    <2> QED
      BY <2>1 DEF Entries
  <1>5. DOMAIN (s \o t) = 1..Len(s) + Len(t) /\ DOMAIN s = 1..Len(s) /\ DOMAIN t = 1..Len(t)
    BY <1>1
  <1> QED
    BY <1>2, <1>3, <1>4, <1>5 DEF Entries

\* What a body shows are the amounts of its entries.
LEMMA ShowsEntries ==
    ASSUME NEW body
    PROVE  Shows(body) = {p.amount : p \in Entries(body)}
  BY DEF Shows, Entries

\* What comes of keeping payments of an order.
LEMMA KeptEntries ==
    ASSUME payments \in [Orders -> Seq(Payment)],
           NEW o \in Orders, NEW added \in Seq(Payment), NEW p \in Orders
    PROVE  Entries(Kept(o, added)[p]) =
              Entries(payments[p]) \cup (IF p = o THEN Entries(added) ELSE {})
  <1>1. CASE p = o
    BY <1>1, EntriesOfConcat DEF Kept
  <1>2. CASE p # o
    BY <1>2 DEF Kept
  <1> QED
    BY <1>1, <1>2

\* ~Forbidden lets only the desk through to the payments of an order.
LEMMA OnlyDeskPays ==
    ASSUME NEW o, NEW role, ~Forbidden(PaymentsPath(o), role)
    PROVE  Upper(role) \in Desk
  <1>1. IsStrictPrefix(<<"api", "finance", "v1", "orders">>, PaymentsPath(o))
    BY DEF IsStrictPrefix, IsPrefix, PaymentsPath
  <1> QED
    BY <1>1 DEF Forbidden

\* A request that is answered stays as it is, and what the service executed
\* stays executed.
LEMMA AnsweredStays ==
    ASSUME TypeOK, StageInv, [Next]_vars, NEW q \in Requests
    PROVE  /\ pc[q] = "answered" => /\ pc'[q] = "answered"
                                    /\ call'[q] = call[q]
                                    /\ seen'[q] = seen[q]
                                    /\ answer'[q] = answer[q]
           /\ svc[q] = "executed" => svc'[q] = "executed"
  <1> USE DEF TypeOK, CallsTypeOK
  <1>1. ASSUME NEW r \in Requests, CreatePayment(r) \/ ListPayments(r)
        PROVE  /\ r # q => UNCHANGED <<pc[q], call[q], seen[q], answer[q], svc[q]>>
               /\ pc[r] = "idle"
    BY <1>1 DEF CreatePayment, ListPayments, Asks, Answers, Responds, AnsweredAtOnce, Sends
  <1>2. ASSUME NEW r \in Requests, CreateReturns(r) \/ ListReturns(r)
        PROVE  /\ r # q => UNCHANGED <<pc[q], call[q], seen[q], answer[q], svc[q]>>
               /\ pc[r] = "waiting"
               /\ svc' = svc
    BY <1>2 DEF CreateReturns, ListReturns, Answers, Responds, Returns
  <1>3. ASSUME NEW r \in Requests, NEW status \in FailureCodes,
               CreateRaises(r, status) \/ ListRaises(r, status)
        PROVE  /\ r # q => UNCHANGED <<pc[q], call[q], seen[q], answer[q], svc[q]>>
               /\ pc[r] = "waiting"
               /\ svc[r] = "executed" => svc'[r] = "executed"
    BY <1>3 DEF CreateRaises, ListRaises, Answers, Responds, Fails, Raises, Refused, OutOfReach
  <1>4. ASSUME NEW r \in Requests, ServesCreate(r) \/ ServesList(r)
        PROVE  /\ UNCHANGED <<pc, call, seen, answer>>
               /\ svc[q] = "executed" => svc'[q] = "executed"
    BY <1>4 DEF ServesCreate, ServesList, Executes
  <1>5. ASSUME Restart
        PROVE  /\ UNCHANGED <<svc, call, seen, answer>>
               /\ pc[q] = "answered" => pc'[q] = "answered"
    BY <1>5 DEF Restart, Crashes
  <1>6. CASE UNCHANGED vars
    BY <1>6 DEF vars, callVars, financeVars
  <1> QED
    BY <1>1, <1>2, <1>3, <1>4, <1>5, <1>6 DEF Next, Gateway, Service, Terminated, StageInv

\* A payment that may be in the store may stay there.
LEMMA MayStay ==
    ASSUME TypeOK, StageInv, [Next]_vars, NEW o, NEW p, p.amount \in Requests, MayKeep(p, o)
    PROVE  MayKeep(p, o)'
  BY AnsweredStays DEF MayKeep

\* No step takes a request to a stage that what it asked for, or what became of its
\* call, does not allow.
LEMMA StageStep == TypeOK /\ StageInv /\ [Next]_vars => StageInv'
  <1> SUFFICES ASSUME TypeOK, StageInv, [Next]_vars, NEW q \in Requests
               PROVE  /\ pc'[q] = "idle" => call'[q] = NoCall /\ svc'[q] = "none" /\ reply'[q] = <<>>
                      /\ pc'[q] # "answered" => answer'[q].status = 0
                      /\ answer'[q].epoch <= epoch'
    BY DEF StageInv
  <1> USE DEF TypeOK, CallsTypeOK, StageInv
  <1>0. epoch \in Nat /\ answer[q].epoch \in Nat
    BY CallsAssumption DEF CallsAssumption, Answer
  <1>1. ASSUME NEW r \in Requests, CreatePayment(r) \/ ListPayments(r)
        PROVE  /\ r # q => UNCHANGED <<pc[q], call[q], svc[q], reply[q], answer[q]>>
               /\ pc[r] = "idle"
               /\ epoch' = epoch
               /\ \/ pc'[r] = "answered" /\ answer'[r].epoch = epoch
                  \/ pc'[r] = "waiting" /\ answer' = answer
    BY <1>1 DEF CreatePayment, ListPayments, Asks, Answers, Responds, AnsweredAtOnce, Sends
  <1>2. ASSUME NEW r \in Requests, CreateReturns(r) \/ ListReturns(r)
        PROVE  /\ r # q => UNCHANGED <<pc[q], call[q], svc[q], reply[q], answer[q]>>
               /\ epoch' = epoch
               /\ pc'[r] = "answered" /\ answer'[r].epoch = epoch
    BY <1>2 DEF CreateReturns, ListReturns, Answers, Responds, Returns
  <1>3. ASSUME NEW r \in Requests, NEW status \in FailureCodes,
               CreateRaises(r, status) \/ ListRaises(r, status)
        PROVE  /\ r # q => UNCHANGED <<pc[q], call[q], svc[q], reply[q], answer[q]>>
               /\ epoch' = epoch
               /\ pc'[r] = "answered" /\ answer'[r].epoch = epoch
    BY <1>3 DEF CreateRaises, ListRaises, Answers, Responds, Fails, Raises, Refused, OutOfReach
  <1>4. ASSUME NEW r \in Requests, ServesCreate(r) \/ ServesList(r)
        PROVE  /\ UNCHANGED <<pc, call, answer, epoch>>
               /\ r # q => UNCHANGED <<svc[q], reply[q]>>
               /\ svc[r] = "pending"
    BY <1>4 DEF ServesCreate, ServesList, Executes
  <1>5. ASSUME Restart
        PROVE  /\ UNCHANGED <<svc, call, reply, answer>>
               /\ pc'[q] = pc[q] \/ (pc[q] = "waiting" /\ pc'[q] = "lost")
               /\ epoch' = epoch + 1
    BY <1>5 DEF Restart, Crashes
  <1>6. CASE UNCHANGED vars
    BY <1>6, <1>0 DEF vars, callVars, financeVars
  <1> QED
    BY <1>0, <1>1, <1>2, <1>3, <1>4, <1>5, <1>6 DEF Next, Gateway, Service, Terminated

\* A confirmation under way stays one that the desk asked for, and its reply the
\* service's record of it.
LEMMA CreateStep ==
    TypeOK /\ StageInv /\ CreateInv /\ [Next]_vars => CreateInv'
  <1> SUFFICES ASSUME TypeOK, StageInv, CreateInv, [Next]_vars,
                      NEW q \in Requests, call'[q].op = "create"
               PROVE  /\ pc'[q] = "waiting" => Upper(call'[q].role) \in Desk
                      /\ \A p \in Entries(reply'[q]) : p.amount = q /\ p.payment_id = "service"
    BY DEF CreateInv
  <1> USE DEF TypeOK, CallsTypeOK
  <1>1. ASSUME NEW r \in Requests, CreatePayment(r)
        PROVE  /\ r # q => UNCHANGED <<pc[q], call[q], reply[q]>>
               /\ pc[r] = "idle" /\ reply' = reply
               /\ pc'[r] = "waiting" => Upper(call'[r].role) \in Desk
    <2>1. PICK o \in Orders, role \in Roles :
            /\ Asks(r, "create", o, role)
            /\ \/ AnsweredAtOnce(r)
               \/ ~Forbidden(PaymentsPath(o), role) /\ Sends(r)
            /\ reply' = reply
      BY <1>1 DEF CreatePayment
    <2>2. call'[r].role = role
      BY <2>1 DEF Asks
    <2>3. CASE AnsweredAtOnce(r)
      BY <2>1, <2>3 DEF Asks, AnsweredAtOnce
    <2>4. CASE ~Forbidden(PaymentsPath(o), role) /\ Sends(r)
      BY <2>1, <2>2, <2>4, OnlyDeskPays DEF Asks, Sends
    <2> QED
      BY <2>1, <2>3, <2>4
  <1>2. ASSUME NEW r \in Requests, ListPayments(r)
        PROVE  /\ r # q => UNCHANGED <<pc[q], call[q], reply[q]>>
               /\ call'[r].op = "list"
    BY <1>2 DEF ListPayments, Asks, AnsweredAtOnce, Sends
  <1>3. ASSUME NEW r \in Requests, CreateReturns(r) \/ ListReturns(r)
        PROVE  UNCHANGED <<call, reply>> /\ (pc'[q] = "waiting" => pc[q] = "waiting")
    BY <1>3 DEF CreateReturns, ListReturns, Returns
  <1>4. ASSUME NEW r \in Requests, NEW status \in FailureCodes,
               CreateRaises(r, status) \/ ListRaises(r, status)
        PROVE  UNCHANGED <<call, reply>> /\ (pc'[q] = "waiting" => pc[q] = "waiting")
    BY <1>4 DEF CreateRaises, ListRaises, Raises, Refused, OutOfReach
  <1>5. ASSUME NEW r \in Requests, ServesCreate(r)
        PROVE  /\ UNCHANGED <<pc, call>>
               /\ r # q => UNCHANGED reply[q]
               /\ \A p \in Entries(reply'[r]) : p.amount = r /\ p.payment_id = "service"
    BY <1>5 DEF ServesCreate, Executes, Entries
  <1>6. ASSUME NEW r \in Requests, ServesList(r)
        PROVE  /\ UNCHANGED <<pc, call>>
               /\ call[r].op = "list"
               /\ r # q => UNCHANGED reply[q]
    BY <1>6 DEF ServesList, Executes
  <1>7. ASSUME Restart
        PROVE  UNCHANGED <<call, reply>> /\ (pc'[q] = "waiting" => pc[q] = "waiting")
    BY <1>7 DEF Restart, Crashes
  <1>8. CASE UNCHANGED vars
    BY <1>8 DEF vars, callVars, financeVars, CreateInv
  <1>9. pc[q] = "idle" => reply[q] = <<>>
    BY DEF StageInv
  <1>10. Entries(<<>>) = {}
    BY DEF Entries
  <1> QED
    BY <1>1, <1>2, <1>3, <1>4, <1>5, <1>6, <1>7, <1>8, <1>9, <1>10
       DEF Next, Gateway, Service, Terminated, CreateInv

\* A confirmation on its way is answered, and added to the store: the reply of
\* the service, or a payment of the gateway's own.
KeepStep(r, added) ==
    /\ call[r].op = "create" /\ pc[r] = "waiting" /\ pc'[r] = "answered"
    /\ call[r].order \in Orders
    /\ payments' = Kept(call[r].order, added)
    /\ call' = call /\ epoch' = epoch
    /\ \/ /\ added = reply[r]
          /\ svc'[r] = "executed"
          /\ answer'[r].status = 200 => added # <<>>
       \/ /\ added = <<OwnPayment(r)>>
          /\ seen'[r] \in MOCKABLE_DOWNSTREAM_GAP_CODES

\* What a step may do to the store: nothing, keep the payments of one answered
\* confirmation, or drop everything at a restart.
LEMMA StoreChange ==
    ASSUME TypeOK, [Next]_vars
    PROVE  \/ UNCHANGED payments
           \/ \E r \in Requests, added \in Seq(Payment) : KeepStep(r, added)
           \/ /\ payments' = [o \in Orders |-> <<>>]
              /\ epoch' = epoch + 1 /\ UNCHANGED <<call, answer>>
  <1> USE DEF TypeOK, CallsTypeOK
  <1>1. ASSUME NEW r \in Requests, CreateReturns(r)
        PROVE  KeepStep(r, reply[r]) /\ reply[r] \in Seq(Payment)
    BY <1>1 DEF KeepStep, CreateReturns, Returns, NoCall, Call, None, Answers, Answer
  <1>2. ASSUME NEW r \in Requests, NEW status \in FailureCodes, CreateRaises(r, status),
               payments' # payments
        PROVE  KeepStep(r, <<OwnPayment(r)>>) /\ <<OwnPayment(r)>> \in Seq(Payment)
    <2>1. FallsBackOn(status) /\ payments' = Kept(call[r].order, <<OwnPayment(r)>>)
      BY <1>2 DEF CreateRaises
    <2>2. status \in MOCKABLE_DOWNSTREAM_GAP_CODES
      <3>1. status \in StatusCode
        BY CallsAssumption DEF CallsAssumption
      <3>2. MapGrpcError(status).code = status
        BY <3>1 DEF MapGrpcError
      <3> QED
        BY <2>1, <3>2 DEF FallsBackOn, ShouldUseMockFallback
    <2>3. <<OwnPayment(r)>> \in Seq(Payment)
      BY DEF OwnPayment, Payment
    <2> QED
      BY <1>2, <2>1, <2>2, <2>3
         DEF KeepStep, CreateRaises, Raises, Refused, OutOfReach, NoCall, Call, None
  <1>3. CASE Restart
    BY <1>3 DEF Restart, Crashes
  <1>4. ASSUME NEW r \in Requests,
               \/ CreatePayment(r) \/ ListPayments(r) \/ ListReturns(r)
               \/ \E status \in FailureCodes : ListRaises(r, status)
               \/ ServesCreate(r) \/ ServesList(r)
        PROVE  UNCHANGED payments
    BY <1>4 DEF CreatePayment, ListPayments, ListReturns, ListRaises, ServesCreate, ServesList
  <1>5. CASE UNCHANGED vars
    BY <1>5 DEF vars, financeVars
  <1> QED
    BY <1>1, <1>2, <1>3, <1>4, <1>5 DEF Next, Gateway, Service, Terminated

\* No step puts a payment into the store that may not be there.
LEMMA StoreStep ==
    TypeOK /\ StageInv /\ CreateInv /\ StoreInv /\ [Next]_vars => StoreInv'
  <1> SUFFICES ASSUME TypeOK, StageInv, CreateInv, StoreInv, [Next]_vars,
                      NEW o \in Orders, NEW p \in Entries(payments'[o])
               PROVE  MayKeep(p, o)'
    BY DEF StoreInv
  <1>0. \A e \in Entries(payments[o]) : e.amount \in Requests /\ MayKeep(e, o)
    <2>1. payments[o] \in Seq(Payment)
      BY DEF TypeOK
    <2>2. \A i \in DOMAIN payments[o] : payments[o][i].amount \in Requests
      <3>1. \A i \in DOMAIN payments[o] : payments[o][i] \in Payment
        BY <2>1
      <3> QED
        BY <3>1 DEF Payment
    <2> QED
      BY <2>2 DEF StoreInv, Entries
  <1>1. CASE p \in Entries(payments[o])
    BY <1>0, <1>1, MayStay
  <1>2. ASSUME NEW r \in Requests, NEW added \in Seq(Payment), KeepStep(r, added),
               p \notin Entries(payments[o])
        PROVE  MayKeep(p, o)'
    <2>1. o = call[r].order /\ p \in Entries(added)
      BY <1>2, KeptEntries DEF TypeOK, KeepStep
    <2>2. p.amount = r /\ (\/ p.payment_id = "service" /\ svc'[r] = "executed"
                           \/ /\ p.payment_id = "pay-order"
                              /\ seen'[r] \in MOCKABLE_DOWNSTREAM_GAP_CODES)
      <3>1. CASE added = reply[r] /\ svc'[r] = "executed"
        BY <1>2, <2>1, <3>1 DEF CreateInv, KeepStep
      <3>2. CASE added = <<OwnPayment(r)>> /\ seen'[r] \in MOCKABLE_DOWNSTREAM_GAP_CODES
        BY <2>1, <3>2 DEF OwnPayment, Entries
      <3> QED
        BY <1>2, <3>1, <3>2 DEF KeepStep
    <2>3. Upper(call[r].role) \in Desk
      BY <1>2 DEF CreateInv, KeepStep
    <2> QED
      BY <1>2, <2>1, <2>2, <2>3 DEF MayKeep, KeepStep
  <1>3. CASE payments' = [x \in Orders |-> <<>>]
    BY <1>3 DEF Entries
  <1> QED
    BY <1>1, <1>2, <1>3, StoreChange

\* An answer to one request is none to another.
LEMMA AnswersOne ==
    ASSUME TypeOK, NEW r \in Requests, NEW q \in Requests, q # r
    PROVE  /\ \A status, body : Answers(r, status, body) => answer'[q] = answer[q]
           /\ \A body : Responds(r, body) => answer'[q] = answer[q]
           /\ \A status : Fails(r, status) => answer'[q] = answer[q]
  BY DEF TypeOK, Answers, Responds, Fails

\* Only a restart begins a new incarnation.
LEMMA EpochStep ==
    ASSUME [Next]_vars
    PROVE  epoch' = epoch \/ (Restart /\ epoch' = epoch + 1)
  <1>1. ASSUME NEW r, CreatePayment(r) \/ ListPayments(r) PROVE epoch' = epoch
    BY <1>1 DEF CreatePayment, ListPayments, AnsweredAtOnce, Sends
  <1>2. ASSUME NEW r, CreateReturns(r) \/ ListReturns(r) PROVE epoch' = epoch
    BY <1>2 DEF CreateReturns, ListReturns, Returns
  <1>3. ASSUME NEW r, NEW status, CreateRaises(r, status) \/ ListRaises(r, status)
        PROVE  epoch' = epoch
    BY <1>3 DEF CreateRaises, ListRaises, Raises, Refused, OutOfReach
  <1>4. ASSUME NEW r, ServesCreate(r) \/ ServesList(r) PROVE epoch' = epoch
    BY <1>4 DEF ServesCreate, ServesList, Executes
  <1>5. Restart => epoch' = epoch + 1
    BY DEF Restart, Crashes
  <1>6. UNCHANGED vars => epoch' = epoch
    BY DEF vars, callVars
  <1> QED
    BY <1>1, <1>2, <1>3, <1>4, <1>5, <1>6 DEF Next, Gateway, Service, Terminated

\* A payment is acknowledged by the step that keeps it, or was before.
LEMMA NewlyAcked ==
    ASSUME TypeOK, StageInv, [Next]_vars, NEW o \in Orders, NEW q \in Acked(o)'
    PROVE  \/ pc[q] = "answered" /\ q \in Acked(o) /\ epoch' = epoch
           \/ /\ call[q].order = o
              /\ \E added \in Seq(Payment) : added # <<>> /\ KeepStep(q, added)
  <1> USE DEF TypeOK, CallsTypeOK
  <1>0. /\ q \in Requests /\ answer'[q].status = 200 /\ answer'[q].epoch = epoch'
        /\ call'[q].op = "create" /\ call'[q].order = o
    BY DEF Acked
  <1>1. CASE pc[q] = "answered"
    <2>1. answer'[q] = answer[q] /\ call'[q] = call[q]
      BY <1>0, <1>1, AnsweredStays
    <2>2. epoch' = epoch
      <3>1. epoch' = epoch \/ epoch' = epoch + 1
        BY EpochStep
      <3>2. answer[q].epoch <= epoch /\ epoch \in Nat /\ answer[q].epoch \in Nat
        BY <1>0, CallsAssumption DEF StageInv, CallsAssumption, Answer
      <3> QED
        BY <3>1, <3>2, <2>1, <1>0
    <2> QED
      BY <1>0, <1>1, <2>1, <2>2 DEF Acked
  <1>2. CASE pc[q] # "answered"
    <2>0. answer[q].status = 0
      BY <1>0, <1>2 DEF StageInv
    <2>1. ASSUME NEW r \in Requests, CreatePayment(r) \/ ListPayments(r) PROVE FALSE
      <3>1. r # q => answer'[q] = answer[q]
        BY <1>0, <2>1, AnswersOne DEF CreatePayment, ListPayments
      <3>2. CreatePayment(q) => answer'[q].status \in {403, 422} \/ answer' = answer
        BY <1>0 DEF CreatePayment, Answers
      <3>3. ListPayments(q) => call'[q].op = "list"
        BY <1>0 DEF ListPayments, Asks
      <3> QED
        BY <1>0, <2>0, <2>1, <3>1, <3>2, <3>3
    <2>2. ASSUME NEW r \in Requests, CreateReturns(r)
          PROVE  r = q /\ KeepStep(r, reply[r]) /\ reply[r] # <<>> /\ reply[r] \in Seq(Payment)
      <3>1. r = q
        BY <2>2, <1>0, <2>0 DEF CreateReturns, Answers, Responds
      <3>2. KeepStep(r, reply[r])
        BY <2>2 DEF KeepStep, CreateReturns, Returns, NoCall, Call, None, Answers, Answer
      <3>3. reply[r] # <<>>
        BY <2>2, <3>1, <1>0 DEF CreateReturns, Answers
      <3> QED
        BY <3>1, <3>2, <3>3
    <2>3. ASSUME NEW r \in Requests, NEW status \in FailureCodes, CreateRaises(r, status)
          PROVE  /\ r = q /\ KeepStep(r, <<OwnPayment(r)>>)
                 /\ <<OwnPayment(r)>> # <<>> /\ <<OwnPayment(r)>> \in Seq(Payment)
      <3>1. r = q
        BY <2>3, <1>0, <2>0 DEF CreateRaises, Answers, Responds, Fails
      <3>2. FallsBackOn(status)
        <4>1. MapGrpcError(status).status_code # 200
          BY DEF MapGrpcError, GRPC_STATUS_TO_HTTP
        <4> QED
          BY <2>3, <3>1, <4>1, <1>0 DEF CreateRaises, Fails, Answers
      <3>3. status \in MOCKABLE_DOWNSTREAM_GAP_CODES
        BY <3>2, CallsAssumption
           DEF FallsBackOn, ShouldUseMockFallback, MapGrpcError, CallsAssumption
      <3>4. <<OwnPayment(r)>> \in Seq(Payment)
        BY DEF OwnPayment, Payment
      <3> QED
        BY <2>3, <3>1, <3>2, <3>3, <3>4
           DEF KeepStep, CreateRaises, Raises, Refused, OutOfReach, NoCall, Call, None
    <2>4. ASSUME NEW r \in Requests,
                 ListReturns(r) \/ \E status \in FailureCodes : ListRaises(r, status)
          PROVE  FALSE
      <3>1. call' = call /\ call[r].op = "list"
        BY <2>4 DEF ListReturns, ListRaises
      <3>2. r # q => answer'[q] = answer[q]
        BY <1>0, <2>4, AnswersOne DEF ListReturns, ListRaises
      <3> QED
        BY <3>1, <3>2, <1>0, <2>0
    <2>5. ASSUME \/ \E r \in Requests : ServesCreate(r) \/ ServesList(r)
                 \/ Restart
                 \/ UNCHANGED vars
          PROVE  FALSE
      <3>1. answer' = answer
        BY <2>5 DEF ServesCreate, ServesList, Restart, vars, financeVars
      <3> QED
        BY <3>1, <1>0, <2>0
    <2>6. \E r \in Requests :
            \/ CreateReturns(r)
            \/ \E status \in FailureCodes : CreateRaises(r, status)
      BY <2>1, <2>4, <2>5 DEF Next, Gateway, Service, Terminated
    <2>7. \E added \in Seq(Payment) : added # <<>> /\ KeepStep(q, added)
      BY <2>2, <2>3, <2>6
    <2> QED
      BY <2>7, <1>0 DEF KeepStep
  <1> QED
    BY <1>1, <1>2

\* The store grows, or is emptied by a restart.
LEMMA StoreGrows ==
    ASSUME TypeOK, [Next]_vars, epoch' = epoch, NEW o \in Orders
    PROVE  Shows(payments[o]) \subseteq Shows(payments'[o])
  <1>1. ASSUME NEW r \in Requests, NEW added \in Seq(Payment), KeepStep(r, added)
        PROVE  Entries(payments[o]) \subseteq Entries(payments'[o])
    BY <1>1, KeptEntries DEF KeepStep, TypeOK
  <1>2. epoch' # epoch + 1
    BY CallsAssumption DEF TypeOK, CallsTypeOK, CallsAssumption
  <1>3. Entries(payments[o]) \subseteq Entries(payments'[o])
    BY <1>1, <1>2, StoreChange
  <1> QED
    BY <1>3, ShowsEntries

\* What is acknowledged in this incarnation stays in the store: it is put there by
\* the very step that acknowledges it, and only a restart empties the store.
LEMMA AckedStep ==
    TypeOK /\ StageInv /\ CreateInv /\ AckedInv /\ [Next]_vars => AckedInv'
  <1> SUFFICES ASSUME TypeOK, StageInv, CreateInv, AckedInv, [Next]_vars,
                      NEW o \in Orders, NEW q \in Acked(o)'
               PROVE  q \in Shows(payments'[o])
    BY DEF AckedInv
  <1>1. CASE q \in Acked(o) /\ epoch' = epoch
    BY <1>1, StoreGrows DEF AckedInv
  <1>2. ASSUME NEW added \in Seq(Payment), added # <<>>, KeepStep(q, added), call[q].order = o
        PROVE  q \in Shows(payments'[o])
    <2>1. q \in Requests
      BY DEF Acked
    <2>2. \A p \in Entries(added) : p.amount = q
      BY <2>1, <1>2 DEF KeepStep, CreateInv, OwnPayment, Entries
    <2>3. added[1] \in Entries(added)
      BY <1>2 DEF Entries
    <2>4. Entries(payments'[o]) = Entries(payments[o]) \cup Entries(added)
      BY <1>2, KeptEntries DEF KeepStep, TypeOK
    <2> QED
      BY <2>2, <2>3, <2>4, ShowsEntries
  <1> QED
    BY <1>1, <1>2, NewlyAcked

\* A list is sent to the service only when the store is empty, so when nothing
\* is acknowledged.
LEMMA WaitStep ==
    TypeOK /\ StageInv /\ AckedInv /\ WaitInv /\ [Next]_vars => WaitInv'
  <1> SUFFICES ASSUME TypeOK, StageInv, AckedInv, WaitInv, [Next]_vars, NEW q \in Requests,
                      pc'[q] = "waiting", call'[q].op = "list"
               PROVE  call'[q].acked = {}
    BY DEF WaitInv
  <1> USE DEF TypeOK, CallsTypeOK
  <1>1. ASSUME NEW r \in Requests, ListPayments(r)
        PROVE  \/ r # q /\ UNCHANGED <<pc[q], call[q]>>
               \/ r = q /\ call'[q].acked = {}
    <2>1. PICK o \in Orders, role \in Roles :
            /\ Asks(r, "list", o, role)
            /\ AnsweredAtOnce(r) \/ (payments[o] = <<>> /\ Sends(r))
      BY <1>1 DEF ListPayments
    <2>2. CASE r # q
      BY <2>1, <2>2 DEF Asks, AnsweredAtOnce, Sends
    <2>3. CASE r = q
      <3>1. payments[o] = <<>>
        BY <2>1, <2>3 DEF AnsweredAtOnce
      <3>2. Acked(o) = {}
        BY <3>1 DEF AckedInv, Shows
      <3>3. call'[q].acked = Acked(o)
        BY <2>1, <2>3 DEF Asks
      <3> QED
        BY <2>3, <3>2, <3>3
    <2> QED
      BY <2>2, <2>3
  <1>2. ASSUME NEW r \in Requests, CreatePayment(r)
        PROVE  r # q /\ UNCHANGED <<pc[q], call[q]>>
    <2>1. r # q
      BY <1>2 DEF CreatePayment, Asks
    <2> QED
      BY <1>2, <2>1 DEF CreatePayment, Asks, AnsweredAtOnce, Sends
  <1>3. ASSUME NEW r \in Requests, CreateReturns(r) \/ ListReturns(r)
        PROVE  UNCHANGED <<pc[q], call[q]>>
    BY <1>3 DEF CreateReturns, ListReturns, Returns
  <1>4. ASSUME NEW r \in Requests, NEW status \in FailureCodes,
               CreateRaises(r, status) \/ ListRaises(r, status)
        PROVE  UNCHANGED <<pc[q], call[q]>>
    BY <1>4 DEF CreateRaises, ListRaises, Raises, Refused, OutOfReach
  <1>5. ASSUME NEW r \in Requests, ServesCreate(r) \/ ServesList(r)
        PROVE  UNCHANGED <<pc[q], call[q]>>
    BY <1>5 DEF ServesCreate, ServesList, Executes
  <1>6. ASSUME Restart PROVE FALSE
    BY <1>6 DEF Restart, Crashes
  <1>7. CASE UNCHANGED vars
    BY <1>7 DEF vars, callVars, financeVars, WaitInv
  <1>8. UNCHANGED <<pc[q], call[q]>> => call'[q].acked = {}
    BY DEF WaitInv
  <1> QED
    BY <1>1, <1>2, <1>3, <1>4, <1>5, <1>6, <1>7, <1>8 DEF Next, Gateway, Service, Terminated

\* A list answered from the store shows all that is acknowledged; a list answered
\* after a call was owed nothing.
LEMMA ListedStep ==
    TypeOK /\ StageInv /\ AckedInv /\ WaitInv /\ AckedPaymentListed /\ [Next]_vars
        => AckedPaymentListed'
  <1> SUFFICES ASSUME TypeOK, StageInv, AckedInv, WaitInv, AckedPaymentListed, [Next]_vars,
                      NEW q \in Requests, call'[q].op = "list", answer'[q].status = 200
               PROVE  call'[q].acked \subseteq Shows(answer'[q].body)
    BY DEF AckedPaymentListed
  <1> USE DEF TypeOK, CallsTypeOK
  <1>0. UNCHANGED <<call[q], answer[q]>> => call'[q].acked \subseteq Shows(answer'[q].body)
    BY DEF AckedPaymentListed
  <1>1. ASSUME NEW r \in Requests, ListPayments(r)
        PROVE  \/ UNCHANGED <<call[q], answer[q]>>
               \/ call'[q].acked \subseteq Shows(answer'[q].body)
    <2>1. CASE r # q
      BY <1>1, <2>1, AnswersOne DEF ListPayments, Asks
    <2>2. CASE r = q
      <3>1. PICK o \in Orders, role \in Roles :
              /\ Asks(q, "list", o, role)
              /\ \/ Answers(q, 403, <<>>)
                 \/ Responds(q, payments[o])
                 \/ pc[q] = "idle" /\ answer' = answer
        BY <1>1, <2>2 DEF ListPayments, Sends
      <3>2. Responds(q, payments[o])
        <4>1. Answers(q, 403, <<>>) => answer'[q].status = 403
          BY DEF Answers
        <4>2. pc[q] = "idle" => answer[q].status = 0
          BY DEF StageInv
        <4> QED
          BY <3>1, <4>1, <4>2
      <3>3. answer'[q].body = payments[o]
        BY <3>2 DEF Responds, Answers
      <3>4. call'[q].acked = Acked(o)
        BY <3>1 DEF Asks
      <3> QED
        BY <3>3, <3>4 DEF AckedInv
    <2> QED
      BY <2>1, <2>2
  <1>2. ASSUME NEW r \in Requests, CreatePayment(r)
        PROVE  UNCHANGED <<call[q], answer[q]>>
    <2>1. r # q
      BY <1>2 DEF CreatePayment, Asks
    <2> QED
      BY <1>2, <2>1, AnswersOne DEF CreatePayment, Asks
  <1>3. ASSUME NEW r \in Requests,
               \/ CreateReturns(r) \/ ListReturns(r)
               \/ \E status \in FailureCodes : CreateRaises(r, status) \/ ListRaises(r, status)
        PROVE  UNCHANGED <<call[q], answer[q]>> \/ call'[q].acked = {}
    <2>1. call' = call /\ pc[r] = "waiting"
      BY <1>3 DEF CreateReturns, ListReturns, CreateRaises, ListRaises, Returns, Raises,
                  Refused, OutOfReach
    <2>2. r # q => answer'[q] = answer[q]
      BY <1>3, AnswersOne DEF CreateReturns, ListReturns, CreateRaises, ListRaises
    <2> QED
      BY <2>1, <2>2 DEF WaitInv
  <1>4. ASSUME NEW r \in Requests, ServesCreate(r) \/ ServesList(r)
        PROVE  UNCHANGED <<call[q], answer[q]>>
    BY <1>4 DEF ServesCreate, ServesList
  <1>5. ASSUME Restart PROVE UNCHANGED <<call[q], answer[q]>>
    BY <1>5 DEF Restart
  <1>6. CASE UNCHANGED vars
    BY <1>6, <1>0 DEF vars, financeVars
  <1> QED
    BY <1>0, <1>1, <1>2, <1>3, <1>4, <1>5, <1>6 DEF Next, Gateway, Service, Terminated

-----------------------------------------------------------------------------
(* The theorems. *)

\* The strengthened invariant holds in every reachable state.
LEMMA Invariance == Spec => []IInv
  <1>1. Init => IInv
    <2> SUFFICES ASSUME Init PROVE IInv
      OBVIOUS
    <2>1. TypeOK
      BY TypeInit
    <2>2. StageInv /\ CreateInv /\ WaitInv /\ AckedPaymentListed
      BY DEF Init, CallsInit, StageInv, CreateInv, WaitInv, AckedPaymentListed, NoCall, None
    <2>3. StoreInv /\ AckedInv
      BY DEF Init, StoreInv, AckedInv, Acked, Entries
    <2> QED
      BY <2>1, <2>2, <2>3 DEF IInv
  <1>2. IInv /\ [Next]_vars => IInv'
    BY TypeStep, StageStep, CreateStep, StoreStep, AckedStep, WaitStep, ListedStep DEF IInv
  <1> QED
    BY <1>1, <1>2, PTL DEF Spec

\* Every list that is answered shows the payments this incarnation had
\* acknowledged on its order when the list was asked for.
THEOREM ReadYourPayments == Spec => []AckedPaymentListed
  <1>1. IInv => AckedPaymentListed
    BY DEF IInv
  <1> QED
    BY <1>1, Invariance, PTL

\* Every payment in the store was asked for by the desk, for its order, and was
\* either executed by the service or fallen back on.
THEOREM PaymentsBacked == Spec => []EveryPaymentIsBacked
  <1>1. IInv => EveryPaymentIsBacked
    BY DEF IInv, StoreInv, MayKeep, Entries, EveryPaymentIsBacked
  <1> QED
    BY <1>1, Invariance, PTL

\* A list that falls back shows what was acknowledged while it waited.
THEOREM FreshFallback == Spec => FallbackListIsFresh
  <1>1. ASSUME IInv, [Next]_vars, NEW q \in Requests, call[q].op = "list",
               pc[q] = "waiting", answer'[q].status = 200, seen'[q] # "OK"
        PROVE  Acked(call[q].order) \subseteq Shows(answer'[q].body)
    <2> USE DEF IInv, TypeOK, CallsTypeOK
    <2>0. answer[q].status = 0
      BY <1>1 DEF StageInv
    <2>1. ASSUME NEW r \in Requests, NEW status \in FailureCodes, ListRaises(r, status)
          PROVE  Acked(call[q].order) \subseteq Shows(answer'[q].body)
      <3>1. r = q
        BY <1>1, <2>0, <2>1, AnswersOne DEF ListRaises
      <3>2. MapGrpcError(status).status_code # 200
        BY DEF MapGrpcError, GRPC_STATUS_TO_HTTP
      <3>3. Responds(q, payments[call[q].order])
        BY <1>1, <2>1, <3>1, <3>2 DEF ListRaises, FallbackList, Fails, Answers
      <3>4. answer'[q].body = payments[call[q].order]
        BY <1>1, <3>3 DEF Responds, Answers
      <3>5. call[q].order \in Orders
        BY <1>1 DEF NoCall, Call, None
      <3> QED
        BY <1>1, <3>4, <3>5 DEF AckedInv
    <2>2. ASSUME NEW r \in Requests,
                 \/ CreatePayment(r) \/ ListPayments(r) \/ CreateReturns(r)
                 \/ \E status \in FailureCodes : CreateRaises(r, status)
          PROVE  FALSE
      <3>1. r # q
        BY <1>1, <2>2 DEF CreatePayment, ListPayments, CreateReturns, CreateRaises,
                          AnsweredAtOnce, Sends
      <3> QED
        BY <1>1, <2>0, <2>2, <3>1, AnswersOne
           DEF CreatePayment, ListPayments, CreateReturns, CreateRaises
    <2>3. ASSUME NEW r \in Requests, ListReturns(r) PROVE FALSE
      <3>1. r = q
        BY <1>1, <2>0, <2>3, AnswersOne DEF ListReturns
      <3> QED
        BY <1>1, <2>3, <3>1 DEF ListReturns, Returns
    <2>4. ASSUME \/ \E r \in Requests : ServesCreate(r) \/ ServesList(r)
                 \/ Restart \/ UNCHANGED vars
          PROVE  FALSE
      <3>1. answer' = answer
        BY <2>4 DEF ServesCreate, ServesList, Restart, vars, financeVars
      <3> QED
        BY <1>1, <2>0, <3>1
    <2> QED
      BY <1>1, <2>1, <2>2, <2>3, <2>4 DEF Next, Gateway, Service, Terminated
  <1>2. IInv /\ [Next]_vars =>
          [\A r \in Requests :
              (/\ call[r].op = "list"
               /\ pc[r] = "waiting"
               /\ answer'[r].status = 200
               /\ seen'[r] # "OK")
                  => Acked(call[r].order) \subseteq Shows(answer'[r].body)]_vars
    BY <1>1
  <1> QED
    BY <1>2, Invariance, PTL DEF Spec, FallbackListIsFresh

-----------------------------------------------------------------------------
(* The refinement of PaymentBook: proof of Spec => KeepsBook, on top of the *)
(* inductive invariant; and nothing is kept or shown twice, with the        *)
(* invariants that takes.                                                   *)

\* The service's reply to a confirmation holds one payment at most.
ReplyInv == \A r \in Requests : call[r].op = "create" => reply[r] = <<>> \/ Len(reply[r]) = 1

\* Only an answer 200 shows payments; to a confirmation, it shows its own.
BodyInv ==
    \A r \in Requests :
        /\ answer[r].status # 200 => answer[r].body = <<>>
        /\ call[r].op = "create" /\ answer[r].status = 200 => Shows(answer[r].body) = {r}

\* The store holds what this incarnation confirmed.
EpochInv ==
    \A o \in Orders : \A p \in Entries(payments[o]) : answer[p.amount].epoch = epoch

RInv == IInv /\ ReplyInv /\ BodyInv /\ EpochInv

\* The step answers r, and touches no other request.
AnswerStep(r) ==
    /\ pc[r] # "answered"
    /\ pc' = [pc EXCEPT ![r] = "answered"]
    /\ answer'[r].epoch = epoch /\ epoch' = epoch
    /\ \A q \in Requests : q # r => call'[q] = call[q] /\ answer'[q] = answer[q]

\* The steps in which the gateway answers.
LEMMA Answering ==
    ASSUME TypeOK, NEW r \in Requests
    PROVE  /\ CreatePayment(r) /\ answer' # answer => AnswerStep(r)
           /\ ListPayments(r) /\ answer' # answer => AnswerStep(r)
           /\ CreateReturns(r) => AnswerStep(r)
           /\ ListReturns(r) => AnswerStep(r)
           /\ \A status : CreateRaises(r, status) => AnswerStep(r)
           /\ \A status : ListRaises(r, status) => AnswerStep(r)
  <1> USE DEF TypeOK, CallsTypeOK
  <1>1. ASSUME \/ \E status \in Status : Answers(r, status, <<>>)
               \/ \E body : Responds(r, body)
               \/ \E status : Fails(r, status)
        PROVE  answer'[r].epoch = epoch
    BY <1>1 DEF Answers, Responds, Fails
  <1>2. ASSUME CreatePayment(r) \/ ListPayments(r), answer' # answer PROVE AnswerStep(r)
    <2>1. AnsweredAtOnce(r)
      BY <1>2 DEF CreatePayment, ListPayments
    <2>2. \/ \E status \in Status : Answers(r, status, <<>>)
          \/ \E body : Responds(r, body)
      BY <1>2 DEF CreatePayment, ListPayments, Status
    <2>3. \A q \in Requests : q # r => call'[q] = call[q]
      BY <1>2 DEF CreatePayment, ListPayments, Asks
    <2> QED
      BY <1>1, <2>1, <2>2, <2>3, AnswersOne DEF AnswerStep, AnsweredAtOnce
  <1>3. ASSUME CreateReturns(r) \/ ListReturns(r) PROVE AnswerStep(r)
    <2>1. Returns(r) /\ call' = call
      BY <1>3 DEF CreateReturns, ListReturns
    <2>2. \/ \E status \in Status : Answers(r, status, <<>>)
          \/ \E body : Responds(r, body)
      BY <1>3 DEF CreateReturns, ListReturns, Status
    <2> QED
      BY <1>1, <2>1, <2>2, AnswersOne DEF AnswerStep, Returns
  <1>4. ASSUME NEW status, CreateRaises(r, status) \/ ListRaises(r, status)
        PROVE  AnswerStep(r)
    <2>1. Raises(r, status) /\ call' = call
      BY <1>4 DEF CreateRaises, ListRaises
    <2>2. \/ \E body : Responds(r, body)
          \/ \E s : Fails(r, s)
      BY <1>4 DEF CreateRaises, ListRaises
    <2> QED
      BY <1>1, <2>1, <2>2, AnswersOne DEF AnswerStep, Raises, Refused, OutOfReach
  <1> QED
    BY <1>2, <1>3, <1>4

\* In the book, answering a request closes it.
LEMMA Closing ==
    ASSUME TypeOK, NEW r \in Requests, AnswerStep(r)
    PROVE  Book!Closes(r, Shows(answer'[r].body))
  <1> USE DEF TypeOK, CallsTypeOK, AnswerStep
  <1>1. PhaseOf' = [PhaseOf EXCEPT ![r] = "done"]
    BY DEF PhaseOf
  <1>2. AboutOf' = [AboutOf EXCEPT ![r] = None]
    BY DEF AboutOf
  <1>3. OwedOf' = [OwedOf EXCEPT ![r] = {}]
    BY DEF OwedOf
  <1>4. ToldOf' = [ToldOf EXCEPT ![r] = Shows(answer'[r].body)]
    BY DEF ToldOf
  <1> QED
    BY <1>1, <1>2, <1>3, <1>4 DEF Book!Closes

\* Nothing else ends the wait of a request with an answer.
LEMMA AnsweredHow ==
    ASSUME TypeOK, [Next]_vars, NEW r \in Requests, pc[r] = "waiting", pc'[r] = "answered"
    PROVE  AnswerStep(r)
  <1> USE DEF TypeOK, CallsTypeOK
  <1>1. ASSUME NEW q \in Requests,
               \/ CreateReturns(q) \/ ListReturns(q)
               \/ \E status \in FailureCodes : CreateRaises(q, status) \/ ListRaises(q, status)
        PROVE  AnswerStep(r)
    <2>1. AnswerStep(q)
      BY <1>1, Answering
    <2>2. q = r
      BY <2>1 DEF AnswerStep
    <2> QED
      BY <2>1, <2>2
  <1>2. ASSUME NEW q \in Requests, CreatePayment(q) \/ ListPayments(q) PROVE FALSE
    BY <1>2 DEF CreatePayment, ListPayments, AnsweredAtOnce, Sends
  <1>3. ASSUME NEW q \in Requests, ServesCreate(q) \/ ServesList(q) PROVE FALSE
    BY <1>3 DEF ServesCreate, ServesList, Executes
  <1>4. ASSUME Restart PROVE FALSE
    BY <1>4 DEF Restart, Crashes
  <1>5. ASSUME UNCHANGED vars PROVE FALSE
    BY <1>5 DEF vars, callVars
  <1> QED
    BY <1>1, <1>2, <1>3, <1>4, <1>5 DEF Next, Gateway, Service, Terminated

\* The service's reply to a confirmation goes on to hold one payment at most.
LEMMA ReplyStep == TypeOK /\ StageInv /\ ReplyInv /\ [Next]_vars => ReplyInv'
  <1> SUFFICES ASSUME TypeOK, StageInv, ReplyInv, [Next]_vars,
                      NEW q \in Requests, call'[q].op = "create"
               PROVE  reply'[q] = <<>> \/ Len(reply'[q]) = 1
    BY DEF ReplyInv
  <1> USE DEF TypeOK, CallsTypeOK
  <1>0. UNCHANGED <<call[q], reply[q]>> => reply'[q] = <<>> \/ Len(reply'[q]) = 1
    BY DEF ReplyInv
  <1>1. ASSUME NEW r \in Requests, CreatePayment(r) \/ ListPayments(r)
        PROVE  UNCHANGED <<call[q], reply[q]>> \/ reply'[q] = <<>>
    <2>1. reply' = reply /\ pc[r] = "idle" /\ (r # q => call'[q] = call[q])
      BY <1>1 DEF CreatePayment, ListPayments, Asks, AnsweredAtOnce, Sends
    <2> QED
      BY <2>1 DEF StageInv
  <1>2. ASSUME NEW r \in Requests,
               \/ CreateReturns(r) \/ ListReturns(r)
               \/ \E status \in FailureCodes : CreateRaises(r, status) \/ ListRaises(r, status)
               \/ Restart
        PROVE  UNCHANGED <<call[q], reply[q]>>
    BY <1>2 DEF CreateReturns, ListReturns, CreateRaises, ListRaises, Restart
  <1>3. ASSUME NEW r \in Requests, ServesCreate(r)
        PROVE  reply'[q] = <<>> \/ Len(reply'[q]) = 1
    <2>1. call' = call /\ (r # q => reply'[q] = reply[q])
      BY <1>3 DEF ServesCreate
    <2>2. reply'[r] = <<>> \/ Len(reply'[r]) = 1
      BY <1>3 DEF ServesCreate
    <2> QED
      BY <2>1, <2>2, <1>0
  <1>4. ASSUME NEW r \in Requests, ServesList(r)
        PROVE  UNCHANGED <<call[q], reply[q]>>
    BY <1>4 DEF ServesList
  <1>5. ASSUME Restart PROVE UNCHANGED <<call[q], reply[q]>>
    BY <1>5 DEF Restart
  <1>6. CASE UNCHANGED vars
    BY <1>6, <1>0 DEF vars, financeVars
  <1> QED
    BY <1>0, <1>1, <1>2, <1>3, <1>4, <1>5, <1>6 DEF Next, Gateway, Service, Terminated

\* What an answer holds, by the operator that makes it.
LEMMA AnswerBody ==
    ASSUME TypeOK, NEW r \in Requests
    PROVE  /\ \A status : Answers(r, status, <<>>) =>
                 answer'[r].status = status /\ answer'[r].body = <<>>
           /\ \A status : Fails(r, status) =>
                 answer'[r].status # 200 /\ answer'[r].body = <<>>
           /\ \A body : Responds(r, body) =>
                 \/ answer'[r].status = 200 /\ answer'[r].body = body
                 \/ answer'[r].status = 500 /\ answer'[r].body = <<>>
  <1>1. \A status : MapGrpcError(status).status_code # 200
    BY DEF MapGrpcError, GRPC_STATUS_TO_HTTP
  <1> QED
    BY <1>1 DEF TypeOK, Answers, Fails, Responds

\* A confirmation answered in this step shows its payment, or an error.
LEMMA CreateBody ==
    ASSUME TypeOK, StageInv, CreateInv, ReplyInv, NEW r \in Requests,
           CreateReturns(r) \/ \E status \in FailureCodes : CreateRaises(r, status)
    PROVE  \/ answer'[r].status = 200 /\ Shows(answer'[r].body) = {r}
           \/ answer'[r].status # 200 /\ answer'[r].body = <<>>
  <1>1. CASE CreateReturns(r)
    <2>1. CASE reply[r] = <<>>
      BY <1>1, <2>1, AnswerBody DEF CreateReturns
    <2>2. CASE reply[r] # <<>>
      <3>1. call[r].op = "create" /\ Responds(r, reply[r])
        BY <1>1, <2>2 DEF CreateReturns
      <3>2. reply[r] \in Seq(Payment) /\ Len(reply[r]) = 1
        BY <2>2, <3>1 DEF ReplyInv, TypeOK
      <3>3. Shows(reply[r]) = {r}
        BY <3>1, <3>2, ShowsEntries DEF CreateInv, Entries
      <3> QED
        BY <3>1, <3>3, AnswerBody
    <2> QED
      BY <2>1, <2>2
  <1>2. ASSUME NEW status \in FailureCodes, CreateRaises(r, status)
        PROVE  \/ answer'[r].status = 200 /\ Shows(answer'[r].body) = {r}
               \/ answer'[r].status # 200 /\ answer'[r].body = <<>>
    <2>1. Responds(r, <<OwnPayment(r)>>) \/ Fails(r, status)
      BY <1>2 DEF CreateRaises
    <2>2. Shows(<<OwnPayment(r)>>) = {r}
      BY DEF Shows, OwnPayment
    <2> QED
      BY <2>1, <2>2, AnswerBody
  <1> QED
    BY <1>1, <1>2

\* Answers go on to show payments only with 200, and confirmations only their own.
LEMMA BodyStep ==
    TypeOK /\ StageInv /\ CreateInv /\ ReplyInv /\ BodyInv /\ [Next]_vars => BodyInv'
  <1> SUFFICES ASSUME TypeOK, StageInv, CreateInv, ReplyInv, BodyInv, [Next]_vars,
                      NEW q \in Requests
               PROVE  /\ answer'[q].status # 200 => answer'[q].body = <<>>
                      /\ call'[q].op = "create" /\ answer'[q].status = 200 =>
                            Shows(answer'[q].body) = {q}
    BY DEF BodyInv
  <1> DEFINE Good == /\ answer'[q].status # 200 => answer'[q].body = <<>>
                     /\ call'[q].op = "create" /\ answer'[q].status = 200 =>
                           Shows(answer'[q].body) = {q}
  <1> USE DEF TypeOK
  <1>0. UNCHANGED <<call[q], answer[q]>> => Good
    BY DEF BodyInv
  <1>1. ASSUME NEW r \in Requests, CreatePayment(r) PROVE Good
    <2>1. CASE r # q
      BY <1>0, <1>1, <2>1, AnswersOne DEF CreatePayment, Asks
    <2>2. CASE r = q
      <3>1. \/ Answers(q, 403, <<>>) \/ Answers(q, 422, <<>>)
            \/ pc[q] = "idle" /\ answer' = answer
        BY <1>1, <2>2 DEF CreatePayment, Sends
      <3>2. pc[q] = "idle" => answer[q].status = 0 /\ answer[q].body = <<>>
        BY DEF StageInv, BodyInv
      <3> QED
        BY <3>1, <3>2, AnswerBody
    <2> QED
      BY <2>1, <2>2
  <1>2. ASSUME NEW r \in Requests, ListPayments(r) PROVE Good
    <2>1. CASE r # q
      BY <1>0, <1>2, <2>1, AnswersOne DEF ListPayments, Asks
    <2>2. CASE r = q
      <3>1. PICK o \in Orders, role \in Roles :
              /\ Asks(q, "list", o, role)
              /\ \/ Answers(q, 403, <<>>) \/ Responds(q, payments[o])
                 \/ pc[q] = "idle" /\ answer' = answer
        BY <1>2, <2>2 DEF ListPayments, Sends
      <3>2. pc[q] = "idle" => answer[q].status = 0 /\ answer[q].body = <<>>
        BY DEF StageInv, BodyInv
      <3>3. call'[q].op = "list"
        BY <3>1 DEF Asks
      <3> QED
        BY <3>1, <3>2, <3>3, AnswerBody
    <2> QED
      BY <2>1, <2>2
  <1>3. ASSUME NEW r \in Requests,
               CreateReturns(r) \/ \E status \in FailureCodes : CreateRaises(r, status)
        PROVE  Good
    <2>1. call' = call
      BY <1>3 DEF CreateReturns, CreateRaises
    <2>2. CASE r # q
      BY <1>0, <1>3, <2>1, <2>2, AnswersOne DEF CreateReturns, CreateRaises
    <2>3. CASE r = q
      <3>1. \/ answer'[r].status = 200 /\ Shows(answer'[r].body) = {r}
            \/ answer'[r].status # 200 /\ answer'[r].body = <<>>
        BY <1>3, CreateBody
      <3> QED
        BY <2>3, <3>1
    <2> QED
      BY <2>2, <2>3
  <1>4. ASSUME NEW r \in Requests,
               ListReturns(r) \/ \E status \in FailureCodes : ListRaises(r, status)
        PROVE  Good
    <2>1. call' = call /\ call[r].op = "list"
      BY <1>4 DEF ListReturns, ListRaises
    <2>2. CASE r # q
      BY <1>0, <1>4, <2>1, <2>2, AnswersOne DEF ListReturns, ListRaises
    <2>3. CASE r = q
      <3>1. \/ \E body : Responds(q, body)
            \/ \E status : Fails(q, status)
        BY <1>4, <2>3 DEF ListReturns, ListRaises
      <3>2. answer'[q].status # 200 => answer'[q].body = <<>>
        BY <3>1, AnswerBody
      <3>3. call'[q].op = "list"
        BY <2>1, <2>3
      <3> QED
        BY <3>2, <3>3 DEF Good
    <2> QED
      BY <2>2, <2>3
  <1>5. ASSUME NEW r \in Requests, ServesCreate(r) \/ ServesList(r)
        PROVE  UNCHANGED <<call[q], answer[q]>>
    BY <1>5 DEF ServesCreate, ServesList
  <1>6. ASSUME Restart PROVE UNCHANGED <<call[q], answer[q]>>
    BY <1>6 DEF Restart
  <1>7. ASSUME UNCHANGED vars PROVE UNCHANGED <<call[q], answer[q]>>
    BY <1>7 DEF vars, financeVars
  <1> HIDE DEF Good
  <1>8. Good
    BY <1>0, <1>1, <1>2, <1>3, <1>4, <1>5, <1>6, <1>7 DEF Next, Gateway, Service, Terminated
  <1> QED
    BY <1>8 DEF Good

\* What is in the store was answered in the incarnation the store belongs to.
LEMMA EpochInvStep ==
    TypeOK /\ StageInv /\ CreateInv /\ StoreInv /\ EpochInv /\ [Next]_vars => EpochInv'
  <1> SUFFICES ASSUME TypeOK, StageInv, CreateInv, StoreInv, EpochInv, [Next]_vars,
                      NEW o \in Orders, NEW p \in Entries(payments'[o])
               PROVE  answer'[p.amount].epoch = epoch'
    BY DEF EpochInv
  <1>0. \A e \in Entries(payments[o]) : e.amount \in Requests
    <2>1. payments[o] \in Seq(Payment)
      BY DEF TypeOK
    <2>2. \A i \in DOMAIN payments[o] : payments[o][i] \in Payment
      BY <2>1
    <2> QED
      BY <2>2 DEF Entries, Payment
  <1>1. epoch' = epoch
    <2>1. Restart => Entries(payments'[o]) = {}
      BY DEF Restart, Entries
    <2> QED
      BY <2>1, EpochStep
  <1>2. CASE p \in Entries(payments[o])
    <2>1. p.amount \in Requests /\ pc[p.amount] = "answered" /\ answer[p.amount].epoch = epoch
      BY <1>0, <1>2 DEF StoreInv, MayKeep, EpochInv
    <2> QED
      BY <1>1, <2>1, AnsweredStays
  <1>3. ASSUME NEW r \in Requests, NEW added \in Seq(Payment), KeepStep(r, added),
               p \notin Entries(payments[o])
        PROVE  answer'[p.amount].epoch = epoch'
    <2>1. p \in Entries(added)
      BY <1>3, KeptEntries DEF TypeOK, KeepStep
    <2>2. p.amount = r
      BY <1>3, <2>1 DEF CreateInv, OwnPayment, Entries, KeepStep
    <2>3. AnswerStep(r)
      BY <1>3, AnsweredHow DEF KeepStep
    <2> QED
      BY <1>1, <2>2, <2>3 DEF AnswerStep
  <1>4. CASE payments' = [x \in Orders |-> <<>>]
    BY <1>4 DEF Entries
  <1> QED
    BY <1>2, <1>3, <1>4, StoreChange

\* The invariant of the refinement holds in every reachable state.
LEMMA RefinementInvariance == Spec => []RInv
  <1>1. Init => ReplyInv /\ BodyInv /\ EpochInv
    BY DEF Init, CallsInit, ReplyInv, BodyInv, EpochInv, Entries, NoCall, None
  <1>2. RInv /\ [Next]_vars => ReplyInv' /\ BodyInv' /\ EpochInv'
    BY ReplyStep, BodyStep, EpochInvStep DEF RInv, IInv
  <1>3. RInv <=> IInv /\ ReplyInv /\ BodyInv /\ EpochInv
    BY DEF RInv
  <1> QED
    BY <1>1, <1>2, <1>3, Invariance, PTL DEF Spec

-----------------------------------------------------------------------------
(* The simulation. *)

\* What the book calls acknowledged is what the answers acknowledged.
LEMMA SameAcknowledged ==
    ASSUME RInv, NEW o \in Orders
    PROVE  Book!Acknowledged(o) = Acked(o)
  <1> USE DEF RInv, IInv
  <1>0. /\ DOMAIN BookOf[o] = DOMAIN payments[o]
        /\ \A i \in DOMAIN payments[o] : BookOf[o][i] = payments[o][i].amount
    BY DEF BookOf
  <1>1. ASSUME NEW q \in Requests PROVE ToldOf[q] = Shows(answer[q].body)
    BY DEF ToldOf
  <1>2. ASSUME NEW q \in Acked(o) PROVE q \in Book!Acknowledged(o)
    <2>1. q \in Requests /\ call[q].op = "create" /\ answer[q].status = 200
      BY DEF Acked
    <2>2. \E i \in DOMAIN BookOf[o] : BookOf[o][i] = q
      BY <1>0 DEF AckedInv, Shows
    <2>3. ToldOf[q] = {q}
      BY <2>1, <1>1 DEF BodyInv
    <2> QED
      BY <2>1, <2>2, <2>3 DEF Book!Acknowledged
  <1>3. ASSUME NEW q \in Book!Acknowledged(o) PROVE q \in Acked(o)
    <2>1. /\ q \in Requests
          /\ \E i \in DOMAIN BookOf[o] : BookOf[o][i] = q
          /\ ToldOf[q] = {q}
      BY DEF Book!Acknowledged
    <2>2. PICK p \in Entries(payments[o]) : p.amount = q
      BY <2>1, <1>0 DEF Entries
    <2>3. call[q].op = "create" /\ call[q].order = o /\ answer[q].epoch = epoch
      BY <2>2 DEF StoreInv, MayKeep, EpochInv
    <2>4. answer[q].status = 200
      <3>1. Shows(answer[q].body) = {q}
        BY <2>1, <1>1
      <3>2. answer[q].body # <<>>
        BY <3>1 DEF Shows
      <3> QED
        BY <2>1, <3>2 DEF BodyInv
    <2> QED
      BY <2>1, <2>3, <2>4 DEF Acked
  <1> QED
    BY <1>2, <1>3

\* Keeping one payment of r enters r in the book.
LEMMA Entering ==
    ASSUME TypeOK, NEW o \in Orders, NEW p \in Payment, payments' = Kept(o, <<p>>)
    PROVE  BookOf' = [BookOf EXCEPT ![o] = Append(@, p.amount)]
  <1> DEFINE old == payments[o]
             new == payments[o] \o <<p>>
             before == [i \in DOMAIN old |-> old[i].amount]
             after == [i \in DOMAIN new |-> new[i].amount]
  <1>1. old \in Seq(Payment) /\ <<p>> \in Seq(Payment)
    BY DEF TypeOK
  <1>2. /\ Len(new) = Len(old) + 1 /\ new \in Seq(Payment)
        /\ \A i \in 1..Len(old) : new[i] = old[i]
        /\ new[Len(old) + 1] = p
    BY <1>1, ConcatProperties
  <1>3. before \in Seq(Requests) /\ Len(before) = Len(old)
    <2>1. DOMAIN old = 1..Len(old) /\ Len(old) \in Nat
      BY <1>1
    <2>2. \A i \in DOMAIN old : old[i].amount \in Requests
      <3>1. \A i \in DOMAIN old : old[i] \in Payment
        BY <1>1
      <3> QED
        BY <3>1 DEF Payment
    <2> QED
      BY <2>1, <2>2
  <1>4. p.amount \in Requests
    BY DEF Payment
  <1>5. after = Append(before, p.amount)
    <2>1. /\ DOMAIN Append(before, p.amount) = 1..Len(old) + 1
          /\ \A i \in 1..Len(old) : Append(before, p.amount)[i] = before[i]
          /\ Append(before, p.amount)[Len(old) + 1] = p.amount
      BY <1>3, <1>4, AppendProperties
    <2>2. DOMAIN after = 1..Len(old) + 1
      BY <1>2
    <2>3. \A i \in 1..Len(old) : after[i] = before[i]
      BY <1>1, <1>2
    <2>4. after[Len(old) + 1] = p.amount
      BY <1>1, <1>2
    <2>5. \A i \in 1..Len(old) + 1 : i \in 1..Len(old) \/ i = Len(old) + 1
      BY <1>1
    <2>6. \A i \in 1..Len(old) + 1 : after[i] = Append(before, p.amount)[i]
      BY <2>1, <2>3, <2>4, <2>5
    <2>7. Append(before, p.amount) = [i \in DOMAIN Append(before, p.amount) |-> Append(before, p.amount)[i]]
      BY <1>3, <1>4, AppendProperties
    <2> QED
      BY <2>1, <2>2, <2>6, <2>7
  <1>6. /\ payments' = [payments EXCEPT ![o] = new]
        /\ payments \in [Orders -> Seq(Payment)]
    BY DEF Kept, TypeOK
  <1>7. BookOf' = [BookOf EXCEPT ![o] = after]
    BY <1>6 DEF BookOf
  <1>8. BookOf[o] = before
    BY DEF BookOf
  <1> QED
    BY <1>5, <1>7, <1>8

\* A step that leaves the store, the requests and the answers alone is not seen.
LEMMA Unseen ==
    ASSUME UNCHANGED <<pc, call, answer, payments>>
    PROVE  UNCHANGED Book!vars
  BY DEF Book!vars, BookOf, PhaseOf, AboutOf, OwedOf, ToldOf, Shows

\* A body of well typed payments shows requests.
LEMMA ShowsRequests ==
    ASSUME NEW body \in Seq(Payment)
    PROVE  Shows(body) \subseteq Requests
  <1>1. \A i \in DOMAIN body : body[i] \in Payment
    OBVIOUS
  <1> QED
    BY <1>1 DEF Shows, Payment

\* Every step of the gateway and of the service is a step of the book, or none.
LEMMA Simulation ==
    ASSUME RInv, RInv', [Next]_vars
    PROVE  [Book!Next]_Book!vars
  <1> USE DEF RInv, IInv
  <1>0. /\ \A q \in Requests : pc[q] = "idle" => PhaseOf[q] = "new"
        /\ \A q \in Requests : pc[q] = "waiting" =>
              /\ PhaseOf[q] = "open"
              /\ AboutOf[q] = call[q].order
              /\ OwedOf[q] = call[q].acked
    BY DEF PhaseOf, AboutOf, OwedOf
  <1>a. Shows(<<>>) = {}
    BY DEF Shows
  <1>b. UNCHANGED payments => UNCHANGED BookOf
    BY DEF BookOf
  \* An error answers the request.
  <1>c. ASSUME NEW r \in Requests, AnswerStep(r), answer'[r].body = <<>>, UNCHANGED payments,
               pc[r] \in {"idle", "waiting"}
        PROVE  Book!Decline(r)
    BY <1>c, <1>0, <1>a, <1>b, Closing DEF Book!Decline
  \* The call is sent.
  <1>d. ASSUME NEW r \in Requests, NEW op, NEW o \in Orders, NEW role,
               Asks(r, op, o, role), Sends(r), UNCHANGED <<answer, payments>>
        PROVE  Book!Open(r)
    <2> USE DEF TypeOK, CallsTypeOK
    <2>1. pc[r] = "idle" /\ PhaseOf[r] = "new"
      BY <1>d, <1>0 DEF Sends
    <2>2. PhaseOf' = [PhaseOf EXCEPT ![r] = "open"]
      BY <1>d DEF PhaseOf, Sends
    <2>3. AboutOf' = [AboutOf EXCEPT ![r] = o]
      BY <1>d DEF AboutOf, Sends, Asks
    <2>4. OwedOf' = [OwedOf EXCEPT ![r] = Acked(o)]
      BY <1>d DEF OwedOf, Sends, Asks
    <2>5. Acked(o) = Book!Acknowledged(o)
      BY SameAcknowledged
    <2>6. UNCHANGED ToldOf
      BY <1>d DEF ToldOf, Shows
    <2> QED
      BY <1>d, <1>b, <2>1, <2>2, <2>3, <2>4, <2>5, <2>6 DEF Book!Open
  \* A confirmation is answered and kept.
  <1>e. ASSUME NEW r \in Requests, NEW p \in Payment, AnswerStep(r), pc[r] = "waiting",
               call[r].order \in Orders, p.amount = r,
               payments' = Kept(call[r].order, <<p>>),
               Shows(answer'[r].body) \in {{}, {r}}
        PROVE  Book!Confirm(r)
    <2>1. BookOf' = [BookOf EXCEPT ![call[r].order] = Append(@, r)]
      BY <1>e, Entering
    <2> QED
      BY <1>e, <1>0, <2>1, Closing DEF Book!Confirm
  <1>1. ASSUME NEW r \in Requests, CreatePayment(r) PROVE Book!Next
    <2>1. PICK o \in Orders, role \in Roles :
            /\ Asks(r, "create", o, role)
            /\ \/ AnsweredAtOnce(r) /\ (Answers(r, 403, <<>>) \/ Answers(r, 422, <<>>))
               \/ Sends(r) /\ UNCHANGED answer
            /\ UNCHANGED payments
      BY <1>1 DEF CreatePayment
    <2>2. CASE AnsweredAtOnce(r) /\ (Answers(r, 403, <<>>) \/ Answers(r, 422, <<>>))
      <3>1. answer'[r].body = <<>> /\ answer'[r].status # 0
        BY <2>2, AnswerBody
      <3>2. pc[r] = "idle" /\ answer[r].status = 0
        BY <2>2 DEF AnsweredAtOnce, StageInv
      <3>3. AnswerStep(r)
        BY <1>1, <3>1, <3>2, Answering
      <3> QED
        BY <2>1, <3>1, <3>2, <3>3, <1>c DEF Book!Next
    <2>3. CASE Sends(r) /\ UNCHANGED answer
      BY <2>1, <2>3, <1>d DEF Book!Next
    <2> QED
      BY <2>1, <2>2, <2>3
  <1>2. ASSUME NEW r \in Requests, ListPayments(r) PROVE Book!Next
    <2>1. PICK o \in Orders, role \in Roles :
            /\ Asks(r, "list", o, role)
            /\ \/ AnsweredAtOnce(r) /\ (Answers(r, 403, <<>>) \/ Responds(r, payments[o]))
               \/ Sends(r) /\ UNCHANGED answer
            /\ UNCHANGED payments
      BY <1>2 DEF ListPayments
    <2>2. CASE AnsweredAtOnce(r) /\ (Answers(r, 403, <<>>) \/ Responds(r, payments[o]))
      <3>1. \/ answer'[r].status # 0 /\ answer'[r].body = <<>>
            \/ answer'[r].status # 0 /\ answer'[r].body = payments[o]
        BY <2>2, AnswerBody
      <3>2. pc[r] = "idle" /\ answer[r].status = 0
        BY <2>2 DEF AnsweredAtOnce, StageInv
      <3>3. AnswerStep(r)
        BY <1>2, <3>1, <3>2, Answering
      <3>4. CASE answer'[r].body = <<>>
        BY <2>1, <3>2, <3>3, <3>4, <1>c DEF Book!Next
      <3>5. CASE answer'[r].body = payments[o]
        <4>1. Book!Acknowledged(o) \subseteq Shows(payments[o])
          BY SameAcknowledged DEF AckedInv
        <4>2. Shows(payments[o]) \in SUBSET Requests
          BY ShowsRequests DEF TypeOK
        <4>3. Book!Closes(r, Shows(payments[o]))
          BY <3>3, <3>5, Closing
        <4>4. PhaseOf[r] = "new"
          BY <3>2, <1>0
        <4>5. Book!Look(r)
          BY <2>1, <1>b, <4>1, <4>2, <4>3, <4>4 DEF Book!Look
        <4> QED
          BY <4>5 DEF Book!Next
      <3> QED
        BY <3>1, <3>4, <3>5
    <2>3. CASE Sends(r) /\ UNCHANGED answer
      BY <2>1, <2>3, <1>d DEF Book!Next
    <2> QED
      BY <2>1, <2>2, <2>3
  <1>3. ASSUME NEW r \in Requests,
               CreateReturns(r) \/ \E status \in FailureCodes : CreateRaises(r, status)
        PROVE  Book!Next
    <2>1. AnswerStep(r)
      BY <1>3, Answering
    <2>2. pc[r] = "waiting" /\ call[r].op = "create" /\ call[r].order \in Orders
      BY <1>3 DEF CreateReturns, CreateRaises, Returns, Raises, Refused, OutOfReach,
                  TypeOK, NoCall, Call, None
    <2>3. Shows(answer'[r].body) \in {{}, {r}}
      BY <1>3, <1>a, CreateBody
    <2>4. CASE UNCHANGED payments /\ answer'[r].body = <<>>
      BY <2>1, <2>2, <2>4, <1>c DEF Book!Next
    <2>5. ASSUME NEW p \in Payment, p.amount = r, payments' = Kept(call[r].order, <<p>>)
          PROVE  Book!Next
      BY <2>1, <2>2, <2>3, <2>5, <1>e DEF Book!Next
    <2>6. CASE CreateReturns(r)
      <3>1. CASE reply[r] = <<>>
        <4>1. answer'[r].body = <<>>
          BY <2>6, <3>1, AnswerBody DEF CreateReturns
        <4>2. payments' = payments
          BY <2>6, <3>1, <2>2 DEF CreateReturns, Kept, TypeOK
        <4> QED
          BY <4>1, <4>2, <2>4
      <3>2. CASE Len(reply[r]) = 1
        <4>1. reply[r] \in Seq(Payment)
          BY DEF TypeOK
        <4>2. reply[r] = <<reply[r][1]>> /\ reply[r][1] \in Payment /\ reply[r][1] \in Entries(reply[r])
          BY <3>2, <4>1 DEF Entries
        <4>3. reply[r][1].amount = r
          BY <2>2, <4>2 DEF CreateInv
        <4>4. payments' = Kept(call[r].order, <<reply[r][1]>>)
          BY <2>6, <4>2 DEF CreateReturns
        <4> QED
          BY <4>2, <4>3, <4>4, <2>5
      <3> QED
        BY <2>2, <3>1, <3>2 DEF ReplyInv
    <2>7. ASSUME NEW status \in FailureCodes, CreateRaises(r, status) PROVE Book!Next
      <3>1. \/ payments' = Kept(call[r].order, <<OwnPayment(r)>>)
            \/ UNCHANGED payments /\ Fails(r, status)
        BY <2>7 DEF CreateRaises
      <3>2. OwnPayment(r) \in Payment /\ OwnPayment(r).amount = r
        BY DEF OwnPayment, Payment
      <3> QED
        BY <3>1, <3>2, <2>4, <2>5, AnswerBody
    <2> QED
      BY <1>3, <2>6, <2>7
  <1>4. ASSUME NEW r \in Requests,
               ListReturns(r) \/ \E status \in FailureCodes : ListRaises(r, status)
        PROVE  Book!Next
    <2>1. AnswerStep(r)
      BY <1>4, Answering
    <2>2. pc[r] = "waiting" /\ call[r].op = "list" /\ UNCHANGED payments
      BY <1>4 DEF ListReturns, ListRaises, Returns, Raises, Refused, OutOfReach
    <2>3. OwedOf[r] = {} /\ PhaseOf[r] = "open"
      BY <2>2, <1>0 DEF WaitInv
    <2>4. Shows(answer'[r].body) \in SUBSET Requests
      <3>1. answer'[r].body \in Seq(Payment)
        BY DEF TypeOK, Answer
      <3> QED
        BY <3>1, ShowsRequests
    <2>5. Book!Closes(r, Shows(answer'[r].body))
      BY <2>1, Closing
    <2>6. Book!Show(r)
      BY <2>2, <2>3, <2>4, <2>5, <1>b DEF Book!Show
    <2> QED
      BY <2>6 DEF Book!Next
  <1>5. ASSUME NEW r \in Requests, ServesCreate(r) \/ ServesList(r)
        PROVE  UNCHANGED Book!vars
    <2>1. UNCHANGED <<pc, call, answer, payments>>
      BY <1>5 DEF ServesCreate, ServesList, Executes
    <2> QED
      BY <2>1, Unseen
  <1>6. ASSUME Restart PROVE Book!Restart
    <2> USE DEF TypeOK, CallsTypeOK
    <2>1. BookOf' = [o \in Orders |-> <<>>]
      <3>1. \A o \in Orders : payments'[o] = <<>>
        BY <1>6 DEF Restart
      <3>2. \A o \in Orders : [i \in DOMAIN payments'[o] |-> payments'[o][i].amount] = <<>>
        BY <3>1
      <3> QED
        BY <3>2 DEF BookOf
    <2>2. \A r \in Requests : pc'[r] = IF pc[r] = "waiting" THEN "lost" ELSE pc[r]
      BY <1>6 DEF Restart, Crashes
    <2>3. PhaseOf' = [r \in Requests |-> IF PhaseOf[r] = "open" THEN "done" ELSE PhaseOf[r]]
      BY <2>2 DEF PhaseOf
    <2>4. AboutOf' = [r \in Requests |-> None]
      BY <2>2 DEF AboutOf
    <2>5. OwedOf' = [r \in Requests |-> {}]
      BY <2>2 DEF OwedOf
    <2>6. UNCHANGED ToldOf
      BY <1>6 DEF Restart, ToldOf, Shows
    <2> QED
      BY <2>1, <2>3, <2>4, <2>5, <2>6 DEF Book!Restart
  <1>7. CASE UNCHANGED vars
    <2>1. UNCHANGED <<pc, call, answer, payments>>
      BY <1>7 DEF vars, callVars, financeVars
    <2> QED
      BY <2>1, Unseen
  <1> QED
    BY <1>1, <1>2, <1>3, <1>4, <1>5, <1>6, <1>7
       DEF Next, Gateway, Service, Terminated, Book!Next

\* The payment routes keep the promise of PaymentBook, for every set of requests
\* and orders, whatever the service does and however often the process restarts.
THEOREM FinanceKeepsBook == Spec => KeepsBook
  <1>1. Init => Book!Init
    <2> SUFFICES ASSUME Init PROVE Book!Init
      OBVIOUS
    <2>1. \A o \in Orders : [i \in DOMAIN payments[o] |-> payments[o][i].amount] = <<>>
      BY DEF Init
    <2> QED
      BY <2>1 DEF Init, CallsInit, Book!Init, BookOf, PhaseOf, AboutOf, OwedOf, ToldOf, Shows
  <1>2. RInv /\ RInv' /\ [Next]_vars => [Book!Next]_Book!vars
    BY Simulation
  <1> QED
    BY <1>1, <1>2, RefinementInvariance, PTL DEF Spec, KeepsBook, Book!Spec

-----------------------------------------------------------------------------
(* Nothing is kept or shown twice. *)

\* No payment is twice in a body.
Once(body) == \A i, j \in DOMAIN body : body[i].amount = body[j].amount => i = j

\* The service holds what it has executed, once, and so do the replies and the store.
OnceInv ==
    /\ \A o \in Orders :
          /\ Once(ledger[o]) /\ Once(payments[o])
          /\ \A i \in DOMAIN ledger[o] : svc[ledger[o][i].amount] = "executed"
    /\ \A r \in Requests : Once(reply[r])

\* What is kept was answered 200, or, if it does not fit its model, 500.
KeptInv ==
    \A o \in Orders : \A p \in Entries(payments[o]) :
        \/ answer[p.amount].status = 200 /\ p.valid
        \/ answer[p.amount].status = 500 /\ ~p.valid

MInv == RInv /\ OnceInv /\ KeptInv /\ NoDoubleCount

\* Short bodies have everything once.
LEMMA ShortOnce ==
    ASSUME NEW body \in Seq(Payment), body = <<>> \/ Len(body) = 1
    PROVE  Once(body)
  <1>1. DOMAIN body = 1..Len(body)
    OBVIOUS
  <1>2. CASE body = <<>>
    BY <1>2 DEF Once
  <1>3. CASE Len(body) = 1
    BY <1>1, <1>3 DEF Once
  <1> QED
    BY <1>2, <1>3

\* So has a body that gets what it has not yet.
LEMMA OnceOfConcat ==
    ASSUME NEW s \in Seq(Payment), NEW t \in Seq(Payment), Once(s), Once(t),
           \A i \in DOMAIN s, j \in DOMAIN t : s[i].amount # t[j].amount
    PROVE  Once(s \o t)
  <1> DEFINE u == s \o t
             m == Len(s)
             n == Len(t)
  <1>1. m \in Nat /\ n \in Nat
    OBVIOUS
  <1>2. DOMAIN s = 1..m /\ DOMAIN t = 1..n
    OBVIOUS
  <1>3. /\ u \in Seq(Payment) /\ Len(u) = m + n
        /\ \A i \in 1..m + n : u[i] = IF i <= m THEN s[i] ELSE t[i - m]
    BY ConcatProperties
  <1>4. DOMAIN u = 1..m + n
    BY <1>3
  <1> HIDE DEF u, m, n
  <1>5. \A i \in 1..m + n : i \in 1..m \/ (~(i <= m) /\ i - m \in 1..n)
    BY <1>1
  <1>6. \A i \in 1..m : i <= m
    BY <1>1
  <1>7. ASSUME NEW i \in 1..m + n, NEW j \in 1..m + n, u[i].amount = u[j].amount
        PROVE  i = j
    <2>1. CASE i \in 1..m /\ j \in 1..m
      BY <1>2, <1>3, <1>6, <1>7, <2>1 DEF Once
    <2>2. CASE ~(i <= m) /\ i - m \in 1..n /\ ~(j <= m) /\ j - m \in 1..n
      <3>1. i - m = j - m
        BY <1>2, <1>3, <1>7, <2>2 DEF Once
      <3> QED
        BY <1>1, <3>1
    <2>3. CASE i \in 1..m /\ ~(j <= m) /\ j - m \in 1..n
      BY <1>2, <1>3, <1>6, <1>7, <2>3
    <2>4. CASE j \in 1..m /\ ~(i <= m) /\ i - m \in 1..n
      BY <1>2, <1>3, <1>6, <1>7, <2>4
    <2> QED
      BY <1>5, <2>1, <2>2, <2>3, <2>4
  <1> QED
    BY <1>4, <1>7 DEF Once, u

\* What is kept by the end of a confirmation was not there before, and is one payment.
LEMMA KeptOnce ==
    ASSUME RInv, [Next]_vars, NEW o \in Orders, Once(payments[o])
    PROVE  Once(payments'[o])
  <1> USE DEF RInv, IInv
  <1>1. ASSUME NEW r \in Requests, NEW added \in Seq(Payment), KeepStep(r, added)
        PROVE  Once(payments'[o])
    <2>1. CASE o # call[r].order
      BY <1>1, <2>1 DEF KeepStep, Kept, TypeOK
    <2>2. CASE o = call[r].order
      <3>1. payments'[o] = payments[o] \o added /\ payments[o] \in Seq(Payment)
        BY <1>1, <2>2 DEF KeepStep, Kept, TypeOK
      <3>2. added = <<>> \/ Len(added) = 1
        BY <1>1 DEF KeepStep, ReplyInv
      <3>3. \A j \in DOMAIN added : added[j].amount = r
        BY <1>1 DEF KeepStep, CreateInv, Entries, OwnPayment
      <3>4. \A i \in DOMAIN payments[o] : payments[o][i].amount # r
        BY <1>1 DEF KeepStep, StoreInv, MayKeep, Entries
      <3> QED
        BY <3>1, <3>2, <3>3, <3>4, ShortOnce, OnceOfConcat
    <2> QED
      BY <2>1, <2>2
  <1>2. CASE payments' = [x \in Orders |-> <<>>]
    BY <1>2 DEF Once
  <1> QED
    BY <1>1, <1>2, StoreChange DEF TypeOK

\* The service holds what it has executed, once, and so do the replies and the store.
LEMMA OnceStep == RInv /\ OnceInv /\ [Next]_vars => OnceInv'
  <1> SUFFICES ASSUME RInv, OnceInv, [Next]_vars PROVE OnceInv'
    OBVIOUS
  <1>0. TypeOK /\ StageInv /\ TypeOK'
    BY TypeStep DEF RInv, IInv
  <1>1. \A o \in Orders : Once(payments'[o])
    BY KeptOnce DEF OnceInv
  <1> DEFINE Held == \A o \in Orders :
                        /\ Once(ledger'[o])
                        /\ \A i \in DOMAIN ledger'[o] : svc'[ledger'[o][i].amount] = "executed"
             Replied == \A r \in Requests : Once(reply'[r])
  <1>2. \A o \in Orders : /\ ledger[o] \in Seq(Payment)
                          /\ \A i \in DOMAIN ledger[o] : ledger[o][i].amount \in Requests
    <2>1. \A o \in Orders : ledger[o] \in Seq(Payment)
      BY <1>0 DEF TypeOK
    <2>2. \A o \in Orders : \A i \in DOMAIN ledger[o] : ledger[o][i] \in Payment
      BY <2>1
    <2> QED
      BY <2>1, <2>2 DEF Payment
  <1>3. ledger' = ledger => Held
    BY <1>0, <1>2, AnsweredStays DEF OnceInv
  <1>4. reply' = reply => Replied
    BY DEF OnceInv
  <1>5. ASSUME NEW r \in Requests, ServesCreate(r) PROVE Held /\ Replied
    <2> DEFINE entry == [payment_id |-> "service", amount |-> r, valid |-> TRUE]
               o == call[r].order
    <2>1. /\ call[r].op = "create" /\ svc[r] = "pending" /\ svc'[r] = "executed"
          /\ ledger' = [ledger EXCEPT ![o] = Append(@, entry)]
      BY <1>0, <1>5 DEF ServesCreate, Executes, TypeOK, CallsTypeOK
    <2>2. o \in Orders
      BY <1>0, <2>1 DEF TypeOK, NoCall, Call, None
    <2>3. entry \in Payment /\ entry.amount = r
      BY DEF Payment
    <2>4. \A p \in Orders \ {o} : ledger'[p] = ledger[p]
      BY <1>0, <2>1 DEF TypeOK
    <2>5. ledger'[o] = Append(ledger[o], entry)
      BY <1>0, <2>1, <2>2 DEF TypeOK
    <2>6. \A q \in Requests : svc[q] = "executed" => svc'[q] = "executed"
      BY <1>0, AnsweredStays
    <2> HIDE DEF entry, o
    <2> DEFINE n == Len(ledger[o])
    <2>7. n \in Nat /\ DOMAIN ledger[o] = 1..n
      BY <1>2, <2>2
    <2>8. /\ DOMAIN ledger'[o] = 1..n + 1
          /\ \A i \in 1..n : ledger'[o][i] = ledger[o][i]
          /\ ledger'[o][n + 1] = entry
      BY <1>2, <2>2, <2>3, <2>5, AppendProperties
    <2> HIDE DEF n
    <2>9. \A i \in 1..n + 1 : i \in 1..n \/ i = n + 1
      BY <2>7
    <2>10. \A i \in 1..n : ledger[o][i].amount # r /\ svc'[ledger[o][i].amount] = "executed"
      BY <1>2, <2>1, <2>2, <2>6, <2>7 DEF OnceInv
    <2>11. Once(ledger'[o])
      <3>1. ASSUME NEW i \in 1..n + 1, NEW j \in 1..n + 1,
                   ledger'[o][i].amount = ledger'[o][j].amount
            PROVE  i = j
        <4>1. CASE i \in 1..n /\ j \in 1..n
          BY <3>1, <4>1, <2>2, <2>7, <2>8 DEF OnceInv, Once
        <4>2. CASE i = n + 1 \/ j = n + 1
          BY <3>1, <4>2, <2>3, <2>8, <2>9, <2>10
        <4> QED
          BY <2>9, <4>1, <4>2
      <3> QED
        BY <2>8, <3>1 DEF Once
    <2>12. \A i \in 1..n + 1 : svc'[ledger'[o][i].amount] = "executed"
      BY <2>1, <2>3, <2>8, <2>9, <2>10
    <2>13. Held
      <3>1. ASSUME NEW p \in Orders, p # o
            PROVE  /\ Once(ledger'[p])
                   /\ \A i \in DOMAIN ledger'[p] : svc'[ledger'[p][i].amount] = "executed"
        <4>1. ledger'[p] = ledger[p]
          BY <2>4, <3>1
        <4>2. /\ Once(ledger[p])
              /\ \A i \in DOMAIN ledger[p] :
                    svc[ledger[p][i].amount] = "executed" /\ ledger[p][i].amount \in Requests
          BY <1>2, <3>1 DEF OnceInv
        <4> QED
          BY <2>6, <4>1, <4>2
      <3> QED
        BY <2>8, <2>11, <2>12, <3>1
    <2>14. Once(reply'[r])
      <3>1. reply'[r] = <<>> \/ Len(reply'[r]) = 1
        BY <1>0, <1>5 DEF ServesCreate, TypeOK
      <3>2. reply'[r] \in Seq(Payment)
        BY <1>0 DEF TypeOK
      <3> QED
        BY <3>1, <3>2, ShortOnce
    <2>15. \A q \in Requests : q # r => reply'[q] = reply[q]
      BY <1>0, <1>5 DEF ServesCreate, TypeOK
    <2> QED
      BY <2>13, <2>14, <2>15 DEF OnceInv
  <1>6. ASSUME NEW r \in Requests, ServesList(r) PROVE Held /\ Replied
    <2>1. call[r].order \in Orders
      BY <1>0, <1>6 DEF ServesList, TypeOK, NoCall, Call, None
    <2>2. ledger' = ledger /\ reply' = [reply EXCEPT ![r] = ledger[call[r].order]]
      BY <1>6 DEF ServesList
    <2>3. Replied
      BY <1>0, <2>1, <2>2 DEF OnceInv, TypeOK
    <2> QED
      BY <1>3, <2>2, <2>3
  <1>7. ASSUME NEW r \in Requests,
               \/ CreatePayment(r) \/ ListPayments(r) \/ CreateReturns(r) \/ ListReturns(r)
               \/ \E status \in FailureCodes : CreateRaises(r, status) \/ ListRaises(r, status)
        PROVE  Held /\ Replied
    <2>1. ledger' = ledger /\ reply' = reply
      BY <1>7 DEF CreatePayment, ListPayments, CreateReturns, ListReturns, CreateRaises,
                  ListRaises
    <2> QED
      BY <1>3, <1>4, <2>1
  <1>8. ASSUME Restart \/ UNCHANGED vars PROVE Held /\ Replied
    <2>1. ledger' = ledger /\ reply' = reply
      BY <1>8 DEF Restart, vars, financeVars
    <2> QED
      BY <1>3, <1>4, <2>1
  <1> HIDE DEF Held, Replied
  <1>9. Held /\ Replied
    BY <1>5, <1>6, <1>7, <1>8 DEF Next, Gateway, Service, Terminated
  <1> QED
    BY <1>1, <1>9 DEF OnceInv, Held, Replied

\* What the step keeps, it answers with 200 or, if it does not fit its model, with 500.
LEMMA KeptAnswer ==
    ASSUME RInv, [Next]_vars, NEW o \in Orders, NEW p \in Entries(payments'[o]),
           p \notin Entries(payments[o])
    PROVE  \/ answer'[p.amount].status = 200 /\ p.valid
           \/ answer'[p.amount].status = 500 /\ ~p.valid
  <1> USE DEF RInv, IInv
  <1>0. \A r \in Requests : \A status, body :
           Answers(r, status, body) => answer'[r].status = status
    BY DEF Answers, TypeOK
  <1>1. ASSUME NEW r \in Requests, CreateReturns(r)
        PROVE  \/ answer'[p.amount].status = 200 /\ p.valid
               \/ answer'[p.amount].status = 500 /\ ~p.valid
    <2>1. /\ call[r].op = "create" /\ payments' = Kept(call[r].order, reply[r])
          /\ call[r].order \in Orders /\ reply[r] \in Seq(Payment)
      BY <1>1 DEF CreateReturns, TypeOK, NoCall, Call, None
    <2>2. p \in Entries(reply[r])
      <3>1. Entries(Kept(call[r].order, reply[r])[o]) =
               Entries(payments[o]) \cup (IF o = call[r].order THEN Entries(reply[r]) ELSE {})
        BY <2>1, KeptEntries DEF TypeOK
      <3>2. p \in Entries(Kept(call[r].order, reply[r])[o])
        BY <2>1
      <3> QED
        BY <3>1, <3>2
    <2>3. p.amount = r
      BY <2>1, <2>2 DEF CreateInv
    <2>4. reply[r] # <<>> /\ Len(reply[r]) = 1
      BY <2>1, <2>2 DEF ReplyInv, Entries
    <2>5. DOMAIN reply[r] = {1} /\ p = reply[r][1]
      BY <2>1, <2>2, <2>4 DEF Entries
    <2>6. WellFormed(reply[r]) <=> p.valid
      BY <2>5 DEF WellFormed
    <2>7. Responds(r, reply[r])
      BY <1>1, <2>4 DEF CreateReturns
    <2> QED
      BY <2>3, <2>6, <2>7, <1>0 DEF Responds
  <1>2. ASSUME NEW r \in Requests, NEW status \in FailureCodes, CreateRaises(r, status)
        PROVE  answer'[p.amount].status = 200 /\ p.valid
    <2>1. /\ payments' = Kept(call[r].order, <<OwnPayment(r)>>)
          /\ Responds(r, <<OwnPayment(r)>>)
      BY <1>2 DEF CreateRaises
    <2>2. /\ call[r].order \in Orders
          /\ <<OwnPayment(r)>> \in Seq(Payment)
      BY <1>2 DEF CreateRaises, TypeOK, NoCall, Call, None, OwnPayment, Payment
    <2> DEFINE own == <<OwnPayment(r)>>
    <2>3. p \in Entries(own)
      <3>1. payments' = Kept(call[r].order, own) /\ own \in Seq(Payment)
        BY <2>1, <2>2
      <3> HIDE DEF own
      <3>2. Entries(Kept(call[r].order, own)[o]) =
               Entries(payments[o]) \cup (IF o = call[r].order THEN Entries(own) ELSE {})
        BY <2>2, <3>1, KeptEntries DEF TypeOK
      <3>3. p \in Entries(Kept(call[r].order, own)[o])
        BY <3>1
      <3> QED
        BY <3>2, <3>3
    <2>4. p.amount = r /\ p.valid
      BY <2>3 DEF Entries, OwnPayment
    <2>5. WellFormed(<<OwnPayment(r)>>)
      BY DEF WellFormed, OwnPayment
    <2> QED
      BY <2>1, <2>4, <2>5, <1>0 DEF Responds
  <1>3. ASSUME NEW r \in Requests,
               \/ CreatePayment(r) \/ ListPayments(r) \/ ListReturns(r)
               \/ \E status \in FailureCodes : ListRaises(r, status)
               \/ ServesCreate(r) \/ ServesList(r)
        PROVE  FALSE
    BY <1>3 DEF CreatePayment, ListPayments, ListReturns, ListRaises, ServesCreate, ServesList
  <1>4. ~Restart
    BY DEF Restart, Entries
  <1>5. ~UNCHANGED vars
    BY DEF vars, financeVars
  <1> QED
    BY <1>1, <1>2, <1>3, <1>4, <1>5 DEF Next, Gateway, Service, Terminated

\* What is kept was answered.
LEMMA KeptStep == RInv /\ KeptInv /\ [Next]_vars => KeptInv'
  <1> SUFFICES ASSUME RInv, KeptInv, [Next]_vars,
                      NEW o \in Orders, NEW p \in Entries(payments'[o])
               PROVE  \/ answer'[p.amount].status = 200 /\ p.valid
                      \/ answer'[p.amount].status = 500 /\ ~p.valid
    BY DEF KeptInv
  <1>1. CASE p \in Entries(payments[o])
    <2>1. payments[o] \in Seq(Payment)
      BY DEF RInv, IInv, TypeOK
    <2>2. \A i \in DOMAIN payments[o] : payments[o][i] \in Payment
      BY <2>1
    <2>3. p.amount \in Requests
      BY <1>1, <2>2 DEF Entries, Payment
    <2>4. pc[p.amount] = "answered"
      BY <1>1 DEF RInv, IInv, StoreInv, MayKeep
    <2>5. answer'[p.amount] = answer[p.amount]
      BY <2>3, <2>4, AnsweredStays DEF RInv, IInv
    <2> QED
      BY <1>1, <2>5 DEF KeptInv
  <1>2. CASE p \notin Entries(payments[o])
    BY <1>2, KeptAnswer
  <1> QED
    BY <1>1, <1>2

\* What an answer shows: nothing, the reply, the gateway's own payment, or what is kept.
LEMMA BodyHow ==
    ASSUME TypeOK, [Next]_vars, NEW q \in Requests
    PROVE  \/ answer'[q] = answer[q]
           \/ answer'[q].body \in {<<>>, reply[q], <<OwnPayment(q)>>}
           \/ \E o \in Orders : answer'[q].body = payments[o]
  <1>1. ASSUME NEW r \in Requests,
               \/ \E status : Answers(r, status, <<>>)
               \/ Responds(r, reply[r])
               \/ Responds(r, <<OwnPayment(r)>>)
               \/ \E o \in Orders : Responds(r, payments[o])
               \/ \E status : Fails(r, status)
               \/ UNCHANGED answer
        PROVE  \/ answer'[q] = answer[q]
               \/ answer'[q].body \in {<<>>, reply[q], <<OwnPayment(q)>>}
               \/ \E o \in Orders : answer'[q].body = payments[o]
    <2>1. CASE r = q
      BY <1>1, <2>1, AnswerBody
    <2>2. CASE r # q
      BY <1>1, <2>2, AnswersOne
    <2> QED
      BY <2>1, <2>2
  <1>2. ASSUME NEW r \in Requests, CreatePayment(r) \/ ListPayments(r)
        PROVE  \/ \E status : Answers(r, status, <<>>)
               \/ \E o \in Orders : Responds(r, payments[o])
               \/ UNCHANGED answer
    BY <1>2 DEF CreatePayment, ListPayments
  <1>3. ASSUME NEW r \in Requests, CreateReturns(r) \/ ListReturns(r)
        PROVE  (\E status : Answers(r, status, <<>>)) \/ Responds(r, reply[r])
    BY <1>3 DEF CreateReturns, ListReturns, RepliedList
  <1>4. ASSUME NEW r \in Requests, NEW status \in FailureCodes, CreateRaises(r, status)
        PROVE  Responds(r, <<OwnPayment(r)>>) \/ Fails(r, status)
    BY <1>4 DEF CreateRaises
  <1>5. ASSUME NEW r \in Requests, NEW status \in FailureCodes, ListRaises(r, status)
        PROVE  (\E o \in Orders : Responds(r, payments[o])) \/ Fails(r, status)
    BY <1>5 DEF ListRaises, FallbackList, TypeOK, NoCall, Call, None
  <1>6. ASSUME NEW r \in Requests, ServesCreate(r) \/ ServesList(r) PROVE UNCHANGED answer
    BY <1>6 DEF ServesCreate, ServesList
  <1>7. Restart \/ UNCHANGED vars => UNCHANGED answer
    BY DEF Restart, vars, financeVars
  <1> QED
    BY <1>1, <1>2, <1>3, <1>4, <1>5, <1>6, <1>7 DEF Next, Gateway, Service, Terminated

\* No answer shows a payment twice.
LEMMA CountStep == RInv /\ OnceInv /\ NoDoubleCount /\ [Next]_vars => NoDoubleCount'
  <1> SUFFICES ASSUME RInv, OnceInv, NoDoubleCount, [Next]_vars, NEW q \in Requests
               PROVE  Once(answer'[q].body)
    BY DEF NoDoubleCount, Once
  <1>1. TypeOK
    BY DEF RInv, IInv
  <1>2. CASE answer'[q] = answer[q]
    BY <1>2 DEF NoDoubleCount, Once
  <1>3. <<>> \in Seq(Payment) /\ <<OwnPayment(q)>> \in Seq(Payment) /\ Len(<<OwnPayment(q)>>) = 1
    BY DEF OwnPayment, Payment
  <1>4. CASE answer'[q].body \in {<<>>, <<OwnPayment(q)>>}
    BY <1>3, <1>4, ShortOnce
  <1>5. CASE answer'[q].body = reply[q] \/ \E o \in Orders : answer'[q].body = payments[o]
    BY <1>5 DEF OnceInv
  <1> QED
    BY <1>1, <1>2, <1>4, <1>5, BodyHow

\* Nothing is kept or shown twice, in every reachable state.
LEMMA OnceInvariance == Spec => []MInv
  <1>1. Init => OnceInv /\ KeptInv /\ NoDoubleCount
    BY DEF Init, OnceInv, KeptInv, NoDoubleCount, Once, Entries
  <1>2. RInv /\ OnceInv /\ KeptInv /\ NoDoubleCount /\ [Next]_vars
            => OnceInv' /\ KeptInv' /\ NoDoubleCount'
    BY OnceStep, KeptStep, CountStep
  <1>3. MInv <=> RInv /\ OnceInv /\ KeptInv /\ NoDoubleCount
    BY DEF MInv
  <1> QED
    BY <1>1, <1>2, <1>3, RefinementInvariance, PTL DEF Spec

\* No answer shows a payment twice (NoDoubleCount): not even one that both the service
\* and the gateway hold.
THEOREM NothingCountedTwice == Spec => []NoDoubleCount
  <1>1. MInv => NoDoubleCount
    BY DEF MInv
  <1> QED
    BY <1>1, OnceInvariance, PTL

\* The store and the answers agree (StoreMatchesAnswers): what was answered 200 is kept,
\* once and under its own order, and what was answered with an error is not, unless it
\* could not be delivered.
THEOREM StoreAndAnswersAgree == Spec => []StoreMatchesAnswers
  <1>1. ASSUME MInv, NEW q \in Requests, NEW o \in Orders
        PROVE  LET kept == {i \in DOMAIN payments[o] : payments[o][i].amount = q}
                   mine == call[q].op = "create" /\ call[q].order = o /\ answer[q].epoch = epoch
               IN  /\ \A i, j \in kept : i = j
                   /\ mine /\ answer[q].status = 200 =>
                          \E i \in kept : payments[o][i].valid
                   /\ kept # {} =>
                          /\ mine
                          /\ \/ answer[q].status = 200
                             \/ answer[q].status = 500 /\ \A i \in kept : ~payments[o][i].valid
    <2> DEFINE kept == {i \in DOMAIN payments[o] : payments[o][i].amount = q}
               mine == call[q].op = "create" /\ call[q].order = o /\ answer[q].epoch = epoch
    <2> USE <1>1 DEF MInv, RInv, IInv
    <2>1. \A i, j \in kept : i = j
      BY DEF OnceInv, Once
    <2>2. ASSUME mine, answer[q].status = 200 PROVE \E i \in kept : payments[o][i].valid
      <3>1. q \in Acked(o)
        BY <2>2 DEF Acked
      <3>2. PICK i \in kept : TRUE
        BY <3>1 DEF AckedInv, Shows
      <3>3. payments[o][i].valid
        BY <2>2, <3>2 DEF KeptInv, Entries
      <3> QED
        BY <3>2, <3>3
    <2>3. ASSUME NEW i \in kept
          PROVE  /\ mine
                 /\ \/ answer[q].status = 200
                    \/ answer[q].status = 500 /\ ~payments[o][i].valid
      <3>1. payments[o][i] \in Entries(payments[o]) /\ payments[o][i].amount = q
        BY DEF Entries
      <3> QED
        BY <3>1 DEF StoreInv, MayKeep, EpochInv, KeptInv
    <2> QED
      BY <2>1, <2>2, <2>3
  <1>2. MInv => StoreMatchesAnswers
    BY <1>1 DEF StoreMatchesAnswers
  <1> QED
    BY <1>2, OnceInvariance, PTL

=============================================================================
