---------------------------- MODULE DispatchProofs ----------------------------
(***************************************************************************)
(* Theorems about Dispatch, for every set of requests, orders, workers,    *)
(* responses and failure codes and every bound on restarts.                *)
(***************************************************************************)
EXTENDS Dispatch, CallsProofs, SequenceTheorems

(* The steps. *)

Serves(r) ==
    ServesAssign(r) \/ ServesConfirm(r) \/ ServesPending(r) \/ ServesHistory(r)
        \/ ServesAvailable(r)

\* The call of r ends, and r is answered.
Ends(r) == Replies(r) \/ \E status \in FailureCodes : Fails(r, status)

\* Every step is one of these.
LEMMA Steps ==
    ASSUME [Next]_vars
    PROVE  \/ \E r \in Requests : Request(r) \/ Ends(r) \/ Serves(r)
           \/ Restart
           \/ UNCHANGED vars
  BY DEF Next, Terminated, Ends, Serves

\* What a step does to the shared part.
LEMMA StepOfCalls ==
    ASSUME [Next]_vars
    PROVE  CallsStep
  <1>1. ASSUME NEW r \in Requests, Request(r) PROVE CallsStep
    BY <1>1 DEF Request, CallsStep
  <1>2. ASSUME NEW r \in Requests, Ends(r) PROVE CallsStep
    BY <1>2 DEF Ends, Replies, Fails, CallsStep
  <1>3. ASSUME NEW r \in Requests, Serves(r) PROVE CallsStep
    BY <1>3 DEF Serves, ServesAssign, ServesConfirm, ServesPending, ServesHistory,
                ServesAvailable, Enters, Shows, CallsStep
  <1>4. CASE Restart
    BY <1>4 DEF Restart, CallsStep
  <1>5. CASE UNCHANGED vars
    BY <1>5 DEF vars, CallsStep
  <1> QED
    BY <1>1, <1>2, <1>3, <1>4, <1>5, Steps

-----------------------------------------------------------------------------
(* The inductive invariant. *)

Reading == [dispatches : SUBSET Record, workers : SUBSET Workers]
Answer == [status : {0} \cup Status, dispatches : SUBSET (Record \cup OwnRecord),
           workers : SUBSET Workers]

\* A request asks what its route lets it ask.
TypeInv ==
    /\ CallsTypeOK
    /\ call \in [Requests -> Call \cup {NoCall}]
    /\ \A r \in Requests : call[r] = NoCall \/ \E op \in Ops : call[r] \in Asks(op)
    /\ reply \in [Requests -> Reading]
    /\ answer \in [Requests -> Answer]
    /\ journal \in Seq(Record)

\* What the service has entered.
Entered == {journal[i] : i \in DOMAIN journal}

\* A request that has not come in has left no trace, and one that is not answered
\* has no answer.
StageInv ==
    \A r \in Requests :
        /\ pc[r] = "idle" => call[r] = NoCall /\ reply[r] = NoReply
        /\ pc[r] # "answered" => answer[r] = [status |-> 0, dispatches |-> {}, workers |-> {}]

\* A dispatch is entered once as pending, by the request that names it, and at most
\* once with the worker's response, after that.
JournalInv ==
    \A j \in DOMAIN journal :
        /\ svc[journal[j].dispatch] = "executed"
        /\ \A i \in DOMAIN journal :
              i < j /\ journal[i].dispatch = journal[j].dispatch =>
                  journal[i].status = "PENDING_WORKER_CONFIRM"

\* A reply shows what was entered; to a confirmation, what the worker said.
ReplyInv ==
    \A r \in Requests :
        /\ reply[r].dispatches \subseteq Entered
        /\ call[r].op = "confirm" =>
              \A record \in reply[r].dispatches : record.status = Says(call[r].response)

IInv ==
    /\ TypeInv /\ LifeInv /\ StageInv /\ JournalInv /\ ReplyInv
    /\ EveryAnswerIsBacked /\ ReadingsAgree

-----------------------------------------------------------------------------
(* What the steps do. *)

\* The parts of what a request asks.
LEMMA AskedParts ==
    ASSUME NEW c, NEW op \in Ops, c \in Asks(op)
    PROVE  /\ c \in Call /\ c.op = op
           /\ op \in {"assign", "history"} => c.order \in Orders
           /\ op \in {"assign", "confirm", "pending"} => c.worker \in Workers
           /\ op = "confirm" => c.dispatch \in Requests /\ c.response \in Responses
  BY DEF Asks, Call, Ops

\* The same, of a request that has asked.
LEMMA CallParts ==
    ASSUME TypeInv, NEW r \in Requests, call[r].op \in Ops
    PROVE  /\ call[r] \in Call
           /\ call[r].op \in {"assign", "history"} => call[r].order \in Orders
           /\ call[r].op \in {"assign", "confirm", "pending"} => call[r].worker \in Workers
           /\ call[r].op = "confirm" =>
                 call[r].dispatch \in Requests /\ call[r].response \in Responses
  <1>1. PICK op \in Ops : call[r] \in Asks(op)
    BY DEF TypeInv, NoCall, None, Ops
  <1>2. call[r].op = op
    BY <1>1, AskedParts
  <1> QED
    BY <1>1, <1>2, AskedParts

\* What is entered comes on top of what was.
LEMMA Entering ==
    ASSUME journal \in Seq(Record), NEW record \in Record, journal' = Append(journal, record)
    PROVE  journal' \in Seq(Record) /\ Entered' = Entered \cup {record}
  <1> DEFINE n == Len(journal)
  <1>1. n \in Nat /\ DOMAIN journal = 1..n
    BY LenProperties
  <1>2. /\ journal' \in Seq(Record) /\ DOMAIN journal' = 1..n + 1
        /\ \A i \in 1..n : journal'[i] = journal[i]
        /\ journal'[n + 1] = record
    BY AppendProperties
  <1> HIDE DEF n
  <1>3. \A i \in 1..n + 1 : i \in 1..n \/ i = n + 1
    BY <1>1
  <1>4. 1..n \subseteq 1..n + 1 /\ n + 1 \in 1..n + 1
    BY <1>1
  <1> QED
    BY <1>1, <1>2, <1>3, <1>4 DEF Entered

\* What is held was entered.
LEMMA HeldEntered == Held \subseteq Entered
  BY DEF Held, Entered

\* A name of a response that the parser knows is read as what it says.
LEMMA ParsedSays ==
    ASSUME NEW response \in Responses, Parse(response, ResponseType) \in ResponseType
    PROVE  (IF Parse(response, ResponseType) = "ACCEPT" THEN "ACCEPTED" ELSE "REJECTED")
              = Says(response)
  <1>1. response \in Name(STRING)
    BY DispatchAssumption DEF DispatchAssumption
  <1>2. Normalized(response).word = response.word
    BY <1>1 DEF Name, Normalized, Upcased
  <1>3. Parse(response, ResponseType) = response.word
    BY <1>2 DEF Parse, ResponseType
  <1> QED
    BY <1>3 DEF Says

\* So reads the gateway a documented one that has no blank behind it.
LEMMA OwnSays ==
    ASSUME NEW response \in Responses,
           response.word \in ResponseType, "behind" \notin response.blanks
    PROVE  OwnStatus(response) = Says(response)
  <1> DEFINE upper == Upcased(response)
  <1>1. response \in Name(STRING) /\ "ACCEPT" \in Accepting /\ "REJECT" \notin Accepting
    BY DispatchAssumption DEF DispatchAssumption
  <1>2. upper.word = response.word /\ upper.blanks = response.blanks
    BY <1>1 DEF Name, Upcased
  <1> HIDE DEF upper
  <1>3. upper.word \in Accepting <=> response.word = "ACCEPT"
    BY <1>1, <1>2 DEF ResponseType
  <1> QED
    BY <1>2, <1>3 DEF OwnStatus, Says, upper

\* A step of the service: the reply it gives, and what it enters.
LEMMA WhatServes ==
    ASSUME TypeInv, NEW r \in Requests, Serves(r)
    PROVE  /\ Executes(r) /\ call' = call /\ answer' = answer
           /\ journal' \in Seq(Record) /\ Entered \subseteq Entered'
           /\ \E reading \in Reading :
                 /\ reply' = [reply EXCEPT ![r] = reading]
                 /\ reading.dispatches \subseteq reply[r].dispatches \cup Entered'
                 /\ call[r].op = "confirm" =>
                       \A record \in reading.dispatches :
                           record.status = Says(call[r].response)
  <1>0. /\ reply \in [Requests -> Reading] /\ reply[r] \in Reading
        /\ journal \in Seq(Record)
    BY DEF TypeInv
  <1>1. ASSUME NEW record \in Record, Enters(r, record),
               call[r].op \in {"assign", "confirm"},
               call[r].op = "confirm" => record.status = Says(call[r].response)
        PROVE  /\ Executes(r) /\ call' = call /\ answer' = answer
               /\ journal' \in Seq(Record) /\ Entered \subseteq Entered'
               /\ \E reading \in Reading :
                     /\ reply' = [reply EXCEPT ![r] = reading]
                     /\ reading.dispatches \subseteq Entered'
                     /\ call[r].op = "confirm" =>
                           \A rec \in reading.dispatches :
                               rec.status = Says(call[r].response)
    <2>1. PICK shown \in {{record}, {}} : reply' = [reply EXCEPT ![r].dispatches = shown]
      BY <1>1 DEF Enters
    <2>2. journal' \in Seq(Record) /\ Entered' = Entered \cup {record}
      BY <1>0, <1>1, Entering DEF Enters
    <2> DEFINE reading == [reply[r] EXCEPT !.dispatches = shown]
    <2>3. reading \in Reading /\ reading.dispatches = shown
      BY <1>0, <2>1 DEF Reading
    <2>4. reply' = [reply EXCEPT ![r] = reading]
      BY <1>0, <2>1
    <2> HIDE DEF reading
    <2>5. shown \subseteq {record}
      BY <2>1
    <2>6. /\ reading.dispatches \subseteq Entered'
          /\ call[r].op = "confirm" =>
                \A rec \in reading.dispatches : rec.status = Says(call[r].response)
      BY <1>1, <2>2, <2>3, <2>5
    <2> QED
      BY <1>1, <2>2, <2>3, <2>4, <2>6 DEF Enters
  <1>2. CASE ServesAssign(r)
    <2> DEFINE record == [dispatch |-> r, order |-> call[r].order, worker |-> call[r].worker,
                          status |-> "PENDING_WORKER_CONFIRM"]
    <2>1. call[r].op = "assign" /\ Enters(r, record)
      BY <1>2 DEF ServesAssign
    <2>2. record \in Record
      BY <2>1, CallParts DEF Record, Ops
    <2> HIDE DEF record
    <2> QED
      BY <1>1, <2>1, <2>2
  <1>3. CASE ServesConfirm(r)
    <2> DEFINE response == Parse(call[r].response, ResponseType)
    <2>1. /\ call[r].op = "confirm" /\ response \in ResponseType
          /\ \E held \in Held :
                Enters(r, [held EXCEPT !.status = IF response = "ACCEPT"
                                                  THEN "ACCEPTED" ELSE "REJECTED"])
      BY <1>3 DEF ServesConfirm
    <2>2. call[r].response \in Responses
      BY <2>1, CallParts DEF Ops
    <2>3. (IF response = "ACCEPT" THEN "ACCEPTED" ELSE "REJECTED") = Says(call[r].response)
      BY <2>1, <2>2, ParsedSays
    <2> HIDE DEF response
    <2>4. PICK held \in Held : Enters(r, [held EXCEPT !.status = Says(call[r].response)])
      BY <2>1, <2>3
    <2>5. held \in Record
      BY <1>0, <2>4 DEF Held
    <2>6. Says(call[r].response) \in {"ACCEPTED", "REJECTED"}
      BY DEF Says
    <2> DEFINE record == [held EXCEPT !.status = Says(call[r].response)]
    <2>7. record \in Record /\ record.status = Says(call[r].response)
      BY <2>5, <2>6 DEF Record
    <2>8. Enters(r, record)
      BY <2>4
    <2> HIDE DEF record
    <2> QED
      BY <1>1, <2>1, <2>7, <2>8
  <1>4. ASSUME NEW records \in SUBSET Held, Shows(r, records),
               call[r].op \in {"pending", "history"}
        PROVE  /\ Executes(r) /\ call' = call /\ answer' = answer
               /\ journal' \in Seq(Record) /\ Entered \subseteq Entered'
               /\ \E reading \in Reading :
                     /\ reply' = [reply EXCEPT ![r] = reading]
                     /\ reading.dispatches \subseteq Entered'
    <2>1. records \subseteq Record /\ records \subseteq Entered
      BY <1>0, <1>4, HeldEntered DEF Held
    <2> DEFINE reading == [reply[r] EXCEPT !.dispatches = records]
    <2>2. reading \in Reading /\ reading.dispatches = records
      BY <1>0, <2>1 DEF Reading
    <2>3. reply' = [reply EXCEPT ![r] = reading]
      BY <1>0, <1>4 DEF Shows
    <2> HIDE DEF reading
    <2>4. journal' = journal /\ Entered' = Entered
      BY <1>4 DEF Shows, Entered
    <2> QED
      BY <1>0, <1>4, <2>1, <2>2, <2>3, <2>4 DEF Shows
  <1>5. CASE ServesPending(r)
    <2> DEFINE records == {record \in Held : /\ record.worker = call[r].worker
                                             /\ record.status = "PENDING_WORKER_CONFIRM"}
    <2>1. records \in SUBSET Held /\ Shows(r, records) /\ call[r].op = "pending"
      BY <1>5 DEF ServesPending
    <2> HIDE DEF records
    <2> QED
      BY <1>4, <2>1
  <1>6. CASE ServesHistory(r)
    <2> DEFINE records == {record \in Held : record.order = call[r].order}
    <2>1. records \in SUBSET Held /\ Shows(r, records) /\ call[r].op = "history"
      BY <1>6 DEF ServesHistory
    <2> HIDE DEF records
    <2> QED
      BY <1>4, <2>1
  <1>7. CASE ServesAvailable(r)
    <2>1. /\ call[r].op = "available" /\ Executes(r)
          /\ UNCHANGED <<call, answer, journal>>
      BY <1>7 DEF ServesAvailable
    <2>2. PICK shown \in SUBSET Wanted(r) : reply' = [reply EXCEPT ![r].workers = shown]
      BY <1>7 DEF ServesAvailable
    <2> DEFINE reading == [reply[r] EXCEPT !.workers = shown]
    <2>3. shown \subseteq Workers
      BY <2>2, DispatchAssumption DEF DispatchAssumption, Wanted
    <2>4. reading \in Reading /\ reading.dispatches = reply[r].dispatches
      BY <1>0, <2>3 DEF Reading
    <2>5. reply' = [reply EXCEPT ![r] = reading]
      BY <1>0, <2>2
    <2> HIDE DEF reading
    <2>6. Entered' = Entered
      BY <2>1 DEF Entered
    <2> QED
      BY <1>0, <2>1, <2>4, <2>5, <2>6
  <1> QED
    BY <1>2, <1>3, <1>5, <1>6, <1>7 DEF Serves

\* The end of a call: a reply is passed on, a failure is reported, or a confirmation
\* is answered by the gateway.
LEMMA WhatEnds ==
    ASSUME TypeInv, LifeInv, NEW r \in Requests, Ends(r)
    PROVE  /\ Wakes(r) /\ call' = call /\ reply' = reply /\ journal' = journal
           /\ \E a \in Answer :
                 /\ answer' = [answer EXCEPT ![r] = a]
                 /\ \/ a.status # 200 /\ a.dispatches = {}
                    \/ /\ Returns(r) /\ svc[r] = "executed"
                       /\ a.dispatches = reply[r].dispatches /\ a.workers = reply[r].workers
                    \/ /\ call[r].op = "confirm" /\ a.dispatches = {OwnDispatch(r)}
                       /\ seen'[r] \in MOCKABLE_DOWNSTREAM_GAP_CODES
  <1>0. /\ reply[r] \in Reading /\ seen \in [Requests -> {"none", "OK"} \cup FailureCodes]
        /\ pc \in [Requests -> {"idle", "waiting", "answered", "lost"}]
    BY DEF TypeInv, CallsTypeOK
  <1>1. CASE Replies(r)
    <2>1. Returns(r) /\ svc[r] = "executed" /\ UNCHANGED <<call, reply, journal>>
      BY <1>1 DEF Replies, Returns
    <2>2. CASE Answers(r, 500, NoReply)
      <3> DEFINE a == [status |-> 500, dispatches |-> {}, workers |-> {}]
      <3>1. a \in Answer /\ a.status # 200 /\ a.dispatches = {}
        BY DEF Answer, Status
      <3>2. answer' = [answer EXCEPT ![r] = a]
        BY <2>2 DEF Answers, NoReply
      <3> HIDE DEF a
      <3> QED
        BY <2>1, <3>1, <3>2 DEF Wakes
    <2>3. CASE Answers(r, 200, reply[r])
      <3> DEFINE a == [status |-> 200, dispatches |-> reply[r].dispatches,
                       workers |-> reply[r].workers]
      <3>1. /\ a \in Answer /\ a.dispatches = reply[r].dispatches
            /\ a.workers = reply[r].workers
        BY <1>0 DEF Answer, Status, Reading
      <3>2. answer' = [answer EXCEPT ![r] = a]
        BY <2>3 DEF Answers
      <3> HIDE DEF a
      <3> QED
        BY <2>1, <3>1, <3>2 DEF Wakes
    <2> QED
      BY <1>1, <2>2, <2>3 DEF Replies
  <1>2. ASSUME NEW status \in FailureCodes, Fails(r, status)
        PROVE  /\ Wakes(r) /\ call' = call /\ reply' = reply /\ journal' = journal
               /\ \E a \in Answer :
                     /\ answer' = [answer EXCEPT ![r] = a]
                     /\ \/ a.status # 200 /\ a.dispatches = {}
                        \/ /\ call[r].op = "confirm" /\ a.dispatches = {OwnDispatch(r)}
                           /\ seen'[r] \in MOCKABLE_DOWNSTREAM_GAP_CODES
    <2>1. Raises(r, status) /\ UNCHANGED <<call, reply, journal>>
      BY <1>2 DEF Fails
    <2>2. seen'[r] = status
      BY <1>0, <2>1 DEF Raises, Refused, OutOfReach
    <2>3. CASE Covers(r, status)
      <3> DEFINE a == [status |-> 200, dispatches |-> {OwnDispatch(r)}, workers |-> {}]
      <3>1. call[r].op = "confirm" /\ status \in MOCKABLE_DOWNSTREAM_GAP_CODES
        BY <2>3, Failures DEF Covers
      <3>2. OwnDispatch(r) \in OwnRecord
        <4>1. call[r].dispatch \in Requests /\ call[r].worker \in Workers
          BY <3>1, CallParts DEF Ops
        <4>2. OwnStatus(call[r].response) \in {"ACCEPTED", "REJECTED"}
          BY DEF OwnStatus
        <4> QED
          BY <4>1, <4>2 DEF OwnDispatch, OwnRecord
      <3>3. a \in Answer /\ a.dispatches = {OwnDispatch(r)}
        BY <3>2 DEF Answer, Status
      <3>4. answer' = [answer EXCEPT ![r] = a]
        BY <1>2, <2>3 DEF Fails, Answers, NoReply
      <3> HIDE DEF a
      <3> QED
        BY <2>1, <2>2, <3>1, <3>3, <3>4 DEF Wakes
    <2>4. CASE ~Covers(r, status)
      <3> DEFINE code == MapGrpcError(status).status_code
                 a == [status |-> code, dispatches |-> {}, workers |-> {}]
      <3>1. code \in Status /\ code # 200
        BY FailureStatus DEF Status
      <3>2. answer' = [answer EXCEPT ![r] = a]
        BY <1>2, <2>4 DEF Fails, Answers, NoReply
      <3> HIDE DEF code
      <3>3. a \in Answer /\ a.status # 200 /\ a.dispatches = {}
        BY <3>1 DEF Answer
      <3> HIDE DEF a
      <3> QED
        BY <2>1, <3>2, <3>3 DEF Wakes
    <2> QED
      BY <2>3, <2>4
  <1> QED
    BY <1>1, <1>2 DEF Ends

\* A request comes in: it asks something, and is refused or still without an answer.
LEMMA WhatComes ==
    ASSUME TypeInv, NEW r \in Requests, Request(r)
    PROVE  /\ pc[r] = "idle"
           /\ AnsweredAtOnce(r) \/ Sends(r)
           /\ reply' = reply /\ journal' = journal
           /\ \E op \in Ops, c \in Call : c \in Asks(op) /\ call' = [call EXCEPT ![r] = c]
           /\ \/ answer' = answer /\ pc'[r] # "answered"
              \/ /\ [status |-> 422, dispatches |-> {}, workers |-> {}] \in Answer
                 /\ answer' = [answer EXCEPT ![r] = [status |-> 422, dispatches |-> {},
                                                     workers |-> {}]]
  <1>0. /\ pc \in [Requests -> {"idle", "waiting", "answered", "lost"}]
        /\ svc \in [Requests -> {"none", "pending", "executed", "dropped"}]
    BY DEF TypeInv, CallsTypeOK
  <1>a. PICK op \in Ops : \E c \in Asks(op) :
           /\ call' = [call EXCEPT ![r] = c]
           /\ \/ AnsweredAtOnce(r) /\ Answers(r, 422, NoReply)
              \/ Sends(r) /\ UNCHANGED answer
           /\ UNCHANGED <<reply, journal>>
    BY DEF Request
  <1>1. PICK c \in Asks(op) :
           /\ call' = [call EXCEPT ![r] = c]
           /\ \/ AnsweredAtOnce(r) /\ Answers(r, 422, NoReply)
              \/ Sends(r) /\ UNCHANGED answer
           /\ UNCHANGED <<reply, journal>>
    BY <1>a
  <1>2. c \in Call
    BY <1>1, AskedParts
  <1>3. [status |-> 422, dispatches |-> {}, workers |-> {}] \in Answer
    BY DEF Answer, Status
  <1>4. AnsweredAtOnce(r) => pc[r] = "idle" /\ pc'[r] = "answered"
    BY <1>0 DEF AnsweredAtOnce
  <1>5. Sends(r) => pc[r] = "idle" /\ pc'[r] = "waiting" /\ svc'[r] = "pending"
    BY <1>0 DEF Sends
  <1> QED
    BY <1>1, <1>2, <1>3, <1>4, <1>5 DEF Answers, NoReply

\* A step is one of the request q itself, or leaves what there is of q alone.
LEMMA OwnStep ==
    ASSUME TypeInv, [Next]_vars, NEW q \in Requests
    PROVE  \/ Request(q) \/ Ends(q) \/ Serves(q)
           \/ /\ UNCHANGED <<call[q], reply[q], answer[q], svc[q], seen[q]>>
              /\ pc'[q] = pc[q] \/ pc'[q] = "lost"
  <1>0. /\ CallsTypeOK
        /\ call \in [Requests -> Call \cup {NoCall}]
        /\ reply \in [Requests -> Reading]
        /\ answer \in [Requests -> Answer]
    BY DEF TypeInv
  <1>1. ASSUME NEW r \in Requests, r # q, Request(r)
        PROVE  UNCHANGED <<call[q], reply[q], answer[q], svc[q], seen[q], pc[q]>>
    BY <1>0, <1>1 DEF Request, Answers, AnsweredAtOnce, Sends, CallsTypeOK
  <1>2. ASSUME NEW r \in Requests, r # q, Replies(r)
        PROVE  UNCHANGED <<call[q], reply[q], answer[q], svc[q], seen[q], pc[q]>>
    BY <1>0, <1>2 DEF Replies, Answers, Returns, CallsTypeOK
  <1>3. ASSUME NEW r \in Requests, r # q, NEW status \in FailureCodes, Fails(r, status)
        PROVE  UNCHANGED <<call[q], reply[q], answer[q], svc[q], seen[q], pc[q]>>
    BY <1>0, <1>3 DEF Fails, Answers, Raises, Refused, OutOfReach, CallsTypeOK
  <1>4. ASSUME NEW r \in Requests, r # q, Serves(r)
        PROVE  UNCHANGED <<call[q], reply[q], answer[q], svc[q], seen[q], pc[q]>>
    <2>1. /\ Executes(r) /\ call' = call /\ answer' = answer
          /\ \E reading \in Reading : reply' = [reply EXCEPT ![r] = reading]
      BY <1>4, WhatServes
    <2> QED
      BY <1>0, <1>4, <2>1 DEF Executes, CallsTypeOK
  <1>5. ASSUME Restart
        PROVE  /\ UNCHANGED <<call[q], reply[q], answer[q], svc[q], seen[q]>>
               /\ pc'[q] = pc[q] \/ pc'[q] = "lost"
    BY <1>0, <1>5 DEF Restart, Crashes, dispatchVars, CallsTypeOK
  <1>6. ASSUME UNCHANGED vars
        PROVE  UNCHANGED <<call[q], reply[q], answer[q], svc[q], seen[q], pc[q]>>
    BY <1>6 DEF vars, callVars, dispatchVars
  <1> QED
    BY <1>1, <1>2, <1>3, <1>4, <1>5, <1>6, Steps DEF Ends

\* The journal only grows.
LEMMA EnteredStays ==
    ASSUME TypeInv, LifeInv, [Next]_vars
    PROVE  Entered \subseteq Entered' /\ journal' \in Seq(Record)
  <1>1. ASSUME journal' = journal PROVE Entered \subseteq Entered' /\ journal' \in Seq(Record)
    BY <1>1 DEF Entered, TypeInv
  <1>2. CASE Restart \/ UNCHANGED vars
    BY <1>1, <1>2 DEF Restart, vars, dispatchVars
  <1> QED
    BY <1>1, <1>2, Steps, WhatServes, WhatEnds, WhatComes

-----------------------------------------------------------------------------
(* The invariant is inductive. *)

\* Every variable keeps its type.
LEMMA TypeStep == TypeInv /\ LifeInv /\ [Next]_vars => TypeInv'
  <1> SUFFICES ASSUME TypeInv, LifeInv, [Next]_vars PROVE TypeInv'
    OBVIOUS
  <1>0. /\ CallsTypeOK'
        /\ journal' \in Seq(Record)
    BY StepOfCalls, CallsType, EnteredStays DEF TypeInv
  <1>1. /\ call' \in [Requests -> Call \cup {NoCall}]
        /\ \A q \in Requests : call'[q] = NoCall \/ \E op \in Ops : call'[q] \in Asks(op)
    <2>0. /\ call \in [Requests -> Call \cup {NoCall}]
          /\ \A q \in Requests : call[q] = NoCall \/ \E op \in Ops : call[q] \in Asks(op)
      BY DEF TypeInv
    <2>1. ASSUME NEW r \in Requests, Request(r)
          PROVE  /\ call' \in [Requests -> Call \cup {NoCall}]
                 /\ \A q \in Requests :
                       call'[q] = NoCall \/ \E op \in Ops : call'[q] \in Asks(op)
      <3>1. PICK op \in Ops, c \in Call : c \in Asks(op) /\ call' = [call EXCEPT ![r] = c]
        BY <2>1, WhatComes
      <3> QED
        BY <2>0, <3>1
    <2>2. CASE call' = call
      BY <2>0, <2>2
    <2>3. Restart \/ UNCHANGED vars => call' = call
      BY DEF Restart, vars, dispatchVars
    <2> QED
      BY <2>1, <2>2, <2>3, Steps, WhatServes, WhatEnds
  <1>2. reply' \in [Requests -> Reading]
    <2>0. reply \in [Requests -> Reading]
      BY DEF TypeInv
    <2>1. ASSUME NEW r \in Requests, Serves(r) PROVE reply' \in [Requests -> Reading]
      BY <2>0, <2>1, WhatServes
    <2>2. Restart \/ UNCHANGED vars => reply' = reply
      BY DEF Restart, vars, dispatchVars
    <2> QED
      BY <2>0, <2>1, <2>2, Steps, WhatEnds, WhatComes
  <1>3. answer' \in [Requests -> Answer]
    <2>0. answer \in [Requests -> Answer]
      BY DEF TypeInv
    <2>1. ASSUME NEW r \in Requests, Ends(r) PROVE answer' \in [Requests -> Answer]
      BY <2>0, <2>1, WhatEnds
    <2>2. ASSUME NEW r \in Requests, Request(r) PROVE answer' \in [Requests -> Answer]
      BY <2>0, <2>2, WhatComes
    <2>3. Restart \/ UNCHANGED vars => answer' = answer
      BY DEF Restart, vars, dispatchVars
    <2> QED
      BY <2>0, <2>1, <2>2, <2>3, Steps, WhatServes
  <1>4. \A q \in Requests : (call[q] = NoCall \/ \E op \in Ops : call[q] \in Asks(op))'
    BY <1>1 DEF Asks
  <1> QED
    BY <1>0, <1>1, <1>2, <1>3, <1>4 DEF TypeInv

\* A request leaves no trace before it comes in, and has no answer before it is over.
LEMMA StageStep == IInv /\ [Next]_vars => StageInv'
  <1> SUFFICES ASSUME IInv, [Next]_vars, NEW q \in Requests
               PROVE  /\ pc'[q] = "idle" => call'[q] = NoCall /\ reply'[q] = NoReply
                      /\ pc'[q] # "answered" =>
                            answer'[q] = [status |-> 0, dispatches |-> {}, workers |-> {}]
    BY DEF StageInv, NoCall, NoReply
  <1>0. /\ TypeInv /\ LifeInv /\ CallsTypeOK
        /\ pc[q] = "idle" => call[q] = NoCall /\ reply[q] = NoReply /\ svc[q] = "none"
        /\ pc[q] # "answered" =>
              answer[q] = [status |-> 0, dispatches |-> {}, workers |-> {}]
    BY DEF IInv, TypeInv, LifeInv, StageInv
  <1>1. CASE UNCHANGED <<call[q], reply[q], answer[q]>> /\ (pc'[q] = pc[q] \/ pc'[q] = "lost")
    <2>1. pc[q] = "answered" => pc'[q] = "answered"
      BY <1>0, StepOfCalls, LifeGoesOn
    <2> QED
      BY <1>0, <1>1, <2>1
  <1>2. CASE Request(q)
    <2>1. AnsweredAtOnce(q) \/ Sends(q)
      BY <1>0, <1>2, WhatComes
    <2>2. pc'[q] # "idle"
      BY <1>0, <2>1 DEF AnsweredAtOnce, Sends, CallsTypeOK
    <2>3. pc'[q] # "answered" => answer' = answer
      <3>1. /\ pc[q] = "idle"
            /\ AnsweredAtOnce(q) \/ answer' = answer
        BY <1>2, <1>0 DEF Request, AnsweredAtOnce, Sends
      <3> QED
        BY <1>0, <3>1 DEF AnsweredAtOnce, CallsTypeOK
    <2>4. pc[q] = "idle"
      BY <1>0, <1>2, WhatComes
    <2> QED
      BY <1>0, <2>2, <2>3, <2>4
  <1>3. CASE Ends(q)
    <2>1. Wakes(q)
      BY <1>0, <1>3, WhatEnds
    <2>2. pc'[q] = "answered"
      BY <1>0, <2>1, Waking DEF CallsTypeOK
    <2> QED
      BY <2>2
  <1>4. CASE Serves(q)
    <2>1. Executes(q) /\ call' = call /\ answer' = answer
      BY <1>0, <1>4, WhatServes
    <2>2. svc[q] = "pending" /\ pc' = pc
      BY <2>1 DEF Executes
    <2> QED
      BY <1>0, <2>1, <2>2
  <1> QED
    BY <1>0, <1>1, <1>2, <1>3, <1>4, OwnStep

\* What a step of the service enters: a dispatch of its own, or the response to one
\* that is held as pending.
LEMMA WhatEnters ==
    ASSUME TypeInv, NEW r \in Requests, Serves(r)
    PROVE  \/ journal' = journal
           \/ \E record \in Record :
                 /\ journal' = Append(journal, record) /\ Executes(r)
                 /\ \/ record.dispatch = r
                    \/ \E i \in DOMAIN journal :
                          /\ journal[i].dispatch = record.dispatch
                          /\ journal[i].status = "PENDING_WORKER_CONFIRM"
                          /\ \A k \in DOMAIN journal :
                                k > i => journal[k].dispatch # record.dispatch
  <1>1. CASE ServesAssign(r)
    <2> DEFINE record == [dispatch |-> r, order |-> call[r].order, worker |-> call[r].worker,
                          status |-> "PENDING_WORKER_CONFIRM"]
    <2>1. call[r].op = "assign" /\ Enters(r, record)
      BY <1>1 DEF ServesAssign
    <2>2. record \in Record /\ record.dispatch = r
      BY <2>1, CallParts DEF Record, Ops
    <2> HIDE DEF record
    <2> QED
      BY <2>1, <2>2 DEF Enters
  <1>2. CASE ServesConfirm(r)
    <2>1. PICK held \in Held :
             /\ held.status = "PENDING_WORKER_CONFIRM"
             /\ \E status \in {"ACCEPTED", "REJECTED"} :
                   Enters(r, [held EXCEPT !.status = status])
      BY <1>2 DEF ServesConfirm
    <2>2. PICK status \in {"ACCEPTED", "REJECTED"} : Enters(r, [held EXCEPT !.status = status])
      BY <2>1
    <2>3. PICK i \in DOMAIN journal :
             /\ journal[i] = held
             /\ \A k \in DOMAIN journal : k > i => journal[k].dispatch # journal[i].dispatch
      BY <2>1 DEF Held
    <2>4. held \in Record
      BY <2>1, HeldEntered DEF TypeInv, Entered
    <2> DEFINE record == [held EXCEPT !.status = status]
    <2>5. record \in Record /\ record.dispatch = held.dispatch
      BY <2>2, <2>4 DEF Record
    <2>6. Enters(r, record)
      BY <2>2
    <2> HIDE DEF record
    <2> QED
      BY <2>1, <2>3, <2>5, <2>6 DEF Enters
  <1>3. CASE ServesPending(r) \/ ServesHistory(r) \/ ServesAvailable(r)
    BY <1>3 DEF ServesPending, ServesHistory, ServesAvailable, Shows
  <1> QED
    BY <1>1, <1>2, <1>3 DEF Serves

\* A response is entered on top of a pending dispatch only, and a dispatch on top of
\* none.
LEMMA JournalStep == IInv /\ [Next]_vars => JournalInv'
  <1> SUFFICES ASSUME IInv, [Next]_vars PROVE JournalInv'
    OBVIOUS
  <1>0. /\ TypeInv /\ LifeInv /\ CallsTypeOK /\ JournalInv
        /\ journal \in Seq(Record)
        /\ \A q \in Requests : svc[q] = "executed" => svc'[q] = "executed"
    BY StepOfCalls, LifeGoesOn DEF IInv, TypeInv
  <1> DEFINE n == Len(journal)
  <1>1. n \in Nat /\ DOMAIN journal = 1..n
    BY <1>0, LenProperties
  <1>2. \A i \in DOMAIN journal : journal[i] \in Record /\ journal[i].dispatch \in Requests
    <2>1. \A i \in DOMAIN journal : journal[i] \in Record
      BY <1>0
    <2> QED
      BY <2>1 DEF Record
  <1>3. CASE journal' = journal
    BY <1>0, <1>2, <1>3 DEF JournalInv
  <1>4. ASSUME NEW r \in Requests, NEW record \in Record,
               journal' = Append(journal, record), Executes(r),
               \/ record.dispatch = r
               \/ \E i \in DOMAIN journal :
                     /\ journal[i].dispatch = record.dispatch
                     /\ journal[i].status = "PENDING_WORKER_CONFIRM"
                     /\ \A k \in DOMAIN journal :
                           k > i => journal[k].dispatch # record.dispatch
        PROVE  JournalInv'
    <2>1. /\ DOMAIN journal' = 1..n + 1 /\ journal'[n + 1] = record
          /\ \A i \in 1..n : journal'[i] = journal[i]
      BY <1>0, <1>4, AppendProperties
    <2> HIDE DEF n
    <2>2. /\ \A i \in 1..n + 1 : i \in 1..n \/ i = n + 1
          /\ \A i \in 1..n + 1 : \A j \in 1..n : i < j => i \in 1..n
          /\ \A i \in 1..n + 1 : i < n + 1 => i \in 1..n
      BY <1>1
    <2>3. svc'[r] = "executed" /\ svc[r] = "pending"
      BY <1>0, <1>4 DEF Executes, CallsTypeOK
    <2>4. svc'[record.dispatch] = "executed"
      BY <1>0, <1>1, <1>2, <1>4, <2>3 DEF JournalInv
    <2>5. ASSUME NEW k \in 1..n, journal[k].dispatch = record.dispatch
          PROVE  journal[k].status = "PENDING_WORKER_CONFIRM"
      <3>1. svc[journal[k].dispatch] = "executed"
        BY <1>0, <1>1 DEF JournalInv
      <3>2. PICK i \in 1..n :
               /\ journal[i].dispatch = record.dispatch
               /\ journal[i].status = "PENDING_WORKER_CONFIRM"
               /\ \A m \in 1..n : m > i => journal[m].dispatch # record.dispatch
        BY <1>1, <1>4, <2>3, <2>5, <3>1
      <3>3. k < i \/ k = i \/ k > i
        BY <1>1
      <3> QED
        BY <1>0, <1>1, <2>5, <3>2, <3>3 DEF JournalInv
    <2>6. ASSUME NEW j \in 1..n + 1
          PROVE  /\ svc'[journal'[j].dispatch] = "executed"
                 /\ \A i \in 1..n + 1 :
                       i < j /\ journal'[i].dispatch = journal'[j].dispatch =>
                           journal'[i].status = "PENDING_WORKER_CONFIRM"
      <3>1. CASE j \in 1..n
        BY <1>0, <1>1, <1>2, <2>1, <2>2, <3>1 DEF JournalInv
      <3>2. CASE j = n + 1
        BY <2>1, <2>2, <2>4, <2>5, <3>2
      <3> QED
        BY <2>2, <3>1, <3>2
    <2> QED
      BY <2>1, <2>6 DEF JournalInv
  <1>5. CASE Restart \/ UNCHANGED vars
    BY <1>3, <1>5 DEF Restart, vars, dispatchVars
  <1>6. ASSUME NEW r \in Requests, Request(r) \/ Ends(r) PROVE journal' = journal
    BY <1>0, <1>6, WhatComes, WhatEnds
  <1>7. ASSUME NEW r \in Requests, Serves(r) PROVE JournalInv'
    BY <1>0, <1>3, <1>4, <1>7, WhatEnters
  <1> QED
    BY <1>3, <1>5, <1>6, <1>7, Steps

\* A reply stays what it was, and what it shows stays entered.
LEMMA ReplyStep == IInv /\ [Next]_vars => ReplyInv'
  <1> SUFFICES ASSUME IInv, [Next]_vars, NEW q \in Requests
               PROVE  /\ reply'[q].dispatches \subseteq Entered'
                      /\ call'[q].op = "confirm" =>
                            \A record \in reply'[q].dispatches :
                                record.status = Says(call'[q].response)
    BY DEF ReplyInv, Says
  <1>0. /\ TypeInv /\ LifeInv /\ CallsTypeOK /\ Entered \subseteq Entered'
        /\ pc[q] = "idle" => call[q] = NoCall /\ reply[q] = NoReply /\ svc[q] = "none"
        /\ reply[q].dispatches \subseteq Entered
        /\ call[q].op = "confirm" =>
              \A record \in reply[q].dispatches : record.status = Says(call[q].response)
    BY EnteredStays DEF IInv, TypeInv, LifeInv, StageInv, ReplyInv
  <1>1. CASE UNCHANGED <<call[q], reply[q]>>
    BY <1>0, <1>1
  <1>2. CASE Request(q)
    <2>1. pc[q] = "idle" /\ reply' = reply /\ (AnsweredAtOnce(q) \/ Sends(q))
      BY <1>0, <1>2, WhatComes
    <2> QED
      BY <1>0, <2>1 DEF NoReply
  <1>3. CASE Ends(q)
    <2>1. Wakes(q) /\ call' = call /\ reply' = reply
      BY <1>0, <1>3, WhatEnds
    <2> QED
      BY <1>0, <2>1
  <1>4. CASE Serves(q)
    <2>1. /\ call' = call
          /\ \E reading \in Reading :
                /\ reply' = [reply EXCEPT ![q] = reading]
                /\ reading.dispatches \subseteq reply[q].dispatches \cup Entered'
                /\ call[q].op = "confirm" =>
                      \A record \in reading.dispatches : record.status = Says(call[q].response)
      BY <1>0, <1>4, WhatServes
    <2>2. reply \in [Requests -> Reading]
      BY <1>0 DEF TypeInv
    <2>3. /\ reply'[q].dispatches \subseteq reply[q].dispatches \cup Entered'
          /\ call[q].op = "confirm" =>
                \A record \in reply'[q].dispatches : record.status = Says(call[q].response)
      BY <2>1, <2>2
    <2> QED
      BY <1>0, <2>1, <2>3
  <1> QED
    BY <1>0, <1>1, <1>2, <1>3, <1>4, OwnStep

\* A documented response, with no blank behind it.
Documented(response) == response.word \in ResponseType /\ "behind" \notin response.blanks

\* What an answer shows is backed when it is given, and stays so.
LEMMA AnswerStep ==
    IInv /\ [Next]_vars => EveryAnswerIsBacked' /\ ReadingsAgree'
  <1> SUFFICES ASSUME IInv, [Next]_vars, NEW q \in Requests
               PROVE  /\ \A record \in answer'[q].dispatches :
                            \/ record \in Entered'
                            \/ /\ call'[q].op = "confirm"
                               /\ record.dispatch = call'[q].dispatch
                               /\ seen'[q] \in MOCKABLE_DOWNSTREAM_GAP_CODES
                      /\ call'[q].op = "confirm" /\ Documented(call'[q].response) =>
                            \A record \in answer'[q].dispatches :
                                record.status = Says(call'[q].response)
    BY DEF EveryAnswerIsBacked, ReadingsAgree, AnsweredAsSaid, MadeUp, Entered, Says, Documented
  <1>0. /\ TypeInv /\ LifeInv /\ CallsTypeOK /\ Entered \subseteq Entered'
        /\ pc[q] # "answered" =>
              answer[q] = [status |-> 0, dispatches |-> {}, workers |-> {}]
        /\ \A record \in answer[q].dispatches :
              \/ record \in Entered
              \/ /\ call[q].op = "confirm"
                 /\ record.dispatch = call[q].dispatch
                 /\ seen[q] \in MOCKABLE_DOWNSTREAM_GAP_CODES
        /\ call[q].op = "confirm" /\ Documented(call[q].response) =>
              \A record \in answer[q].dispatches : record.status = Says(call[q].response)
    BY EnteredStays
       DEF IInv, TypeInv, StageInv, EveryAnswerIsBacked, ReadingsAgree, AnsweredAsSaid, MadeUp,
           Entered, Documented
  <1>1. CASE UNCHANGED <<call[q], answer[q], seen[q]>>
    BY <1>0, <1>1
  <1>2. CASE Request(q)
    <2>1. /\ pc[q] = "idle"
          /\ \/ answer' = answer
             \/ answer' = [answer EXCEPT ![q] = [status |-> 422, dispatches |-> {},
                                                 workers |-> {}]]
      BY <1>0, <1>2, WhatComes
    <2>2. answer'[q].status # 200 /\ answer'[q].dispatches = {}
      BY <1>0, <2>1 DEF TypeInv
    <2> QED
      BY <2>2
  <1>3. CASE Ends(q)
    <2>1. /\ call' = call
          /\ \E a \in Answer :
                /\ answer' = [answer EXCEPT ![q] = a]
                /\ \/ a.status # 200 /\ a.dispatches = {}
                   \/ /\ svc[q] = "executed"
                      /\ a.dispatches = reply[q].dispatches
                   \/ /\ call[q].op = "confirm" /\ a.dispatches = {OwnDispatch(q)}
                      /\ seen'[q] \in MOCKABLE_DOWNSTREAM_GAP_CODES
      BY <1>0, <1>3, WhatEnds
    <2>2. answer \in [Requests -> Answer]
      BY <1>0 DEF TypeInv
    <2>3. CASE answer'[q].status # 200 /\ answer'[q].dispatches = {}
      BY <2>3
    <2>4. CASE /\ svc[q] = "executed"
               /\ answer'[q].dispatches = reply[q].dispatches
      BY <1>0, <2>1, <2>4 DEF IInv, ReplyInv
    <2>5. CASE /\ call[q].op = "confirm" /\ answer'[q].dispatches = {OwnDispatch(q)}
               /\ seen'[q] \in MOCKABLE_DOWNSTREAM_GAP_CODES
      <3>1. call[q].response \in Responses
        BY <1>0, <2>5, CallParts DEF Ops
      <3>2. Documented(call[q].response) => OwnDispatch(q).status = Says(call[q].response)
        BY <3>1, OwnSays DEF OwnDispatch, Documented
      <3>3. OwnDispatch(q).dispatch = call[q].dispatch
        BY DEF OwnDispatch
      <3> QED
        BY <2>1, <2>5, <3>2, <3>3
    <2> QED
      BY <2>1, <2>2, <2>3, <2>4, <2>5
  <1>4. CASE Serves(q)
    <2>1. Executes(q) /\ call' = call /\ answer' = answer
      BY <1>0, <1>4, WhatServes
    <2> QED
      BY <1>0, <2>1 DEF Executes
  <1> QED
    BY <1>0, <1>1, <1>2, <1>3, <1>4, OwnStep

-----------------------------------------------------------------------------
(* The theorems. *)

\* The strengthened invariant holds in every reachable state.
LEMMA Invariance == Spec => []IInv
  <1>1. Init => IInv
    <2> SUFFICES ASSUME Init PROVE IInv
      OBVIOUS
    <2>1. CallsTypeOK /\ LifeInv
      BY CallsTypeInit DEF Init
    <2>2. journal \in Seq(Record)
      BY DEF Init
    <2>3. /\ call \in [Requests -> Call \cup {NoCall}]
          /\ \A r \in Requests : call[r] = NoCall
          /\ reply \in [Requests -> Reading]
          /\ \A r \in Requests : reply[r] = NoReply
      BY DEF Init, Reading, NoReply
    <2>4. /\ answer \in [Requests -> Answer]
          /\ \A r \in Requests :
                answer[r] = [status |-> 0, dispatches |-> {}, workers |-> {}]
      BY DEF Init, Answer
    <2>5. \A r \in Requests : svc[r] = "none"
      BY DEF Init, CallsInit
    <2>6. TypeInv
      BY <2>1, <2>2, <2>3, <2>4 DEF TypeInv
    <2>7. StageInv
      BY <2>3, <2>4 DEF StageInv
    <2>8. ReplyInv
      BY <2>3, <2>5 DEF ReplyInv, NoReply
    <2>9. EveryAnswerIsBacked /\ ReadingsAgree
      BY <2>4 DEF EveryAnswerIsBacked, ReadingsAgree, AnsweredAsSaid
    <2>10. JournalInv
      BY DEF Init, JournalInv
    <2> QED
      BY <2>1, <2>6, <2>7, <2>8, <2>9, <2>10 DEF IInv
  <1>2. IInv /\ [Next]_vars => IInv'
    <2> SUFFICES ASSUME IInv, [Next]_vars PROVE IInv'
      OBVIOUS
    <2>1. TypeInv /\ LifeInv /\ CallsTypeOK
      BY DEF IInv, TypeInv
    <2>2. LifeInv'
      BY <2>1, StepOfCalls, LifeStep
    <2> QED
      BY <2>1, <2>2, TypeStep, StageStep, JournalStep, ReplyStep, AnswerStep DEF IInv
  <1> QED
    BY <1>1, <1>2, PTL DEF Spec

\* Every variable keeps its type.
THEOREM TypeCorrect == Spec => []TypeOK
  <1>1. IInv => TypeOK
    <2>1. IInv => TypeInv
      BY DEF IInv
    <2>2. TypeInv => \A r \in Requests : reply[r] \in Reading /\ answer[r] \in Answer
      BY DEF TypeInv
    <2> QED
      BY <2>1, <2>2 DEF TypeInv, TypeOK, Reading, Answer
  <1> QED
    BY <1>1, Invariance, PTL

\* Whatever calls fail, are served late or are lost in a restart, an answer shows only
\* what the service entered, but for the confirmation the gateway makes up when the
\* service could not serve it (confirm_worker_response).
THEOREM AnswersAreBacked == Spec => []EveryAnswerIsBacked
  <1>1. IInv => EveryAnswerIsBacked
    BY DEF IInv
  <1> QED
    BY <1>1, Invariance, PTL

\* A worker who writes a documented response, with no blank behind it, is told what he
\* said, whichever of the two readings of it answers him
\* (_parse_worker_response_type, confirm_worker_response).
THEOREM ResponsesReadAlike == Spec => []ReadingsAgree
  <1>1. IInv => ReadingsAgree
    BY DEF IInv
  <1> QED
    BY <1>1, Invariance, PTL

\* Nobody is told two outcomes of one dispatch unless the gateway has made one of them
\* up (confirm_worker_response).
THEOREM OutcomesAgree == Spec => []OneOutcome
  <1>1. IInv => OneOutcome
    <2> SUFFICES ASSUME JournalInv, EveryAnswerIsBacked, TypeInv,
                        NEW q \in Requests, NEW r \in Requests, ~MadeUp(q), ~MadeUp(r),
                        NEW one \in answer[q].dispatches, NEW other \in answer[r].dispatches,
                        one.dispatch = other.dispatch,
                        one.status = "ACCEPTED", other.status = "REJECTED"
                 PROVE  FALSE
      BY DEF IInv, OneOutcome
    <2>1. PICK i \in DOMAIN journal : journal[i] = one
      BY DEF EveryAnswerIsBacked
    <2>2. PICK j \in DOMAIN journal : journal[j] = other
      BY DEF EveryAnswerIsBacked
    <2>3. i \in Nat /\ j \in Nat
      BY LenProperties DEF TypeInv
    <2>4. i < j \/ j < i \/ i = j
      BY <2>3
    <2> QED
      BY <2>1, <2>2, <2>4 DEF JournalInv
  <1> QED
    BY <1>1, Invariance, PTL

===============================================================================
