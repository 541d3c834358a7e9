------------------------ MODULE ServiceExecutionProofs ------------------------
(***************************************************************************)
(* Theorems about ServiceExecution, for every set of requests, orders and  *)
(* failure codes and every bound on restarts.                              *)
(***************************************************************************)
EXTENDS ServiceExecution, CallsProofs, SequenceTheorems

(* The steps, by what they do to the requests. *)

\* The request r comes in: it is answered where it arrives, or its call is sent.
Comes(r) == (\E op \in Writes : Write(r, op)) \/ GetRecord(r)

\* The call of r ends, and r is answered.
Ends(r) ==
    \/ StartReturns(r) \/ CompleteReturns(r) \/ PhotoReturns(r) \/ GetReturns(r)
    \/ \E status \in FailureCodes :
          \/ StartRaises(r, status)
          \/ CompleteRaises(r, status)
          \/ PhotoRaises(r, status)
          \/ GetRaises(r, status)

\* Every step is one of these.
LEMMA Steps ==
    ASSUME [Next]_vars
    PROVE  \/ \E r \in Requests : Comes(r) \/ Ends(r) \/ Service(r)
           \/ Restart
           \/ UNCHANGED vars
  BY DEF Next, Gateway, Terminated, Comes, Ends

\* An end is that of an await.
LEMMA EndsWakes ==
    ASSUME NEW r \in Requests, Ends(r)
    PROVE  Wakes(r) /\ call' = call /\ reply' = reply /\ archive' = archive
  BY DEF Ends, Wakes, StartReturns, CompleteReturns, PhotoReturns, GetReturns,
         StartRaises, CompleteRaises, PhotoRaises, GetRaises

\* What a step does to the shared part.
LEMMA StepOfCalls ==
    ASSUME [Next]_vars
    PROVE  CallsStep
  <1>1. ASSUME NEW r \in Requests, Comes(r) PROVE CallsStep
    BY <1>1 DEF Comes, Write, GetRecord, CallsStep
  <1>2. ASSUME NEW r \in Requests, Ends(r) PROVE CallsStep
    BY <1>2, EndsWakes DEF Wakes, CallsStep
  <1>3. ASSUME NEW r \in Requests, Service(r) PROVE CallsStep
    BY <1>3 DEF Service, ServesProgress, ServesPhoto, ServesGet, CallsStep
  <1>4. CASE Restart
    BY <1>4 DEF Restart, CallsStep
  <1>5. CASE UNCHANGED vars
    BY <1>5 DEF vars, CallsStep
  <1> QED
    BY <1>1, <1>2, <1>3, <1>4, <1>5, Steps

-----------------------------------------------------------------------------
(* Types. *)

\* A sequence of one element.
LEMMA Singleton ==
    ASSUME NEW S, NEW e \in S
    PROVE  <<e>> \in Seq(S)
  OBVIOUS

\* The records the operators make are records.
LEMMA RecordTypes ==
    /\ NoRecord \in Record /\ Invented \in Record
    /\ \A r \in Requests : OwnStart(r) \in Record /\ OwnPhoto(r) \in Photo
    /\ \A record \in Record, r \in Requests : Completed(record, r) \in Record
    /\ \A record \in Record, photo \in Photo : WithPhoto(record, photo) \in Record
  <1>1. NoRecord \in Record /\ Invented \in Record
    BY DEF NoRecord, Invented, Record, Token
  <1>2. ASSUME NEW r \in Requests PROVE OwnStart(r) \in Record /\ OwnPhoto(r) \in Photo
    BY DEF OwnStart, OwnPhoto, Record, Token, Photo
  <1>3. ASSUME NEW record \in Record, NEW r \in Requests
        PROVE  Completed(record, r) \in Record
    BY DEF Completed, Record, Token
  <1>4. ASSUME NEW record \in Record, NEW photo \in Photo
        PROVE  WithPhoto(record, photo) \in Record
    <2>1. Append(record.photos, photo) \in Seq(Photo)
      BY AppendProperties DEF Record
    <2> QED
      BY <2>1 DEF WithPhoto, Record
  <1> QED
    BY <1>1, <1>2, <1>3, <1>4

\* An answer with one of the statuses is well typed.
LEMMA AnswersType ==
    ASSUME TypeOK, NEW r \in Requests, NEW status \in Status,
           NEW record \in Record, Answers(r, status, record)
    PROVE  answer' \in [Requests -> Answer]
  BY DEF TypeOK, CallsTypeOK, Answers, Answer

\* So is one that is validated, and one that reports a downstream error.
LEMMA RespondsType ==
    ASSUME TypeOK, NEW r \in Requests,
           \/ \E record \in Record : Responds(r, record)
           \/ \E status \in FailureCodes : Fails(r, status)
    PROVE  answer' \in [Requests -> Answer]
  <1>1. 200 \in Status /\ 500 \in Status
    BY DEF Status
  <1>2. \A status \in FailureCodes : MapGrpcError(status).status_code \in Status
    BY DEF Status
  <1> QED
    BY <1>1, <1>2, AnswersType, RecordTypes DEF Responds, Fails

\* The order of a call is one.
LEMMA CallType ==
    ASSUME TypeOK, NEW r \in Requests, call[r].op \in Writes \cup {"get"}
    PROVE  call[r] \in Call /\ call[r].order \in Orders
  BY DEF TypeOK, NoCall, Call, None, Writes

\* The initial state is well typed.
LEMMA TypeInit == Init => TypeOK
  <1>1. Init => CallsTypeOK
    BY CallsTypeInit DEF Init
  <1>2. NoReply \in Reply
    BY RecordTypes DEF NoReply, Reply
  <1>3. [status |-> 0, record |-> NoRecord, epoch |-> 0] \in Answer
    BY RecordTypes, CallsAssumption DEF Answer, CallsAssumption
  <1> QED
    BY <1>1, <1>2, <1>3, RecordTypes DEF Init, TypeOK

\* No step makes a variable leave its type.
LEMMA TypeStep == TypeOK /\ [Next]_vars => TypeOK'
  <1> SUFFICES ASSUME TypeOK, [Next]_vars PROVE TypeOK'
    OBVIOUS
  <1>0. /\ call \in [Requests -> Call \cup {NoCall}]
        /\ reply \in [Requests -> Reply]
        /\ answer \in [Requests -> Answer]
        /\ records \in [Orders -> Record]
        /\ archive \in [Orders -> Record]
        /\ CallsTypeOK
    BY DEF TypeOK
  <1>a. CallsTypeOK'
    BY <1>0, StepOfCalls, CallsType
  <1>b. 200 \in Status /\ 422 \in Status /\ 500 \in Status
    BY DEF Status
  <1>c. ASSUME NEW o \in Orders, NEW record \in Record
        PROVE  Put(o, record) \in [Orders -> Record]
    BY <1>0, <1>c DEF Put
  <1>1. ASSUME NEW r \in Requests, Comes(r) PROVE TypeOK'
    <2>1. PICK op \in Writes \cup {"get"}, o \in Orders :
            /\ Asks(r, op, o)
            /\ \/ Answers(r, 422, NoRecord)
               \/ Responds(r, records[o])
               \/ UNCHANGED answer
            /\ UNCHANGED <<reply, records, archive>>
      BY <1>1 DEF Comes, Write, GetRecord
    <2>2. [op |-> op, order |-> o, acked |-> Acked(o), epoch |-> epoch] \in Call
      <3>1. epoch \in 0..MaxRestarts
        BY <1>0 DEF CallsTypeOK
      <3> QED
        BY <3>1 DEF Call, Acked
    <2>3. call' \in [Requests -> Call \cup {NoCall}]
      BY <2>1, <2>2, <1>0 DEF Asks
    <2>4. answer' \in [Requests -> Answer]
      BY <2>1, <1>0, <1>b, AnswersType, RespondsType, RecordTypes
    <2> QED
      BY <2>1, <2>3, <2>4, <1>0, <1>a DEF TypeOK
  <1>2. ASSUME NEW r \in Requests, Ends(r) PROVE TypeOK'
    <2>1. call[r].order \in Orders
      <3>1. call[r].op \in Writes \cup {"get"}
        BY <1>2 DEF Ends, StartReturns, CompleteReturns, PhotoReturns, GetReturns,
                    StartRaises, CompleteRaises, PhotoRaises, GetRaises, Writes
      <3> QED
        BY <3>1, CallType
    <2> DEFINE o == call[r].order
               old == records[o]
    <2>2. old \in Record /\ reply[r].record \in Record /\ reply[r].photo \in Seq(Photo)
      BY <2>1, <1>0 DEF Reply
    <2>3. ASSUME reply[r].photo # <<>> PROVE reply[r].photo[1] \in Photo
      BY <2>2, <2>3
    <2>4. /\ OwnStart(r) \in Record /\ Completed(old, r) \in Record
          /\ WithPhoto(old, OwnPhoto(r)) \in Record
          /\ reply[r].photo # <<>> => WithPhoto(old, reply[r].photo[1]) \in Record
          /\ FallbackRecord(o) \in Record
      BY <2>2, <2>3, RecordTypes DEF FallbackRecord
    <2>5. records' \in [Orders -> Record] /\ answer' \in [Requests -> Answer]
      <3>1. CASE StartReturns(r) \/ CompleteReturns(r)
        BY <3>1, <2>1, <2>2, <1>0, <1>c, RespondsType DEF StartReturns, CompleteReturns
      <3>2. CASE PhotoReturns(r)
        BY <3>2, <2>1, <2>4, <1>0, <1>b, <1>c, AnswersType, RecordTypes DEF PhotoReturns, Breaks
      <3>3. CASE GetReturns(r)
        BY <3>3, <2>2, <1>0, RespondsType DEF GetReturns
      <3>4. ASSUME NEW status \in FailureCodes, StartRaises(r, status)
            PROVE  records' \in [Orders -> Record] /\ answer' \in [Requests -> Answer]
        BY <3>4, <2>1, <2>4, <1>0, <1>c, RespondsType DEF StartRaises
      <3>5. ASSUME NEW status \in FailureCodes, CompleteRaises(r, status)
            PROVE  records' \in [Orders -> Record] /\ answer' \in [Requests -> Answer]
        BY <3>5, <2>1, <2>4, <1>0, <1>b, <1>c, AnswersType, RespondsType, RecordTypes
           DEF CompleteRaises, Breaks
      <3>6. ASSUME NEW status \in FailureCodes, PhotoRaises(r, status)
            PROVE  records' \in [Orders -> Record] /\ answer' \in [Requests -> Answer]
        BY <3>6, <2>1, <2>4, <1>0, <1>b, <1>c, AnswersType, RespondsType, RecordTypes
           DEF PhotoRaises, Breaks
      <3>7. ASSUME NEW status \in FailureCodes, GetRaises(r, status)
            PROVE  records' \in [Orders -> Record] /\ answer' \in [Requests -> Answer]
        BY <3>7, <2>4, <1>0, RespondsType DEF GetRaises
      <3> QED
        BY <1>2, <3>1, <3>2, <3>3, <3>4, <3>5, <3>6, <3>7 DEF Ends
    <2> QED
      BY <1>2, <2>5, <1>0, <1>a, EndsWakes DEF TypeOK
  <1>3. ASSUME NEW r \in Requests, Service(r) PROVE TypeOK'
    <2> DEFINE o == call[r].order
    <2>1. o \in Orders /\ archive[o] \in Record
      <3>1. call[r].op \in Writes \cup {"get"}
        BY <1>3 DEF Service, ServesProgress, ServesPhoto, ServesGet, Writes
      <3> QED
        BY <3>1, <1>0, CallType
    <2>2. reply[r] \in Reply
      BY <1>0
    <2>3. archive' \in [Orders -> Record] /\ reply' \in [Requests -> Reply]
      <3>1. CASE ServesProgress(r)
        <4> DEFINE record == IF call[r].op = "start"
                             THEN [archive[o] EXCEPT !.status = "IN_SERVICE", !.started = r]
                             ELSE [archive[o] EXCEPT !.status = "COMPLETE", !.completed = r]
        <4>1. /\ archive' = [archive EXCEPT ![o] = record]
              /\ \E shown \in {record, [record EXCEPT !.valid = FALSE], NoRecord} :
                    reply' = [reply EXCEPT ![r].record = shown]
          BY <3>1 DEF ServesProgress
        <4>2. record \in Record
          BY <2>1 DEF Record, Token
        <4> HIDE DEF record
        <4>3. [record EXCEPT !.valid = FALSE] \in Record
          BY <4>2 DEF Record
        <4>4. PICK shown \in Record : reply' = [reply EXCEPT ![r].record = shown]
          BY <4>1, <4>2, <4>3, RecordTypes
        <4> QED
          BY <4>1, <4>2, <4>4, <2>1, <2>2, <1>0 DEF Reply
      <3>2. CASE ServesPhoto(r)
        <4> DEFINE photo == [of |-> r, own |-> FALSE, valid |-> TRUE]
        <4>1. photo \in Photo /\ [photo EXCEPT !.valid = FALSE] \in Photo
          BY DEF Photo
        <4>2. PICK shown \in {<<photo>>, <<[photo EXCEPT !.valid = FALSE]>>, <<>>} :
                reply' = [reply EXCEPT ![r].photo = shown]
          BY <3>2 DEF ServesPhoto
        <4>3. archive' = [archive EXCEPT ![o] = WithPhoto(@, photo)]
          BY <3>2 DEF ServesPhoto
        <4>4. shown \in Seq(Photo)
          <5> HIDE DEF photo
          <5>1. <<photo>> \in Seq(Photo) /\ <<[photo EXCEPT !.valid = FALSE]>> \in Seq(Photo)
            BY <4>1, Singleton
          <5>2. <<>> \in Seq(Photo)
            OBVIOUS
          <5> QED
            BY <4>2, <5>1, <5>2
        <4>5. WithPhoto(archive[o], photo) \in Record
          BY <4>1, <2>1, RecordTypes
        <4> QED
          BY <4>2, <4>3, <4>4, <4>5, <2>1, <2>2, <1>0 DEF Reply
      <3>3. CASE ServesGet(r)
        BY <3>3, <2>1, <2>2, <1>0 DEF ServesGet, Reply
      <3> QED
        BY <1>3, <3>1, <3>2, <3>3 DEF Service
    <2>4. UNCHANGED <<call, answer, records>>
      BY <1>3 DEF Service, ServesProgress, ServesPhoto, ServesGet
    <2> QED
      BY <2>3, <2>4, <1>0, <1>a DEF TypeOK
  <1>4. CASE Restart
    BY <1>4, <1>0, <1>a, RecordTypes DEF TypeOK, Restart
  <1>5. CASE UNCHANGED vars
    BY <1>5, <1>0, <1>a DEF TypeOK, vars, serviceVars
  <1> QED
    BY <1>1, <1>2, <1>3, <1>4, <1>5, Steps

\* Every variable keeps its type.
THEOREM TypeCorrect == Spec => []TypeOK
  BY TypeInit, TypeStep, PTL DEF Spec

-----------------------------------------------------------------------------
(* The inductive invariant. *)

\* A request that has not come in has left no trace, one that is not answered has no
\* answer, a call that is not executed has no reply, and no answer is from a later
\* incarnation.
StageInv ==
    \A r \in Requests :
        /\ call[r] = NoCall <=> pc[r] = "idle"
        /\ answer[r].status # 0 <=> pc[r] = "answered"
        /\ pc[r] # "answered" => answer[r].record = NoRecord
        /\ svc[r] # "executed" => reply[r] = NoReply
        /\ answer[r].epoch <= epoch

\* The status is the one the marks call for.
Fits(record) ==
    /\ record.status = "COMPLETE" <=> record.completed # None
    /\ record.status = "IN_SERVICE" => record.started # None
    /\ record.status = "" => record.started = None /\ record.photos # <<>>
    /\ record.status = None => record = NoRecord

\* The service has each photo once, of a call it has executed.
EachPhotoOnce(record) ==
    /\ \A i \in DOMAIN record.photos :
          /\ ~record.photos[i].own
          /\ svc[record.photos[i].of] = "executed"
    /\ \A i, j \in DOMAIN record.photos : record.photos[i].of = record.photos[j].of => i = j

ArchiveInv ==
    \A o \in Orders :
        Backed(archive[o], o) /\ Fits(archive[o]) /\ EachPhotoOnce(archive[o])

\* A reply holds a record as the service had it, with the mark of its own call, or the
\* photo of its own call.
ReplyInv ==
    \A r \in Requests :
        /\ Backed(reply[r].record, call[r].order)
        /\ Fits(reply[r].record)
        /\ EachPhotoOnce(reply[r].record)
        /\ reply[r].record # NoRecord =>
              /\ call[r].op # "photo"
              /\ call[r].op = "start" => reply[r].record.started = r
              /\ call[r].op = "complete" => reply[r].record.completed = r
        /\ reply[r].photo # <<>> =>
              /\ call[r].op = "photo"
              /\ Len(reply[r].photo) = 1
              /\ reply[r].photo[1].of = r
              /\ ~reply[r].photo[1].own

StoreInv == \A o \in Orders : Backed(records[o], o) /\ Fits(records[o])

\* A reply that came in brought the photo into the record of o.
Brought(photo, o) ==
    \E r \in Requests :
        /\ call[r].op \in {"start", "complete"}
        /\ call[r].order = o
        /\ seen[r] = "OK"
        /\ \E k \in DOMAIN reply[r].record.photos : reply[r].record.photos[k] = photo

\* A photo that is kept before its own request is answered is there once, and was
\* brought by another reply.
AheadInv ==
    \A o \in Orders : \A i \in DOMAIN records[o].photos :
        pc[records[o].photos[i].of] # "answered" =>
            /\ \A k \in DOMAIN records[o].photos :
                  records[o].photos[k].of = records[o].photos[i].of => k = i
            /\ ~records[o].photos[i].own
            /\ Brought(records[o].photos[i], o)

IInv ==
    /\ TypeOK /\ LifeInv /\ StageInv
    /\ ArchiveInv /\ ReplyInv /\ StoreInv /\ EveryMarkIsBacked
    /\ AheadInv /\ DoubledOnlyByOvertaking
    /\ BrokenRecordIsReported

-----------------------------------------------------------------------------
(* What steps leave as it is. *)

\* An answer is made in this incarnation, and to one request.
LEMMA AnswerOne ==
    ASSUME TypeOK, NEW r \in Requests,
           \/ \E status \in Status : \E record : Answers(r, status, record)
           \/ \E record : Responds(r, record)
           \/ \E status \in FailureCodes : Fails(r, status)
    PROVE  /\ \A q \in Requests : q # r => answer'[q] = answer[q]
           /\ answer'[r].status # 0 /\ answer'[r].epoch = epoch
  <1>1. 0 \notin Status
    BY FailureStatus DEF Status
  <1>2. \A status \in FailureCodes : MapGrpcError(status).status_code \in Status
    BY DEF Status
  <1>3. 200 \in Status /\ 500 \in Status
    BY DEF Status
  <1>4. \E status \in Status : \E record : Answers(r, status, record)
    BY <1>2, <1>3 DEF Responds, Fails
  <1>5. PICK status \in Status : \E record : Answers(r, status, record)
    BY <1>4
  <1>6. PICK record : Answers(r, status, record)
    BY <1>5
  <1> QED
    BY <1>1, <1>6 DEF TypeOK, Answers

\* A step that ends the call of r answers r and no other.
LEMMA EndsAnswers ==
    ASSUME TypeOK, NEW r \in Requests, Ends(r)
    PROVE  /\ \A q \in Requests : q # r => answer'[q] = answer[q]
           /\ answer'[r].status # 0 /\ answer'[r].epoch = epoch
  <1>1. \/ \E status \in Status : \E record : Answers(r, status, record)
        \/ \E record : Responds(r, record)
        \/ \E status \in FailureCodes : Fails(r, status)
    BY DEF Ends, StartReturns, CompleteReturns, PhotoReturns, GetReturns,
           StartRaises, CompleteRaises, PhotoRaises, GetRaises, Status, Breaks
  <1> QED
    BY <1>1, AnswerOne

\* A request comes in once, and is answered there or not at all.
LEMMA ComesIn ==
    ASSUME TypeOK, NEW r \in Requests, Comes(r)
    PROVE  /\ pc[r] = "idle" /\ UNCHANGED <<reply, records, archive, seen, epoch>>
           /\ \A q \in Requests : q # r => UNCHANGED <<call[q], answer[q], pc[q], svc[q]>>
           /\ call'[r].op \in Writes \cup {"get"} /\ call'[r].order \in Orders
           /\ \/ pc'[r] = "waiting" /\ answer' = answer
              \/ pc'[r] = "answered" /\ answer'[r].status # 0 /\ answer'[r].epoch = epoch
  <1> USE DEF TypeOK, CallsTypeOK
  <1>1. PICK op \in Writes \cup {"get"}, o \in Orders :
          /\ Asks(r, op, o)
          /\ \/ AnsweredAtOnce(r) /\ (Answers(r, 422, NoRecord) \/ Responds(r, records[o]))
             \/ Sends(r) /\ UNCHANGED answer
          /\ UNCHANGED <<reply, records, archive>>
    BY DEF Comes, Write, GetRecord
  <1>2. call'[r].op = op /\ call'[r].order = o
    BY <1>1 DEF Asks
  <1>3. \A q \in Requests : q # r => call'[q] = call[q]
    BY <1>1 DEF Asks
  <1>4. CASE AnsweredAtOnce(r) /\ (Answers(r, 422, NoRecord) \/ Responds(r, records[o]))
    <2>1. 422 \in Status
      BY DEF Status
    <2>2. /\ \A q \in Requests : q # r => answer'[q] = answer[q]
          /\ answer'[r].status # 0 /\ answer'[r].epoch = epoch
      BY <1>4, <2>1, AnswerOne
    <2> QED
      BY <1>1, <1>2, <1>3, <1>4, <2>2 DEF AnsweredAtOnce
  <1>5. CASE Sends(r) /\ UNCHANGED answer
    BY <1>1, <1>2, <1>3, <1>5 DEF Sends
  <1> QED
    BY <1>1, <1>4, <1>5

\* The service turns a call that is under way into a reply, and into nothing else.
LEMMA ServiceServes ==
    ASSUME TypeOK, NEW r \in Requests, Service(r)
    PROVE  /\ svc[r] = "pending" /\ svc'[r] = "executed"
           /\ UNCHANGED <<call, answer, records, pc, seen, epoch>>
           /\ call[r].op \in Writes \cup {"get"} /\ call[r].order \in Orders
           /\ \A q \in Requests : q # r => UNCHANGED <<svc[q], reply[q]>>
           /\ \A o \in Orders : o # call[r].order => archive'[o] = archive[o]
  <1>1. Executes(r) /\ UNCHANGED <<call, answer, records>>
    BY DEF Service, ServesProgress, ServesPhoto, ServesGet
  <1>2. call[r].op \in Writes \cup {"get"}
    BY DEF Service, ServesProgress, ServesPhoto, ServesGet, Writes
  <1>3. \A q \in Requests : q # r => reply'[q] = reply[q]
    BY DEF Service, ServesProgress, ServesPhoto, ServesGet, TypeOK
  <1>4. \A o \in Orders : o # call[r].order => archive'[o] = archive[o]
    BY DEF Service, ServesProgress, ServesPhoto, ServesGet, TypeOK
  <1> QED
    BY <1>1, <1>2, <1>3, <1>4, CallType DEF Executes, TypeOK, CallsTypeOK

\* What a request asked for, what the service replied and what was answered is not
\* changed afterwards.
LEMMA PastStays ==
    ASSUME TypeOK, LifeInv, StageInv, [Next]_vars, NEW q \in Requests
    PROVE  /\ pc[q] # "idle" => call'[q] = call[q]
           /\ svc[q] = "executed" => reply'[q] = reply[q]
           /\ pc[q] = "answered" => answer'[q] = answer[q]
  <1>1. ASSUME NEW r \in Requests, Comes(r)
        PROVE  /\ pc[q] # "idle" => call'[q] = call[q] /\ answer'[q] = answer[q]
               /\ reply' = reply
    BY <1>1, ComesIn
  <1>2. ASSUME NEW r \in Requests, Ends(r)
        PROVE  /\ call' = call /\ reply' = reply
               /\ pc[q] = "answered" => answer'[q] = answer[q]
    BY <1>2, EndsWakes, EndsAnswers, Waking DEF TypeOK
  <1>3. ASSUME NEW r \in Requests, Service(r)
        PROVE  /\ call' = call /\ answer' = answer
               /\ svc[q] = "executed" => reply'[q] = reply[q]
    BY <1>3, ServiceServes
  <1>4. CASE Restart
    BY <1>4 DEF Restart
  <1>5. CASE UNCHANGED vars
    BY <1>5 DEF vars, serviceVars
  <1> QED
    BY <1>1, <1>2, <1>3, <1>4, <1>5, Steps

\* What took effect has taken effect for good.
LEMMA EffectiveStays ==
    ASSUME TypeOK, LifeInv, StageInv, [Next]_vars,
           NEW q \in Requests, NEW op \in Writes, NEW o \in Orders, Effective(q, op, o)
    PROVE  /\ Effective(q, op, o)' /\ call'[q] = call[q]
           /\ seen[q] \in MOCKABLE_DOWNSTREAM_GAP_CODES => seen'[q] = seen[q]
  <1>1. pc[q] # "idle"
    BY DEF Effective, StageInv, NoCall, None, Writes
  <1>2. seen[q] \in MOCKABLE_DOWNSTREAM_GAP_CODES => pc[q] = "answered"
    BY Failures DEF LifeInv
  <1> QED
    BY <1>1, <1>2, PastStays, StepOfCalls, LifeGoesOn DEF Effective, TypeOK

\* No step takes a request to a stage that what it asked for, or what became of its
\* call, does not allow.
LEMMA StageStep == TypeOK /\ LifeInv /\ StageInv /\ [Next]_vars => StageInv'
  <1> SUFFICES ASSUME TypeOK, LifeInv, StageInv, [Next]_vars, NEW q \in Requests
               PROVE  /\ call'[q] = NoCall <=> pc'[q] = "idle"
                      /\ answer'[q].status # 0 <=> pc'[q] = "answered"
                      /\ pc'[q] # "answered" => answer'[q].record = NoRecord
                      /\ svc'[q] # "executed" => reply'[q] = NoReply
                      /\ answer'[q].epoch <= epoch'
    BY DEF StageInv
  <1>0. epoch \in Nat /\ answer[q].epoch \in Nat
    BY CallsAssumption DEF CallsAssumption, TypeOK, CallsTypeOK, Answer
  <1>a. svc[q] = "executed" => svc'[q] = "executed"
    BY StepOfCalls, LifeGoesOn DEF TypeOK
  <1>1. ASSUME NEW r \in Requests, Comes(r)
        PROVE  /\ UNCHANGED <<reply, epoch>>
               /\ r # q => UNCHANGED <<call[q], answer[q], pc[q]>>
               /\ r = q => /\ call'[q] # NoCall /\ pc[q] = "idle"
                           /\ \/ pc'[q] = "waiting" /\ answer' = answer
                              \/ /\ pc'[q] = "answered"
                                 /\ answer'[q].status # 0 /\ answer'[q].epoch = epoch
    BY <1>1, ComesIn DEF NoCall, None, Writes
  <1>2. ASSUME NEW r \in Requests, Ends(r)
        PROVE  /\ UNCHANGED <<call, reply, epoch>>
               /\ r # q => UNCHANGED <<answer[q], pc[q]>>
               /\ r = q => /\ pc[q] = "waiting" /\ pc'[q] = "answered"
                           /\ answer'[q].status # 0 /\ answer'[q].epoch = epoch
    BY <1>2, EndsWakes, EndsAnswers, Waking DEF TypeOK, CallsTypeOK
  <1>3. ASSUME NEW r \in Requests, Service(r)
        PROVE  /\ UNCHANGED <<call, answer, pc, epoch>>
               /\ r # q => UNCHANGED reply[q]
               /\ r = q => svc'[q] = "executed"
    BY <1>3, ServiceServes
  <1>4. ASSUME Restart
        PROVE  /\ UNCHANGED <<call, reply, answer>>
               /\ epoch' = epoch + 1
               /\ pc'[q] = pc[q] \/ (pc[q] = "waiting" /\ pc'[q] = "lost")
    BY <1>4 DEF Restart, Crashes
  <1>5. ASSUME UNCHANGED vars
        PROVE  UNCHANGED <<call, reply, answer, pc, epoch>>
    BY <1>5 DEF vars, serviceVars, callVars
  <1> QED
    BY <1>0, <1>a, <1>1, <1>2, <1>3, <1>4, <1>5, Steps DEF StageInv

-----------------------------------------------------------------------------
(* How records change. *)

\* What appending a photo does to a record, and that it does nothing else.
LEMMA WithPhotoIs ==
    ASSUME NEW record \in Record, NEW photo \in Photo
    PROVE  /\ Len(record.photos) \in Nat
           /\ DOMAIN record.photos = 1..Len(record.photos)
           /\ DOMAIN WithPhoto(record, photo).photos = 1..Len(record.photos) + 1
           /\ \A i \in 1..Len(record.photos) :
                 /\ record.photos[i] \in Photo
                 /\ WithPhoto(record, photo).photos[i] = record.photos[i]
           /\ WithPhoto(record, photo).photos[Len(record.photos) + 1] = photo
           /\ WithPhoto(record, photo).started = record.started
           /\ WithPhoto(record, photo).completed = record.completed
           /\ WithPhoto(record, photo).valid = record.valid
           /\ WithPhoto(record, photo).status = IF record = NoRecord THEN "" ELSE record.status
  <1>1. record.photos \in Seq(Photo)
    BY DEF Record
  <1>2. WithPhoto(record, photo).photos = Append(record.photos, photo)
    BY DEF WithPhoto, Record
  <1>3. /\ Append(record.photos, photo) \in Seq(Photo)
        /\ Len(Append(record.photos, photo)) = Len(record.photos) + 1
        /\ \A i \in 1..Len(record.photos) : Append(record.photos, photo)[i] = record.photos[i]
        /\ Append(record.photos, photo)[Len(record.photos) + 1] = photo
    BY <1>1, AppendProperties
  <1>4. \A i \in 1..Len(record.photos) : record.photos[i] \in Photo
    BY <1>1
  <1>5. /\ Len(record.photos) \in Nat
        /\ DOMAIN record.photos = 1..Len(record.photos)
    BY <1>1
  <1>6. DOMAIN Append(record.photos, photo) = 1..Len(record.photos) + 1
    BY <1>3
  <1>7. /\ WithPhoto(record, photo).started = record.started
        /\ WithPhoto(record, photo).completed = record.completed
        /\ WithPhoto(record, photo).valid = record.valid
        /\ WithPhoto(record, photo).status = IF record = NoRecord THEN "" ELSE record.status
    BY DEF WithPhoto, Record
  <1> QED
    BY <1>2, <1>3, <1>4, <1>5, <1>6, <1>7

\* The reply to a start or to a completion is kept.
KeepsReply(r, record) ==
    /\ call[r].op \in {"start", "complete"}
    /\ svc[r] = "executed" /\ seen'[r] = "OK"
    /\ record = reply[r].record /\ record # NoRecord

\* A record of the gateway's own is kept.
KeepsOwn(r, record) ==
    /\ seen'[r] \in MOCKABLE_DOWNSTREAM_GAP_CODES
    /\ \/ call[r].op = "start" /\ record = OwnStart(r)
       \/ call[r].op = "complete" /\ record = Completed(records[call[r].order], r)

\* A photo is kept.
KeepsPhoto(r, photo, record) ==
    /\ call[r].op = "photo"
    /\ record = WithPhoto(records[call[r].order], photo)
    /\ \/ photo = OwnPhoto(r) /\ seen'[r] \in MOCKABLE_DOWNSTREAM_GAP_CODES
       \/ /\ reply[r].photo # <<>> /\ photo = reply[r].photo[1]
          /\ svc[r] = "executed" /\ seen'[r] = "OK"

Keeps(r, record) ==
    \/ KeepsReply(r, record)
    \/ KeepsOwn(r, record)
    \/ \E photo \in Photo : KeepsPhoto(r, photo, record)

\* What the await of r ends with.
LEMMA Outcome ==
    ASSUME TypeOK, NEW r \in Requests
    PROVE  /\ Returns(r) => svc[r] = "executed" /\ seen'[r] = "OK"
           /\ \A status \in FailureCodes :
                 Raises(r, status) /\ FallsBackOn(status) =>
                     seen'[r] \in MOCKABLE_DOWNSTREAM_GAP_CODES
  <1>1. Returns(r) => svc[r] = "executed" /\ seen'[r] = "OK"
    BY DEF Returns, TypeOK, CallsTypeOK
  <1>2. ASSUME NEW status \in FailureCodes, Raises(r, status), FallsBackOn(status)
        PROVE  seen'[r] \in MOCKABLE_DOWNSTREAM_GAP_CODES
    <2>1. seen'[r] = status
      BY <1>2 DEF Raises, Refused, OutOfReach, TypeOK, CallsTypeOK
    <2> QED
      BY <1>2, <2>1, Failures DEF FallsBackOn
  <1> QED
    BY <1>1, <1>2

\* A kept record changes only when the process restarts, or when the call of a write on
\* its order ends, in one of these ways.
LEMMA KeptHow ==
    ASSUME TypeOK, [Next]_vars, NEW o \in Orders
    PROVE  \/ records'[o] = records[o]
           \/ Restart /\ records'[o] = NoRecord
           \/ \E r \in Requests :
                 Ends(r) /\ call[r].order = o /\ Keeps(r, records'[o])
  <1>1. ASSUME NEW r \in Requests, Ends(r), records'[o] # records[o]
        PROVE  call[r].order = o /\ Keeps(r, records'[o])
    <2>a. \A p, record : records' = Put(p, record) => p = o /\ record = records'[o]
      BY <1>1 DEF Put, TypeOK
    <2>1. CASE StartReturns(r) \/ CompleteReturns(r)
      BY <1>1, <2>1, <2>a, Outcome DEF StartReturns, CompleteReturns, Keeps, KeepsReply
    <2>2. CASE PhotoReturns(r)
      <3>1. /\ reply[r].photo # <<>>
            /\ records' = Put(call[r].order,
                              WithPhoto(records[call[r].order], reply[r].photo[1]))
        BY <1>1, <2>2 DEF PhotoReturns, Breaks
      <3>2. reply[r].photo[1] \in Photo
        BY <3>1 DEF TypeOK, Reply
      <3> QED
        BY <2>2, <2>a, <3>1, <3>2, Outcome DEF PhotoReturns, Keeps, KeepsPhoto, Breaks
    <2>3. CASE GetReturns(r)
      BY <1>1, <2>3 DEF GetReturns
    <2>4. ASSUME NEW status \in FailureCodes, StartRaises(r, status) \/ CompleteRaises(r, status)
          PROVE  call[r].order = o /\ Keeps(r, records'[o])
      BY <1>1, <2>4, <2>a, Outcome DEF StartRaises, CompleteRaises, Keeps, KeepsOwn, Breaks
    <2>5. ASSUME NEW status \in FailureCodes, PhotoRaises(r, status)
          PROVE  call[r].order = o /\ Keeps(r, records'[o])
      BY <1>1, <2>5, <2>a, Outcome, RecordTypes DEF PhotoRaises, Keeps, KeepsPhoto, Breaks
    <2>6. ASSUME NEW status \in FailureCodes, GetRaises(r, status)
          PROVE  call[r].order = o /\ Keeps(r, records'[o])
      BY <1>1, <2>6 DEF GetRaises
    <2> QED
      BY <1>1, <2>1, <2>2, <2>3, <2>4, <2>5, <2>6 DEF Ends
  <1>2. ASSUME NEW r \in Requests, Comes(r) PROVE records' = records
    BY <1>2, ComesIn
  <1>3. ASSUME NEW r \in Requests, Service(r) PROVE records' = records
    BY <1>3, ServiceServes
  <1>4. CASE Restart
    BY <1>4 DEF Restart
  <1>5. CASE UNCHANGED vars
    BY <1>5 DEF vars, serviceVars
  <1> QED
    BY <1>1, <1>2, <1>3, <1>4, <1>5, Steps

-----------------------------------------------------------------------------
(* Every mark is backed, and every status fits. *)

\* The marks of a record are made by requests.
LEMMA MarkTypes ==
    ASSUME NEW record \in Record
    PROVE  /\ record.started # None => record.started \in Requests
           /\ record.completed # None => record.completed \in Requests
           /\ \A i \in DOMAIN record.photos :
                 record.photos[i] \in Photo /\ record.photos[i].of \in Requests
  <1>1. record.photos \in Seq(Photo)
    BY DEF Record
  <1>2. \A i \in DOMAIN record.photos : record.photos[i] \in Photo
    BY <1>1
  <1> QED
    BY <1>2 DEF Record, Token, Photo

\* A record that is backed stays so.
LEMMA BackedStays ==
    ASSUME TypeOK, LifeInv, StageInv, [Next]_vars,
           NEW record \in Record, NEW o \in Orders, Backed(record, o)
    PROVE  Backed(record, o)'
  <1> USE MarkTypes DEF Backed
  <1>1. record.started # None => Effective(record.started, "start", o)'
    BY EffectiveStays DEF Writes
  <1>2. record.completed # None => Effective(record.completed, "complete", o)'
    BY EffectiveStays DEF Writes
  <1>3. ASSUME NEW i \in DOMAIN record.photos
        PROVE  /\ Effective(record.photos[i].of, "photo", o)'
               /\ record.photos[i].own =>
                     seen'[record.photos[i].of] \in MOCKABLE_DOWNSTREAM_GAP_CODES
    <2>1. record.photos[i].of \in Requests /\ Effective(record.photos[i].of, "photo", o)
      BY <1>3
    <2>2. record.photos[i].own =>
             seen[record.photos[i].of] \in MOCKABLE_DOWNSTREAM_GAP_CODES
      BY <1>3
    <2> QED
      BY <2>1, <2>2, EffectiveStays DEF Writes
  <1> QED
    BY <1>1, <1>2, <1>3

\* So does one that has each photo once.
LEMMA EachPhotoStays ==
    ASSUME TypeOK, LifeInv, [Next]_vars, NEW record \in Record, EachPhotoOnce(record)
    PROVE  EachPhotoOnce(record)'
  BY MarkTypes, StepOfCalls, LifeGoesOn DEF EachPhotoOnce, TypeOK

\* A photo fits any record that fits.
LEMMA FitsWithPhoto ==
    ASSUME NEW record \in Record, NEW photo \in Photo, Fits(record)
    PROVE  Fits(WithPhoto(record, photo))
  <1> DEFINE new == WithPhoto(record, photo)
             n == Len(record.photos)
  <1>0. /\ n \in Nat /\ DOMAIN new.photos = 1..n + 1
        /\ new.started = record.started /\ new.completed = record.completed
        /\ new.status = IF record = NoRecord THEN "" ELSE record.status
    BY WithPhotoIs
  <1> HIDE DEF new, n
  <1>1. new.photos # <<>>
    <2>1. n + 1 \in 1..n + 1 /\ DOMAIN new.photos = 1..n + 1
      <3>1. n \in Nat /\ DOMAIN new.photos = 1..n + 1
        BY <1>0
      <3> QED
        BY <3>1
    <2>2. DOMAIN <<>> = {}
      OBVIOUS
    <2> QED
      BY <2>1, <2>2
  <1>2. CASE record = NoRecord
    <2>1. record.started = None /\ record.completed = None
      BY <1>2 DEF NoRecord
    <2> QED
      BY <1>0, <1>1, <1>2, <2>1 DEF Fits, None, new
  <1>3. CASE record # NoRecord
    BY <1>0, <1>1, <1>3 DEF Fits, None, new
  <1> QED
    BY <1>2, <1>3

\* A photo that took effect, and that the record does not have yet if it is the
\* gateway's own, can be appended.
LEMMA BackedWithPhoto ==
    ASSUME NEW record \in Record, NEW photo \in Photo, NEW o \in Orders,
           Backed(record, o)', Effective(photo.of, "photo", o)',
           photo.own =>
               /\ seen'[photo.of] \in MOCKABLE_DOWNSTREAM_GAP_CODES
               /\ \A i \in DOMAIN record.photos : record.photos[i] # photo
    PROVE  Backed(WithPhoto(record, photo), o)'
  <1> DEFINE new == WithPhoto(record, photo)
             n == Len(record.photos)
  <1>0. /\ n \in Nat /\ DOMAIN record.photos = 1..n /\ DOMAIN new.photos = 1..n + 1
        /\ \A i \in 1..n : new.photos[i] = record.photos[i]
        /\ new.photos[n + 1] = photo
        /\ new.started = record.started /\ new.completed = record.completed
    BY WithPhotoIs
  <1> HIDE DEF new, n
  <1>1. \A i \in 1..n + 1 : i \in 1..n \/ i = n + 1
    BY <1>0
  <1>2. ASSUME NEW i \in 1..n + 1
        PROVE  /\ Effective(new.photos[i].of, "photo", o)'
               /\ new.photos[i].own =>
                     /\ seen'[new.photos[i].of] \in MOCKABLE_DOWNSTREAM_GAP_CODES
                     /\ \A j \in 1..n + 1 : new.photos[j] = new.photos[i] => i = j
    <2>1. CASE i \in 1..n
      BY <2>1, <1>0, <1>1 DEF Backed
    <2>2. CASE i = n + 1
      BY <2>2, <1>0, <1>1
    <2> QED
      BY <1>1, <2>1, <2>2
  <1>3. Backed(new, o)'
    BY <1>0, <1>2 DEF Backed
  <1> QED
    BY <1>3 DEF new

\* What the service makes of a record when it executes the call of r.
Served(r, old, new) ==
    \/ /\ call[r].op = "start" /\ old.status # "COMPLETE"
       /\ new = [old EXCEPT !.status = "IN_SERVICE", !.started = r]
    \/ /\ call[r].op = "complete" /\ old.status # "COMPLETE"
       /\ new = [old EXCEPT !.status = "COMPLETE", !.completed = r]
    \/ /\ call[r].op = "photo"
       /\ new = WithPhoto(old, [of |-> r, own |-> FALSE, valid |-> TRUE])

\* A record that is backed, fits and has each photo once: what the service keeps.
Sound(record, o) == Backed(record, o) /\ Fits(record) /\ EachPhotoOnce(record)

\* No record is sound, now and then.
LEMMA NoRecordIsSound ==
    ASSUME NEW o
    PROVE  Sound(NoRecord, o) /\ Sound(NoRecord, o)'
  BY DEF Sound, Backed, Fits, EachPhotoOnce, NoRecord, None

\* A sound record stays so.
LEMMA SoundStays ==
    ASSUME TypeOK, LifeInv, StageInv, [Next]_vars,
           NEW record \in Record, NEW o \in Orders, Sound(record, o)
    PROVE  Sound(record, o)'
  BY BackedStays, EachPhotoStays DEF Sound, Fits

\* So is a sound record when the service has executed one more call on its order.
LEMMA ServedIsSound ==
    ASSUME TypeOK, LifeInv, StageInv, [Next]_vars, NEW r \in Requests, Service(r),
           NEW o \in Orders, call[r].order = o,
           NEW old \in Record, NEW new \in Record, Sound(old, o), Served(r, old, new)
    PROVE  Sound(new, o)' /\ new.status # None
  <1>0. /\ svc[r] = "pending" /\ svc'[r] = "executed" /\ call' = call
        /\ seen' = seen
    BY ServiceServes
  <1>1. Sound(old, o)'
    BY <1>0, SoundStays
  <1>2. \A op \in Writes : call[r].op = op => Effective(r, op, o)'
    BY <1>0 DEF Effective
  <1>3. CASE call[r].op \in {"start", "complete"}
    <2>1. /\ old.status # "COMPLETE" /\ new.photos = old.photos
          /\ \/ /\ call[r].op = "start" /\ new.status = "IN_SERVICE" /\ new.started = r
                /\ new.completed = old.completed
             \/ /\ call[r].op = "complete" /\ new.status = "COMPLETE" /\ new.completed = r
                /\ new.started = old.started
      BY <1>3 DEF Served, Record
    <2>2. Backed(new, o)'
      BY <1>1, <1>2, <2>1 DEF Sound, Backed, Writes
    <2>3. Fits(new)
      BY <2>1, ServiceExecutionAssumption DEF Sound, Fits, None
    <2>4. EachPhotoOnce(new)'
      BY <1>1, <2>1 DEF Sound, EachPhotoOnce
    <2> QED
      BY <2>1, <2>2, <2>3, <2>4 DEF Sound, Fits, None
  <1>4. CASE call[r].op = "photo"
    <2> DEFINE photo == [of |-> r, own |-> FALSE, valid |-> TRUE]
               n == Len(old.photos)
    <2>0. photo \in Photo /\ photo.of = r /\ ~photo.own
      BY DEF Photo
    <2>1. new = WithPhoto(old, photo)
      BY <1>4 DEF Served
    <2> HIDE DEF photo
    <2>2. /\ n \in Nat /\ DOMAIN old.photos = 1..n /\ DOMAIN new.photos = 1..n + 1
          /\ \A i \in 1..n : new.photos[i] = old.photos[i]
          /\ new.photos[n + 1] = photo
          /\ new.status = IF old = NoRecord THEN "" ELSE old.status
      BY <2>0, <2>1, WithPhotoIs
    <2> HIDE DEF n
    <2>3. \A i \in 1..n + 1 : i \in 1..n \/ i = n + 1
      <3>1. n \in Nat
        BY <2>2
      <3> QED
        BY <3>1
    <2>4. \A i \in 1..n : old.photos[i].of # r
      BY <1>0, <2>2 DEF Sound, EachPhotoOnce
    <2>5. Backed(new, o)'
      BY <1>0, <1>1, <1>2, <1>4, <2>0, <2>1, BackedWithPhoto DEF Sound, Writes
    <2>6. Fits(new)
      BY <2>0, <2>1, FitsWithPhoto DEF Sound
    <2>7. EachPhotoOnce(new)'
      <3>1. ASSUME NEW i \in 1..n + 1
            PROVE  ~new.photos[i].own /\ svc'[new.photos[i].of] = "executed"
        <4>1. CASE i \in 1..n
          <5>1. i \in DOMAIN old.photos /\ new.photos[i] = old.photos[i]
            BY <4>1, <2>2
          <5> QED
            BY <5>1, <1>1 DEF Sound, EachPhotoOnce
        <4>2. CASE i = n + 1
          BY <4>2, <1>0, <2>0, <2>2
        <4> QED
          BY <2>3, <4>1, <4>2
      <3>2. ASSUME NEW i \in 1..n + 1, NEW j \in 1..n + 1,
                   new.photos[i].of = new.photos[j].of
            PROVE  i = j
        <4>1. CASE i \in 1..n /\ j \in 1..n
          BY <3>2, <4>1, <2>2 DEF Sound, EachPhotoOnce
        <4>2. CASE i = n + 1 \/ j = n + 1
          BY <3>2, <4>2, <2>0, <2>2, <2>3, <2>4
        <4> QED
          BY <2>3, <4>1, <4>2
      <3> QED
        BY <2>2, <3>1, <3>2 DEF EachPhotoOnce
    <2>8. new.status # None
      BY <2>2 DEF Sound, Fits, None
    <2> QED
      BY <2>5, <2>6, <2>7, <2>8 DEF Sound
  <1> QED
    BY <1>3, <1>4 DEF Served

\* How the service serves a call: what it keeps, and what it replies with.
LEMMA ServedHow ==
    ASSUME TypeOK, StageInv, NEW r \in Requests, Service(r),
           NEW o \in Orders, call[r].order = o
    PROVE  /\ reply[r] = NoReply
           /\ \/ /\ call[r].op \in {"start", "complete"}
                 /\ Served(r, archive[o], archive'[o])
                 /\ reply'[r].photo = <<>>
                 /\ reply'[r].record \in
                       {archive'[o], [archive'[o] EXCEPT !.valid = FALSE], NoRecord}
              \/ /\ call[r].op = "photo"
                 /\ Served(r, archive[o], archive'[o])
                 /\ reply'[r].record = NoRecord
                 /\ \/ reply'[r].photo = <<>>
                    \/ /\ Len(reply'[r].photo) = 1
                       /\ reply'[r].photo[1].of = r /\ ~reply'[r].photo[1].own
              \/ /\ call[r].op = "get"
                 /\ archive' = archive
                 /\ reply'[r].photo = <<>>
                 /\ reply'[r].record = archive[o]
  <1>0. /\ archive \in [Orders -> Record] /\ reply \in [Requests -> Reply]
        /\ reply[r] \in Reply
    BY DEF TypeOK
  <1>1. reply[r] = NoReply /\ reply[r].record = NoRecord /\ reply[r].photo = <<>>
    <2>1. svc[r] # "executed"
      BY ServiceServes
    <2> QED
      BY <2>1 DEF StageInv, NoReply
  <1>2. CASE ServesProgress(r)
    <2> DEFINE record == IF call[r].op = "start"
                         THEN [archive[o] EXCEPT !.status = "IN_SERVICE", !.started = r]
                         ELSE [archive[o] EXCEPT !.status = "COMPLETE", !.completed = r]
    <2>1. /\ call[r].op \in {"start", "complete"}
          /\ archive[o].status # "COMPLETE"
          /\ archive' = [archive EXCEPT ![o] = record]
          /\ \E shown \in {record, [record EXCEPT !.valid = FALSE], NoRecord} :
                reply' = [reply EXCEPT ![r].record = shown]
      BY <1>2 DEF ServesProgress
    <2>2. Served(r, archive[o], record)
      BY <2>1 DEF Served
    <2> HIDE DEF record
    <2>3. archive'[o] = record
      BY <1>0, <2>1
    <2>4. PICK shown \in {record, [record EXCEPT !.valid = FALSE], NoRecord} :
            reply' = [reply EXCEPT ![r].record = shown]
      BY <2>1
    <2>5. reply'[r].record = shown /\ reply'[r].photo = reply[r].photo
      BY <2>4, <1>0 DEF Reply
    <2> QED
      BY <1>1, <2>1, <2>2, <2>3, <2>4, <2>5
  <1>3. CASE ServesPhoto(r)
    <2> DEFINE photo == [of |-> r, own |-> FALSE, valid |-> TRUE]
    <2>1. /\ call[r].op = "photo"
          /\ archive' = [archive EXCEPT ![o] = WithPhoto(@, photo)]
          /\ \E shown \in {<<photo>>, <<[photo EXCEPT !.valid = FALSE]>>, <<>>} :
                reply' = [reply EXCEPT ![r].photo = shown]
      BY <1>3 DEF ServesPhoto
    <2>2. Served(r, archive[o], archive'[o])
      BY <1>0, <2>1 DEF Served
    <2>3. PICK shown \in {<<photo>>, <<[photo EXCEPT !.valid = FALSE]>>, <<>>} :
            reply' = [reply EXCEPT ![r].photo = shown]
      BY <2>1
    <2>4. reply'[r].photo = shown /\ reply'[r].record = reply[r].record
      BY <2>3, <1>0 DEF Reply
    <2>5. shown = <<>> \/ (Len(shown) = 1 /\ shown[1].of = r /\ ~shown[1].own)
      BY <2>3
    <2> QED
      BY <1>1, <2>1, <2>2, <2>4, <2>5
  <1>4. CASE ServesGet(r)
    <2>1. /\ call[r].op = "get" /\ archive' = archive
          /\ reply' = [reply EXCEPT ![r].record = archive[o]]
      BY <1>4 DEF ServesGet
    <2>2. reply'[r].record = archive[o] /\ reply'[r].photo = reply[r].photo
      BY <2>1, <1>0 DEF Reply
    <2> QED
      BY <1>1, <2>1, <2>2
  <1> QED
    BY <1>2, <1>3, <1>4 DEF Service

\* What the service holds is sound.
LEMMA ArchiveStep ==
    TypeOK /\ LifeInv /\ StageInv /\ ArchiveInv /\ [Next]_vars => ArchiveInv'
  <1> SUFFICES ASSUME TypeOK, LifeInv, StageInv, ArchiveInv, [Next]_vars, NEW o \in Orders
               PROVE  (Backed(archive[o], o) /\ Fits(archive[o]) /\ EachPhotoOnce(archive[o]))'
    BY DEF ArchiveInv
  <1>0. archive[o] \in Record /\ archive'[o] \in Record
    BY TypeStep DEF TypeOK
  <1>a. PICK old \in Record : old = archive[o]
    BY <1>0
  <1>b. PICK new \in Record : new = archive'[o]
    BY <1>0
  <1> SUFFICES Sound(new, o)'
    <2> SUFFICES ASSUME Sound(new, o)'
                 PROVE  (Backed(archive[o], o) /\ Fits(archive[o]) /\ EachPhotoOnce(archive[o]))'
      OBVIOUS
    <2>1. Backed(archive[o], o)'
      BY <1>b DEF Sound, Backed, Effective
    <2>2. Fits(archive[o])'
      BY <1>b DEF Sound, Fits
    <2>3. EachPhotoOnce(archive[o])'
      BY <1>b DEF Sound, EachPhotoOnce
    <2> QED
      BY <2>1, <2>2, <2>3
  <1>1. Sound(old, o)
    BY <1>a DEF ArchiveInv, Sound
  <1>2. CASE new = old
    BY <1>1, <1>2, SoundStays
  <1>3. ASSUME NEW r \in Requests, Service(r), new # old PROVE Sound(new, o)'
    <2>1. call[r].order = o
      BY <1>3, <1>a, <1>b, ServiceServes
    <2>2. Served(r, old, new)
      BY <1>3, <1>a, <1>b, <2>1, ServedHow
    <2> QED
      BY <1>1, <1>3, <2>1, <2>2, ServedIsSound
  <1>4. ASSUME NEW r \in Requests, Comes(r) \/ Ends(r) PROVE new = old
    BY <1>4, <1>a, <1>b, ComesIn, EndsWakes
  <1>5. CASE Restart
    BY <1>2, <1>5, <1>a, <1>b DEF Restart
  <1>6. CASE UNCHANGED vars
    BY <1>2, <1>6, <1>a, <1>b DEF vars, serviceVars
  <1> QED
    BY <1>2, <1>3, <1>4, <1>5, <1>6, Steps

\* A sound record that does not fit the model of the gateway is as sound.
LEMMA InvalidIsSound ==
    ASSUME NEW record \in Record, NEW o, Sound(record, o)', record.status # None
    PROVE  Sound([record EXCEPT !.valid = FALSE], o)'
  <1> DEFINE new == [record EXCEPT !.valid = FALSE]
  <1>1. /\ new.status = record.status /\ new.started = record.started
        /\ new.completed = record.completed /\ new.photos = record.photos
    BY DEF Record
  <1> HIDE DEF new
  <1>2. Backed(new, o)'
    BY <1>1 DEF Sound, Backed
  <1>3. Fits(new)
    BY <1>1 DEF Sound, Fits
  <1>4. EachPhotoOnce(new)'
    BY <1>1 DEF Sound, EachPhotoOnce
  <1> QED
    BY <1>2, <1>3, <1>4 DEF Sound, new

\* The record of a reply, and the photo of a reply, are what the call brought.
ReplyMarks(r) ==
    /\ reply[r].record # NoRecord =>
          /\ call[r].op # "photo"
          /\ call[r].op = "start" => reply[r].record.started = r
          /\ call[r].op = "complete" => reply[r].record.completed = r
    /\ reply[r].photo # <<>> =>
          /\ call[r].op = "photo"
          /\ Len(reply[r].photo) = 1
          /\ reply[r].photo[1].of = r
          /\ ~reply[r].photo[1].own

\* What the service replies with is sound, and has the mark of its call.
LEMMA ReplyStep ==
    /\ TypeOK /\ LifeInv /\ StageInv /\ ArchiveInv /\ ReplyInv
    /\ [Next]_vars
    => ReplyInv'
  <1> SUFFICES ASSUME TypeOK, LifeInv, StageInv, ArchiveInv, ReplyInv, [Next]_vars,
                      NEW r \in Requests
               PROVE  /\ (Backed(reply[r].record, call[r].order) /\ Fits(reply[r].record)
                             /\ EachPhotoOnce(reply[r].record))'
                      /\ ReplyMarks(r)'
    BY DEF ReplyInv, ReplyMarks
  <1>0. /\ reply'[r].record \in Record /\ reply[r].record \in Record
        /\ archive \in [Orders -> Record] /\ archive' \in [Orders -> Record]
    BY TypeStep DEF TypeOK, Reply
  <1>a. PICK new \in Record : new = reply'[r].record
    BY <1>0
  <1>b. PICK o : o = call'[r].order
    OBVIOUS
  <1> SUFFICES Sound(new, o)' /\ ReplyMarks(r)'
    <2> SUFFICES ASSUME Sound(new, o)'
                 PROVE  (Backed(reply[r].record, call[r].order) /\ Fits(reply[r].record)
                             /\ EachPhotoOnce(reply[r].record))'
      OBVIOUS
    <2>1. Backed(reply[r].record, call[r].order)'
      BY <1>a, <1>b DEF Sound, Backed, Effective
    <2>2. Fits(reply[r].record)'
      BY <1>a DEF Sound, Fits
    <2>3. EachPhotoOnce(reply[r].record)'
      BY <1>a DEF Sound, EachPhotoOnce
    <2> QED
      BY <2>1, <2>2, <2>3
  <1>1. CASE reply'[r] = NoReply
    BY <1>1, <1>a, NoRecordIsSound DEF NoReply, ReplyMarks
  <1>2. CASE svc[r] = "executed"
    <2>1. pc[r] # "idle" /\ reply'[r] = reply[r] /\ call'[r] = call[r]
      BY <1>2, PastStays DEF LifeInv
    <2>2. o \in Orders
      BY <2>1, <1>b DEF StageInv, TypeOK, Call
    <2>3. Sound(new, o)
      BY <2>1, <1>a, <1>b DEF ReplyInv, Sound
    <2>4. ReplyMarks(r)'
      BY <2>1 DEF ReplyInv, ReplyMarks
    <2> QED
      BY <2>2, <2>3, <2>4, SoundStays
  <1>3. CASE svc[r] # "executed" /\ reply'[r] # NoReply
    <2>1. Service(r)
      <3>1. reply[r] = NoReply
        BY <1>3 DEF StageInv
      <3>2. reply'[r] # reply[r]
        BY <1>3, <3>1
      <3>3. ASSUME NEW q \in Requests, Comes(q) PROVE reply' = reply
        BY <3>3, ComesIn
      <3>4. ASSUME NEW q \in Requests, Ends(q) PROVE reply' = reply
        BY <3>4, EndsWakes
      <3>5. ASSUME NEW q \in Requests, Service(q), q # r PROVE reply'[r] = reply[r]
        BY <3>5, ServiceServes
      <3> QED
        BY <3>2, <3>3, <3>4, <3>5, Steps DEF Restart, vars, serviceVars
    <2>2. call'[r] = call[r] /\ call[r].order = o /\ o \in Orders
      BY <2>1, <1>b, ServiceServes
    <2>3. PICK old \in Record : old = archive[o]
      BY <2>2, <1>0
    <2>4. PICK kept \in Record : kept = archive'[o]
      BY <2>2, <1>0
    <2>5. Sound(old, o)
      BY <2>2, <2>3 DEF ArchiveInv, Sound
    <2>6. ASSUME Served(r, old, kept) PROVE Sound(kept, o)' /\ kept.status # None
      BY <2>1, <2>2, <2>5, <2>6, ServedIsSound
    <2>7. CASE /\ call[r].op \in {"start", "complete"}
               /\ Served(r, old, kept)
               /\ reply'[r].photo = <<>>
               /\ new \in {kept, [kept EXCEPT !.valid = FALSE], NoRecord}
      <3>1. Sound(new, o)'
        BY <2>6, <2>7, InvalidIsSound, NoRecordIsSound
      <3>2. /\ call[r].op = "start" => kept.started = r
            /\ call[r].op = "complete" => kept.completed = r
        BY <2>7 DEF Served, Record
      <3>3. /\ call[r].op = "start" => new = NoRecord \/ new.started = r
            /\ call[r].op = "complete" => new = NoRecord \/ new.completed = r
        BY <2>7, <3>2 DEF Record
      <3> QED
        BY <3>1, <3>3, <2>2, <2>7, <1>a DEF ReplyMarks
    <2>8. CASE /\ call[r].op = "photo"
               /\ new = NoRecord
               /\ \/ reply'[r].photo = <<>>
                  \/ /\ Len(reply'[r].photo) = 1
                     /\ reply'[r].photo[1].of = r /\ ~reply'[r].photo[1].own
      BY <2>2, <2>8, <1>a, NoRecordIsSound DEF ReplyMarks
    <2>9. CASE /\ call[r].op = "get"
               /\ reply'[r].photo = <<>>
               /\ new = old
      BY <2>2, <2>5, <2>9, <1>a, SoundStays DEF ReplyMarks
    <2> QED
      BY <2>1, <2>2, <2>3, <2>4, <2>7, <2>8, <2>9, <1>a, ServedHow
  <1> QED
    BY <1>1, <1>2, <1>3

\* A record that the end of a call leaves behind is backed and fits.
LEMMA KeptIsBacked ==
    ASSUME TypeOK, LifeInv, StageInv, ReplyInv, [Next]_vars,
           NEW r \in Requests, Ends(r), NEW o \in Orders, call[r].order = o,
           NEW old \in Record, NEW new \in Record, old = records[o], Keeps(r, new),
           Backed(old, o), Fits(old)
    PROVE  Backed(new, o)' /\ Fits(new)
  <1>0. /\ pc[r] = "waiting" /\ call' = call /\ r # None
        /\ Backed(old, o)'
    BY EndsWakes, Waking, BackedStays, ServiceExecutionAssumption DEF TypeOK
  <1>1. CASE KeepsReply(r, new)
    <2>1. Backed(new, o) /\ Fits(new)
      BY <1>1 DEF KeepsReply, ReplyInv
    <2> QED
      BY <2>1, BackedStays
  <1>2. CASE KeepsOwn(r, new)
    <2>1. \A op \in Writes : call[r].op = op => Effective(r, op, o)'
      BY <1>0, <1>2 DEF KeepsOwn, Effective
    <2>2. CASE call[r].op = "start" /\ new = OwnStart(r)
      <3>1. /\ new.status = "IN_SERVICE" /\ new.completed = None /\ new.started = r
            /\ DOMAIN new.photos = {}
        BY <2>2 DEF OwnStart
      <3>2. Backed(new, o)'
        BY <2>1, <2>2, <3>1 DEF Backed, Writes
      <3>3. Fits(new)
        BY <3>1, <1>0 DEF Fits, None
      <3> QED
        BY <3>2, <3>3
    <2>3. CASE call[r].op = "complete" /\ new = Completed(old, r)
      <3>1. /\ new.status = "COMPLETE" /\ new.completed = r /\ new.started = old.started
            /\ new.photos = old.photos
        BY <2>3 DEF Completed, Record
      <3>2. Backed(new, o)'
        BY <2>1, <2>3, <3>1, <1>0 DEF Backed, Writes
      <3>3. Fits(new)
        BY <3>1, <1>0 DEF Fits, None
      <3> QED
        BY <3>2, <3>3
    <2> QED
      BY <1>2, <2>2, <2>3 DEF KeepsOwn
  <1>3. ASSUME NEW photo \in Photo, KeepsPhoto(r, photo, new)
        PROVE  Backed(new, o)' /\ Fits(new)
    <2>1. /\ new = WithPhoto(old, photo) /\ call[r].op = "photo" /\ photo.of = r
          /\ photo.own => seen'[r] \in MOCKABLE_DOWNSTREAM_GAP_CODES
          /\ svc[r] = "executed" \/ seen'[r] \in MOCKABLE_DOWNSTREAM_GAP_CODES
      <3>1. new = WithPhoto(old, photo) /\ call[r].op = "photo"
        BY <1>3 DEF KeepsPhoto
      <3>2. CASE photo = OwnPhoto(r) /\ seen'[r] \in MOCKABLE_DOWNSTREAM_GAP_CODES
        BY <3>1, <3>2 DEF OwnPhoto
      <3>3. CASE /\ reply[r].photo # <<>> /\ photo = reply[r].photo[1]
                 /\ svc[r] = "executed" /\ seen'[r] = "OK"
        BY <3>1, <3>3 DEF ReplyInv
      <3> QED
        BY <1>3, <3>2, <3>3 DEF KeepsPhoto
    <2>2. Effective(r, "photo", o)'
      <3>1. svc[r] = "executed" => svc'[r] = "executed"
        BY StepOfCalls, LifeGoesOn DEF TypeOK
      <3> QED
        BY <1>0, <2>1, <3>1 DEF Effective
    <2>3. ASSUME photo.own PROVE \A i \in DOMAIN old.photos : old.photos[i] # photo
      <3>1. seen[r] \notin MOCKABLE_DOWNSTREAM_GAP_CODES
        BY <1>0, Failures DEF LifeInv
      <3> QED
        BY <2>1, <2>3, <3>1 DEF Backed
    <2> QED
      BY <1>0, <2>1, <2>2, <2>3, BackedWithPhoto, FitsWithPhoto
  <1> QED
    BY <1>1, <1>2, <1>3 DEF Keeps

\* Kept records are backed and fit.
LEMMA StoreStep ==
    /\ TypeOK /\ LifeInv /\ StageInv /\ ReplyInv /\ StoreInv
    /\ [Next]_vars
    => StoreInv'
  <1> SUFFICES ASSUME TypeOK, LifeInv, StageInv, ReplyInv, StoreInv, [Next]_vars,
                      NEW o \in Orders
               PROVE  (Backed(records[o], o) /\ Fits(records[o]))'
    BY DEF StoreInv
  <1>0. records[o] \in Record /\ records'[o] \in Record
    BY TypeStep DEF TypeOK
  <1>a. PICK old \in Record : old = records[o]
    BY <1>0
  <1>b. PICK new \in Record : new = records'[o]
    BY <1>0
  <1> SUFFICES Backed(new, o)' /\ Fits(new)
    <2>1. Backed(new, o)' => Backed(records[o], o)'
      BY <1>b DEF Backed, Effective
    <2>2. Fits(new) => Fits(records[o])'
      BY <1>b DEF Fits
    <2> QED
      BY <2>1, <2>2
  <1>1. Backed(old, o) /\ Fits(old)
    BY <1>a DEF StoreInv
  <1>2. CASE new = old
    BY <1>1, <1>2, BackedStays
  <1>3. CASE new = NoRecord
    BY <1>3, NoRecordIsSound DEF Sound
  <1>4. ASSUME NEW r \in Requests, Ends(r), call[r].order = o, Keeps(r, new)
        PROVE  Backed(new, o)' /\ Fits(new)
    BY <1>1, <1>4, <1>a, KeptIsBacked
  <1> QED
    BY <1>2, <1>3, <1>4, <1>a, <1>b, KeptHow

\* What an answer tells: nothing, the invented record, the reply, or the record kept.
LEMMA AnsweredHow ==
    ASSUME TypeOK, [Next]_vars, NEW q \in Requests
    PROVE  \/ answer'[q] = answer[q]
           \/ answer'[q].record \in {NoRecord, Invented}
           \/ /\ Ends(q) /\ call'[q] = call[q] /\ svc[q] = "executed"
              /\ answer'[q].record = reply[q].record
           \/ /\ Comes(q) \/ Ends(q)
              /\ call'[q].order \in Orders
              /\ answer'[q].record = records'[call'[q].order]
  <1> USE DEF TypeOK, CallsTypeOK
  <1>0. \A status, record : Answers(q, status, record) => answer'[q].record = record
    BY DEF Answers
  <1>a. /\ \A record : Responds(q, record) => answer'[q].record \in {NoRecord, record}
        /\ \A status : Fails(q, status) => answer'[q].record = NoRecord
    BY <1>0 DEF Responds, Fails
  <1> DEFINE Told ==
        \/ answer'[q].record \in {NoRecord, Invented}
        \/ /\ Ends(q) /\ call'[q] = call[q] /\ svc[q] = "executed"
           /\ answer'[q].record = reply[q].record
        \/ /\ Comes(q) \/ Ends(q)
           /\ call'[q].order \in Orders
           /\ answer'[q].record = records'[call'[q].order]
  <1>1. CASE Comes(q)
    <2>1. PICK op \in Writes \cup {"get"}, o \in Orders :
            /\ Asks(q, op, o)
            /\ Answers(q, 422, NoRecord) \/ Responds(q, records[o]) \/ UNCHANGED answer
            /\ UNCHANGED <<reply, records, archive>>
      BY <1>1 DEF Comes, Write, GetRecord
    <2>2. call'[q].order = o
      BY <2>1 DEF Asks
    <2> QED
      BY <1>1, <2>1, <2>2, <1>0, <1>a
  <1>2. CASE Ends(q)
    <2>0. call' = call /\ call[q].order \in Orders
      <3>1. call[q].op \in Writes \cup {"get"}
        BY <1>2 DEF Ends, StartReturns, CompleteReturns, PhotoReturns, GetReturns,
                    StartRaises, CompleteRaises, PhotoRaises, GetRaises, Writes, Breaks
      <3> QED
        BY <3>1, <1>2, CallType, EndsWakes
    <2>1. ASSUME StartReturns(q) \/ CompleteReturns(q) \/ GetReturns(q) PROVE Told
      BY <2>1, <2>0, <1>2, <1>a, Outcome
         DEF StartReturns, CompleteReturns, GetReturns
    <2>2. ASSUME PhotoReturns(q) PROVE Told
      BY <2>2, <1>0 DEF PhotoReturns, Breaks
    <2>3. ASSUME NEW status \in FailureCodes, StartRaises(q, status) \/ CompleteRaises(q, status)
          PROVE  Told
      BY <2>3, <2>0, <1>2, <1>0, <1>a DEF StartRaises, CompleteRaises, Put, Breaks
    <2>4. ASSUME NEW status \in FailureCodes, PhotoRaises(q, status) PROVE Told
      BY <2>4, <1>0, <1>a DEF PhotoRaises, Breaks
    <2>5. ASSUME NEW status \in FailureCodes, GetRaises(q, status) PROVE Told
      BY <2>5, <2>0, <1>2, <1>a DEF GetRaises, FallbackRecord
    <2> QED
      BY <1>2, <2>1, <2>2, <2>3, <2>4, <2>5 DEF Ends
  <1>3. ASSUME NEW r \in Requests, r # q, Comes(r) \/ Ends(r) PROVE answer'[q] = answer[q]
    BY <1>3, ComesIn, EndsAnswers
  <1>4. ASSUME NEW r \in Requests, Service(r) PROVE answer' = answer
    BY <1>4, ServiceServes
  <1> QED
    BY <1>1, <1>2, <1>3, <1>4, Steps DEF Restart, vars, serviceVars

\* Kept and answered records are backed.
LEMMA MarksStep ==
    /\ TypeOK /\ LifeInv /\ StageInv /\ ReplyInv /\ StoreInv /\ EveryMarkIsBacked
    /\ [Next]_vars
    => EveryMarkIsBacked'
  <1> SUFFICES ASSUME TypeOK, LifeInv, StageInv, ReplyInv, StoreInv, EveryMarkIsBacked,
                      [Next]_vars
               PROVE  EveryMarkIsBacked'
    OBVIOUS
  <1>1. StoreInv'
    BY StoreStep
  <1>2. ASSUME NEW q \in Requests, answer'[q].record # NoRecord
        PROVE  Backed(answer[q].record, call[q].order)'
    <2>0. /\ answer[q].record \in Record /\ answer'[q].record \in Record
          /\ records' \in [Orders -> Record]
      BY TypeStep DEF TypeOK, Answer
    <2>a. PICK new \in Record : new = answer'[q].record
      BY <2>0
    <2>b. PICK o : o = call'[q].order
      OBVIOUS
    <2> SUFFICES Backed(new, o)'
      BY <2>a, <2>b DEF Backed, Effective
    <2>1. CASE answer'[q] = answer[q]
      <3>1. pc[q] = "answered"
        BY <1>2, <2>1 DEF StageInv
      <3>2. call'[q] = call[q] /\ o \in Orders
        BY <2>b, <3>1, PastStays DEF StageInv, TypeOK, Call
      <3>3. Backed(new, o)
        BY <1>2, <2>1, <2>a, <2>b, <3>2 DEF EveryMarkIsBacked
      <3> QED
        BY <3>2, <3>3, BackedStays
    <2>2. CASE new = Invented
      BY <2>2 DEF Invented, Backed, None
    <2>3. CASE Ends(q) /\ call'[q] = call[q] /\ new = reply[q].record
      <3>1. pc[q] = "waiting"
        BY <2>3, EndsWakes, Waking DEF TypeOK
      <3>2. o \in Orders
        BY <2>3, <2>b, <3>1 DEF StageInv, TypeOK, Call
      <3>3. Backed(new, o)
        BY <2>3, <2>b DEF ReplyInv
      <3> QED
        BY <3>2, <3>3, BackedStays
    <2>4. CASE o \in Orders /\ new = records'[o]
      <3>1. Backed(records[o], o)'
        BY <1>1, <2>4 DEF StoreInv
      <3> QED
        BY <3>1, <2>4 DEF Backed, Effective
    <2> QED
      BY <1>2, <2>1, <2>2, <2>3, <2>4, <2>a, <2>b, AnsweredHow
  <1> QED
    BY <1>1, <1>2 DEF EveryMarkIsBacked, StoreInv

-----------------------------------------------------------------------------
(* Photos that are kept twice. *)

\* AheadInv of the photos of one record.
Ahead(photos, o) ==
    \A i \in DOMAIN photos :
        pc[photos[i].of] # "answered" =>
            /\ \A k \in DOMAIN photos : photos[k].of = photos[i].of => k = i
            /\ ~photos[i].own
            /\ Brought(photos[i], o)

\* DoubledOnlyByOvertaking of the photos of one record.
Overtaken(photos, o) ==
    \A i, j \in DOMAIN photos :
        i < j /\ photos[i].of = photos[j].of =>
            /\ \A k \in DOMAIN photos : photos[k].of = photos[i].of => k \in {i, j}
            /\ ~photos[i].own
            /\ Brought(photos[i], o)

\* A photo that a reply brought was brought for good.
LEMMA BroughtStays ==
    ASSUME TypeOK, LifeInv, StageInv, [Next]_vars, NEW photo, NEW o, Brought(photo, o)
    PROVE  Brought(photo, o)'
  <1>1. PICK r \in Requests :
          /\ call[r].op \in {"start", "complete"} /\ call[r].order = o /\ seen[r] = "OK"
          /\ \E k \in DOMAIN reply[r].record.photos : reply[r].record.photos[k] = photo
    BY DEF Brought
  <1>2. pc[r] = "answered" /\ svc[r] = "executed"
    BY <1>1 DEF LifeInv
  <1>3. call'[r] = call[r] /\ reply'[r] = reply[r] /\ seen'[r] = seen[r]
    BY <1>2, PastStays, StepOfCalls, LifeGoesOn DEF TypeOK
  <1> QED
    BY <1>1, <1>3 DEF Brought

\* Photos that no step touches stay as they may be.
LEMMA PhotosStay ==
    ASSUME TypeOK, LifeInv, StageInv, [Next]_vars, NEW photos \in Seq(Photo), NEW o,
           Ahead(photos, o), Overtaken(photos, o)
    PROVE  Ahead(photos, o)' /\ Overtaken(photos, o)'
  <1>1. \A i \in DOMAIN photos : photos[i].of \in Requests
    <2>1. \A i \in DOMAIN photos : photos[i] \in Photo
      OBVIOUS
    <2> QED
      BY <2>1 DEF Photo
  <1>2. \A i \in DOMAIN photos :
          pc'[photos[i].of] # "answered" => pc[photos[i].of] # "answered"
    BY <1>1, StepOfCalls, LifeGoesOn DEF TypeOK
  <1>3. \A i \in DOMAIN photos : Brought(photos[i], o) => Brought(photos[i], o)'
    BY BroughtStays
  <1> QED
    BY <1>2, <1>3 DEF Ahead, Overtaken

\* No photos are as they may be.
LEMMA NoPhotos ==
    ASSUME NEW photos, NEW o, photos = <<>>
    PROVE  Ahead(photos, o)' /\ Overtaken(photos, o)'
  BY DEF Ahead, Overtaken

\* So are those that a reply brings, each once.
LEMMA BroughtPhotos ==
    ASSUME TypeOK, LifeInv, StageInv, ReplyInv, [Next]_vars, NEW r \in Requests, Ends(r),
           NEW record \in Record, KeepsReply(r, record)
    PROVE  /\ Ahead(record.photos, call[r].order)'
           /\ Overtaken(record.photos, call[r].order)'
  <1>1. call' = call /\ reply' = reply
    BY EndsWakes
  <1>2. PICK o : o = call[r].order
    OBVIOUS
  <1>3. ASSUME NEW i \in DOMAIN record.photos PROVE Brought(record.photos[i], o)'
    BY <1>1, <1>2 DEF KeepsReply, Brought
  <1>4. /\ \A i \in DOMAIN record.photos : ~record.photos[i].own
        /\ \A i, j \in DOMAIN record.photos : record.photos[i].of = record.photos[j].of => i = j
    BY DEF KeepsReply, ReplyInv, EachPhotoOnce
  <1>5. Ahead(record.photos, o)'
    BY <1>3, <1>4 DEF Ahead
  <1>6. Overtaken(record.photos, o)'
    <2>1. DOMAIN record.photos \subseteq Nat
      <3>1. record.photos \in Seq(Photo)
        BY DEF Record
      <3> QED
        BY <3>1
    <2>2. \A i, j \in DOMAIN record.photos :
            ~(i < j /\ record.photos[i].of = record.photos[j].of)
      BY <1>4, <2>1
    <2> QED
      BY <2>2 DEF Overtaken
  <1> QED
    BY <1>1, <1>2, <1>5, <1>6

\* And those to which the call of r, as it ends, adds its own.
LEMMA AddedPhoto ==
    ASSUME TypeOK, LifeInv, StageInv, [Next]_vars, NEW r \in Requests, Ends(r),
           NEW old \in Record, NEW o, Ahead(old.photos, o), Overtaken(old.photos, o),
           NEW photo \in Photo, photo.of = r
    PROVE  /\ Ahead(WithPhoto(old, photo).photos, o)'
           /\ Overtaken(WithPhoto(old, photo).photos, o)'
  <1> DEFINE n == Len(old.photos)
             before == old.photos
             after == WithPhoto(old, photo).photos
  <1>0. /\ DOMAIN before = 1..n /\ DOMAIN after = 1..n + 1
        /\ \A i \in 1..n : after[i] = before[i]
        /\ after[n + 1] = photo
    BY WithPhotoIs
  <1>1. n \in Nat /\ before \in Seq(Photo)
    <2>1. old.photos \in Seq(Photo)
      BY DEF Record
    <2> QED
      BY <2>1
  <1> HIDE DEF n, before, after
  <1>2. pc[r] = "waiting" /\ pc'[r] = "answered"
    BY EndsWakes, Waking DEF TypeOK, CallsTypeOK
  <1>3. Ahead(before, o)' /\ Overtaken(before, o)'
    BY <1>1, PhotosStay DEF before
  <1>4. \A i \in 1..n + 1 : i \in 1..n \/ i = n + 1
    BY <1>1
  <1>5. \A i \in 1..n : i \in 1..n + 1 /\ i < n + 1 /\ ~(n + 1 < i)
    BY <1>1
  <1>6. ASSUME NEW i \in 1..n, before[i].of = r
        PROVE  /\ \A k \in 1..n : before[k].of = r => k = i
               /\ ~before[i].own
               /\ Brought(before[i], o)'
    <2>1. Ahead(before, o)
      BY DEF before
    <2>2. Brought(before[i], o)
      BY <2>1, <1>0, <1>2, <1>6 DEF Ahead
    <2>3. Brought(before[i], o)'
      BY <2>2, BroughtStays
    <2> QED
      BY <2>1, <2>3, <1>0, <1>2, <1>6 DEF Ahead
  <1>7. Ahead(after, o)'
    <2> SUFFICES ASSUME NEW i \in 1..n + 1, pc'[after[i].of] # "answered"
                 PROVE  /\ \A k \in 1..n + 1 : after[k].of = after[i].of => k = i
                        /\ ~after[i].own
                        /\ Brought(after[i], o)'
      BY <1>0 DEF Ahead
    <2>1. i \in 1..n /\ after[i] = before[i] /\ after[i].of # r
      BY <1>0, <1>2, <1>4
    <2>2. /\ \A k \in 1..n : before[k].of = before[i].of => k = i
          /\ ~before[i].own
          /\ Brought(before[i], o)'
      BY <1>0, <1>3, <2>1 DEF Ahead
    <2> QED
      BY <1>0, <1>4, <2>1, <2>2
  <1>8. Overtaken(after, o)'
    <2> SUFFICES ASSUME NEW i \in 1..n + 1, NEW j \in 1..n + 1,
                        i < j, after[i].of = after[j].of
                 PROVE  /\ \A k \in 1..n + 1 : after[k].of = after[i].of => k \in {i, j}
                        /\ ~after[i].own
                        /\ Brought(after[i], o)'
      BY <1>0 DEF Overtaken
    <2>1. i \in 1..n /\ after[i] = before[i]
      BY <1>0, <1>4, <1>1
    <2>2. CASE j = n + 1
      BY <1>0, <1>4, <1>6, <2>1, <2>2
    <2>3. CASE j \in 1..n
      <3>1. after[j] = before[j]
        BY <1>0, <2>3
      <3>2. after[i].of # r
        BY <1>1, <1>6, <2>1, <2>3, <3>1
      <3>3. /\ \A k \in 1..n : before[k].of = before[i].of => k \in {i, j}
            /\ ~before[i].own
            /\ Brought(before[i], o)'
        BY <1>0, <1>3, <2>1, <2>3, <3>1 DEF Overtaken
      <3> QED
        BY <1>0, <1>4, <2>1, <3>2, <3>3
    <2> QED
      BY <1>4, <2>2, <2>3
  <1> QED
    BY <1>7, <1>8 DEF after

\* The photos of the store are as they may be.
LEMMA PhotosStep ==
    /\ TypeOK /\ LifeInv /\ StageInv /\ ReplyInv /\ AheadInv /\ DoubledOnlyByOvertaking
    /\ [Next]_vars
    => AheadInv' /\ DoubledOnlyByOvertaking'
  <1> SUFFICES ASSUME TypeOK, LifeInv, StageInv, ReplyInv, AheadInv, DoubledOnlyByOvertaking,
                      [Next]_vars, NEW o \in Orders
               PROVE  Ahead(records[o].photos, o)' /\ Overtaken(records[o].photos, o)'
    BY DEF AheadInv, DoubledOnlyByOvertaking, Ahead, Overtaken, Brought
  <1>0. records[o] \in Record /\ records'[o] \in Record
    BY TypeStep DEF TypeOK
  <1>a. PICK old \in Record : old = records[o]
    BY <1>0
  <1>b. PICK new \in Record : new = records'[o]
    BY <1>0
  <1> SUFFICES Ahead(new.photos, o)' /\ Overtaken(new.photos, o)'
    BY <1>b DEF Ahead, Overtaken, Brought
  <1>1. /\ old.photos \in Seq(Photo)
        /\ Ahead(old.photos, o) /\ Overtaken(old.photos, o)
    <2>1. old.photos \in Seq(Photo)
      BY DEF Record
    <2>2. Ahead(old.photos, o)
      BY <1>a DEF AheadInv, Ahead
    <2>3. Overtaken(old.photos, o)
      BY <1>a DEF DoubledOnlyByOvertaking, Overtaken, Brought
    <2> QED
      BY <2>1, <2>2, <2>3
  <1>2. CASE new.photos = old.photos
    BY <1>1, <1>2, PhotosStay
  <1>3. CASE new.photos = <<>>
    BY <1>3, NoPhotos
  <1>4. ASSUME NEW r \in Requests, Ends(r), call[r].order = o, Keeps(r, new)
        PROVE  Ahead(new.photos, o)' /\ Overtaken(new.photos, o)'
    <2>1. CASE KeepsReply(r, new)
      <3>1. call'[r].order = o
        BY <1>4, EndsWakes
      <3> QED
        BY <1>4, <2>1, <3>1, BroughtPhotos
    <2>2. CASE KeepsOwn(r, new)
      <3>1. new.photos = <<>> \/ new.photos = old.photos
        <4>1. OwnStart(r).photos = <<>>
          BY DEF OwnStart
        <4>2. Completed(old, r).photos = old.photos
          BY DEF Completed, Record
        <4> QED
          BY <1>4, <2>2, <1>a, <4>1, <4>2 DEF KeepsOwn
      <3> QED
        BY <1>2, <1>3, <3>1
    <2>3. ASSUME NEW photo \in Photo, KeepsPhoto(r, photo, new)
          PROVE  Ahead(new.photos, o)' /\ Overtaken(new.photos, o)'
      <3>1. new = WithPhoto(old, photo)
        BY <1>4, <2>3, <1>a DEF KeepsPhoto
      <3>2. photo.of = r
        BY <2>3 DEF KeepsPhoto, OwnPhoto, ReplyInv
      <3> QED
        BY <1>1, <1>4, <3>1, <3>2, AddedPhoto
    <2> QED
      BY <1>4, <2>1, <2>2, <2>3 DEF Keeps
  <1>5. CASE new = NoRecord
    BY <1>3, <1>5 DEF NoRecord
  <1> QED
    BY <1>2, <1>4, <1>5, <1>a, <1>b, KeptHow

-----------------------------------------------------------------------------
(* Records that no client can read. *)

\* The client whose write brought such a record was told of a failure.
Reported(o) ==
    \E q \in Requests :
        /\ call[q].op \in Writes /\ call[q].order = o
        /\ seen[q] = "OK"
        /\ answer[q].status = 500 /\ answer[q].epoch = epoch

\* A reply that does not fit its model is answered 500.
LEMMA UnfitReply ==
    ASSUME TypeOK, NEW r \in Requests, Ends(r), seen'[r] = "OK"
    PROVE  /\ call[r].op \in {"start", "complete"} /\ ~WellFormed(reply[r].record) =>
                 answer'[r].status = 500
           /\ call[r].op = "photo" /\ (reply[r].photo # <<>> => ~reply[r].photo[1].valid) =>
                 answer'[r].status = 500
  <1>1. \A status \in FailureCodes : ~Raises(r, status)
    BY Failures DEF Raises, Refused, OutOfReach, TypeOK, CallsTypeOK
  <1>2. StartReturns(r) \/ CompleteReturns(r) \/ PhotoReturns(r) \/ GetReturns(r)
    BY <1>1 DEF Ends, StartRaises, CompleteRaises, PhotoRaises, GetRaises, Breaks
  <1>3. \A status, record : Answers(r, status, record) => answer'[r].status = status
    BY DEF Answers, TypeOK
  <1>4. CASE StartReturns(r) \/ CompleteReturns(r)
    BY <1>3, <1>4 DEF StartReturns, CompleteReturns, Responds
  <1>5. CASE PhotoReturns(r)
    BY <1>3, <1>5 DEF PhotoReturns, Breaks
  <1>6. CASE GetReturns(r)
    BY <1>6 DEF GetReturns
  <1> QED
    BY <1>2, <1>4, <1>5, <1>6

\* A failure that was reported in this incarnation stays reported in it.
LEMMA ReportStays ==
    ASSUME TypeOK, LifeInv, StageInv, [Next]_vars, epoch' = epoch, NEW o, Reported(o)
    PROVE  Reported(o)'
  <1>1. PICK q \in Requests :
          /\ call[q].op \in Writes /\ call[q].order = o
          /\ seen[q] = "OK"
          /\ answer[q].status = 500 /\ answer[q].epoch = epoch
    BY DEF Reported
  <1>2. pc[q] = "answered"
    BY <1>1 DEF LifeInv
  <1>3. call'[q] = call[q] /\ answer'[q] = answer[q] /\ seen'[q] = seen[q]
    BY <1>2, PastStays, StepOfCalls, LifeGoesOn DEF TypeOK
  <1> QED
    BY <1>1, <1>3 DEF Reported

\* The end of a call leaves a record that cannot be read only if there was one already,
\* or if it is reported.
LEMMA BrokenByReply ==
    ASSUME TypeOK, ReplyInv, [Next]_vars, NEW r \in Requests, Ends(r),
           NEW o \in Orders, call[r].order = o, NEW old \in Record, NEW new \in Record,
           old = records[o], Keeps(r, new), WellFormed(old), ~WellFormed(new)
    PROVE  Reported(o)'
  <1>0. /\ call' = call /\ epoch' = epoch /\ answer'[r].epoch = epoch
    BY EndsWakes, Waking, EndsAnswers DEF TypeOK
  <1>1. CASE KeepsReply(r, new)
    <2>1. answer'[r].status = 500
      BY <1>1, UnfitReply DEF KeepsReply
    <2> QED
      BY <1>0, <1>1, <2>1 DEF KeepsReply, Reported, Writes
  <1>2. CASE KeepsOwn(r, new)
    <2>1. WellFormed(OwnStart(r))
      BY DEF WellFormed, OwnStart
    <2>2. /\ Completed(old, r).valid = old.valid
          /\ Completed(old, r).photos = old.photos
      BY DEF Completed, Record
    <2>3. WellFormed(Completed(old, r))
      BY <2>2 DEF WellFormed
    <2> QED
      BY <1>2, <2>1, <2>3 DEF KeepsOwn
  <1>3. ASSUME NEW photo \in Photo, KeepsPhoto(r, photo, new) PROVE Reported(o)'
    <2> DEFINE n == Len(old.photos)
    <2>0. new = WithPhoto(old, photo) /\ call[r].op = "photo"
      BY <1>3 DEF KeepsPhoto
    <2>1. /\ DOMAIN old.photos = 1..n /\ DOMAIN new.photos = 1..n + 1
          /\ \A i \in 1..n : new.photos[i] = old.photos[i]
          /\ new.photos[n + 1] = photo
          /\ new.valid = old.valid
      <3>1. /\ DOMAIN old.photos = 1..Len(old.photos)
            /\ DOMAIN WithPhoto(old, photo).photos = 1..Len(old.photos) + 1
        BY WithPhotoIs
      <3>2. ASSUME NEW i \in 1..Len(old.photos)
            PROVE  WithPhoto(old, photo).photos[i] = old.photos[i]
        BY WithPhotoIs
      <3>3. /\ WithPhoto(old, photo).photos[Len(old.photos) + 1] = photo
            /\ WithPhoto(old, photo).valid = old.valid
        BY WithPhotoIs
      <3> QED
        BY <2>0, <3>1, <3>2, <3>3
    <2>2. n \in Nat
      <3>1. old.photos \in Seq(Photo)
        BY DEF Record
      <3> QED
        BY <3>1
    <2> HIDE DEF n
    <2>3. \A i \in 1..n + 1 : i \in 1..n \/ i = n + 1
      BY <2>2
    <2>4. ~photo.valid
      BY <2>1, <2>3 DEF WellFormed
    <2>5. photo # OwnPhoto(r)
      BY <2>4 DEF OwnPhoto
    <2>6. /\ reply[r].photo # <<>> /\ photo = reply[r].photo[1] /\ seen'[r] = "OK"
      BY <1>3, <2>5 DEF KeepsPhoto
    <2>7. answer'[r].status = 500
      BY <2>0, <2>4, <2>6, UnfitReply
    <2> QED
      BY <1>0, <2>0, <2>6, <2>7 DEF Reported, Writes
  <1> QED
    BY <1>1, <1>2, <1>3 DEF Keeps

\* Every record that cannot be read is reported.
LEMMA BrokenStep ==
    /\ TypeOK /\ LifeInv /\ StageInv /\ ReplyInv /\ BrokenRecordIsReported
    /\ [Next]_vars
    => BrokenRecordIsReported'
  <1> SUFFICES ASSUME TypeOK, LifeInv, StageInv, ReplyInv, BrokenRecordIsReported,
                      [Next]_vars, NEW o \in Orders, ~WellFormed(records[o])'
               PROVE  Reported(o)'
    BY DEF BrokenRecordIsReported, Reported
  <1>0. records[o] \in Record /\ records'[o] \in Record
    BY TypeStep DEF TypeOK
  <1>a. PICK old \in Record : old = records[o]
    BY <1>0
  <1>b. PICK new \in Record : new = records'[o]
    BY <1>0
  <1>c. ~WellFormed(new)
    BY <1>b DEF WellFormed
  <1>d. ~WellFormed(old) => Reported(o)
    BY <1>a DEF BrokenRecordIsReported, Reported
  <1>1. new # NoRecord
    BY <1>c DEF WellFormed, NoRecord
  <1>2. epoch' = epoch
    <2>1. ASSUME NEW r \in Requests, Ends(r) PROVE epoch' = epoch
      BY <2>1, EndsWakes, Waking DEF TypeOK
    <2>2. ~Restart
      BY <1>1, <1>b DEF Restart
    <2>3. UNCHANGED vars => epoch' = epoch
      BY DEF vars, callVars
    <2> QED
      BY <2>1, <2>2, <2>3, Steps, ComesIn, ServiceServes
  <1>3. CASE ~WellFormed(old)
    BY <1>2, <1>3, <1>d, ReportStays
  <1>4. CASE WellFormed(old)
    <2>1. old # new
      BY <1>4, <1>c
    <2>2. PICK r \in Requests : Ends(r) /\ call[r].order = o /\ Keeps(r, new)
      BY <2>1, <1>1, <1>a, <1>b, KeptHow
    <2> QED
      BY <2>2, <1>4, <1>a, <1>c, BrokenByReply
  <1> QED
    BY <1>3, <1>4

-----------------------------------------------------------------------------
(* The safety invariants. *)

\* The invariant holds at first.
LEMMA InvInit == Init => IInv
  <1> SUFFICES ASSUME Init PROVE IInv
    OBVIOUS
  <1>1. TypeOK /\ LifeInv
    BY TypeInit, CallsTypeInit DEF Init
  <1>2. /\ \A r \in Requests :
              /\ pc[r] = "idle" /\ svc[r] = "none" /\ seen[r] = "none"
              /\ call[r] = NoCall /\ reply[r] = NoReply
              /\ answer[r].status = 0 /\ answer[r].record = NoRecord /\ answer[r].epoch = 0
        /\ \A o \in Orders : records[o] = NoRecord /\ archive[o] = NoRecord
        /\ epoch = 0
    BY DEF Init, CallsInit
  <1>3. StageInv
    BY <1>2 DEF StageInv
  <1>4. NoRecord.photos = <<>> /\ DOMAIN NoRecord.photos = {} /\ WellFormed(NoRecord)
    BY DEF NoRecord, WellFormed
  <1>5. \A o : Backed(NoRecord, o) /\ Fits(NoRecord) /\ EachPhotoOnce(NoRecord)
    BY NoRecordIsSound DEF Sound
  <1>6. ArchiveInv /\ StoreInv /\ EveryMarkIsBacked
    BY <1>2, <1>5 DEF ArchiveInv, StoreInv, EveryMarkIsBacked
  <1>7. ReplyInv
    BY <1>2, <1>5 DEF ReplyInv, NoReply
  <1>8. AheadInv /\ DoubledOnlyByOvertaking /\ BrokenRecordIsReported
    BY <1>2, <1>4 DEF AheadInv, DoubledOnlyByOvertaking, BrokenRecordIsReported
  <1> QED
    BY <1>1, <1>3, <1>6, <1>7, <1>8 DEF IInv

\* And whatever step is taken from there on.
LEMMA InvStep == IInv /\ [Next]_vars => IInv'
  <1> SUFFICES ASSUME IInv, [Next]_vars PROVE IInv'
    OBVIOUS
  <1>1. /\ TypeOK /\ LifeInv /\ StageInv
        /\ ArchiveInv /\ ReplyInv /\ StoreInv /\ EveryMarkIsBacked
        /\ AheadInv /\ DoubledOnlyByOvertaking
        /\ BrokenRecordIsReported
    BY DEF IInv
  <1>2. LifeInv'
    BY <1>1, StepOfCalls, LifeStep DEF TypeOK
  <1>3. TypeOK' /\ StageInv'
    BY <1>1, TypeStep, StageStep
  <1>4. ArchiveInv' /\ ReplyInv' /\ StoreInv'
    BY <1>1, ArchiveStep, ReplyStep, StoreStep
  <1>5. EveryMarkIsBacked'
    BY <1>1, MarksStep
  <1>6. AheadInv' /\ DoubledOnlyByOvertaking' /\ BrokenRecordIsReported'
    BY <1>1, PhotosStep, BrokenStep
  <1> QED
    BY <1>2, <1>3, <1>4, <1>5, <1>6 DEF IInv

\* The invariant holds throughout.
THEOREM Invariance == Spec => []IInv
  BY InvInit, InvStep, PTL DEF Spec

\* Whatever a kept or an answered record says has happened: it was asked for on this
\* order, and the service, or the gateway in its stead, carried it out
\* (EveryMarkIsBacked).
THEOREM MarksAreBacked == Spec => []EveryMarkIsBacked
  <1>1. IInv => EveryMarkIsBacked
    BY DEF IInv
  <1> QED
    BY <1>1, Invariance, PTL

\* The status of a kept record is the one its marks call for (StatusFitsMarks).
THEOREM StatusesFit == Spec => []StatusFitsMarks
  <1>1. IInv => StatusFitsMarks
    BY DEF IInv, StoreInv, Fits, StatusFitsMarks
  <1> QED
    BY <1>1, Invariance, PTL

\* A record that no client can read is kept only if the client whose write brought it
\* was told of a failure (BrokenRecordIsReported).
THEOREM BrokenIsReported == Spec => []BrokenRecordIsReported
  <1>1. IInv => BrokenRecordIsReported
    BY DEF IInv
  <1> QED
    BY <1>1, Invariance, PTL

\* A photo is kept twice only if a reply with it overtook its own call
\* (DoubledOnlyByOvertaking).
THEOREM DoubledByOvertaking == Spec => []DoubledOnlyByOvertaking
  <1>1. IInv => DoubledOnlyByOvertaking
    BY DEF IInv
  <1> QED
    BY <1>1, Invariance, PTL

\* Within one incarnation, photos and start of a record are given up only for a record
\* of the service or for a start of the gateway's own (HistoryGoesOnlyWithReplacement).
THEOREM HistoryStays == Spec => HistoryGoesOnlyWithReplacement
  <1> DEFINE Keeping(o) ==
        \/ /\ records'[o].started = records[o].started
           /\ \A i \in DOMAIN records[o].photos :
                 /\ i \in DOMAIN records'[o].photos
                 /\ records'[o].photos[i] = records[o].photos[i]
        \/ \E r \in Requests :
              /\ pc[r] = "waiting" /\ pc'[r] = "answered"
              /\ call[r].order = o
              /\ \/ call[r].op = "start"
                 \/ call[r].op = "complete" /\ seen'[r] = "OK"
  <1>1. ASSUME TypeOK, [Next]_vars, epoch' = epoch, NEW o \in Orders
        PROVE  Keeping(o)
    <2>0. records[o] \in Record
      BY <1>1 DEF TypeOK
    <2>1. CASE records'[o] = records[o]
      BY <2>1
    <2>2. ~Restart
      BY <1>1, CallsAssumption DEF Restart, Crashes, TypeOK, CallsTypeOK, CallsAssumption
    <2>3. ASSUME NEW r \in Requests, Ends(r), call[r].order = o, Keeps(r, records'[o])
          PROVE  Keeping(o)
      <3>1. pc[r] = "waiting" /\ pc'[r] = "answered"
        BY <1>1, <2>3, EndsWakes, Waking DEF TypeOK, CallsTypeOK
      <3>2. CASE KeepsReply(r, records'[o]) \/ call[r].op = "start"
        BY <2>3, <3>1, <3>2 DEF KeepsReply
      <3>3. CASE records'[o] = Completed(records[o], r)
        <4>1. /\ records'[o].started = records[o].started
              /\ records'[o].photos = records[o].photos
          BY <2>0, <3>3 DEF Completed, Record
        <4> QED
          BY <4>1
      <3>4. ASSUME NEW photo \in Photo, records'[o] = WithPhoto(records[o], photo)
            PROVE  Keeping(o)
        <4> DEFINE n == Len(records[o].photos)
        <4>1. /\ DOMAIN records[o].photos = 1..n
              /\ DOMAIN records'[o].photos = 1..n + 1
              /\ \A i \in 1..n : records'[o].photos[i] = records[o].photos[i]
              /\ records'[o].started = records[o].started
          <5> DEFINE longer == WithPhoto(records[o], photo)
          <5>1. /\ DOMAIN records[o].photos = 1..n /\ DOMAIN longer.photos = 1..n + 1
                /\ \A i \in 1..n : longer.photos[i] = records[o].photos[i]
                /\ longer.started = records[o].started
            BY <2>0, WithPhotoIs
          <5>2. longer = records'[o]
            BY <3>4
          <5> HIDE DEF longer, n
          <5> QED
            BY <5>1, <5>2
        <4>2. n \in Nat
          <5>1. records[o].photos \in Seq(Photo)
            BY <2>0 DEF Record
          <5> QED
            BY <5>1
        <4> HIDE DEF n
        <4>3. \A i \in 1..n : i \in 1..n + 1
          BY <4>2
        <4> QED
          BY <4>1, <4>3
      <3> QED
        BY <2>3, <3>2, <3>3, <3>4 DEF Keeps, KeepsOwn, KeepsPhoto
    <2> QED
      BY <1>1, <2>1, <2>2, <2>3, KeptHow
  <1>2. TypeOK /\ [Next]_vars =>
          [epoch' = epoch => \A o \in Orders : Keeping(o)]_vars
    BY <1>1
  <1> QED
    BY <1>2, TypeCorrect, PTL DEF Spec, HistoryGoesOnlyWithReplacement

-----------------------------------------------------------------------------
(* The refinement of RecordBook. *)

\* What no record, and the invented one, amount to.
LEMMA BlankEntry == EntryOf(NoRecord) = Book!Blank /\ EntryOf(Invented) = Book!Blank
  <1>1. \A photos : photos = <<>> => [i \in DOMAIN photos |-> photos[i].of] = <<>>
    OBVIOUS
  <1> QED
    BY <1>1 DEF EntryOf, NoRecord, Invented, Book!Blank

\* What a record with one more photo amounts to.
LEMMA EntryWithPhoto ==
    ASSUME NEW record \in Record, NEW photo \in Photo
    PROVE  EntryOf(WithPhoto(record, photo)) =
               [EntryOf(record) EXCEPT !.photos = Append(@, photo.of)]
  <1> DEFINE n == Len(record.photos)
             new == WithPhoto(record, photo)
             s == [i \in DOMAIN record.photos |-> record.photos[i].of]
             t == [i \in DOMAIN new.photos |-> new.photos[i].of]
  <1>1. /\ DOMAIN record.photos = 1..n /\ DOMAIN new.photos = 1..n + 1
        /\ \A i \in 1..n : record.photos[i] \in Photo /\ new.photos[i] = record.photos[i]
        /\ new.photos[n + 1] = photo
        /\ new.started = record.started /\ new.completed = record.completed
    BY WithPhotoIs
  <1>2. n \in Nat
    <2>1. record.photos \in Seq(Photo)
      BY DEF Record
    <2> QED
      BY <2>1
  <1>3. photo.of \in Requests /\ \A i \in 1..n : record.photos[i].of \in Requests
    BY <1>1 DEF Photo
  <1> HIDE DEF n, new
  <1>4. s = [i \in 1..n |-> record.photos[i].of] /\ s \in Seq(Requests) /\ Len(s) = n
    BY <1>1, <1>2, <1>3
  <1>5. t = [i \in 1..n + 1 |-> new.photos[i].of] /\ t \in Seq(Requests) /\ Len(t) = n + 1
    <2>1. \A i \in 1..n + 1 : i \in 1..n \/ i = n + 1
      BY <1>2
    <2>2. \A i \in 1..n + 1 : new.photos[i].of \in Requests
      BY <1>1, <1>3, <2>1
    <2> QED
      BY <1>1, <1>2, <2>2
  <1>6. t = Append(s, photo.of)
    <2>1. \A i \in 1..n : t[i] = s[i]
      BY <1>1, <1>2
    <2>2. t[n + 1] = photo.of
      BY <1>1, <1>2
    <2> HIDE DEF s, t
    <2>3. /\ Append(s, photo.of) \in Seq(Requests)
          /\ Len(Append(s, photo.of)) = n + 1
          /\ \A i \in 1..n : Append(s, photo.of)[i] = s[i]
          /\ Append(s, photo.of)[n + 1] = photo.of
      <3>1. s \in Seq(Requests) /\ Len(s) = n /\ photo.of \in Requests
        BY <1>3, <1>4
      <3> QED
        BY <3>1, AppendProperties
    <2>4. \A i \in 1..n + 1 : i \in 1..n \/ i = n + 1
      BY <1>2
    <2>5. \A i \in 1..n + 1 : t[i] = Append(s, photo.of)[i]
      BY <2>1, <2>2, <2>3, <2>4
    <2>6. \A i \in 1..Len(t) : t[i] = Append(s, photo.of)[i]
      BY <1>5, <2>5
    <2> QED
      BY <1>5, <2>3, <2>6, SeqEqual
  <1>7. EntryOf(new) = [started |-> record.started, completed |-> record.completed,
                        photos |-> t]
    BY <1>1 DEF EntryOf
  <1>8. EntryOf(record) = [started |-> record.started, completed |-> record.completed,
                           photos |-> s]
    BY DEF EntryOf
  <1> HIDE DEF s, t
  <1>9. [EntryOf(record) EXCEPT !.photos = Append(@, photo.of)] =
            [started |-> record.started, completed |-> record.completed,
             photos |-> Append(s, photo.of)]
    BY <1>8
  <1> QED
    BY <1>6, <1>7, <1>9 DEF new

\* The marks of a record were asked for on o.
Asked(record, o) ==
    /\ record.started # None => Book!Did(record.started, "start", o)
    /\ record.completed # None => Book!Did(record.completed, "complete", o)
    /\ \A i \in DOMAIN record.photos : Book!Did(record.photos[i].of, "photo", o)

\* So are those of a record that is backed, now or after a step that lets no request in.
LEMMA BackedIsAsked ==
    ASSUME NEW record \in Record, NEW o, Backed(record, o) \/ (Backed(record, o)' /\ call' = call)
    PROVE  Asked(record, o)
  <1>2. \A q \in Requests, op \in Writes :
          Effective(q, op, o) \/ (Effective(q, op, o)' /\ call' = call) => Book!Did(q, op, o)
    BY DEF Effective, Book!Did, KindOf, AboutOf
  <1>3. record.started # None => Book!Did(record.started, "start", o)
    BY <1>2, MarkTypes DEF Backed, Writes
  <1>4. record.completed # None => Book!Did(record.completed, "complete", o)
    BY <1>2, MarkTypes DEF Backed, Writes
  <1>5. \A i \in DOMAIN record.photos : Book!Did(record.photos[i].of, "photo", o)
    BY <1>2, MarkTypes DEF Backed, Writes
  <1> QED
    BY <1>3, <1>4, <1>5 DEF Asked

\* A record whose marks were asked for, and that fits, amounts to an entry made of writes
\* on its order.
LEMMA RecordIsMade ==
    ASSUME NEW record \in Record, NEW o, Asked(record, o), Fits(record), record # NoRecord
    PROVE  Book!MadeOfWritesOn(o, EntryOf(record))
  <1>1. /\ EntryOf(record).started = record.started
        /\ EntryOf(record).completed = record.completed
        /\ DOMAIN EntryOf(record).photos = DOMAIN record.photos
        /\ \A i \in DOMAIN record.photos : EntryOf(record).photos[i] = record.photos[i].of
    BY DEF EntryOf
  <1>2. EntryOf(record) # Book!Blank
    <2>1. CASE record.photos # <<>>
      <3>1. record.photos \in Seq(Photo)
        BY DEF Record
      <3>2. DOMAIN record.photos # {}
        <4>1. Len(record.photos) \in Nat \ {0}
          BY <2>1, <3>1, EmptySeq
        <4>2. DOMAIN record.photos = 1..Len(record.photos)
          BY <3>1
        <4>3. 1 \in 1..Len(record.photos)
          BY <4>1
        <4> QED
          BY <4>2, <4>3
      <3>3. DOMAIN Book!Blank.photos = {}
        BY DEF Book!Blank
      <3> QED
        BY <1>1, <3>2, <3>3
    <2>2. CASE record.photos = <<>>
      <3>1. record.started # None \/ record.completed # None
        BY <2>2 DEF Fits, Record, None
      <3> QED
        BY <1>1, <3>1 DEF Book!Blank
    <2> QED
      BY <2>1, <2>2
  <1> HIDE DEF Book!Blank
  <1> QED
    BY <1>1, <1>2 DEF Asked, Book!MadeOfWritesOn

\* The entry of an order is blank only where the store has no record.
LEMMA BlankIsNoRecord ==
    ASSUME IInv, NEW o \in Orders
    PROVE  /\ BookOf[o] = EntryOf(records[o])
           /\ records[o] = NoRecord <=> BookOf[o] = Book!Blank
  <1>1. BookOf[o] = EntryOf(records[o])
    BY DEF BookOf
  <1>2. records[o] = NoRecord => BookOf[o] = Book!Blank
    BY <1>1, BlankEntry
  <1>3. records[o] \in Record /\ Backed(records[o], o) /\ Fits(records[o])
    BY DEF IInv, StoreInv, TypeOK
  <1>4. records[o] # NoRecord => BookOf[o] # Book!Blank
    BY <1>1, <1>3, BackedIsAsked, RecordIsMade DEF Book!MadeOfWritesOn
  <1> QED
    BY <1>1, <1>2, <1>4

\* What an answer shows.
Shown(r, op, status, record) ==
    IF status # 200 THEN {}
    ELSE {IF op = "photo" THEN [EntryOf(NoRecord) EXCEPT !.photos = <<r>>]
          ELSE EntryOf(record)}

\* In the book, answering a request closes it and shows what the answer tells.
LEMMA Closes ==
    ASSUME TypeOK, NEW r \in Requests, pc' = [pc EXCEPT ![r] = "answered"],
           NEW status, NEW record, Answers(r, status, record),
           \A q \in Requests : q # r => call'[q] = call[q],
           NEW op, op = call'[r].op
    PROVE  Book!Ends(r, Shown(r, op, status, record))
  <1> USE DEF TypeOK, CallsTypeOK
  <1>1. PhaseOf' = [PhaseOf EXCEPT ![r] = "done"]
    BY DEF PhaseOf
  <1>2. /\ answer'[r].status = status /\ answer'[r].record = record
        /\ \A q \in Requests : q # r => answer'[q] = answer[q]
    BY DEF Answers
  <1>3. ToldOf' = [ToldOf EXCEPT ![r] = Shown(r, op, status, record)]
    <2>1. \A q \in Requests : q # r => ToldOf'[q] = ToldOf[q]
      BY <1>2 DEF ToldOf
    <2>2. ToldOf'[r] = Shown(r, op, status, record)
      BY <1>2 DEF ToldOf, Shown
    <2>3. /\ ToldOf = [q \in Requests |-> ToldOf[q]]
          /\ ToldOf' = [q \in Requests |-> ToldOf'[q]]
      BY DEF ToldOf
    <2> HIDE DEF ToldOf, Shown
    <2> QED
      BY <2>1, <2>2, <2>3
  <1> QED
    BY <1>1, <1>3 DEF Book!Ends

\* How a call ends: a write is kept, or the client is told of an error, or a record is
\* read.
LEMMA EndsHow ==
    ASSUME TypeOK, NEW r \in Requests, Ends(r), NEW o, o = call[r].order
    PROVE  /\ o \in Orders
           /\ \/ /\ call[r].op \in Writes
                 /\ Keeps(r, records'[o])
                 /\ \A p \in Orders \ {o} : records'[p] = records[p]
                 /\ \E status, record :
                       /\ Answers(r, status, record)
                       /\ call[r].op # "photo" /\ status = 200 => record = records'[o]
              \/ /\ records' = records
                 /\ \E status, record : status # 200 /\ Answers(r, status, record)
              \/ /\ call[r].op = "get" /\ records' = records
                 /\ \E record :
                       /\ Answers(r, 200, record)
                       /\ \/ record = Invented /\ records[o] = NoRecord
                          \/ record = records[o]
                          \/ record = reply[r].record /\ record # NoRecord
  <1> DEFINE Kept ==
        /\ call[r].op \in Writes
        /\ Keeps(r, records'[o])
        /\ \A p \in Orders \ {o} : records'[p] = records[p]
        /\ \E status, record :
              /\ Answers(r, status, record)
              /\ call[r].op # "photo" /\ status = 200 => record = records'[o]
      Declined == records' = records /\ \E status, record : status # 200 /\ Answers(r, status, record)
      Read == /\ call[r].op = "get" /\ records' = records
              /\ \E record :
                    /\ Answers(r, 200, record)
                    /\ \/ record = Invented /\ records[o] = NoRecord
                       \/ record = records[o]
                       \/ record = reply[r].record /\ record # NoRecord
  <1>0. o \in Orders /\ records[o] \in Record
    <2>1. call[r].op \in Writes \cup {"get"}
      BY DEF Ends, StartReturns, CompleteReturns, PhotoReturns, GetReturns,
             StartRaises, CompleteRaises, PhotoRaises, GetRaises, Writes
    <2> QED
      BY <2>1, CallType DEF TypeOK
  <1> SUFFICES Kept \/ Declined \/ Read
    BY <1>0
  <1>d. records' = records /\ Answers(r, 500, NoRecord) => Declined
    <2>1. 500 # 200
      OBVIOUS
    <2> QED
      BY <2>1
  <1>e. Breaks(r) => Declined
    BY <1>d DEF Breaks
  <1>a. \A record : Responds(r, record) =>
            \/ Answers(r, 200, record) /\ record # NoRecord
            \/ Answers(r, 500, NoRecord)
    BY DEF Responds
  <1>b. \A status \in FailureCodes : Fails(r, status) =>
            \E code : code # 200 /\ Answers(r, code, NoRecord)
    BY FailureStatus DEF Fails
  <1>c. \A record : records' = Put(o, record) =>
            records'[o] = record /\ \A p \in Orders \ {o} : records'[p] = records[p]
    BY <1>0 DEF Put, TypeOK
  <1>1. CASE StartReturns(r) \/ CompleteReturns(r)
    <2>1. call[r].op \in Writes /\ call[r].op # "photo" /\ svc[r] = "executed" /\ seen'[r] = "OK"
          /\ call[r].op \in {"start", "complete"}
      BY <1>1, Outcome DEF StartReturns, CompleteReturns, Writes
    <2>2. CASE reply[r].record = NoRecord
      <3>1. records' = records /\ Answers(r, 500, NoRecord)
        BY <1>1, <2>2, <1>a DEF StartReturns, CompleteReturns
      <3> QED
        BY <3>1, <1>d
    <2>3. CASE reply[r].record # NoRecord
      <3>1. records' = Put(o, reply[r].record) /\ Responds(r, reply[r].record)
        BY <1>1, <2>3 DEF StartReturns, CompleteReturns
      <3>2. Keeps(r, records'[o])
        BY <3>1, <2>1, <2>3, <1>c DEF Keeps, KeepsReply
      <3> QED
        BY <3>1, <3>2, <2>1, <1>a, <1>c, <1>0
    <2> QED
      BY <2>2, <2>3
  <1>2. CASE PhotoReturns(r)
    <2>1. call[r].op = "photo" /\ call[r].op \in Writes /\ svc[r] = "executed" /\ seen'[r] = "OK"
      BY <1>2, Outcome DEF PhotoReturns, Writes
    <2>2. CASE reply[r].photo = <<>>
      <3>1. records' = records /\ Answers(r, 500, NoRecord)
        BY <1>2, <2>2 DEF PhotoReturns
      <3> QED
        BY <3>1, <1>d
    <2>3. CASE reply[r].photo # <<>> /\ ~Breaks(r)
      <3>1. records' = Put(o, WithPhoto(records[o], reply[r].photo[1]))
        BY <1>2, <2>3 DEF PhotoReturns
      <3>2. reply[r].photo[1] \in Photo
        BY <2>3 DEF TypeOK, Reply
      <3>3. \E status, record : Answers(r, status, record)
        BY <1>2 DEF PhotoReturns, Breaks
      <3>4. Keeps(r, records'[o])
        BY <3>1, <3>2, <2>1, <2>3, <1>c DEF Keeps, KeepsPhoto
      <3> QED
        BY <3>1, <3>3, <3>4, <2>1, <1>c, <1>0
    <2> QED
      BY <2>2, <2>3, <1>e
  <1>3. CASE GetReturns(r)
    <2>1. call[r].op = "get" /\ records' = records /\ Responds(r, reply[r].record)
      BY <1>3 DEF GetReturns
    <2> QED
      BY <2>1, <1>0, <1>a
  <1>4. ASSUME NEW status \in FailureCodes, StartRaises(r, status) \/ CompleteRaises(r, status)
        PROVE  Kept \/ Declined
    <2>1. CASE ~FallsBackOn(status)
      BY <1>4, <2>1, <1>b DEF StartRaises, CompleteRaises
    <2>2. CASE FallsBackOn(status) /\ ~Breaks(r)
      <3>1. /\ call[r].op \in Writes /\ call[r].op # "photo"
            /\ seen'[r] \in MOCKABLE_DOWNSTREAM_GAP_CODES
        BY <1>4, <2>2, Outcome DEF StartRaises, CompleteRaises, Writes
      <3>2. PICK record : /\ records' = Put(o, record) /\ Responds(r, record)
                          /\ \/ call[r].op = "start" /\ record = OwnStart(r)
                             \/ call[r].op = "complete" /\ record = Completed(records[o], r)
        BY <1>4, <2>2 DEF StartRaises, CompleteRaises
      <3>3. Keeps(r, records'[o])
        BY <3>1, <3>2, <1>c DEF Keeps, KeepsOwn
      <3> QED
        BY <3>1, <3>2, <3>3, <1>a, <1>c, <1>0
    <2> QED
      BY <2>1, <2>2, <1>e
  <1>5. ASSUME NEW status \in FailureCodes, PhotoRaises(r, status)
        PROVE  Kept \/ Declined
    <2>1. CASE ~FallsBackOn(status)
      BY <1>5, <2>1, <1>b DEF PhotoRaises
    <2>2. CASE FallsBackOn(status) /\ ~Breaks(r)
      <3>1. /\ call[r].op = "photo" /\ call[r].op \in Writes
            /\ seen'[r] \in MOCKABLE_DOWNSTREAM_GAP_CODES
        BY <1>5, <2>2, Outcome DEF PhotoRaises, Writes
      <3>2. records' = Put(o, WithPhoto(records[o], OwnPhoto(r))) /\ Answers(r, 200, NoRecord)
        BY <1>5, <2>2 DEF PhotoRaises
      <3>3. Keeps(r, records'[o])
        BY <3>1, <3>2, <1>c, RecordTypes DEF Keeps, KeepsPhoto
      <3> QED
        BY <3>1, <3>2, <3>3, <1>c, <1>0
    <2> QED
      BY <2>1, <2>2, <1>e
  <1>6. ASSUME NEW status \in FailureCodes, GetRaises(r, status)
        PROVE  Declined \/ Read
    <2>1. call[r].op = "get" /\ records' = records
      BY <1>6 DEF GetRaises
    <2>2. CASE Fails(r, status)
      BY <2>1, <2>2, <1>b
    <2>3. CASE Responds(r, FallbackRecord(o))
      <3>1. FallbackRecord(o) = records[o] \/ (FallbackRecord(o) = Invented /\ records[o] = NoRecord)
        BY DEF FallbackRecord
      <3> QED
        BY <2>1, <2>3, <3>1, <1>a
    <2> QED
      BY <1>6, <2>2, <2>3 DEF GetRaises
  <1> QED
    BY <1>0, <1>1, <1>2, <1>3, <1>4, <1>5, <1>6 DEF Ends

\* In the book, a write that is kept is entered.
LEMMA Entering ==
    ASSUME IInv, IInv', [Next]_vars, NEW r \in Requests, Ends(r),
           NEW o \in Orders, o = call[r].order,
           NEW op \in Writes, op = call[r].op, Keeps(r, records'[o]),
           \A p \in Orders \ {o} : records'[p] = records[p],
           NEW status, NEW record, Answers(r, status, record),
           op # "photo" /\ status = 200 => record = records'[o]
    PROVE  Book!Enter(r)
  <1> DEFINE entry == BookOf'[o]
             shown == Shown(r, op, status, record)
  <1>0. /\ TypeOK /\ TypeOK' /\ ReplyInv /\ StoreInv'
        /\ call' = call
        /\ pc[r] = "waiting" /\ pc' = [pc EXCEPT ![r] = "answered"]
    BY EndsWakes, Waking DEF IInv, TypeOK
  <1>1. PICK old \in Record : old = records[o]
    BY <1>0 DEF TypeOK
  <1>2. PICK new \in Record : new = records'[o]
    BY <1>0 DEF TypeOK
  <1>3. entry = EntryOf(new) /\ BookOf[o] = EntryOf(old)
    BY <1>1, <1>2 DEF BookOf, EntryOf
  <1>4. \A p \in Orders \ {o} : BookOf'[p] = BookOf[p]
    BY DEF BookOf, EntryOf
  <1>5. PhaseOf[r] = "open" /\ AboutOf[r] = o /\ KindOf[r] = op
    BY <1>0 DEF PhaseOf, AboutOf, KindOf
  <1>6. UNCHANGED <<AboutOf, KindOf>>
    BY <1>0 DEF AboutOf, KindOf
  <1>7. Book!Ends(r, shown)
    BY <1>0, Closes
  <1> HIDE DEF entry, shown
  <1>8. CASE op \in {"start", "complete"}
    <2>1. /\ op = "start" => new.started = r
          /\ op = "complete" => new.completed = r
      <3>1. CASE KeepsReply(r, new)
        BY <3>1, <1>0 DEF KeepsReply, ReplyInv
      <3>2. CASE KeepsOwn(r, new)
        <4>1. OwnStart(r).started = r /\ Completed(old, r).completed = r
          BY DEF OwnStart, Completed, Record
        <4> QED
          BY <3>2, <4>1, <1>1 DEF KeepsOwn
      <3> QED
        <4>1. ASSUME NEW photo \in Photo PROVE ~KeepsPhoto(r, photo, records'[o])
          BY <1>8 DEF KeepsPhoto
        <4>2. KeepsReply(r, records'[o]) \/ KeepsOwn(r, records'[o])
          BY <4>1 DEF Keeps
        <4> QED
          BY <3>1, <3>2, <4>2, <1>2
    <2>2. new # NoRecord
      BY <2>1, <1>8, ServiceExecutionAssumption DEF NoRecord
    <2>3. Book!MadeOfWritesOn(o, entry)
      <3>1. Backed(old, o) /\ Fits(old) /\ LifeInv /\ StageInv
        BY <1>1 DEF IInv, StoreInv
      <3>2. Backed(new, o)' /\ Fits(new)
        BY <1>0, <1>1, <1>2, <3>1, KeptIsBacked
      <3>3. Asked(new, o)
        BY <1>0, <3>2, BackedIsAsked
      <3> QED
        BY <2>2, <3>2, <3>3, <1>3, RecordIsMade
    <2>4. /\ entry.started = new.started /\ entry.completed = new.completed
          /\ shown \in {{}, {entry}}
      BY <1>0, <1>2, <1>3, <1>8 DEF shown, Shown, EntryOf
    <2> QED
      BY <2>1, <2>3, <2>4, <1>4, <1>5, <1>6, <1>7, <1>8 DEF Book!Enter, entry
  <1>9. CASE op = "photo"
    <2>1. PICK photo \in Photo : KeepsPhoto(r, photo, new)
      BY <1>2, <1>9 DEF Keeps, KeepsReply, KeepsOwn
    <2>2. new = WithPhoto(old, photo) /\ photo.of = r
      BY <1>0, <1>1, <2>1 DEF KeepsPhoto, OwnPhoto, ReplyInv
    <2>3. entry = [BookOf[o] EXCEPT !.photos = Append(@, r)]
      BY <1>3, <2>2, EntryWithPhoto
    <2>4. shown \in {{}, {[Book!Blank EXCEPT !.photos = <<r>>]}}
      BY <1>0, <1>9, BlankEntry DEF shown, Shown
    <2> QED
      BY <2>3, <2>4, <1>4, <1>5, <1>6, <1>7, <1>9 DEF Book!Enter, entry
  <1> QED
    BY <1>8, <1>9 DEF Writes

\* In the book, a request comes in as it does in the store.
LEMMA Coming ==
    ASSUME IInv, NEW r \in Requests, Comes(r)
    PROVE  Book!Open(r) \/ Book!Look(r) \/ Book!Decline(r)
  <1>0. TypeOK /\ UNCHANGED records /\ \A q \in Requests : q # r => UNCHANGED call[q]
    BY ComesIn DEF IInv
  <1>1. PICK op \in Writes \cup {"get"}, o \in Orders :
          /\ Asks(r, op, o)
          /\ \/ AnsweredAtOnce(r) /\ Answers(r, 422, NoRecord) /\ op # "get"
             \/ /\ AnsweredAtOnce(r) /\ Responds(r, records[o])
                /\ op = "get" /\ records[o] # NoRecord
             \/ /\ Sends(r) /\ UNCHANGED answer
                /\ op = "get" => records[o] = NoRecord
    BY DEF Comes, Write, GetRecord, Writes
  <1>2. Book!Arrives(r, op, o)
    <2>1. PhaseOf[r] = "new"
      BY <1>1 DEF PhaseOf, AnsweredAtOnce, Sends
    <2>2. AboutOf' = [AboutOf EXCEPT ![r] = o] /\ KindOf' = [KindOf EXCEPT ![r] = op]
      BY <1>0, <1>1 DEF AboutOf, KindOf, Asks, TypeOK
    <2> QED
      BY <2>1, <2>2 DEF Book!Arrives
  <1>3. UNCHANGED BookOf
    BY <1>0 DEF BookOf
  <1>4. ASSUME AnsweredAtOnce(r), NEW status, NEW record, Answers(r, status, record)
        PROVE  Book!Ends(r, Shown(r, op, status, record))
    <2>1. call'[r].op = op
      BY <1>0, <1>1 DEF Asks, TypeOK
    <2>2. pc' = [pc EXCEPT ![r] = "answered"]
      BY <1>4 DEF AnsweredAtOnce
    <2> QED
      BY <1>0, <1>4, <2>1, <2>2, Closes
  <1>5. ASSUME AnsweredAtOnce(r), NEW status, NEW record, Answers(r, status, record),
               status # 200
        PROVE  Book!Decline(r)
    <2>1. Shown(r, op, status, record) = {}
      BY <1>5 DEF Shown
    <2>2. Book!Ends(r, {})
      BY <1>4, <1>5, <2>1
    <2> QED
      BY <1>2, <1>3, <2>2 DEF Book!Decline, Writes
  <1>6. CASE AnsweredAtOnce(r) /\ Answers(r, 422, NoRecord)
    <2>1. 422 # 200
      OBVIOUS
    <2> QED
      BY <1>5, <1>6, <2>1
  <1>7. CASE /\ AnsweredAtOnce(r) /\ Responds(r, records[o])
             /\ op = "get" /\ records[o] # NoRecord
    <2>1. CASE Answers(r, 500, NoRecord)
      <3>1. 500 # 200
        OBVIOUS
      <3> QED
        BY <1>5, <1>7, <2>1, <3>1
    <2>2. CASE Answers(r, 200, records[o])
      <3>1. Shown(r, op, 200, records[o]) = {BookOf[o]}
        BY <1>7, BlankIsNoRecord DEF Shown
      <3>2. Book!Ends(r, {BookOf[o]})
        BY <1>4, <1>7, <2>2, <3>1
      <3>3. BookOf[o] # Book!Blank
        BY <1>7, BlankIsNoRecord
      <3> QED
        BY <1>2, <1>3, <1>7, <3>2, <3>3 DEF Book!Look
    <2> QED
      BY <1>7, <2>1, <2>2 DEF Responds
  <1>8. CASE Sends(r) /\ UNCHANGED answer /\ (op = "get" => records[o] = NoRecord)
    <2>1. PhaseOf' = [PhaseOf EXCEPT ![r] = "open"]
      BY <1>0, <1>8 DEF PhaseOf, Sends, TypeOK, CallsTypeOK
    <2>2. UNCHANGED ToldOf
      <3>1. answer[r].status = 0
        BY <1>8 DEF Sends, IInv, StageInv
      <3>2. 0 # 200
        OBVIOUS
      <3>3. \A q \in Requests : ToldOf'[q] = ToldOf[q]
        BY <1>0, <1>8, <3>1, <3>2 DEF ToldOf
      <3>4. /\ ToldOf = [q \in Requests |-> ToldOf[q]]
            /\ ToldOf' = [q \in Requests |-> ToldOf'[q]]
        BY DEF ToldOf
      <3> HIDE DEF ToldOf
      <3> QED
        BY <3>3, <3>4
    <2>3. op = "get" => BookOf[o] = Book!Blank
      BY <1>8, BlankIsNoRecord
    <2> QED
      BY <1>2, <1>3, <2>1, <2>2, <2>3 DEF Book!Open, Writes
  <1> QED
    BY <1>1, <1>6, <1>7, <1>8

\* In the book, the end of a call enters, shows or declines.
LEMMA Ending ==
    ASSUME IInv, IInv', [Next]_vars, NEW r \in Requests, Ends(r)
    PROVE  Book!Enter(r) \/ Book!Show(r) \/ Book!Decline(r)
  <1>0. /\ TypeOK /\ ReplyInv /\ call' = call
        /\ pc[r] = "waiting" /\ pc' = [pc EXCEPT ![r] = "answered"]
    BY EndsWakes, Waking DEF IInv, TypeOK
  <1>1. PICK o : o = call[r].order
    OBVIOUS
  <1>2. PICK op : op = call[r].op
    OBVIOUS
  <1>3. PhaseOf[r] = "open" /\ AboutOf[r] = o /\ KindOf[r] = op
    BY <1>0, <1>1, <1>2 DEF PhaseOf, AboutOf, KindOf
  <1>4. UNCHANGED <<AboutOf, KindOf>>
    BY <1>0 DEF AboutOf, KindOf
  <1>5. records' = records => UNCHANGED BookOf
    BY DEF BookOf
  <1>6. ASSUME NEW status, NEW record, Answers(r, status, record)
        PROVE  Book!Ends(r, Shown(r, op, status, record))
    BY <1>0, <1>2, <1>6, Closes
  <1>7. o \in Orders
    BY <1>1, <1>0, EndsHow
  <1>8. CASE /\ call[r].op \in Writes
             /\ Keeps(r, records'[o])
             /\ \A p \in Orders \ {o} : records'[p] = records[p]
             /\ \E status, record :
                   /\ Answers(r, status, record)
                   /\ call[r].op # "photo" /\ status = 200 => record = records'[o]
    BY <1>1, <1>2, <1>7, <1>8, Entering
  <1>9. ASSUME records' = records, NEW status, NEW record, status # 200, Answers(r, status, record)
        PROVE  Book!Decline(r)
    <2>1. Shown(r, op, status, record) = {}
      BY <1>9 DEF Shown
    <2>2. Book!Ends(r, {})
      BY <1>6, <1>9, <2>1
    <2> QED
      BY <1>3, <1>4, <1>5, <1>9, <2>2 DEF Book!Decline
  <1>10. ASSUME call[r].op = "get", records' = records, NEW record, Answers(r, 200, record),
                \/ record = Invented /\ records[o] = NoRecord
                \/ record = records[o]
                \/ record = reply[r].record /\ record # NoRecord
         PROVE  Book!Show(r)
    <2>1. Shown(r, op, 200, record) = {EntryOf(record)}
      BY <1>2, <1>10 DEF Shown
    <2>2. Book!Ends(r, {EntryOf(record)})
      BY <1>6, <1>10, <2>1
    <2>3. ToldOf'[r] = {EntryOf(record)}
      BY <2>2 DEF Book!Ends, ToldOf
    <2>4. EntryOf(record) = BookOf[o] \/ Book!MadeOfWritesOn(o, EntryOf(record))
      <3>1. CASE record = Invented /\ records[o] = NoRecord
        BY <3>1, <1>7, BlankEntry, BlankIsNoRecord
      <3>2. CASE record = records[o]
        BY <3>2, <1>7, BlankIsNoRecord
      <3>3. CASE record = reply[r].record /\ record # NoRecord
        <4>1. record \in Record /\ Backed(record, o) /\ Fits(record)
          BY <3>3, <1>0, <1>1 DEF ReplyInv, TypeOK, Reply
        <4> QED
          BY <3>3, <4>1, BackedIsAsked, RecordIsMade
      <3> QED
        BY <1>10, <3>1, <3>2, <3>3
    <2> HIDE DEF ToldOf, Book!Ends, Book!MadeOfWritesOn
    <2> QED
      BY <1>2, <1>3, <1>4, <1>5, <1>10, <2>2, <2>3, <2>4 DEF Book!Show
  <1> QED
    BY <1>0, <1>1, <1>8, <1>9, <1>10, EndsHow

\* What the book is made of.
LEMMA Unseen ==
    ASSUME UNCHANGED <<pc, call, answer, records>>
    PROVE  UNCHANGED Book!vars
  BY DEF Book!vars, BookOf, PhaseOf, AboutOf, KindOf, ToldOf

\* Every step is one of the book, or none.
LEMMA Simulation ==
    ASSUME IInv, IInv', [Next]_vars
    PROVE  [Book!Next]_Book!vars
  <1>1. ASSUME NEW r \in Requests, Comes(r) PROVE Book!Next
    BY <1>1, Coming DEF Book!Next
  <1>2. ASSUME NEW r \in Requests, Ends(r) PROVE Book!Next
    BY <1>2, Ending DEF Book!Next
  <1>3. ASSUME NEW r \in Requests, Service(r) PROVE UNCHANGED Book!vars
    BY <1>3, ServiceServes, Unseen DEF IInv
  <1>4. ASSUME Restart PROVE Book!Restart
    <2>1. BookOf' = [o \in Orders |-> Book!Blank]
      BY <1>4, BlankEntry DEF Restart, BookOf
    <2>2. \A r \in Requests : pc'[r] = IF pc[r] = "waiting" THEN "lost" ELSE pc[r]
      BY <1>4 DEF Restart, Crashes
    <2>3. PhaseOf' = [r \in Requests |-> IF PhaseOf[r] = "open" THEN "done" ELSE PhaseOf[r]]
      BY <2>2 DEF PhaseOf
    <2>4. UNCHANGED <<AboutOf, KindOf, ToldOf>>
      BY <1>4 DEF Restart, AboutOf, KindOf, ToldOf
    <2> QED
      BY <2>1, <2>3, <2>4 DEF Book!Restart
  <1>5. CASE UNCHANGED vars
    BY <1>5, Unseen DEF vars, callVars, serviceVars
  <1> QED
    BY <1>1, <1>2, <1>3, <1>4, <1>5, Steps DEF Book!Next

\* The service execution routes keep the promise of RecordBook, for every set of requests
\* and orders, whatever the service does and however often the process restarts
\* (KeepsRecords).
THEOREM ServiceExecutionKeepsRecords == Spec => KeepsRecords
  <1>1. Init => Book!Init
    <2> SUFFICES ASSUME Init PROVE Book!Init
      OBVIOUS
    <2>1. BookOf = [o \in Orders |-> Book!Blank]
      BY BlankEntry DEF Init, BookOf
    <2>2. /\ PhaseOf = [r \in Requests |-> "new"]
          /\ AboutOf = [r \in Requests |-> None]
          /\ KindOf = [r \in Requests |-> None]
      BY DEF Init, CallsInit, PhaseOf, AboutOf, KindOf, NoCall
    <2>3. ToldOf = [r \in Requests |-> {}]
      BY DEF Init, ToldOf
    <2> QED
      BY <2>1, <2>2, <2>3 DEF Book!Init
  <1>2. IInv /\ IInv' /\ [Next]_vars => [Book!Next]_Book!vars
    BY Simulation
  <1> QED
    BY <1>1, <1>2, Invariance, PTL DEF Spec, KeepsRecords, Book!Spec

===============================================================================
