--------------------------- MODULE ServiceExecution ---------------------------
(***************************************************************************)
(* The service execution routes of the gateway (start, complete, photos    *)
(* and record in app/gateway/http_to_rpc_router.py), the service records   *)
(* of the in-memory store, and the service execution service behind them.  *)
(*                                                                         *)
(* The store keeps one record per order.  A start and a completion replace *)
(* the record by the one the service replies with; when the service is out *)
(* of reach or not up to the call, a start replaces it by a record of the  *)
(* gateway's own and a completion updates the record that is there.  A     *)
(* photo is appended to the record, or to a stub.  Reading a record asks   *)
(* the service only while the store has none.                              *)
(*                                                                         *)
(* A start, a completion and a photo are told apart by their request, which*)
(* stands for worker, times, note and URL.                                 *)
(***************************************************************************)
EXTENDS Calls, Sequences

CONSTANT Orders

None == "none"

\* None stands for what is not there: no request is called so.
ASSUME ServiceExecutionAssumption == None \notin Requests

VARIABLES
    call,     \* what a request asks for
    reply,    \* the service's reply to a request
    answer,   \* the HTTP answer to a request
    records,  \* the gateway's store: core_flow_mock_store["service_records"]
    archive   \* the records the service holds

serviceVars == <<call, reply, answer, records, archive>>
vars == <<callVars, serviceVars>>

Writes == {"start", "complete", "photo"}
Token == Requests \cup {None}

\* own: made up by the gateway.  valid: fits ServicePhotoModel.
Photo == [of : Requests, own : BOOLEAN, valid : BOOLEAN]

\* started and completed name the request that set the time, None when no
\* request did.  valid: what a completion does not overwrite of the record fits
\* ServiceRecordModel.
Record == [status : {None, "", "IN_SERVICE", "COMPLETE"}, started : Token,
           completed : Token, photos : Seq(Photo), valid : BOOLEAN]

\* No record under the key.
NoRecord == [status |-> None, started |-> None, completed |-> None,
             photos |-> <<>>, valid |-> TRUE]

\* The service replies with a record, or with a photo, or with neither.
Reply == [record : Record, photo : Seq(Photo)]
NoReply == [record |-> NoRecord, photo |-> <<>>]

\* acked and epoch are history: the writes on the order acknowledged to clients
\* in this incarnation, and the incarnation, when the request came in.
Call == [op : Writes \cup {"get"}, order : Orders, acked : SUBSET Requests,
         epoch : 0..MaxRestarts]
NoCall == [op |-> None, order |-> None, acked |-> {}, epoch |-> 0]

Status == {200, 422, 500} \cup {MapGrpcError(s).status_code : s \in FailureCodes}

Answer == [status : {0} \cup Status, record : Record, epoch : 0..MaxRestarts]

TypeOK ==
    /\ CallsTypeOK
    /\ call \in [Requests -> Call \cup {NoCall}]
    /\ reply \in [Requests -> Reply]
    /\ answer \in [Requests -> Answer]
    /\ records \in [Orders -> Record]
    /\ archive \in [Orders -> Record]

Init ==
    /\ CallsInit
    /\ call = [r \in Requests |-> NoCall]
    /\ reply = [r \in Requests |-> NoReply]
    /\ answer = [r \in Requests |-> [status |-> 0, record |-> NoRecord, epoch |-> 0]]
    /\ records = [o \in Orders |-> NoRecord]
    /\ archive = [o \in Orders |-> NoRecord]

-----------------------------------------------------------------------------
(* What requests and answers carry. *)

\* The writes on o that this incarnation answered 200.
Acked(o) ==
    {q \in Requests : /\ call[q].op \in Writes
                      /\ call[q].order = o
                      /\ answer[q].status = 200
                      /\ answer[q].epoch = epoch}

Asks(r, op, o) ==
    call' = [call EXCEPT ![r] = [op |-> op, order |-> o, acked |-> Acked(o),
                                 epoch |-> epoch]]

Answers(r, status, record) ==
    answer' = [answer EXCEPT ![r] = [status |-> status, record |-> record, epoch |-> epoch]]

WellFormed(record) == record.valid /\ \A i \in DOMAIN record.photos : record.photos[i].valid

\* Mutated form of Responds: the record is told as it came.
RespondsUnchecked(r, record) == Answers(r, 200, record)

\* The answer is validated against the response model, which requires a record.
Responds(r, record) ==
    IF record # NoRecord /\ WellFormed(record)
    THEN Answers(r, 200, record)
    ELSE Answers(r, 500, NoRecord)

Fails(r, status) == Answers(r, MapGrpcError(status).status_code, NoRecord)

FallsBackOn(status) == ShouldUseMockFallback(MapGrpcError(status))

\* Mutated forms of Put: the orders share one record; the photos of the store are kept.
PutShared(o, record) == [p \in Orders |-> record]
PutMerged(o, record) == [records EXCEPT ![o] = [record EXCEPT !.photos = records[o].photos \o @]]

Put(o, record) == [records EXCEPT ![o] = record]

\* The records the gateway makes up.
OwnStart(r) == [status |-> "IN_SERVICE", started |-> r, completed |-> None,
                photos |-> <<>>, valid |-> TRUE]

\* Mutated forms of Completed: the status is forgotten; a record is made anew instead
\* of updated.
TimedOnly(record, r) == [record EXCEPT !.completed = r]
CompletedAnew(record, r) ==
    [status |-> "COMPLETE", started |-> None, completed |-> r, photos |-> <<>>, valid |-> TRUE]

\* record.update({...}), on an empty record if there is none.
Completed(record, r) == [record EXCEPT !.status = "COMPLETE", !.completed = r]

Invented == [status |-> "COMPLETE", started |-> None, completed |-> None,
             photos |-> <<>>, valid |-> TRUE]

\* setdefault(order_id, stub), then setdefault("photos", []).append(photo).
WithPhoto(record, photo) ==
    [record EXCEPT !.status = IF record = NoRecord THEN "" ELSE @,
                   !.photos = Append(@, photo)]

\* Mutated form of OwnPhoto: a field is filled from the order.
OwnPhotoOfOrder(r) == [of |-> call[r].order, own |-> TRUE, valid |-> TRUE]

OwnPhoto(r) == [of |-> r, own |-> TRUE, valid |-> TRUE]

\* What was kept is no object, or its photos are no list: the handler breaks when it
\* adds to it.
Breaks(r) ==
    /\ ~records[call[r].order].valid
    /\ Answers(r, 500, NoRecord)
    /\ UNCHANGED records

-----------------------------------------------------------------------------
(* service_execution_start_service, _complete_service, _add_photo *)

\* Each of the three reads its body, and calls the service.
Write(r, op) ==
    \E o \in Orders :
        /\ Asks(r, op, o)
        /\ \/ AnsweredAtOnce(r) /\ Answers(r, 422, NoRecord)  \* unfit body
           \/ Sends(r) /\ UNCHANGED answer
        /\ UNCHANGED <<reply, records, archive>>

StartReturns(r) ==
    /\ call[r].op = "start"
    /\ Returns(r)
    /\ records' = IF reply[r].record = NoRecord THEN records
                  ELSE Put(call[r].order, reply[r].record)
    /\ Responds(r, reply[r].record)
    /\ UNCHANGED <<call, reply, archive>>

StartRaises(r, status) ==
    /\ call[r].op = "start"
    /\ Raises(r, status)
    /\ \/ /\ FallsBackOn(status)
          /\ records' = Put(call[r].order, OwnStart(r))
          /\ Responds(r, OwnStart(r))
       \/ /\ ~FallsBackOn(status)
          /\ Fails(r, status)
          /\ UNCHANGED records
    /\ UNCHANGED <<call, reply, archive>>

CompleteReturns(r) ==
    /\ call[r].op = "complete"
    /\ Returns(r)
    /\ records' = IF reply[r].record = NoRecord THEN records
                  ELSE Put(call[r].order, reply[r].record)
    /\ Responds(r, reply[r].record)
    /\ UNCHANGED <<call, reply, archive>>

CompleteRaises(r, status) ==
    /\ call[r].op = "complete"
    /\ Raises(r, status)
    /\ LET o == call[r].order
           record == Completed(records[o], r)
       IN  \/ /\ FallsBackOn(status)
              /\ \/ records' = Put(o, record) /\ Responds(r, record)
                 \/ Breaks(r)
           \/ /\ ~FallsBackOn(status)
              /\ Fails(r, status)
              /\ UNCHANGED records
    /\ UNCHANGED <<call, reply, archive>>

PhotoReturns(r) ==
    /\ call[r].op = "photo"
    /\ Returns(r)
    /\ LET o == call[r].order
           photo == reply[r].photo
       IN  \/ /\ records' = IF photo = <<>> THEN records
                            ELSE Put(o, WithPhoto(records[o], photo[1]))
              /\ Answers(r, IF photo # <<>> /\ photo[1].valid THEN 200 ELSE 500, NoRecord)
           \/ photo # <<>> /\ Breaks(r)
    /\ UNCHANGED <<call, reply, archive>>

PhotoRaises(r, status) ==
    /\ call[r].op = "photo"
    /\ Raises(r, status)
    /\ LET o == call[r].order
       IN  \/ /\ FallsBackOn(status)
              /\ \/ /\ records' = Put(o, WithPhoto(records[o], OwnPhoto(r)))
                    /\ Answers(r, 200, NoRecord)
                 \/ Breaks(r)
           \/ /\ ~FallsBackOn(status)
              /\ Fails(r, status)
              /\ UNCHANGED records
    /\ UNCHANGED <<call, reply, archive>>

-----------------------------------------------------------------------------
(* service_execution_get_record *)

GetRecord(r) ==
    \E o \in Orders :
        /\ Asks(r, "get", o)
        /\ \/ /\ records[o] # NoRecord
              /\ AnsweredAtOnce(r)
              /\ Responds(r, records[o])
           \/ /\ records[o] = NoRecord
              /\ Sends(r)
              /\ UNCHANGED answer
        /\ UNCHANGED <<reply, records, archive>>

GetReturns(r) ==
    /\ call[r].op = "get"
    /\ Returns(r)
    /\ Responds(r, reply[r].record)
    /\ UNCHANGED <<call, reply, records, archive>>

\* Mutated form of FallbackRecord: the store as it was before the await, empty.
StaleRecord(o) == Invented

\* The record of the fallback: the store's, as it is after the await.
FallbackRecord(o) == IF records[o] = NoRecord THEN Invented ELSE records[o]

\* Mutated form of GetRaises: setdefault in place of get.
GetRaisesAndKeeps(r, status) ==
    /\ call[r].op = "get"
    /\ Raises(r, status)
    /\ LET o == call[r].order
       IN  \/ /\ FallsBackOn(status)
              /\ records' = Put(o, FallbackRecord(o))
              /\ Responds(r, FallbackRecord(o))
           \/ ~FallsBackOn(status) /\ Fails(r, status) /\ UNCHANGED records
    /\ UNCHANGED <<call, reply, archive>>

GetRaises(r, status) ==
    /\ call[r].op = "get"
    /\ Raises(r, status)
    /\ \/ FallsBackOn(status) /\ Responds(r, FallbackRecord(call[r].order))
       \/ ~FallsBackOn(status) /\ Fails(r, status)
    /\ UNCHANGED <<call, reply, records, archive>>

-----------------------------------------------------------------------------
(* The service execution service, and the process. *)

\* The service follows the order lifecycle of the documentation: a completed
\* service is neither started nor completed again (such a call is refused).  It
\* replies with its record, with a record the gateway's model does not admit, or
\* with none.
ServesProgress(r) ==
    /\ Executes(r)
    /\ LET o == call[r].order
           record == IF call[r].op = "start"
                     THEN [archive[o] EXCEPT !.status = "IN_SERVICE", !.started = r]
                     ELSE [archive[o] EXCEPT !.status = "COMPLETE", !.completed = r]
       IN  /\ call[r].op \in {"start", "complete"}
           /\ archive[o].status # "COMPLETE"
           /\ archive' = [archive EXCEPT ![o] = record]
           /\ \E shown \in {record, [record EXCEPT !.valid = FALSE], NoRecord} :
                 reply' = [reply EXCEPT ![r].record = shown]
    /\ UNCHANGED <<call, answer, records>>

ServesPhoto(r) ==
    /\ call[r].op = "photo"
    /\ Executes(r)
    /\ LET o == call[r].order
           photo == [of |-> r, own |-> FALSE, valid |-> TRUE]
       IN  /\ archive' = [archive EXCEPT ![o] = WithPhoto(@, photo)]
           /\ \E shown \in {<<photo>>, <<[photo EXCEPT !.valid = FALSE]>>, <<>>} :
                 reply' = [reply EXCEPT ![r].photo = shown]
    /\ UNCHANGED <<call, answer, records>>

\* A record the service does not have is not found: that call is refused.
ServesGet(r) ==
    /\ call[r].op = "get"
    /\ Executes(r)
    /\ archive[call[r].order] # NoRecord
    /\ reply' = [reply EXCEPT ![r].record = archive[call[r].order]]
    /\ UNCHANGED <<call, answer, records, archive>>

\* The store lives on app.state and is made anew by the next process.
Restart ==
    /\ Crashes
    /\ records' = [o \in Orders |-> NoRecord]
    /\ UNCHANGED <<call, reply, answer, archive>>

\* Mutated form of TimesOut: AddServicePhoto is called without a timeout.
AllButPhotoTimesOut(r) ==
    \/ StartRaises(r, "DEADLINE_EXCEEDED")
    \/ CompleteRaises(r, "DEADLINE_EXCEEDED")
    \/ GetRaises(r, "DEADLINE_EXCEEDED")

\* The deadline every call is sent with has passed.
TimesOut(r) ==
    \/ StartRaises(r, "DEADLINE_EXCEEDED")
    \/ CompleteRaises(r, "DEADLINE_EXCEEDED")
    \/ PhotoRaises(r, "DEADLINE_EXCEEDED")
    \/ GetRaises(r, "DEADLINE_EXCEEDED")

\* Every request has come to its end.
Terminated ==
    /\ \A r \in Requests : pc[r] \in {"answered", "lost"}
    /\ UNCHANGED vars

Gateway(r) ==
    \/ \E op \in Writes : Write(r, op)
    \/ GetRecord(r)
    \/ StartReturns(r)
    \/ CompleteReturns(r)
    \/ PhotoReturns(r)
    \/ GetReturns(r)
    \/ \E status \in FailureCodes :
          \/ StartRaises(r, status)
          \/ CompleteRaises(r, status)
          \/ PhotoRaises(r, status)
          \/ GetRaises(r, status)

Service(r) == ServesProgress(r) \/ ServesPhoto(r) \/ ServesGet(r)

Next ==
    \/ \E r \in Requests : Gateway(r) \/ Service(r)
    \/ Restart
    \/ Terminated

\* A timer of the event loop ends every call that is not answered in time.
Fairness == \A r \in Requests : WF_vars(TimesOut(r))

Spec == Init /\ [][Next]_vars /\ Fairness

-----------------------------------------------------------------------------
(* Properties. *)

\* The call of q was made on order o as op, and it took effect somewhere: at the
\* service, or at the gateway in its stead.
Effective(q, op, o) ==
    /\ call[q].op = op
    /\ call[q].order = o
    /\ svc[q] = "executed" \/ seen[q] \in MOCKABLE_DOWNSTREAM_GAP_CODES

Backed(record, o) ==
    /\ record.started # None => Effective(record.started, "start", o)
    /\ record.completed # None => Effective(record.completed, "complete", o)
    /\ \A i \in DOMAIN record.photos :
          LET photo == record.photos[i] IN
          /\ Effective(photo.of, "photo", o)
          /\ photo.own => seen[photo.of] \in MOCKABLE_DOWNSTREAM_GAP_CODES
          /\ photo.own => \A j \in DOMAIN record.photos : record.photos[j] = photo => i = j

\* Whatever a kept or an answered record says has happened: each start,
\* completion and photo in it was asked for on this very order, and was carried
\* out by the service or, the service being unable to, by the gateway; and a
\* photo the gateway kept by itself is in it once.
EveryMarkIsBacked ==
    /\ \A o \in Orders : Backed(records[o], o)
    /\ \A r \in Requests : answer[r].record # NoRecord => Backed(answer[r].record, call[r].order)

\* The status of a kept record is the one its marks call for, whichever of the
\* starts, completions and photos of the order, answered by the service or by
\* the gateway, came last: in particular reading never leaves the invented
\* record behind.
StatusFitsMarks ==
    \A o \in Orders :
        LET record == records[o] IN
        /\ record.status = "COMPLETE" <=> record.completed # None
        /\ record.status = "IN_SERVICE" => record.started # None
        /\ record.status = "" => record.started = None /\ record.photos # <<>>

\* A record is kept before it is validated.  One that no client can read, because it or
\* a photo in it does not fit the response model, is kept only on an order of which a
\* write that the service carried out was answered by this very process with a
\* failure (500): writes that are all acknowledged leave no such record.
BrokenRecordIsReported ==
    \A o \in Orders :
        ~WellFormed(records[o]) =>
            \E q \in Requests :
                /\ call[q].op \in Writes /\ call[q].order = o
                /\ seen[q] = "OK"
                /\ answer[q].status = 500 /\ answer[q].epoch = epoch

\* A kept record has a photo twice at most, and only so: the reply to a start or to a
\* completion, made after the service had entered the photo, came in first and replaced
\* the record; then the photo's own call ended, with its reply or without.
DoubledOnlyByOvertaking ==
    \A o \in Orders : LET photos == records[o].photos IN
        \A i, j \in DOMAIN photos :
            i < j /\ photos[i].of = photos[j].of =>
                /\ \A k \in DOMAIN photos : photos[k].of = photos[i].of => k \in {i, j}
                /\ ~photos[i].own
                /\ \E r \in Requests :
                      /\ call[r].op \in {"start", "complete"}
                      /\ call[r].order = o
                      /\ seen[r] = "OK"
                      /\ \E k \in DOMAIN reply[r].record.photos : reply[r].record.photos[k] = photos[i]

\* Within one incarnation, what the store knows of an order's photos and start is
\* given up only for a record of the service or for a start of the gateway's own:
\* a completion it makes by itself, a photo and a read keep them.
HistoryGoesOnlyWithReplacement ==
    [][epoch' = epoch =>
         \A o \in Orders :
            \/ /\ records'[o].started = records[o].started
               /\ \A i \in DOMAIN records[o].photos :
                     /\ i \in DOMAIN records'[o].photos
                     /\ records'[o].photos[i] = records[o].photos[i]
            \/ \E r \in Requests :
                  /\ pc[r] = "waiting" /\ pc'[r] = "answered"
                  /\ call[r].order = o
                  /\ \/ call[r].op = "start"
                     \/ call[r].op = "complete" /\ seen'[r] = "OK"]_vars

EntryOf(record) ==
    [started |-> record.started, completed |-> record.completed,
     photos |-> [i \in DOMAIN record.photos |-> record.photos[i].of]]

\* The book the store amounts to.
BookOf == [o \in Orders |-> EntryOf(records[o])]

PhaseOf ==
    [r \in Requests |-> IF pc[r] = "idle" THEN "new"
                        ELSE IF pc[r] = "waiting" THEN "open" ELSE "done"]

AboutOf == [r \in Requests |-> call[r].order]

KindOf == [r \in Requests |-> call[r].op]

\* What is told with 200: of a photo nothing but itself.
ToldOf ==
    [r \in Requests |->
        IF answer[r].status # 200 THEN {}
        ELSE {IF call[r].op = "photo" THEN [EntryOf(NoRecord) EXCEPT !.photos = <<r>>]
              ELSE EntryOf(answer[r].record)}]

Book == INSTANCE RecordBook
    WITH Nobody <- None, book <- BookOf, phase <- PhaseOf, about <- AboutOf,
         kind <- KindOf, told <- ToldOf

\* The routes keep the promise of RecordBook: each write takes effect at one instant
\* and with its own mark, or is not acknowledged; no read changes anything; and what a
\* read shows is the entry of the store if it had one when it came in (a stub that a
\* photo made shadows the service from then on), and otherwise the entry it has by then
\* or the service's.  The invented record, which has no mark, is told only while the
\* store has none, were it after the await (service_execution_get_record).
KeepsRecords == Book!Spec

\* Once asked for, every request comes to its end, whatever the service does:
\* it is answered, or it is lost with the process.
EveryRequestEnds ==
    \A r \in Requests : pc[r] = "waiting" ~> pc[r] \in {"answered", "lost"}

\* A service a client was told to be complete is read as complete from then on,
\* as long as the process lives ("CREATED -> PENDING -> ACCEPT -> IN_SERVICE ->
\* COMPLETE -> PAID", API_DOCUMENTATION.md).
CompletedStaysCompleted ==
    \A r, q \in Requests :
        (/\ call[r].op = "get" /\ answer[r].status = 200
         /\ q \in call[r].acked /\ call[q].op = "complete")
            => answer[r].record.status = "COMPLETE"

=============================================================================
