---------------------------- MODULE WorkerSchedule ----------------------------
(***************************************************************************)
(* The worker schedule routes of the gateway (register, status, workers,   *)
(* sync-event, daily schedule and order detail in                          *)
(* app/gateway/http_to_rpc_router.py, worker_schedule_* in                 *)
(* grpc_clients.py), the workers of the in-memory store, and the schedule  *)
(* service behind them.                                                    *)
(*                                                                         *)
(* When the service is out of reach or not up to the call, the gateway     *)
(* registers a worker and changes his status by itself and keeps him in    *)
(* the store; the list of workers is always the service's, and so are the  *)
(* tasks that the events of orders amount to.                              *)
(*                                                                         *)
(* A status is written as a name (Names), the shown ones with the prefix   *)
(* of the proto enum; a worker's own name and the title of a task are      *)
(* abstracted, and of its times only the date is kept.                     *)
(***************************************************************************)
EXTENDS Calls, Names

CONSTANTS Workers, Orders,
          Statuses,   \* the names clients write for a status
          Events,     \* the names clients write for the type of an event
          Dates       \* the days on which events put their orders

\* What clients write are names.
ASSUME WorkerScheduleAssumption == Statuses \cup Events \subseteq Name(STRING)

None == "none"
NoStatus == Plain("")
WorkerStatus == {"AVAILABLE", "ASSIGNED", "IN_SERVICE"}
EventType == {"ASSIGNED", "SERVICE_STARTED", "COMPLETED", "CANCELED"}

VARIABLES
    call,      \* what a request asks for
    reply,     \* the workers and the tasks in the service's reply
    answer,    \* the HTTP answer to a request
    workers,   \* the gateway's store: core_flow_mock_store["workers"]
    schedule,  \* the status of the workers the service holds
    tasks      \* per order, the task the service holds: none or one

scheduleVars == <<call, reply, answer, workers, schedule, tasks>>
vars == <<callVars, scheduleVars>>

TaskReads == {"daily", "detail"}
Writes == {"register", "update", "sync"}
Ops == Writes \cup {"list"} \cup TaskReads

\* date: of an event, or the one a daily schedule is asked for.  acked is history: the
\* writes acknowledged when a list of the workers came in, the events acknowledged
\* when a read of the tasks did.
Call == [op : Ops, worker : Workers \cup {None}, status : Statuses \cup {NoStatus},
         order : Orders \cup {None}, event : Events \cup {NoStatus},
         date : Dates \cup {None}, acked : SUBSET Requests]
NoCall == [op |-> None, worker |-> None, status |-> NoStatus, order |-> None,
           event |-> NoStatus, date |-> None, acked |-> {}]

\* A worker as shown.  The fallback shows whatever status was written.
Worker == [id : Workers, status : Name({s.word : s \in Statuses}
                                           \cup WorkerStatus \cup {"UNSPECIFIED"})]

\* A task as of the event that was its last one.
Task == [order : Orders, worker : Workers, by : Requests,
         event : EventType \cup {"UNSPECIFIED"}, date : Dates]

NoReply == [workers |-> {}, tasks |-> {}]

\* No entry under the key.
NoWorker == [id |-> None, status |-> NoStatus]

Status == {200, 422, 500} \cup {MapGrpcError(s).status_code : s \in FailureCodes}

TypeOK ==
    /\ CallsTypeOK
    /\ call \in [Requests -> Call \cup {NoCall}]
    /\ \A r \in Requests :
          /\ reply[r].workers \cup answer[r].workers \subseteq Worker
          /\ reply[r].tasks \cup answer[r].tasks \subseteq Task
          /\ answer[r].status \in {0} \cup Status
    /\ workers \in [Workers -> Worker \cup {NoWorker}]
    /\ schedule \in [Workers -> WorkerStatus \cup {"UNSPECIFIED", None}]
    /\ \A o \in Orders : tasks[o] \subseteq Task

Init ==
    /\ CallsInit
    /\ call = [r \in Requests |-> NoCall]
    /\ reply = [r \in Requests |-> NoReply]
    /\ answer = [r \in Requests |-> [status |-> 0, workers |-> {}, tasks |-> {}]]
    /\ workers = [w \in Workers |-> NoWorker]
    /\ schedule = [w \in Workers |-> None]
    /\ tasks = [o \in Orders |-> {}]

-----------------------------------------------------------------------------
(* The gateway. *)

Acknowledged(ops) == {q \in Requests : call[q].op \in ops /\ answer[q].status = 200}

Asks(op) ==
    [op : {op},
     worker : IF op \in Writes THEN Workers ELSE {None},
     status : IF op = "update" THEN Statuses ELSE {NoStatus},
     order : IF op \in {"sync", "detail"} THEN Orders ELSE {None},
     event : IF op = "sync" THEN Events ELSE {NoStatus},
     date : IF op \in {"sync", "daily"} THEN Dates ELSE {None},
     acked : CASE op = "list"       -> {Acknowledged(Writes)}
               [] op \in TaskReads -> {Acknowledged({"sync"})}
               [] OTHER            -> {{}}]

Answers(r, status, reading) ==
    answer' = [answer EXCEPT ![r] = [status |-> status, workers |-> reading.workers,
                                     tasks |-> reading.tasks]]

\* The six handlers up to their call.
Request(r) ==
    /\ pc[r] = "idle"
    /\ \E op \in Ops : \E c \in Asks(op) :
           /\ call' = [call EXCEPT ![r] = c]
           /\ \/ /\ op \notin {"list", "detail"}   \* unfit body, or no date
                 /\ AnsweredAtOnce(r)
                 /\ Answers(r, 422, NoReply)
              \/ /\ Sends(r)
                 /\ UNCHANGED answer
           /\ UNCHANGED <<reply, workers, schedule, tasks>>

\* A reply without a worker does not fit the models of the writes; one without a task
\* fits.
Replies(r) ==
    /\ Returns(r)
    /\ IF call[r].op \in Writes /\ reply[r] = NoReply
       THEN Answers(r, 500, NoReply)
       ELSE Answers(r, 200, reply[r])
    /\ UNCHANGED <<call, reply, workers, schedule, tasks>>

\* Mutated form of OwnStatus: the prefix is always added.
PrefixedTwice(name) ==
    [Upcased(name) EXCEPT !.blanks = IF name.prefixed THEN {"before"} ELSE @, !.prefixed = TRUE]

\* status.upper(), with the prefix unless it starts with it.  Blanks stay where they
\* are, so that what comes out is no name of the enum.
OwnStatus(name) == [Upcased(name) EXCEPT !.prefixed = TRUE]

\* _mock_worker(...): a worker is registered as AVAILABLE.
OwnWorker(r) ==
    [id |-> call[r].worker,
     status |-> OwnStatus(IF call[r].op = "update" THEN call[r].status
                          ELSE Plain("AVAILABLE"))]

\* Mutated forms of Covers: the failures of every route are covered up; those of a
\* synchronised event are; every failure of a registration or a status is.
CoversEveryRoute(r, status) == ShouldUseMockFallback(MapGrpcError(status))
CoversSync(r, status) ==
    call[r].op \in Writes /\ ShouldUseMockFallback(MapGrpcError(status))
CoversAll(r, status) == call[r].op \in {"register", "update"}

Covers(r, status) ==
    call[r].op \in {"register", "update"} /\ ShouldUseMockFallback(MapGrpcError(status))

KeptWorker(r) == [workers EXCEPT ![call[r].worker] = OwnWorker(r)]

Fails(r, status) ==
    /\ call[r].op \in Ops
    /\ Raises(r, status)
    /\ \/ /\ Covers(r, status)
          /\ workers' = KeptWorker(r)
          /\ Answers(r, 200, [NoReply EXCEPT !.workers = {OwnWorker(r)}])
       \/ /\ ~Covers(r, status)
          /\ Answers(r, MapGrpcError(status).status_code, NoReply)
          /\ UNCHANGED workers
    /\ UNCHANGED <<call, reply, schedule, tasks>>

-----------------------------------------------------------------------------
(* The schedule service, and the process. *)

\* The enum value as the proto writes it.
Shown(w, status) ==
    [id |-> w, status |-> [word |-> status, prefixed |-> TRUE, lower |-> FALSE, blanks |-> {}]]

Enters(r, w, status) ==
    /\ Executes(r)
    /\ schedule' = [schedule EXCEPT ![w] = status]
    /\ \E shown \in {{Shown(w, status)}, {}} : reply' = [reply EXCEPT ![r].workers = shown]
    /\ UNCHANGED <<call, answer, workers>>

ServesRegister(r) ==
    /\ call[r].op = "register"
    /\ Enters(r, call[r].worker, "AVAILABLE")
    /\ UNCHANGED tasks

\* A worker who is not registered has no status to change: the call is refused.
ServesUpdate(r) ==
    /\ call[r].op = "update"
    /\ schedule[call[r].worker] # None
    /\ Enters(r, call[r].worker, Parse(call[r].status, WorkerStatus))
    /\ UNCHANGED tasks

\* What an event makes of the status is up to the service.  An event whose type it is
\* not told it refuses.  The task of its order is on the event's date from then on.
ServesSync(r) ==
    LET event == Parse(call[r].event, EventType)
        task == [order |-> call[r].order, worker |-> call[r].worker, by |-> r,
                 event |-> event, date |-> call[r].date]
    IN  /\ call[r].op = "sync"
        /\ event # "UNSPECIFIED"
        /\ \E status \in WorkerStatus : Enters(r, call[r].worker, status)
        /\ tasks' = [tasks EXCEPT ![call[r].order] = {task}]

ServesList(r) ==
    /\ call[r].op = "list"
    /\ Executes(r)
    /\ reply' = [reply EXCEPT ![r].workers =
                    {Shown(w, schedule[w]) : w \in {v \in Workers : schedule[v] # None}}]
    /\ UNCHANGED <<call, answer, workers, schedule, tasks>>

\* Of an order without events there is no task to show.
ServesTasks(r) ==
    /\ call[r].op \in TaskReads
    /\ Executes(r)
    /\ reply' = [reply EXCEPT ![r].tasks =
                    IF call[r].op = "detail" THEN tasks[call[r].order]
                    ELSE {task \in UNION {tasks[o] : o \in Orders} : task.date = call[r].date}]
    /\ UNCHANGED <<call, answer, workers, schedule, tasks>>

\* The store lives on app.state and is made anew by the next process.
Restart ==
    /\ Crashes
    /\ workers' = [w \in Workers |-> NoWorker]
    /\ UNCHANGED <<call, reply, answer, schedule, tasks>>

\* Every request has come to its end.
Terminated ==
    /\ \A r \in Requests : pc[r] \in {"answered", "lost"}
    /\ UNCHANGED vars

Next ==
    \/ \E r \in Requests :
          \/ Request(r)
          \/ Replies(r)
          \/ \E status \in FailureCodes : Fails(r, status)
          \/ ServesRegister(r)
          \/ ServesUpdate(r)
          \/ ServesSync(r)
          \/ ServesList(r)
          \/ ServesTasks(r)
    \/ Restart
    \/ Terminated

Spec == Init /\ [][Next]_vars

-----------------------------------------------------------------------------
(* Properties. *)

\* A status that is answered is the one that was asked for, whichever side answers,
\* however the client writes it: the parser's reading before the call and the
\* fallback's after it agree on every documented name without blanks, and a worker
\* is registered as available by both.
ReadingsAgree ==
    \A r \in Requests : \A shown \in answer[r].workers :
        /\ call[r].op = "register" => shown = Shown(call[r].worker, "AVAILABLE")
        /\ (/\ call[r].op = "update"
            /\ call[r].status.word \in WorkerStatus
            /\ call[r].status.blanks = {})
               => shown = Shown(call[r].worker, call[r].status.word)

\* The gateway acknowledged r by itself.
MadeUp(r) == call[r].op \in {"register", "update"} /\ seen[r] \in MOCKABLE_DOWNSTREAM_GAP_CODES

\* The service knows of w.
Registered(w) ==
    \E q \in Requests :
        call[q].op \in {"register", "sync"} /\ call[q].worker = w /\ svc[q] = "executed"

\* The list of workers never reads the store.  So it has every worker whose
\* registration, status or event had been acknowledged when it was asked for, but for
\* those whom the gateway acknowledged by itself because the service could not serve
\* them, and it has nobody of whom the service was not told
\* (worker_schedule_list_workers, worker_schedule_register_worker,
\* worker_schedule_update_worker_status).
AckedWorkerIsListed ==
    \A r \in Requests :
        (call[r].op = "list" /\ answer[r].status = 200)
            => /\ \A q \in call[r].acked :
                     \/ \E shown \in answer[r].workers : shown.id = call[q].worker
                     \/ MadeUp(q)
               /\ \A shown \in answer[r].workers : Registered(shown.id)

\* r shows the task of the order of q.
ShowsOrder(r, q) == \E task \in answer[r].tasks : task.order = call[q].order

\* Another event has put the order of q on another date.
Moved(q) ==
    \E p \in Requests :
        /\ call[p].op = "sync" /\ call[p].order = call[q].order /\ call[p].date # call[q].date
        /\ svc[p] = "executed"

\* An event that was acknowledged is never denied afterwards: the detail of its order,
\* when it is answered, shows the order's task, of that event or of a later one, and
\* the schedule of its date does unless another event has put the order on another
\* date; and every task shown is that of an event a client wrote, of the type he meant
\* and on the date asked for (worker_schedule_sync_order_event,
\* _parse_order_event_type).  The gateway must not acknowledge an event by itself, as
\* it does with workers.
AckedEventsAreShown ==
    \A r \in Requests :
        /\ \A q \in call[r].acked :
              answer[r].status = 200 =>
                 /\ call[r].op = "detail" /\ call[r].order = call[q].order => ShowsOrder(r, q)
                 /\ call[r].op = "daily" /\ call[r].date = call[q].date =>
                       ShowsOrder(r, q) \/ Moved(q)
        /\ \A task \in answer[r].tasks :
              LET c == call[task.by] IN
              /\ c.op = "sync" /\ c.order = task.order /\ c.worker = task.worker
              /\ task.event = c.event.word /\ task.date = c.date
              /\ call[r].op = "daily" => task.date = call[r].date

=============================================================================
