------------------------- MODULE WorkerScheduleProofs -------------------------
(***************************************************************************)
(* Theorems about WorkerSchedule, for every set of requests, workers,      *)
(* orders, written names, dates and failure codes and every bound on       *)
(* restarts.                                                               *)
(***************************************************************************)
EXTENDS WorkerSchedule, CallsProofs

(* The steps. *)

Serves(r) ==
    ServesRegister(r) \/ ServesUpdate(r) \/ ServesSync(r) \/ ServesList(r) \/ ServesTasks(r)

\* The call of r ends, and r is answered.
Ends(r) == Replies(r) \/ \E status \in FailureCodes : Fails(r, status)

\* Every step is one of these.
LEMMA Steps ==
    ASSUME [Next]_vars
    PROVE  \/ \E r \in Requests : Request(r) \/ Ends(r) \/ Serves(r)
           \/ Restart
           \/ UNCHANGED vars
  BY DEF Next, Terminated, Ends, Serves

\* What a step does to the shared part.
LEMMA StepOfCalls ==
    ASSUME [Next]_vars
    PROVE  CallsStep
  <1>1. ASSUME NEW r \in Requests, Request(r) PROVE CallsStep
    BY <1>1 DEF Request, CallsStep
  <1>2. ASSUME NEW r \in Requests, Ends(r) PROVE CallsStep
    BY <1>2 DEF Ends, Replies, Fails, CallsStep
  <1>3. ASSUME NEW r \in Requests, Serves(r) PROVE CallsStep
    BY <1>3 DEF Serves, ServesRegister, ServesUpdate, ServesSync, ServesList, ServesTasks,
                Enters, CallsStep
  <1>4. CASE Restart
    BY <1>4 DEF Restart, CallsStep
  <1>5. CASE UNCHANGED vars
    BY <1>5 DEF vars, CallsStep
  <1> QED
    BY <1>1, <1>2, <1>3, <1>4, <1>5, Steps

-----------------------------------------------------------------------------
(* The inductive invariant. *)

Reading == [workers : SUBSET Worker, tasks : SUBSET Task]
Answer == [status : {0} \cup Status, workers : SUBSET Worker, tasks : SUBSET Task]
Blank == [status |-> 0, workers |-> {}, tasks |-> {}]

\* Each operation has the parameters it needs.
Fits(c) ==
    /\ c.op \in Writes => c.worker \in Workers
    /\ c.op = "update" => c.status \in Statuses
    /\ c.op \in {"sync", "detail"} => c.order \in Orders
    /\ c.op = "sync" => c.event \in Events /\ c.date \in Dates
    /\ c.op \in Writes => c.acked = {}

TypeInv ==
    /\ CallsTypeOK
    /\ call \in [Requests -> Call \cup {NoCall}]
    /\ \A r \in Requests : Fits(call[r])
    /\ reply \in [Requests -> Reading]
    /\ answer \in [Requests -> Answer]
    /\ workers \in [Workers -> Worker \cup {NoWorker}]
    /\ schedule \in [Workers -> WorkerStatus \cup {"UNSPECIFIED", None}]
    /\ tasks \in [Orders -> SUBSET Task]

\* A request that has not come in has left no trace, and one that is not answered
\* has no answer.
StageInv ==
    \A r \in Requests :
        /\ pc[r] = "idle" => call[r] = NoCall /\ reply[r] = NoReply
        /\ pc[r] # "answered" => answer[r] = Blank

\* The request c wrote the event of task.
Wrote(c, task) ==
    /\ c.op = "sync" /\ c.order = task.order /\ c.worker = task.worker
    /\ task.event = c.event.word /\ task.date = c.date

\* An order whose event was executed has a task, of an executed event a client wrote.
TaskInv ==
    /\ \A o \in Orders : \A task \in tasks[o] :
          task.order = o /\ Wrote(call[task.by], task) /\ svc[task.by] = "executed"
    /\ \A r \in Requests :
          call[r].op = "sync" /\ svc[r] = "executed" => tasks[call[r].order] # {}

\* The service knows of a worker what it was told.
ScheduleInv ==
    /\ \A r \in Requests :
          call[r].op \in Writes /\ svc[r] = "executed" => schedule[call[r].worker] # None
    /\ \A w \in Workers : schedule[w] # None => Registered(w)

\* A write is acknowledged after its execution or by the gateway itself.
AckedInv ==
    /\ \A r \in Requests :
          call[r].op \in Writes /\ answer[r].status = 200 => svc[r] = "executed" \/ MadeUp(r)
    /\ \A r \in Requests : \A q \in call[r].acked :
          /\ call[q].op \in Writes /\ answer[q].status = 200
          /\ call[r].op \in TaskReads => call[q].op = "sync"

\* What the workers shown to c have to be.
RightlyShown(c, shown) ==
    /\ c.op = "register" => shown = Shown(c.worker, "AVAILABLE")
    /\ c.op = "update" /\ c.status.word \in WorkerStatus =>
          shown = Shown(c.worker, c.status.word)

\* Each task is what a client wrote, and what c asks for.
RightTasks(c, shown) ==
    \A task \in shown :
        Wrote(call[task.by], task) /\ (c.op = "daily" => task.date = c.date)

\* The tasks show to the read c what it knows of.
Tells(c, shown) ==
    \A q \in c.acked :
        /\ c.op = "detail" /\ c.order = call[q].order =>
              \E task \in shown : task.order = call[q].order
        /\ c.op = "daily" /\ c.date = call[q].date =>
              (\E task \in shown : task.order = call[q].order) \/ Moved(q)

\* The workers show to the list c whom it knows of.
Lists(c, shown) ==
    c.op = "list" =>
        /\ \A q \in c.acked : (\E one \in shown : one.id = call[q].worker) \/ MadeUp(q)
        /\ \A one \in shown : Registered(one.id)

\* A reply shows the workers as they were asked for, tasks of events that were written,
\* and, to a read, what was acknowledged when it came in.
ReplyInv ==
    \A r \in Requests :
        /\ \A shown \in reply[r].workers : RightlyShown(call[r], shown)
        /\ RightTasks(call[r], reply[r].tasks)
        /\ svc[r] = "executed" =>
              Tells(call[r], reply[r].tasks) /\ Lists(call[r], reply[r].workers)

\* And so does what is answered.
AnswerInv ==
    \A r \in Requests :
        /\ RightTasks(call[r], answer[r].tasks)
        /\ answer[r].status = 200 =>
              Tells(call[r], answer[r].tasks) /\ Lists(call[r], answer[r].workers)

IInv ==
    /\ TypeInv /\ LifeInv /\ StageInv /\ TaskInv /\ ScheduleInv /\ AckedInv
    /\ ReplyInv /\ AnswerInv /\ ReadingsAgree

-----------------------------------------------------------------------------
(* What the steps do. *)

\* The gateway reads a name by its word, too, but leaves blanks where they are.
LEMMA OwnRead ==
    ASSUME NEW words, NEW name \in Name(words), NEW w
    PROVE  /\ OwnStatus(name) \in Name({name.word})
           /\ name.blanks = {} => [id |-> w, status |-> OwnStatus(name)] = Shown(w, name.word)
  <1> DEFINE no == FALSE
             yes == TRUE
             bare == {}
             u == Upcased(name)
             v == OwnStatus(name)
             word == name.word
             p == name.prefixed
             l == name.lower
             d == name.blanks
  <1>1. u = [name EXCEPT !.lower = no]
    BY DEF Upcased
  <1>2. v = [u EXCEPT !.prefixed = yes]
    BY DEF OwnStatus
  <1>3. name = Written(word, p, l, d) /\ d \in SUBSET {"before", "behind"}
    BY DEF Name, Written
  <1> HIDE DEF no, yes, bare, u, v, word, p, l, d
  <1>4. u = Written(word, p, no, d)
    BY <1>1, <1>3, ChangedName
  <1>5. v = Written(word, yes, no, d)
    BY <1>2, <1>4, ChangedName
  <1>6. v \in Name({word})
    BY <1>3, <1>5 DEF Written, Name, yes, no
  <1>7. d = bare => [id |-> w, status |-> v] = Shown(w, word)
    BY <1>5 DEF Written, Shown, yes, no, bare
  <1> QED
    BY <1>3, <1>6, <1>7 DEF v, word, d, bare

\* A worker is registered as available by both.
LEMMA OwnRegistration ==
    ASSUME NEW w
    PROVE  [id |-> w, status |-> OwnStatus(Plain("AVAILABLE"))] = Shown(w, "AVAILABLE")
  <1> DEFINE word == "AVAILABLE"
             no == FALSE
             bare == {}
             name == Plain(word)
  <1>1. no \in BOOLEAN /\ bare \in SUBSET {"before", "behind"}
    OBVIOUS
  <1>2. name = [word |-> word, prefixed |-> no, lower |-> no, blanks |-> bare]
    BY DEF Plain
  <1> HIDE DEF word, no, bare, name
  <1>3. name \in Name({word}) /\ name.word = word /\ name.blanks = bare
    BY <1>1, <1>2 DEF Name
  <1>4. [id |-> w, status |-> OwnStatus(name)] = Shown(w, name.word)
    BY <1>3, OwnRead DEF bare
  <1> QED
    BY <1>3, <1>4 DEF name, word

\* What the service and the gateway show are workers.
LEMMA WorkerTypes ==
    /\ \A w \in Workers, status \in WorkerStatus \cup {"UNSPECIFIED"} : Shown(w, status) \in Worker
    /\ \A w \in Workers, name \in Statuses : [id |-> w, status |-> OwnStatus(name)] \in Worker
  <1>1. ASSUME NEW w \in Workers, NEW status \in WorkerStatus \cup {"UNSPECIFIED"}
        PROVE  Shown(w, status) \in Worker
    BY DEF Shown, Worker, Name
  <1>2. ASSUME NEW w \in Workers, NEW name \in Statuses
        PROVE  [id |-> w, status |-> OwnStatus(name)] \in Worker
    <2>1. OwnStatus(name) \in Name({name.word})
      BY OwnRead, WorkerScheduleAssumption DEF WorkerScheduleAssumption
    <2>2. name.word \in {s.word : s \in Statuses} \cup WorkerStatus \cup {"UNSPECIFIED"}
      OBVIOUS
    <2> QED
      BY <2>1, <2>2 DEF Worker, Name
  <1> QED
    BY <1>1, <1>2

\* The tasks a read of c has to show.
TasksFor(c) ==
    IF c.op = "detail" THEN tasks[c.order]
    ELSE {task \in UNION {tasks[o] : o \in Orders} : task.date = c.date}

\* The workers a list has to show.
Known == {Shown(w, schedule[w]) : w \in {v \in Workers : schedule[v] # None}}

\* A step of the service: the reply it gives, and what it does to its schedule and tasks.
LEMMA WhatServes ==
    ASSUME TypeInv, NEW r \in Requests, Serves(r)
    PROVE  /\ Executes(r) /\ call' = call /\ answer' = answer /\ workers' = workers
           /\ schedule' \in [Workers -> WorkerStatus \cup {"UNSPECIFIED", None}]
           /\ \/ schedule' = schedule /\ call[r].op \notin Writes
              \/ /\ call[r].op \in Writes
                 /\ call[r].op = "update" => schedule[call[r].worker] # None
                 /\ \E status \in WorkerStatus \cup {"UNSPECIFIED"} :
                       schedule' = [schedule EXCEPT ![call[r].worker] = status]
           /\ \/ tasks' = tasks /\ call[r].op # "sync"
              \/ /\ call[r].op = "sync"
                 /\ \E task \in Task :
                       /\ task.by = r /\ task.order = call[r].order
                       /\ Wrote(call[r], task)
                       /\ tasks' = [tasks EXCEPT ![call[r].order] = {task}]
           /\ \E reading \in Reading :
                 /\ reply' = [reply EXCEPT ![r] = reading]
                 /\ call[r].op \in {"register", "update"} =>
                       \A shown \in reading.workers : RightlyShown(call[r], shown)
                 /\ call[r].op = "list" => reading.workers = Known
                 /\ reading.tasks = IF call[r].op \in TaskReads THEN TasksFor(call[r])
                                    ELSE reply[r].tasks
  <1>0. /\ reply \in [Requests -> Reading] /\ reply[r] \in Reading
        /\ schedule \in [Workers -> WorkerStatus \cup {"UNSPECIFIED", None}]
        /\ tasks \in [Orders -> SUBSET Task]
        /\ Fits(call[r])
    BY DEF TypeInv
  <1>1. ASSUME NEW w \in Workers, NEW status \in WorkerStatus \cup {"UNSPECIFIED"},
               Enters(r, w, status), call[r].op \in Writes,
               RightlyShown(call[r], Shown(w, status))
        PROVE  /\ Executes(r) /\ call' = call /\ answer' = answer /\ workers' = workers
               /\ schedule' \in [Workers -> WorkerStatus \cup {"UNSPECIFIED", None}]
               /\ schedule' = [schedule EXCEPT ![w] = status]
               /\ \E reading \in Reading :
                     /\ reply' = [reply EXCEPT ![r] = reading]
                     /\ \A shown \in reading.workers : RightlyShown(call[r], shown)
                     /\ reading.tasks = reply[r].tasks
    <2>1. PICK some \in {{Shown(w, status)}, {}} : reply' = [reply EXCEPT ![r].workers = some]
      BY <1>1 DEF Enters
    <2>2. some \subseteq Worker /\ \A shown \in some : RightlyShown(call[r], shown)
      BY <1>1, <2>1, WorkerTypes
    <2> DEFINE reading == [reply[r] EXCEPT !.workers = some]
    <2>3. reading \in Reading /\ reading.workers = some /\ reading.tasks = reply[r].tasks
      BY <1>0, <2>2 DEF Reading
    <2>4. reply' = [reply EXCEPT ![r] = reading]
      BY <1>0, <2>1
    <2> HIDE DEF reading
    <2> QED
      BY <1>0, <1>1, <2>2, <2>3, <2>4 DEF Enters
  <1>2. ASSUME ServesRegister(r) \/ ServesUpdate(r)
        PROVE  /\ tasks' = tasks /\ call[r].op \in {"register", "update"}
               /\ call[r].worker \in Workers
               /\ call[r].op = "update" => schedule[call[r].worker] # None
               /\ \E status \in WorkerStatus \cup {"UNSPECIFIED"} :
                     /\ Enters(r, call[r].worker, status)
                     /\ RightlyShown(call[r], Shown(call[r].worker, status))
    <2>1. CASE ServesRegister(r)
      <3>1. /\ tasks' = tasks /\ call[r].op = "register"
            /\ Enters(r, call[r].worker, "AVAILABLE")
        BY <2>1 DEF ServesRegister
      <3>2. call[r].worker \in Workers
        BY <1>0, <3>1 DEF Fits, Writes
      <3>3. RightlyShown(call[r], Shown(call[r].worker, "AVAILABLE"))
        BY <3>1 DEF RightlyShown
      <3> QED
        BY <3>1, <3>2, <3>3 DEF WorkerStatus
    <2>2. CASE ServesUpdate(r)
      <3> DEFINE status == Parse(call[r].status, WorkerStatus)
      <3>1. /\ tasks' = tasks /\ call[r].op = "update"
            /\ Enters(r, call[r].worker, status) /\ schedule[call[r].worker] # None
        BY <2>2 DEF ServesUpdate
      <3>2. call[r].worker \in Workers /\ call[r].status \in Statuses
        BY <1>0, <3>1 DEF Fits, Writes
      <3>3. /\ status \in WorkerStatus \cup {"UNSPECIFIED"}
            /\ call[r].status.word \in WorkerStatus => status = call[r].status.word
        BY <3>2, ParsedName, WorkerScheduleAssumption DEF WorkerScheduleAssumption
      <3> HIDE DEF status
      <3>4. RightlyShown(call[r], Shown(call[r].worker, status))
        BY <3>1, <3>3 DEF RightlyShown
      <3> QED
        BY <3>1, <3>2, <3>3, <3>4
    <2> QED
      BY <1>2, <2>1, <2>2
  <1>3. CASE ServesRegister(r) \/ ServesUpdate(r)
    <2>1. PICK status \in WorkerStatus \cup {"UNSPECIFIED"} :
             /\ Enters(r, call[r].worker, status)
             /\ RightlyShown(call[r], Shown(call[r].worker, status))
      BY <1>2, <1>3
    <2>2. call[r].op \in Writes /\ call[r].op \notin {"list", "sync"} /\ call[r].op \notin TaskReads
      BY <1>2, <1>3 DEF Writes, TaskReads
    <2> QED
      BY <1>1, <1>2, <1>3, <2>1, <2>2
  <1>4. CASE ServesSync(r)
    <2> DEFINE event == Parse(call[r].event, EventType)
               task == [order |-> call[r].order, worker |-> call[r].worker, by |-> r,
                        event |-> event, date |-> call[r].date]
    <2>1. /\ call[r].op = "sync" /\ event # "UNSPECIFIED"
          /\ \E status \in WorkerStatus : Enters(r, call[r].worker, status)
          /\ tasks' = [tasks EXCEPT ![call[r].order] = {task}]
      BY <1>4 DEF ServesSync
    <2>2. /\ call[r].worker \in Workers /\ call[r].order \in Orders
          /\ call[r].event \in Events /\ call[r].date \in Dates
      BY <1>0, <2>1 DEF Fits, Writes
    <2>3. event \in EventType \cup {"UNSPECIFIED"} /\ event = call[r].event.word
      BY <2>1, <2>2, ParsedName, WorkerScheduleAssumption DEF WorkerScheduleAssumption
    <2> HIDE DEF event
    <2>4. /\ task \in Task /\ task.by = r /\ task.order = call[r].order
          /\ Wrote(call[r], task)
      BY <2>1, <2>2, <2>3 DEF Task, Wrote
    <2> HIDE DEF task
    <2>5. PICK status \in WorkerStatus : Enters(r, call[r].worker, status)
      BY <2>1
    <2>6. RightlyShown(call[r], Shown(call[r].worker, status))
      BY <2>1 DEF RightlyShown
    <2> QED
      BY <1>1, <2>1, <2>2, <2>4, <2>5, <2>6 DEF TaskReads, Writes
  <1>5. CASE ServesList(r)
    <2> DEFINE all == Known
               reading == [reply[r] EXCEPT !.workers = all]
    <2>1. /\ call[r].op = "list" /\ Executes(r)
          /\ UNCHANGED <<call, answer, workers, schedule, tasks>>
          /\ reply' = [reply EXCEPT ![r].workers = all]
      BY <1>5 DEF ServesList, Known
    <2>2. all \subseteq Worker
      <3>1. \A w \in Workers : schedule[w] # None => Shown(w, schedule[w]) \in Worker
        BY <1>0, WorkerTypes
      <3> QED
        BY <3>1 DEF Known
    <2> HIDE DEF all
    <2>3. reading \in Reading /\ reading.workers = all /\ reading.tasks = reply[r].tasks
      BY <1>0, <2>2 DEF Reading
    <2>4. reply' = [reply EXCEPT ![r] = reading]
      BY <1>0, <2>1
    <2> HIDE DEF reading
    <2> QED
      BY <1>0, <2>1, <2>3, <2>4 DEF TaskReads, Writes, all
  <1>6. CASE ServesTasks(r)
    <2> DEFINE shown == TasksFor(call[r])
               reading == [reply[r] EXCEPT !.tasks = shown]
    <2>1. /\ call[r].op \in TaskReads /\ Executes(r)
          /\ UNCHANGED <<call, answer, workers, schedule, tasks>>
          /\ reply' = [reply EXCEPT ![r].tasks = shown]
      BY <1>6 DEF ServesTasks, TasksFor
    <2>2. shown \subseteq Task
      BY <1>0 DEF TasksFor, Fits
    <2> HIDE DEF shown
    <2>3. reading \in Reading /\ reading.tasks = shown
      BY <1>0, <2>2 DEF Reading
    <2>4. reply' = [reply EXCEPT ![r] = reading]
      BY <1>0, <2>1
    <2> HIDE DEF reading
    <2> QED
      BY <1>0, <2>1, <2>3, <2>4 DEF TaskReads, Writes, shown
  <1> QED
    BY <1>3, <1>4, <1>5, <1>6 DEF Serves

\* The end of a call: a reply is passed on, a failure is reported, or the gateway
\* answers by itself and keeps what it answers.
LEMMA WhatEnds ==
    ASSUME TypeInv, NEW r \in Requests, Ends(r)
    PROVE  /\ Wakes(r) /\ call' = call /\ reply' = reply
           /\ schedule' = schedule /\ tasks' = tasks
           /\ \E a \in Answer :
                 /\ answer' = [answer EXCEPT ![r] = a]
                 /\ \/ a.status # 200 /\ a.workers = {} /\ a.tasks = {} /\ workers' = workers
                    \/ /\ svc[r] = "executed" /\ workers' = workers
                       /\ a.workers = reply[r].workers /\ a.tasks = reply[r].tasks
                    \/ /\ call[r].op \in {"register", "update"} /\ call[r].worker \in Workers
                       /\ seen'[r] \in MOCKABLE_DOWNSTREAM_GAP_CODES
                       /\ OwnWorker(r) \in Worker
                       /\ a = [status |-> 200, workers |-> {OwnWorker(r)}, tasks |-> {}]
                       /\ workers' = [workers EXCEPT ![call[r].worker] = OwnWorker(r)]
  <1>0. /\ reply[r] \in Reading /\ seen \in [Requests -> {"none", "OK"} \cup FailureCodes]
        /\ Fits(call[r])
    BY DEF TypeInv, CallsTypeOK
  <1>1. CASE Replies(r)
    <2>1. /\ Returns(r) /\ svc[r] = "executed"
          /\ UNCHANGED <<call, reply, workers, schedule, tasks>>
      BY <1>1 DEF Replies, Returns
    <2>2. CASE Answers(r, 500, NoReply)
      <3> DEFINE a == [status |-> 500, workers |-> {}, tasks |-> {}]
      <3>1. a \in Answer /\ a.status # 200 /\ a.workers = {} /\ a.tasks = {}
        BY DEF Answer, Status
      <3>2. answer' = [answer EXCEPT ![r] = a]
        BY <2>2 DEF Answers, NoReply
      <3> HIDE DEF a
      <3> QED
        BY <2>1, <3>1, <3>2 DEF Wakes
    <2>3. CASE Answers(r, 200, reply[r])
      <3> DEFINE a == [status |-> 200, workers |-> reply[r].workers, tasks |-> reply[r].tasks]
      <3>1. a \in Answer /\ a.workers = reply[r].workers /\ a.tasks = reply[r].tasks
        BY <1>0 DEF Answer, Status, Reading
      <3>2. answer' = [answer EXCEPT ![r] = a]
        BY <2>3 DEF Answers
      <3> HIDE DEF a
      <3> QED
        BY <2>1, <3>1, <3>2 DEF Wakes
    <2> QED
      BY <1>1, <2>2, <2>3 DEF Replies
  <1>2. ASSUME NEW status \in FailureCodes, Fails(r, status)
        PROVE  /\ Wakes(r) /\ call' = call /\ reply' = reply
               /\ schedule' = schedule /\ tasks' = tasks
               /\ \E a \in Answer :
                     /\ answer' = [answer EXCEPT ![r] = a]
                     /\ \/ a.status # 200 /\ a.workers = {} /\ a.tasks = {} /\ workers' = workers
                        \/ /\ call[r].op \in {"register", "update"} /\ call[r].worker \in Workers
                           /\ seen'[r] \in MOCKABLE_DOWNSTREAM_GAP_CODES
                           /\ OwnWorker(r) \in Worker
                           /\ a = [status |-> 200, workers |-> {OwnWorker(r)}, tasks |-> {}]
                           /\ workers' = [workers EXCEPT ![call[r].worker] = OwnWorker(r)]
    <2>1. Raises(r, status) /\ UNCHANGED <<call, reply, schedule, tasks>>
      BY <1>2 DEF Fails
    <2>2. seen'[r] = status
      BY <1>0, <2>1 DEF Raises, Refused, OutOfReach
    <2>3. CASE /\ Covers(r, status) /\ workers' = KeptWorker(r)
               /\ Answers(r, 200, [NoReply EXCEPT !.workers = {OwnWorker(r)}])
      <3> DEFINE a == [status |-> 200, workers |-> {OwnWorker(r)}, tasks |-> {}]
      <3>1. /\ call[r].op \in {"register", "update"}
            /\ status \in MOCKABLE_DOWNSTREAM_GAP_CODES
        BY <2>3, Failures DEF Covers
      <3>2. call[r].worker \in Workers
        BY <1>0, <3>1 DEF Fits, Writes
      <3>3. OwnWorker(r) \in Worker
        <4>1. CASE call[r].op = "update"
          <5>1. call[r].status \in Statuses
            BY <1>0, <4>1 DEF Fits
          <5> QED
            BY <3>2, <4>1, <5>1, WorkerTypes DEF OwnWorker
        <4>2. CASE call[r].op = "register"
          <5>1. OwnWorker(r) = Shown(call[r].worker, "AVAILABLE")
            BY <4>2, OwnRegistration DEF OwnWorker
          <5> QED
            BY <3>2, <5>1, WorkerTypes DEF WorkerStatus
        <4> QED
          BY <3>1, <4>1, <4>2
      <3>4. a \in Answer
        BY <3>3 DEF Answer, Status
      <3>5. answer' = [answer EXCEPT ![r] = a]
        BY <2>3 DEF Answers, NoReply
      <3>6. workers' = [workers EXCEPT ![call[r].worker] = OwnWorker(r)]
        BY <2>3 DEF KeptWorker
      <3> QED
        BY <2>1, <2>2, <3>1, <3>2, <3>3, <3>4, <3>5, <3>6 DEF Wakes
    <2>4. CASE Answers(r, MapGrpcError(status).status_code, NoReply) /\ workers' = workers
      <3> DEFINE code == MapGrpcError(status).status_code
                 a == [status |-> code, workers |-> {}, tasks |-> {}]
      <3>1. code \in Status /\ code # 200
        BY FailureStatus DEF Status
      <3>2. answer' = [answer EXCEPT ![r] = a]
        BY <2>4 DEF Answers, NoReply
      <3> HIDE DEF code
      <3>3. a \in Answer /\ a.status # 200 /\ a.workers = {} /\ a.tasks = {}
        BY <3>1 DEF Answer
      <3> HIDE DEF a
      <3> QED
        BY <2>1, <2>4, <3>2, <3>3 DEF Wakes
    <2> QED
      BY <1>2, <2>3, <2>4 DEF Fails
  <1> QED
    BY <1>1, <1>2 DEF Ends

\* A request comes in: it asks something, and is refused or still without an answer.
LEMMA WhatComes ==
    ASSUME TypeInv, NEW r \in Requests, Request(r)
    PROVE  /\ pc[r] = "idle" /\ seen' = seen
           /\ reply' = reply /\ workers' = workers /\ schedule' = schedule /\ tasks' = tasks
           /\ \E c \in Call :
                 /\ Fits(c) /\ call' = [call EXCEPT ![r] = c]
                 /\ \A q \in c.acked : /\ call[q].op \in Writes /\ answer[q].status = 200
                                       /\ c.op \in TaskReads => call[q].op = "sync"
           /\ \/ answer' = answer /\ pc'[r] = "waiting"
              \/ /\ pc'[r] = "answered"
                 /\ \E a \in Answer :
                       /\ a.status = 422 /\ a.workers = {} /\ a.tasks = {}
                       /\ answer' = [answer EXCEPT ![r] = a]
  <1>0. /\ pc \in [Requests -> {"idle", "waiting", "answered", "lost"}]
        /\ svc \in [Requests -> {"none", "pending", "executed", "dropped"}]
    BY DEF TypeInv, CallsTypeOK
  <1>1. PICK op \in Ops : \E c \in Asks(op) :
           /\ call' = [call EXCEPT ![r] = c]
           /\ \/ AnsweredAtOnce(r) /\ Answers(r, 422, NoReply)
              \/ Sends(r) /\ UNCHANGED answer
           /\ UNCHANGED <<reply, workers, schedule, tasks>>
    BY DEF Request
  <1>2. PICK c \in Asks(op) :
           /\ call' = [call EXCEPT ![r] = c]
           /\ \/ AnsweredAtOnce(r) /\ Answers(r, 422, NoReply)
              \/ Sends(r) /\ UNCHANGED answer
           /\ UNCHANGED <<reply, workers, schedule, tasks>>
    BY <1>1
  <1>3. /\ c.op = op
        /\ c.worker \in IF op \in Writes THEN Workers ELSE {None}
        /\ c.status \in IF op = "update" THEN Statuses ELSE {NoStatus}
        /\ c.order \in IF op \in {"sync", "detail"} THEN Orders ELSE {None}
        /\ c.event \in IF op = "sync" THEN Events ELSE {NoStatus}
        /\ c.date \in IF op \in {"sync", "daily"} THEN Dates ELSE {None}
        /\ c.acked \in CASE op = "list"       -> {Acknowledged(Writes)}
                         [] op \in TaskReads -> {Acknowledged({"sync"})}
                         [] OTHER            -> {{}}
        /\ c = [op |-> c.op, worker |-> c.worker, status |-> c.status, order |-> c.order,
                event |-> c.event, date |-> c.date, acked |-> c.acked]
    BY <1>2 DEF Asks
  <1>4. Fits(c)
    BY <1>3 DEF Fits, Writes, TaskReads
  <1>5. c \in Call
    <2>1. c.worker \in Workers \cup {None} /\ c.status \in Statuses \cup {NoStatus}
      BY <1>3
    <2>2. c.order \in Orders \cup {None} /\ c.event \in Events \cup {NoStatus}
      BY <1>3
    <2>3. c.date \in Dates \cup {None} /\ c.acked \in SUBSET Requests
      BY <1>3 DEF Acknowledged
    <2> QED
      BY <1>3, <2>1, <2>2, <2>3 DEF Call
  <1>6. \A q \in c.acked : /\ call[q].op \in Writes /\ answer[q].status = 200
                           /\ c.op \in TaskReads => call[q].op = "sync"
    BY <1>3 DEF Acknowledged, Writes, TaskReads
  <1> DEFINE refused == [status |-> 422, workers |-> {}, tasks |-> {}]
  <1>7. /\ refused \in Answer
        /\ refused.status = 422 /\ refused.workers = {} /\ refused.tasks = {}
        /\ Answers(r, 422, NoReply) => answer' = [answer EXCEPT ![r] = refused]
    BY DEF Answer, Status, Answers, NoReply
  <1> HIDE DEF refused
  <1>8. AnsweredAtOnce(r) => pc[r] = "idle" /\ seen' = seen /\ pc'[r] = "answered"
    BY <1>0 DEF AnsweredAtOnce
  <1>9. Sends(r) => /\ pc[r] = "idle" /\ seen' = seen /\ pc'[r] = "waiting"
    BY <1>0 DEF Sends
  <1>10. /\ pc[r] = "idle" /\ seen' = seen
         /\ reply' = reply /\ workers' = workers /\ schedule' = schedule /\ tasks' = tasks
    BY <1>2, <1>8, <1>9
  <1>11. \/ answer' = answer /\ pc'[r] = "waiting"
         \/ Answers(r, 422, NoReply) /\ pc'[r] = "answered"
    BY <1>2, <1>8, <1>9
  <1>12. call' = [call EXCEPT ![r] = c]
    BY <1>2
  <1> DEFINE Chosen(d) ==
        /\ Fits(d) /\ call' = [call EXCEPT ![r] = d]
        /\ \A q \in d.acked : /\ call[q].op \in Writes /\ answer[q].status = 200
                              /\ d.op \in TaskReads => call[q].op = "sync"
  <1>13. Chosen(c)
    BY <1>4, <1>6, <1>12
  <1> HIDE DEF Chosen
  <1>14. \E d \in Call : Chosen(d)
    BY <1>5, <1>13
  <1>15. \/ answer' = answer /\ pc'[r] = "waiting"
         \/ /\ pc'[r] = "answered"
            /\ \E a \in Answer :
                  /\ a.status = 422 /\ a.workers = {} /\ a.tasks = {}
                  /\ answer' = [answer EXCEPT ![r] = a]
    BY <1>7, <1>11
  <1> QED
    BY <1>10, <1>14, <1>15 DEF Chosen

\* A step is one of the request q itself, or leaves what there is of q alone.
LEMMA OwnStep ==
    ASSUME TypeInv, [Next]_vars, NEW q \in Requests
    PROVE  \/ Request(q) \/ Ends(q) \/ Serves(q)
           \/ /\ UNCHANGED <<call[q], reply[q], answer[q], svc[q], seen[q]>>
              /\ pc'[q] = pc[q] \/ pc'[q] = "lost"
  <1>0. /\ CallsTypeOK
        /\ call \in [Requests -> Call \cup {NoCall}]
        /\ reply \in [Requests -> Reading]
        /\ answer \in [Requests -> Answer]
    BY DEF TypeInv
  <1>1. ASSUME NEW r \in Requests, r # q, Request(r)
        PROVE  UNCHANGED <<call[q], reply[q], answer[q], svc[q], seen[q], pc[q]>>
    BY <1>0, <1>1 DEF Request, Answers, AnsweredAtOnce, Sends, CallsTypeOK
  <1>2. ASSUME NEW r \in Requests, r # q, Replies(r)
        PROVE  UNCHANGED <<call[q], reply[q], answer[q], svc[q], seen[q], pc[q]>>
    BY <1>0, <1>2 DEF Replies, Answers, Returns, CallsTypeOK
  <1>3. ASSUME NEW r \in Requests, r # q, NEW status \in FailureCodes, Fails(r, status)
        PROVE  UNCHANGED <<call[q], reply[q], answer[q], svc[q], seen[q], pc[q]>>
    BY <1>0, <1>3 DEF Fails, Answers, Raises, Refused, OutOfReach, CallsTypeOK
  <1>4. ASSUME NEW r \in Requests, r # q, Serves(r)
        PROVE  UNCHANGED <<call[q], reply[q], answer[q], svc[q], seen[q], pc[q]>>
    <2>1. /\ Executes(r) /\ call' = call /\ answer' = answer
          /\ \E reading \in Reading : reply' = [reply EXCEPT ![r] = reading]
      BY <1>4, WhatServes
    <2> QED
      BY <1>0, <1>4, <2>1 DEF Executes, CallsTypeOK
  <1>5. ASSUME Restart
        PROVE  /\ UNCHANGED <<call[q], reply[q], answer[q], svc[q], seen[q]>>
               /\ pc'[q] = pc[q] \/ pc'[q] = "lost"
    BY <1>0, <1>5 DEF Restart, Crashes, CallsTypeOK
  <1>6. ASSUME UNCHANGED vars
        PROVE  UNCHANGED <<call[q], reply[q], answer[q], svc[q], seen[q], pc[q]>>
    BY <1>6 DEF vars, callVars, scheduleVars
  <1> QED
    BY <1>1, <1>2, <1>3, <1>4, <1>5, <1>6, Steps DEF Ends

\* What a request asks stays, once it has asked, and what was executed was asked.
LEMMA CallStays ==
    ASSUME IInv, [Next]_vars, NEW q \in Requests
    PROVE  /\ call[q] # NoCall => call'[q] = call[q]
           /\ svc[q] = "executed" => call'[q] = call[q] /\ svc'[q] = "executed"
           /\ pc[q] = "answered" => /\ call'[q] = call[q] /\ answer'[q] = answer[q]
                                    /\ seen'[q] = seen[q]
  <1>0. /\ TypeInv /\ LifeInv /\ CallsTypeOK
        /\ pc[q] = "idle" => call[q] = NoCall /\ svc[q] = "none"
    BY DEF IInv, TypeInv, StageInv, LifeInv
  <1>1. svc[q] = "executed" => svc'[q] = "executed"
    BY <1>0, StepOfCalls, LifeGoesOn
  <1>2. CASE Request(q)
    BY <1>0, <1>1, <1>2, WhatComes
  <1>3. CASE Ends(q)
    <2>1. Wakes(q) /\ call' = call
      BY <1>0, <1>3, WhatEnds
    <2>2. pc[q] = "waiting"
      BY <1>0, <2>1, Waking
    <2> QED
      BY <1>1, <2>1, <2>2
  <1>4. CASE Serves(q)
    <2>1. Executes(q) /\ call' = call /\ answer' = answer
      BY <1>0, <1>4, WhatServes
    <2> QED
      BY <1>1, <2>1 DEF Executes
  <1> QED
    BY <1>0, <1>1, <1>2, <1>3, <1>4, OwnStep

-----------------------------------------------------------------------------
(* The invariant is inductive. *)

\* Every variable keeps its type.
LEMMA TypeStep == TypeInv /\ [Next]_vars => TypeInv'
  <1> SUFFICES ASSUME TypeInv, [Next]_vars PROVE TypeInv'
    OBVIOUS
  <1>0. /\ call \in [Requests -> Call \cup {NoCall}]
        /\ \A q \in Requests : Fits(call[q])
        /\ reply \in [Requests -> Reading]
        /\ answer \in [Requests -> Answer]
        /\ workers \in [Workers -> Worker \cup {NoWorker}]
        /\ schedule \in [Workers -> WorkerStatus \cup {"UNSPECIFIED", None}]
        /\ tasks \in [Orders -> SUBSET Task]
    BY DEF TypeInv
  <1>1. CallsTypeOK'
    BY StepOfCalls, CallsType DEF TypeInv
  <1> DEFINE Typed == /\ call' \in [Requests -> Call \cup {NoCall}]
                      /\ \A q \in Requests : Fits(call'[q])
                      /\ reply' \in [Requests -> Reading]
                      /\ answer' \in [Requests -> Answer]
                      /\ workers' \in [Workers -> Worker \cup {NoWorker}]
                      /\ schedule' \in [Workers -> WorkerStatus \cup {"UNSPECIFIED", None}]
                      /\ tasks' \in [Orders -> SUBSET Task]
  <1>2. ASSUME NEW r \in Requests, Request(r) PROVE Typed
    <2>1. PICK c \in Call : Fits(c) /\ call' = [call EXCEPT ![r] = c]
      BY <1>2, WhatComes
    <2>2. answer' \in [Requests -> Answer]
      <3>1. answer' = answer \/ \E a \in Answer : answer' = [answer EXCEPT ![r] = a]
        BY <1>2, WhatComes
      <3> QED
        BY <1>0, <3>1
    <2>3. reply' = reply /\ workers' = workers /\ schedule' = schedule /\ tasks' = tasks
      BY <1>2, WhatComes
    <2>4. \A q \in Requests : Fits(call'[q])
      <3>1. \A q \in Requests : call'[q] = call[q] \/ call'[q] = c
        BY <1>0, <2>1
      <3> QED
        BY <1>0, <2>1, <3>1
    <2> QED
      BY <1>0, <2>1, <2>2, <2>3, <2>4
  <1>3. ASSUME NEW r \in Requests, Ends(r) PROVE Typed
    <2>1. /\ call' = call /\ reply' = reply /\ schedule' = schedule /\ tasks' = tasks
      BY <1>3, WhatEnds
    <2>2. answer' \in [Requests -> Answer]
      BY <1>0, <1>3, WhatEnds
    <2>3. \/ workers' = workers
          \/ /\ OwnWorker(r) \in Worker
             /\ workers' = [workers EXCEPT ![call[r].worker] = OwnWorker(r)]
      BY <1>3, WhatEnds
    <2>4. workers' \in [Workers -> Worker \cup {NoWorker}]
      BY <1>0, <2>3
    <2> QED
      BY <1>0, <2>1, <2>2, <2>4
  <1>4. ASSUME NEW r \in Requests, Serves(r) PROVE Typed
    <2>1. /\ call' = call /\ answer' = answer /\ workers' = workers
          /\ schedule' \in [Workers -> WorkerStatus \cup {"UNSPECIFIED", None}]
          /\ \E reading \in Reading : reply' = [reply EXCEPT ![r] = reading]
          /\ \/ tasks' = tasks
             \/ \E task \in Task : tasks' = [tasks EXCEPT ![call[r].order] = {task}]
      BY <1>4, WhatServes
    <2> QED
      BY <1>0, <2>1
  <1>5. ASSUME Restart PROVE Typed
    <2>1. /\ UNCHANGED <<call, reply, answer, schedule, tasks>>
          /\ workers' = [w \in Workers |-> NoWorker]
      BY <1>5 DEF Restart
    <2>2. workers' \in [Workers -> Worker \cup {NoWorker}]
      BY <2>1
    <2> QED
      BY <1>0, <2>1, <2>2
  <1>6. ASSUME UNCHANGED vars PROVE Typed
    <2>1. UNCHANGED <<call, reply, answer, workers, schedule, tasks>>
      BY <1>6 DEF vars, scheduleVars
    <2> QED
      BY <1>0, <2>1
  <1> HIDE DEF Typed
  <1>7. Typed
    BY <1>2, <1>3, <1>4, <1>5, <1>6, Steps
  <1>8. (\A q \in Requests : Fits(call[q]))'
    BY <1>7 DEF Fits, Typed
  <1> QED
    BY <1>1, <1>7, <1>8 DEF TypeInv, Typed

\* A request leaves no trace before it comes in, and has no answer before it is over.
LEMMA StageStep == IInv /\ [Next]_vars => StageInv'
  <1> SUFFICES ASSUME IInv, [Next]_vars, NEW q \in Requests
               PROVE  /\ pc'[q] = "idle" => call'[q] = NoCall /\ reply'[q] = NoReply
                      /\ pc'[q] # "answered" => answer'[q] = Blank
    BY DEF StageInv, NoCall, NoReply, Blank
  <1>0. /\ TypeInv /\ LifeInv /\ CallsTypeOK
        /\ pc[q] = "idle" => call[q] = NoCall /\ reply[q] = NoReply
        /\ pc[q] # "answered" => answer[q] = Blank
    BY DEF IInv, TypeInv, StageInv
  <1>1. CASE UNCHANGED <<call[q], reply[q], answer[q]>> /\ (pc'[q] = pc[q] \/ pc'[q] = "lost")
    <2>1. pc[q] = "answered" => pc'[q] = "answered"
      BY <1>0, StepOfCalls, LifeGoesOn
    <2> QED
      BY <1>0, <1>1, <2>1
  <1>2. CASE Request(q)
    <2>1. pc[q] = "idle" /\ ((answer' = answer /\ pc'[q] = "waiting") \/ pc'[q] = "answered")
      BY <1>0, <1>2, WhatComes
    <2> QED
      BY <1>0, <2>1
  <1>3. CASE Ends(q)
    <2>1. Wakes(q)
      BY <1>0, <1>3, WhatEnds
    <2>2. pc'[q] = "answered"
      BY <1>0, <2>1, Waking DEF CallsTypeOK
    <2> QED
      BY <2>2
  <1>4. CASE Serves(q)
    <2>1. Executes(q) /\ call' = call /\ answer' = answer
      BY <1>0, <1>4, WhatServes
    <2>2. svc[q] = "pending" /\ pc' = pc
      BY <2>1 DEF Executes
    <2>3. pc[q] # "idle"
      BY <1>0, <2>2 DEF LifeInv
    <2> QED
      BY <1>0, <2>1, <2>2, <2>3
  <1> QED
    BY <1>0, <1>1, <1>2, <1>3, <1>4, OwnStep

\* The request that wrote the event of a task has asked.
LEMMA WroteStays ==
    ASSUME IInv, [Next]_vars, NEW task \in Task, Wrote(call[task.by], task)
    PROVE  Wrote(call'[task.by], task)
  <1>1. task.by \in Requests /\ call[task.by] # NoCall
    BY DEF Task, Wrote, NoCall, None
  <1> QED
    BY <1>1, CallStays

\* A call that a step carries out is one the service serves.
LEMMA NewlyServed ==
    ASSUME IInv, [Next]_vars, NEW q \in Requests, svc[q] # "executed", svc'[q] = "executed"
    PROVE  Serves(q)
  <1>0. TypeInv /\ CallsTypeOK
    BY DEF IInv, TypeInv
  <1>1. ~Request(q)
    BY <1>0 DEF Request, AnsweredAtOnce, Sends, CallsTypeOK
  <1>2. ~Ends(q)
    <2>1. Ends(q) => Wakes(q)
      BY <1>0, WhatEnds
    <2> QED
      BY <1>0, <2>1 DEF Wakes, Returns, Raises, Refused, OutOfReach, CallsTypeOK
  <1> QED
    BY <1>0, <1>1, <1>2, OwnStep

\* What can happen to the tasks.
LEMMA TasksChange ==
    ASSUME TypeInv, [Next]_vars
    PROVE  \/ tasks' = tasks
           \/ \E r \in Requests :
                 /\ call[r].op = "sync" /\ call' = call /\ svc'[r] = "executed"
                 /\ \E task \in Task :
                       /\ task.by = r /\ task.order = call[r].order
                       /\ Wrote(call[r], task)
                       /\ tasks' = [tasks EXCEPT ![call[r].order] = {task}]
  <1>1. Restart \/ UNCHANGED vars => tasks' = tasks
    BY DEF Restart, vars, scheduleVars
  <1>2. ASSUME NEW r \in Requests, Request(r) \/ Ends(r) PROVE tasks' = tasks
    BY <1>2, WhatComes, WhatEnds
  <1>3. ASSUME NEW r \in Requests, Serves(r)
        PROVE  \/ tasks' = tasks
               \/ /\ call[r].op = "sync" /\ call' = call /\ svc'[r] = "executed"
                  /\ \E task \in Task :
                        /\ task.by = r /\ task.order = call[r].order
                        /\ Wrote(call[r], task)
                        /\ tasks' = [tasks EXCEPT ![call[r].order] = {task}]
    <2>1. Executes(r) /\ svc \in [Requests -> {"none", "pending", "executed", "dropped"}]
      BY <1>3, WhatServes DEF TypeInv, CallsTypeOK
    <2>2. svc'[r] = "executed"
      BY <2>1 DEF Executes
    <2> QED
      BY <1>3, <2>2, WhatServes
  <1> QED
    BY <1>1, <1>2, <1>3, Steps

\* Each task is that of an event somebody wrote, and where an event was executed there
\* is a task ever after.
LEMMA TaskStep == IInv /\ [Next]_vars => TaskInv'
  <1> SUFFICES ASSUME IInv, [Next]_vars
               PROVE  /\ \A o \in Orders : \A task \in tasks'[o] :
                            /\ task.order = o /\ Wrote(call'[task.by], task)
                            /\ svc'[task.by] = "executed"
                      /\ \A q \in Requests :
                            call'[q].op = "sync" /\ svc'[q] = "executed" =>
                                tasks'[call'[q].order] # {}
    BY DEF TaskInv, Wrote
  <1>0. /\ TypeInv /\ LifeInv /\ tasks \in [Orders -> SUBSET Task]
        /\ call \in [Requests -> Call \cup {NoCall}]
        /\ \A q \in Requests : call[q].op = "sync" => call[q].order \in Orders
        /\ \A o \in Orders : \A task \in tasks[o] :
              /\ task.order = o /\ Wrote(call[task.by], task) /\ svc[task.by] = "executed"
        /\ \A q \in Requests :
              call[q].op = "sync" /\ svc[q] = "executed" => tasks[call[q].order] # {}
    BY DEF IInv, TypeInv, TaskInv, Fits
  <1>1. \A o \in Orders : \A task \in tasks[o] :
           Wrote(call'[task.by], task) /\ svc'[task.by] = "executed"
    <2>1. \A o \in Orders : \A task \in tasks[o] : task.by \in Requests
      BY <1>0 DEF Task
    <2> QED
      BY <1>0, <2>1, CallStays
  <1>2. \A o \in Orders : tasks[o] # {} => tasks'[o] # {}
    BY <1>0, TasksChange
  <1>3. ASSUME NEW o \in Orders, NEW task \in tasks'[o]
        PROVE  task.order = o /\ Wrote(call'[task.by], task) /\ svc'[task.by] = "executed"
    <2>1. CASE task \in tasks[o]
      BY <1>0, <1>1, <2>1
    <2>2. CASE task \notin tasks[o]
      <3>1. tasks' # tasks
        BY <1>3, <2>2
      <3>2. PICK r \in Requests :
               /\ call[r].op = "sync" /\ call' = call /\ svc'[r] = "executed"
               /\ \E new \in Task :
                     /\ new.by = r /\ new.order = call[r].order /\ Wrote(call[r], new)
                     /\ tasks' = [tasks EXCEPT ![call[r].order] = {new}]
        BY <1>0, <3>1, TasksChange
      <3>3. PICK new \in Task :
               /\ new.by = r /\ new.order = call[r].order /\ Wrote(call[r], new)
               /\ tasks' = [tasks EXCEPT ![call[r].order] = {new}]
        BY <3>2
      <3>4. o = call[r].order /\ task = new
        BY <1>0, <1>3, <2>2, <3>2, <3>3
      <3> QED
        BY <3>2, <3>3, <3>4
    <2> QED
      BY <2>1, <2>2
  <1>4. ASSUME NEW q \in Requests, call'[q].op = "sync", svc'[q] = "executed"
        PROVE  tasks'[call'[q].order] # {}
    <2>1. CASE svc[q] = "executed"
      BY <1>0, <1>2, <1>4, <2>1, CallStays
    <2>2. CASE svc[q] # "executed"
      <3>1. Serves(q)
        BY <1>4, <2>2, NewlyServed
      <3>2. /\ call' = call
            /\ \/ call[q].op # "sync"
               \/ \E task \in Task : tasks' = [tasks EXCEPT ![call[q].order] = {task}]
        BY <1>0, <3>1, WhatServes
      <3> QED
        BY <1>0, <1>4, <3>2
    <2> QED
      BY <2>1, <2>2
  <1> QED
    BY <1>3, <1>4

\* The predicates of the invariant about what is shown, after a step.
MovedNext(q) ==
    \E p \in Requests :
        /\ call'[p].op = "sync" /\ call'[p].order = call'[q].order
        /\ call'[p].date # call'[q].date /\ svc'[p] = "executed"

MadeUpNext(q) ==
    call'[q].op \in {"register", "update"} /\ seen'[q] \in MOCKABLE_DOWNSTREAM_GAP_CODES

RegisteredNext(w) ==
    \E q \in Requests :
        call'[q].op \in {"register", "sync"} /\ call'[q].worker = w /\ svc'[q] = "executed"

RightTasksNext(c, shown) ==
    \A task \in shown :
        Wrote(call'[task.by], task) /\ (c.op = "daily" => task.date = c.date)

TellsNext(c, shown) ==
    \A q \in c.acked :
        /\ c.op = "detail" /\ c.order = call'[q].order =>
              \E task \in shown : task.order = call'[q].order
        /\ c.op = "daily" /\ c.date = call'[q].date =>
              (\E task \in shown : task.order = call'[q].order) \/ MovedNext(q)

ListsNext(c, shown) ==
    c.op = "list" =>
        /\ \A q \in c.acked :
              (\E one \in shown : one.id = call'[q].worker) \/ MadeUpNext(q)
        /\ \A one \in shown : RegisteredNext(one.id)

\* What was acknowledged when c came in.
Heeds(c) ==
    \A q \in c.acked : /\ q \in Requests /\ call[q].op \in Writes /\ answer[q].status = 200
                       /\ c.op \in TaskReads => call[q].op = "sync"

\* What the service knows of a worker it goes on knowing.
LEMMA RegistrationStays ==
    ASSUME IInv, [Next]_vars, NEW w, Registered(w)
    PROVE  RegisteredNext(w)
  <1>1. PICK q \in Requests :
           call[q].op \in {"register", "sync"} /\ call[q].worker = w /\ svc[q] = "executed"
    BY DEF Registered
  <1>2. call'[q] = call[q] /\ svc'[q] = "executed"
    BY <1>1, CallStays
  <1> QED
    BY <1>1, <1>2 DEF RegisteredNext

\* What is rightly shown stays right.
LEMMA ShownStays ==
    ASSUME IInv, [Next]_vars, NEW c, Heeds(c), NEW shown \in SUBSET Task, NEW listed
    PROVE  /\ RightTasks(c, shown) => RightTasksNext(c, shown)
           /\ Tells(c, shown) => TellsNext(c, shown)
           /\ Lists(c, listed) => ListsNext(c, listed)
  <1>1. \A p \in c.acked : call'[p] = call[p] /\ seen'[p] = seen[p]
    <2>1. \A p \in c.acked : p \in Requests /\ pc[p] = "answered"
      BY DEF Heeds, IInv, StageInv, Blank
    <2> QED
      BY <2>1, CallStays
  <1>2. \A p \in Requests : svc[p] = "executed" => call'[p] = call[p] /\ svc'[p] = "executed"
    BY CallStays
  <1>3. \A p \in c.acked : Moved(p) => MovedNext(p)
    BY <1>1, <1>2 DEF Moved, MovedNext
  <1>4. \A p \in c.acked : MadeUp(p) => MadeUpNext(p)
    BY <1>1 DEF MadeUp, MadeUpNext
  <1>5. RightTasks(c, shown) => RightTasksNext(c, shown)
    BY WroteStays DEF RightTasks, RightTasksNext
  <1>6. Tells(c, shown) => TellsNext(c, shown)
    BY <1>1, <1>3 DEF Tells, TellsNext
  <1>7. Lists(c, listed) => ListsNext(c, listed)
    BY <1>1, <1>4, RegistrationStays DEF Lists, ListsNext
  <1> QED
    BY <1>5, <1>6, <1>7

\* The service forgets no worker, and knows none without having been told.
LEMMA ScheduleStep == IInv /\ [Next]_vars => ScheduleInv'
  <1> SUFFICES ASSUME IInv, [Next]_vars
               PROVE  /\ \A q \in Requests :
                            call'[q].op \in Writes /\ svc'[q] = "executed" =>
                                schedule'[call'[q].worker] # None
                      /\ \A w \in Workers : schedule'[w] # None => RegisteredNext(w)
    BY DEF ScheduleInv, Registered, RegisteredNext, Writes
  <1>0. /\ TypeInv /\ CallsTypeOK
        /\ schedule \in [Workers -> WorkerStatus \cup {"UNSPECIFIED", None}]
        /\ \A q \in Requests : call[q].op \in Writes => call[q].worker \in Workers
        /\ \A q \in Requests :
              call[q].op \in Writes /\ svc[q] = "executed" => schedule[call[q].worker] # None
        /\ \A w \in Workers : schedule[w] # None => Registered(w)
    BY DEF IInv, TypeInv, ScheduleInv, Fits
  <1>1. ASSUME NEW r \in Requests, Serves(r), call[r].op \in Writes
        PROVE  /\ call' = call /\ svc'[r] = "executed"
               /\ call[r].op = "update" => schedule[call[r].worker] # None
               /\ \E status \in WorkerStatus \cup {"UNSPECIFIED"} :
                     schedule' = [schedule EXCEPT ![call[r].worker] = status]
    <2>1. /\ Executes(r) /\ call' = call
          /\ call[r].op = "update" => schedule[call[r].worker] # None
          /\ \E status \in WorkerStatus \cup {"UNSPECIFIED"} :
                schedule' = [schedule EXCEPT ![call[r].worker] = status]
      BY <1>0, <1>1, WhatServes
    <2> QED
      BY <1>0, <2>1 DEF Executes, CallsTypeOK
  <1>2. \/ schedule' = schedule
        \/ \E r \in Requests : Serves(r) /\ call[r].op \in Writes
    <2>1. Restart \/ UNCHANGED vars => schedule' = schedule
      BY DEF Restart, vars, scheduleVars
    <2>2. ASSUME NEW r \in Requests, Request(r) \/ Ends(r) PROVE schedule' = schedule
      BY <1>0, <2>2, WhatComes, WhatEnds
    <2>3. ASSUME NEW r \in Requests, Serves(r)
          PROVE  schedule' = schedule \/ call[r].op \in Writes
      BY <1>0, <2>3, WhatServes
    <2> QED
      BY <2>1, <2>2, <2>3, Steps
  <1>3. \A w \in Workers : schedule[w] # None => schedule'[w] # None
    <2>1. ASSUME NEW r \in Requests, Serves(r), call[r].op \in Writes, NEW w \in Workers,
                 schedule[w] # None
          PROVE  schedule'[w] # None
      BY <1>0, <1>1, <2>1 DEF WorkerStatus, None
    <2> QED
      BY <1>2, <2>1
  <1>4. ASSUME NEW q \in Requests, call'[q].op \in Writes, svc'[q] = "executed"
        PROVE  schedule'[call'[q].worker] # None
    <2>1. CASE svc[q] = "executed"
      BY <1>0, <1>3, <1>4, <2>1, CallStays
    <2>2. CASE svc[q] # "executed"
      <3>1. Serves(q) /\ call' = call
        BY <1>0, <1>4, <2>2, NewlyServed, WhatServes
      <3> QED
        BY <1>0, <1>1, <1>4, <3>1 DEF WorkerStatus, None
    <2> QED
      BY <2>1, <2>2
  <1>5. ASSUME NEW w \in Workers, schedule'[w] # None
        PROVE  RegisteredNext(w)
    <2>1. CASE schedule[w] # None
      BY <1>0, <2>1, RegistrationStays
    <2>2. CASE schedule[w] = None
      <3>1. PICK r \in Requests : Serves(r) /\ call[r].op \in Writes
        BY <1>2, <1>5, <2>2
      <3>2. call[r].worker = w
        BY <1>0, <1>1, <1>5, <2>2, <3>1
      <3> QED
        BY <1>1, <2>2, <3>1, <3>2 DEF RegisteredNext, Writes
    <2> QED
      BY <2>1, <2>2
  <1> QED
    BY <1>4, <1>5

\* A write is acknowledged when it was executed or by the gateway itself, and a list
\* or a read knows of none before.
LEMMA AckedStep == IInv /\ [Next]_vars => AckedInv'
  <1> SUFFICES ASSUME IInv, [Next]_vars, NEW q \in Requests
               PROVE  /\ call'[q].op \in Writes /\ answer'[q].status = 200 =>
                            svc'[q] = "executed" \/ MadeUpNext(q)
                      /\ \A p \in call'[q].acked :
                            /\ call'[p].op \in Writes /\ answer'[p].status = 200
                            /\ call'[q].op \in TaskReads => call'[p].op = "sync"
    BY DEF AckedInv, MadeUp, MadeUpNext, Writes, TaskReads
  <1>0. /\ TypeInv /\ LifeInv /\ CallsTypeOK
        /\ call \in [Requests -> Call \cup {NoCall}]
        /\ answer \in [Requests -> Answer]
        /\ \A p \in Requests : pc[p] # "answered" => answer[p] = Blank
        /\ call[q].op \in Writes /\ answer[q].status = 200 =>
              svc[q] = "executed" \/ MadeUp(q)
        /\ \A p \in call[q].acked : /\ call[p].op \in Writes /\ answer[p].status = 200
                                    /\ call[q].op \in TaskReads => call[p].op = "sync"
    BY DEF IInv, TypeInv, StageInv, AckedInv
  <1>1. \A c \in Call \cup {NoCall} : c.acked \subseteq Requests
    BY DEF Call, NoCall
  <1>2. call[q].acked \subseteq Requests
    BY <1>0, <1>1
  <1>3. \A p \in Requests :
           answer[p].status = 200 => /\ pc[p] = "answered" /\ answer'[p] = answer[p]
                                     /\ call'[p] = call[p] /\ seen'[p] = seen[p]
    <2>1. \A p \in Requests : answer[p].status = 200 => pc[p] = "answered"
      BY <1>0 DEF Blank
    <2> QED
      BY <2>1, CallStays
  <1>4. svc[q] = "executed" => svc'[q] = "executed"
    BY CallStays
  <1>5. answer[q].status = 200 /\ MadeUp(q) => MadeUpNext(q)
    BY <1>3 DEF MadeUp, MadeUpNext
  <1>6. CASE call'[q] = call[q] /\ answer'[q] = answer[q]
    BY <1>0, <1>2, <1>3, <1>4, <1>5, <1>6
  <1>7. CASE Request(q)
    <2>1. /\ pc[q] = "idle"
          /\ \/ answer' = answer
             \/ \E a \in Answer : a.status = 422 /\ answer' = [answer EXCEPT ![q] = a]
      BY <1>0, <1>7, WhatComes
    <2>2. answer'[q].status # 200
      BY <1>0, <2>1 DEF Blank
    <2>3. PICK c \in Call :
             /\ call' = [call EXCEPT ![q] = c]
             /\ \A p \in c.acked : /\ call[p].op \in Writes /\ answer[p].status = 200
                                   /\ c.op \in TaskReads => call[p].op = "sync"
      BY <1>0, <1>7, WhatComes
    <2>4. call'[q] = c /\ c.acked \subseteq Requests
      BY <1>0, <1>1, <2>3
    <2>5. ASSUME NEW p \in c.acked
          PROVE  /\ call'[p].op \in Writes /\ answer'[p].status = 200
                 /\ c.op \in TaskReads => call'[p].op = "sync"
      BY <1>3, <2>3, <2>4
    <2> QED
      BY <2>2, <2>4, <2>5
  <1>8. CASE Ends(q)
    <2>1. /\ call' = call /\ answer \in [Requests -> Answer]
          /\ \E a \in Answer :
                /\ answer' = [answer EXCEPT ![q] = a]
                /\ \/ a.status # 200
                   \/ svc[q] = "executed"
                   \/ /\ call[q].op \in {"register", "update"}
                      /\ seen'[q] \in MOCKABLE_DOWNSTREAM_GAP_CODES
      BY <1>0, <1>8, WhatEnds
    <2>2. answer'[q].status # 200 \/ svc'[q] = "executed" \/ MadeUpNext(q)
      BY <1>4, <2>1 DEF MadeUpNext
    <2> QED
      BY <1>0, <1>2, <1>3, <2>1, <2>2
  <1>9. CASE Serves(q)
    <2>1. call' = call /\ answer' = answer
      BY <1>0, <1>9, WhatServes
    <2> QED
      BY <1>6, <2>1
  <1> QED
    BY <1>0, <1>6, <1>7, <1>8, <1>9, OwnStep

\* What a request knows of was acknowledged.
LEMMA Heeding ==
    ASSUME IInv, NEW q \in Requests
    PROVE  Heeds(call[q])
  <1>1. call[q].acked \subseteq Requests
    BY DEF IInv, TypeInv, Call, NoCall
  <1> QED
    BY <1>1 DEF IInv, AckedInv, Heeds

\* A reply to a read of tasks tells what it has to.
LEMMA Telling ==
    ASSUME IInv, NEW q \in Requests, call[q].op \in TaskReads
    PROVE  RightTasks(call[q], TasksFor(call[q])) /\ Tells(call[q], TasksFor(call[q]))
  <1>0. /\ tasks \in [Orders -> SUBSET Task]
        /\ \A o \in Orders : \A task \in tasks[o] :
              task.order = o /\ Wrote(call[task.by], task) /\ svc[task.by] = "executed"
        /\ call[q].op = "detail" => call[q].order \in Orders
        /\ Heeds(call[q])
    BY Heeding DEF IInv, TypeInv, TaskInv, Fits
  <1>1. RightTasks(call[q], TasksFor(call[q]))
    BY <1>0 DEF RightTasks, TasksFor, TaskReads
  <1>2. ASSUME NEW p \in call[q].acked
        PROVE  /\ p \in Requests /\ call[p].order \in Orders
               /\ \E task \in Task : task \in tasks[call[p].order]
    <2>1. p \in Requests /\ call[p].op = "sync" /\ answer[p].status = 200
      BY <1>0, <1>2 DEF Heeds
    <2>2. call[p].order \in Orders /\ ~MadeUp(p)
      BY <2>1 DEF IInv, TypeInv, Fits, MadeUp
    <2>3. svc[p] = "executed"
      BY <2>1, <2>2 DEF IInv, AckedInv, Writes
    <2>4. tasks[call[p].order] # {}
      BY <2>1, <2>3 DEF IInv, TaskInv
    <2> QED
      BY <1>0, <2>1, <2>2, <2>4
  <1>3. ASSUME NEW p \in call[q].acked, call[q].op = "detail", call[q].order = call[p].order
        PROVE  \E task \in TasksFor(call[q]) : task.order = call[p].order
    BY <1>0, <1>2, <1>3 DEF TasksFor
  <1>4. ASSUME NEW p \in call[q].acked, call[q].op = "daily", call[q].date = call[p].date
        PROVE  \/ \E task \in TasksFor(call[q]) : task.order = call[p].order
               \/ Moved(p)
    <2>1. PICK task \in Task : task \in tasks[call[p].order]
      BY <1>2
    <2>2. /\ task.by \in Requests /\ task.order = call[p].order
          /\ Wrote(call[task.by], task) /\ svc[task.by] = "executed"
      BY <1>0, <1>2, <2>1 DEF Task
    <2>3. CASE task.date = call[q].date
      <3>1. task \in UNION {tasks[o] : o \in Orders}
        BY <1>2, <2>1
      <3>2. task \in TasksFor(call[q])
        BY <1>4, <2>3, <3>1 DEF TasksFor
      <3> QED
        BY <2>2, <3>2
    <2>4. CASE task.date # call[q].date
      <3>1. /\ call[task.by].op = "sync" /\ call[task.by].order = call[p].order
            /\ call[task.by].date # call[p].date
        BY <1>4, <2>2, <2>4 DEF Wrote
      <3> QED
        BY <2>2, <3>1 DEF Moved
    <2> QED
      BY <2>3, <2>4
  <1>5. Tells(call[q], TasksFor(call[q]))
    BY <1>3, <1>4 DEF Tells
  <1> QED
    BY <1>1, <1>5

\* A reply to the list of workers lists whom it has to.
LEMMA Listing ==
    ASSUME IInv, NEW q \in Requests
    PROVE  Lists(call[q], Known)
  <1>0. /\ Heeds(call[q]) /\ AckedInv /\ ScheduleInv
        /\ \A p \in Requests : call[p].op \in Writes => call[p].worker \in Workers
    BY Heeding DEF IInv, TypeInv, Fits
  <1>1. ASSUME NEW p \in call[q].acked, ~MadeUp(p)
        PROVE  \E one \in Known : one.id = call[p].worker
    <2>1. p \in Requests /\ call[p].op \in Writes /\ svc[p] = "executed"
      BY <1>0, <1>1 DEF Heeds, AckedInv
    <2>2. call[p].worker \in Workers /\ schedule[call[p].worker] # None
      BY <1>0, <2>1 DEF ScheduleInv
    <2> DEFINE one == Shown(call[p].worker, schedule[call[p].worker])
    <2>3. one \in Known /\ one.id = call[p].worker
      BY <2>2 DEF Known, Shown
    <2> QED
      BY <2>3
  <1>2. \A one \in Known : Registered(one.id)
    BY <1>0 DEF Known, Shown, ScheduleInv
  <1> QED
    BY <1>1, <1>2 DEF Lists

\* A reply shows what it should when it is made, and what it shows stays right.
LEMMA ReplyStep == IInv /\ [Next]_vars => ReplyInv'
  <1> SUFFICES ASSUME IInv, [Next]_vars, NEW q \in Requests
               PROVE  /\ \A shown \in reply'[q].workers : RightlyShown(call'[q], shown)
                      /\ RightTasksNext(call'[q], reply'[q].tasks)
                      /\ svc'[q] = "executed" => /\ TellsNext(call'[q], reply'[q].tasks)
                                                 /\ ListsNext(call'[q], reply'[q].workers)
    BY DEF ReplyInv, RightlyShown, RightTasks, RightTasksNext, Wrote, Tells, TellsNext,
           Moved, MovedNext, Lists, ListsNext, MadeUp, MadeUpNext, Registered, RegisteredNext,
           Shown
  <1>0. /\ TypeInv /\ LifeInv /\ CallsTypeOK /\ Fits(call[q]) /\ Heeds(call[q])
        /\ call \in [Requests -> Call \cup {NoCall}]
        /\ reply \in [Requests -> Reading] /\ reply[q] \in Reading
        /\ reply[q].tasks \in SUBSET Task
        /\ pc[q] = "idle" => reply[q] = NoReply /\ svc[q] = "none"
        /\ \A shown \in reply[q].workers : RightlyShown(call[q], shown)
        /\ RightTasks(call[q], reply[q].tasks)
        /\ svc[q] = "executed" =>
              Tells(call[q], reply[q].tasks) /\ Lists(call[q], reply[q].workers)
    BY Heeding DEF IInv, TypeInv, LifeInv, StageInv, ReplyInv, Reading
  <1>1. /\ RightTasksNext(call[q], reply[q].tasks)
        /\ svc[q] = "executed" => /\ TellsNext(call[q], reply[q].tasks)
                                  /\ ListsNext(call[q], reply[q].workers)
    BY <1>0, ShownStays
  <1>2. CASE UNCHANGED <<call[q], reply[q], svc[q]>>
    BY <1>0, <1>1, <1>2
  <1>3. CASE Request(q)
    <2>1. pc[q] = "idle" /\ reply' = reply
      BY <1>0, <1>3, WhatComes
    <2>2. svc'[q] # "executed"
      BY <1>0, <1>3, <2>1 DEF Request, AnsweredAtOnce, Sends, CallsTypeOK
    <2> QED
      BY <1>0, <2>1, <2>2 DEF NoReply, RightTasksNext
  <1>4. CASE Ends(q)
    <2>1. Wakes(q) /\ call' = call /\ reply' = reply
      BY <1>0, <1>4, WhatEnds
    <2>2. svc'[q] = "executed" => svc[q] = "executed"
      BY <1>0, <2>1 DEF Wakes, Returns, Raises, Refused, OutOfReach, CallsTypeOK
    <2> QED
      BY <1>0, <1>1, <2>1, <2>2
  <1>5. CASE Serves(q)
    <2>1. PICK reading \in Reading :
             /\ reply' = [reply EXCEPT ![q] = reading]
             /\ call[q].op \in {"register", "update"} =>
                   \A shown \in reading.workers : RightlyShown(call[q], shown)
             /\ call[q].op = "list" => reading.workers = Known
             /\ reading.tasks = IF call[q].op \in TaskReads THEN TasksFor(call[q])
                                ELSE reply[q].tasks
      BY <1>0, <1>5, WhatServes
    <2>2. call' = call /\ reply'[q] = reading /\ reading.tasks \in SUBSET Task
      BY <1>0, <1>5, <2>1, WhatServes DEF Reading
    <2>3. \A shown \in reading.workers : RightlyShown(call[q], shown)
      BY <2>1 DEF RightlyShown
    <2>4. Lists(call[q], reading.workers)
      BY <2>1, Listing DEF Lists
    <2>5. RightTasks(call[q], reading.tasks) /\ Tells(call[q], reading.tasks)
      <3>1. CASE call[q].op \in TaskReads
        BY <2>1, <3>1, Telling
      <3>2. CASE call[q].op \notin TaskReads
        BY <1>0, <2>1, <3>2 DEF Tells, TaskReads
      <3> QED
        BY <3>1, <3>2
    <2>6. /\ RightTasksNext(call[q], reading.tasks)
          /\ TellsNext(call[q], reading.tasks) /\ ListsNext(call[q], reading.workers)
      BY <1>0, <2>2, <2>4, <2>5, ShownStays
    <2> QED
      BY <2>2, <2>3, <2>6
  <1> QED
    BY <1>0, <1>2, <1>3, <1>4, <1>5, OwnStep

\* Each answer, once given, shows what it should, and stays as it is.
LEMMA AnswerStep == IInv /\ [Next]_vars => ReadingsAgree' /\ AnswerInv'
  <1> DEFINE Agrees(c, shown) ==
                /\ c.op = "register" => shown = Shown(c.worker, "AVAILABLE")
                /\ (/\ c.op = "update"
                    /\ c.status.word \in WorkerStatus
                    /\ c.status.blanks = {})
                       => shown = Shown(c.worker, c.status.word)
  <1> SUFFICES ASSUME IInv, [Next]_vars, NEW q \in Requests
               PROVE  /\ \A shown \in answer'[q].workers : Agrees(call'[q], shown)
                      /\ RightTasksNext(call'[q], answer'[q].tasks)
                      /\ answer'[q].status = 200 =>
                            /\ TellsNext(call'[q], answer'[q].tasks)
                            /\ ListsNext(call'[q], answer'[q].workers)
    BY DEF ReadingsAgree, AnswerInv, RightTasks, RightTasksNext, Wrote, Tells, TellsNext,
           Moved, MovedNext, Lists, ListsNext, MadeUp, MadeUpNext, Registered, RegisteredNext,
           Shown
  <1>0. /\ TypeInv /\ LifeInv /\ CallsTypeOK /\ Fits(call[q]) /\ Heeds(call[q])
        /\ call \in [Requests -> Call \cup {NoCall}]
        /\ answer \in [Requests -> Answer] /\ answer[q] \in Answer
        /\ reply[q] \in Reading /\ reply[q].tasks \in SUBSET Task
        /\ answer[q].tasks \in SUBSET Task
        /\ pc[q] # "answered" => answer[q] = Blank
        /\ \A shown \in answer[q].workers : Agrees(call[q], shown)
        /\ RightTasks(call[q], answer[q].tasks)
        /\ answer[q].status = 200 =>
              Tells(call[q], answer[q].tasks) /\ Lists(call[q], answer[q].workers)
    BY Heeding DEF IInv, TypeInv, StageInv, ReadingsAgree, AnswerInv, Answer, Reading
  <1>1. /\ RightTasksNext(call[q], answer[q].tasks)
        /\ answer[q].status = 200 => /\ TellsNext(call[q], answer[q].tasks)
                                     /\ ListsNext(call[q], answer[q].workers)
    BY <1>0, ShownStays
  <1>2. CASE UNCHANGED <<call[q], answer[q]>>
    BY <1>0, <1>1, <1>2
  <1>3. CASE Request(q)
    <2>1. /\ pc[q] = "idle"
          /\ \/ answer' = answer
             \/ \E a \in Answer : /\ a.status = 422 /\ a.workers = {} /\ a.tasks = {}
                                  /\ answer' = [answer EXCEPT ![q] = a]
      BY <1>0, <1>3, WhatComes
    <2>2. answer'[q].status # 200 /\ answer'[q].workers = {} /\ answer'[q].tasks = {}
      BY <1>0, <2>1 DEF Blank
    <2> QED
      BY <2>2 DEF RightTasksNext
  <1>4. CASE Ends(q)
    <2>1. call' = call
      BY <1>0, <1>4, WhatEnds
    <2>2. PICK a \in Answer :
             /\ answer' = [answer EXCEPT ![q] = a]
             /\ \/ a.status # 200 /\ a.workers = {} /\ a.tasks = {}
                \/ /\ svc[q] = "executed"
                   /\ a.workers = reply[q].workers /\ a.tasks = reply[q].tasks
                \/ /\ call[q].op \in {"register", "update"} /\ OwnWorker(q) \in Worker
                   /\ a = [status |-> 200, workers |-> {OwnWorker(q)}, tasks |-> {}]
      BY <1>0, <1>4, WhatEnds
    <2>3. answer'[q] = a
      BY <1>0, <2>2
    <2>4. CASE a.status # 200 /\ a.workers = {} /\ a.tasks = {}
      BY <2>3, <2>4 DEF RightTasksNext
    <2>5. CASE /\ svc[q] = "executed"
               /\ a.workers = reply[q].workers /\ a.tasks = reply[q].tasks
      <3>1. /\ \A shown \in reply[q].workers : RightlyShown(call[q], shown)
            /\ RightTasks(call[q], reply[q].tasks)
            /\ Tells(call[q], reply[q].tasks) /\ Lists(call[q], reply[q].workers)
        BY <2>5 DEF IInv, ReplyInv
      <3>2. \A shown \in a.workers : Agrees(call[q], shown)
        BY <2>5, <3>1 DEF RightlyShown
      <3>3. /\ RightTasksNext(call[q], reply[q].tasks)
            /\ TellsNext(call[q], reply[q].tasks) /\ ListsNext(call[q], reply[q].workers)
        BY <1>0, <3>1, ShownStays
      <3> HIDE DEF Agrees
      <3> QED
        BY <2>1, <2>3, <2>5, <3>2, <3>3
    <2>6. CASE /\ call[q].op \in {"register", "update"}
               /\ a = [status |-> 200, workers |-> {OwnWorker(q)}, tasks |-> {}]
      <3>1. a.workers = {OwnWorker(q)} /\ a.tasks = {} /\ call[q].acked = {}
        BY <1>0, <2>6 DEF Fits, Writes
      <3>2. Agrees(call[q], OwnWorker(q))
        <4>1. CASE call[q].op = "register"
          <5>1. OwnWorker(q) = Shown(call[q].worker, "AVAILABLE")
            BY <4>1, OwnRegistration DEF OwnWorker
          <5> QED
            BY <4>1, <5>1
        <4>2. CASE call[q].op = "update"
          <5>1. call[q].status \in Name(STRING)
            BY <1>0, <4>2, WorkerScheduleAssumption DEF Fits, WorkerScheduleAssumption
          <5>2. call[q].status.blanks = {} =>
                   OwnWorker(q) = Shown(call[q].worker, call[q].status.word)
            BY <4>2, <5>1, OwnRead DEF OwnWorker
          <5> QED
            BY <4>2, <5>2
        <4> QED
          BY <2>6, <4>1, <4>2
      <3>3. /\ RightTasksNext(call[q], a.tasks) /\ TellsNext(call[q], a.tasks)
            /\ ListsNext(call[q], a.workers)
        BY <2>6, <3>1 DEF RightTasksNext, TellsNext, ListsNext
      <3> HIDE DEF Agrees
      <3> QED
        BY <2>1, <2>3, <3>1, <3>2, <3>3
    <2> QED
      BY <2>2, <2>4, <2>5, <2>6
  <1>5. CASE Serves(q)
    <2>1. call' = call /\ answer' = answer
      BY <1>0, <1>5, WhatServes
    <2> QED
      BY <1>2, <2>1
  <1> QED
    BY <1>0, <1>2, <1>3, <1>4, <1>5, OwnStep

-----------------------------------------------------------------------------
(* The theorems. *)

\* The strengthened invariant holds in every reachable state.
LEMMA Invariance == Spec => []IInv
  <1>1. Init => IInv
    <2> SUFFICES ASSUME Init PROVE IInv
      OBVIOUS
    <2>1. CallsTypeOK /\ LifeInv
      BY CallsTypeInit DEF Init
    <2>2. \A r \in Requests : svc[r] = "none" /\ pc[r] = "idle"
      BY DEF Init, CallsInit
    <2>3. /\ call \in [Requests -> Call \cup {NoCall}]
          /\ \A r \in Requests : call[r] = NoCall
          /\ reply \in [Requests -> Reading]
          /\ \A r \in Requests : reply[r] = NoReply
      BY DEF Init, Reading, NoReply
    <2>4. /\ answer \in [Requests -> Answer]
          /\ \A r \in Requests : answer[r] = Blank
      BY DEF Init, Answer, Blank
    <2>5. /\ workers \in [Workers -> Worker \cup {NoWorker}]
          /\ \A w \in Workers : workers[w] = NoWorker
      BY DEF Init
    <2>6. /\ schedule \in [Workers -> WorkerStatus \cup {"UNSPECIFIED", None}]
          /\ tasks \in [Orders -> SUBSET Task]
          /\ \A o \in Orders : tasks[o] = {}
      BY DEF Init
    <2>7. Fits(NoCall) /\ NoCall.op = None /\ NoCall.acked = {}
      BY DEF Fits, NoCall, None, Writes
    <2>8. TypeInv
      BY <2>1, <2>3, <2>4, <2>5, <2>6, <2>7 DEF TypeInv
    <2>9. StageInv
      BY <2>3, <2>4 DEF StageInv
    <2>10. TaskInv
      BY <2>2, <2>6 DEF TaskInv
    <2>11. AckedInv
      BY <2>3, <2>4, <2>7 DEF AckedInv, Blank
    <2>12. ReplyInv
      BY <2>2, <2>3 DEF ReplyInv, RightTasks, NoReply
    <2>13. ReadingsAgree /\ AnswerInv
      BY <2>4 DEF ReadingsAgree, AnswerInv, RightTasks, Blank
    <2>14. ScheduleInv
      BY <2>2 DEF Init, ScheduleInv
    <2> QED
      BY <2>1, <2>8, <2>9, <2>10, <2>11, <2>12, <2>13, <2>14 DEF IInv
  <1>2. IInv /\ [Next]_vars => IInv'
    <2> SUFFICES ASSUME IInv, [Next]_vars PROVE IInv'
      OBVIOUS
    <2>1. TypeInv /\ LifeInv /\ CallsTypeOK
      BY DEF IInv, TypeInv
    <2>2. LifeInv'
      BY <2>1, StepOfCalls, LifeStep
    <2> QED
      BY <2>1, <2>2, TypeStep, StageStep, TaskStep, ScheduleStep, AckedStep, ReplyStep,
         AnswerStep
         DEF IInv
  <1> QED
    BY <1>1, <1>2, PTL DEF Spec

\* Every variable keeps its type.
THEOREM TypeCorrect == Spec => []TypeOK
  <1>1. IInv => TypeOK
    <2>1. IInv => TypeInv
      BY DEF IInv
    <2>2. TypeInv => /\ \A r \in Requests : reply[r] \in Reading /\ answer[r] \in Answer
                     /\ \A o \in Orders : tasks[o] \subseteq Task
      BY DEF TypeInv
    <2> QED
      BY <2>1, <2>2 DEF TypeInv, TypeOK, Reading, Answer
  <1> QED
    BY <1>1, Invariance, PTL

\* A worker is shown with the status he was given, however it was written and
\* whichever side answers (_parse_worker_status, _mock_worker).
THEOREM StatusesReadAlike == Spec => []ReadingsAgree
  <1>1. IInv => ReadingsAgree
    BY DEF IInv
  <1> QED
    BY <1>1, Invariance, PTL

\* Every worker somebody was told of is on the list, unless only the gateway told him so,
\* and nobody is on it whom the service does not know, with registrations served late,
\* after their deadline or after a restart (worker_schedule_list_workers).
THEOREM AckedWorkersListed == Spec => []AckedWorkerIsListed
  <1>1. IInv => AckedWorkerIsListed
    BY DEF IInv, AnswerInv, Lists, AckedWorkerIsListed
  <1> QED
    BY <1>1, Invariance, PTL

\* No acknowledged event is denied, and none is shown that nobody wrote, with calls
\* served late, after their deadline or after a restart
\* (worker_schedule_sync_order_event and the two reads of tasks).
THEOREM AckedShown == Spec => []AckedEventsAreShown
  <1>1. IInv => AckedEventsAreShown
    BY DEF IInv, AnswerInv, RightTasks, Wrote, Tells, ShowsOrder, AckedEventsAreShown
  <1> QED
    BY <1>1, Invariance, PTL

===============================================================================
