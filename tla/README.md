# HSP API gateway: a TLA+ verification project

The gateway (`src/app`) is one Python process: FastAPI in front, gRPC behind. It
checks a token and a role, forwards a request to one of six downstream services,
and for the core flow (dispatch, service execution, payment, closing) answers *in
the service's stead* when the service cannot be asked or does not accept the call.
What it makes up that way it partly remembers, in a dictionary on `app.state`.

That dictionary, shared by all requests in flight and empty after each restart, the
answers made up next to a service that may still carry the call out, and the layers
of middleware that many requests pass at once are what this project is about.

Contents: [Components](#components) ·
[Modules](#modules-and-the-code) · [Modelling decisions](#modelling-decisions) ·
[Runs](#runs) · [Divergences](#where-code-and-documents-diverge) ·
[Proofs](#proofs) · [Not modelled](#not-modelled) · [Plan](#plan)

## Components

| Component | State | Operations | Hard about it | Right if |
| --- | --- | --- | --- | --- |
| Pipeline: `main.py`, `middleware/`, `metadata.py` | `request.state` (id, identity), the access log | access log, request id, authentication, error handlers | many requests between the layers; an exception skips what stands after `call_next` | a call tells of the caller that was checked; one id runs through all; the log tells the answer |
| Roles and public paths: `middleware/auth.py` | none | `dispatch`, `_normalize_path`, `_check_rbac` | spelling of paths and roles | no call before every check |
| Tokens: `security/jwt_utils.py` | none | `decode_and_validate_jwt` | which failure is which | expiry told apart |
| Error mapping: `errors.py` | none | `map_grpc_error` | which codes are covered up by a fallback | only the listed ones |
| Downstream calls: `gateway/grpc_clients.py` | the channels, a deadline | one method per RPC, name parsers | late and lost replies, names in every spelling, absent query parameters | every call ends; the message says what the client meant |
| Payments: `create_payment`, `list_order_payments` | `core_flow_mock_store["payments"]` | confirm, list | store read before and after an `await`; service late after a fallback; restart | what is acknowledged is listed, once |
| Service records: `service_execution_*` | `["service_records"]` | start, complete, photo, record | replies in any order replace one record; made-up records | a record tells only what happened |
| Workers: `worker_schedule_*` | `["workers"]` (written, never read) | register, status, list, sync-event, daily schedule, order detail | the same status read twice by different rules; tasks and the list of workers are the service's alone; a late event moves an order to another date | both sides read it alike; a worker and an event that were acknowledged are shown |
| Orders: `create_order` … `close_order` | none | create, get, list, status, close | conversion of names and filters; pages; a made-up close | the service enters what the client meant; a page of a list is exact |
| Dispatch: `manual_assign_order` … | none | available workers, assign, pending, confirm, history | a response read twice by different rules; a refusal covered up | both sides read documented names alike; nobody is told two outcomes |
| Users and invoices | none | pass-through | nothing of their own | as the pipeline |
| Settings and lifespan: `config.py`, `create_app`, `lifespan` | the cached settings, six channels | import, start, stop | requests in flight at a stop; failure halfway through closing | no call on a closed channel; a stop ends |
| Mock services: `mock_services/server.py` | none | canned replies | they keep nothing, so a restart of the gateway loses what they confirmed | they stand in for a service as long as the gateway runs |

A request runs through access log → request id → authentication → router →
handler → one downstream call → back out. A handler has at most one `await` that
matters, the call (`_invoke_rpc`). Handlers of one area meet in their part of the
store; areas share nothing with each other but the process, the channels' deadline, and
the client that goes from one to the next along the documented flow.

## Modules and the code

| Module | Models | State | Actions |
| --- | --- | --- | --- |
| `Errors` | `errors.py`, `MOCKABLE_DOWNSTREAM_GAP_CODES` | – | operators |
| `Access` | `PUBLIC_PATHS`, `_normalize_path`, `_check_rbac` | – | operators; a path is the sequence of its segments |
| `Names` | the enum-name parsers and the fallbacks' `upper()` | – | operators; a name is its word with its prefix, its case and the blanks before and behind it |
| `Calls` | `_invoke_rpc` and the deadline of every call | `pc`, `svc`, `seen`, `epoch` | `AnsweredAtOnce`, `Sends`, `Returns`, `Raises`, `Crashes`; of the service, `Executes` |
| `Finance` | `create_payment`, `list_order_payments` and the finance service | `payments` (the store), `ledger` (the service), `call`, `reply`, `answer` | `CreatePayment`/`ListPayments` (handler up to its call), `…Returns` and `…Raises` (from its call to its answer), `Serves…`, `Restart` |
| `PaymentBook` | nothing in the code: the promise the payment routes keep | `book`, `phase`, `about`, `owed`, `told` | `Open`, `Confirm`, `Show`, `Look`, `Decline`, `Restart` |
| `RecordBook` | nothing in the code: the promise the service execution routes keep | `book`, `phase`, `about`, `kind`, `told` | `Open`, `Enter`, `Look`, `Show`, `Decline`, `Restart` |
| `ServiceExecution` | the four service execution routes and their service | `records` (the store), `archive` (the service) | as in `Finance`: `Write`/`GetRecord`, `Start/Complete/Photo/GetReturns` and `…Raises`, `Serves…`, `Restart` |
| `Orders` | the five order routes, `order_*` of the client, the order service | `asked` (the message), `journal` (the service) | `Request`, `Replies`, `Fails`, `Serves…`, `Restart` |
| `Dispatch` | the five dispatch routes, the dispatch service | `journal` | the same |
| `WorkerSchedule` | the six worker schedule routes, the schedule service | `workers` (the store), `schedule` and `tasks` (the service) | the same |
| `Pipeline` | `main.py`, `middleware/`, `metadata.py`, the user routes, the invoice | `stage`, `input`, `scope` (`request.state`), `sent`, `answer`, `log` | `Receive`, `AssignId`, `Authenticate`, `Route`, `Call`, `Returns`, `Raises`, `Stamp`, `Log`, `Breaks` |
| `Lifecycle` | `create_app` and `lifespan` without their settings, `GatewayGrpcClients.__init__` and `close` | `phase`, `channels` | `Load`, `Startup`, `Terminate`, `Close`, `Stopped`, `Killed` |
| `MockServices` | `build_mock_response` for the two services that speak `Struct` | – | operators |
| `CoreFlow` | the gateway as one process, along the core integration flow | all of `Lifecycle`, `Orders`, `Dispatch`, `ServiceExecution`, `Finance`; `deployment` | `OrderRoute`, `DispatchRoute`, `ServiceRoute`, `FinanceRoute` (the handlers), `…Service`, `Starts`, `Stops`, `Exits`, `Dies` |
| `MC…` | instances for TLC | – | – |
| `CallsProofs` | lemmas on calls, errors and names, for all the areas | – | – |
| `FinanceProofs`, `ServiceExecutionProofs`, `OrdersProofs`, `DispatchProofs`, `WorkerScheduleProofs`, `PipelineProofs`, `CoreFlowProofs` | theorems on the module each is named after | – | – |

`Finance`, `ServiceExecution`, `Orders`, `Dispatch` and `WorkerSchedule` EXTEND
`Calls`: each of their actions is a step of the life of a call together with what
the handler does to its own state. `CoreFlow` is their composition: four of them are
instances over one `pc`, `svc`, `seen` and `epoch`, and each of its actions is a whole
action of one instance, with all the others unchanged, or a step of `Lifecycle`, which
in a stop or a death takes the restart of all four along. `PROJECT.json` gives the
source lines of every definition. Definitions marked "Mutated form of …" are faulty variants of the one
below them; nothing uses them but the sensitivity checks of `PROJECT.json`, which
put them in its place and expect the property to fail.

## Modelling decisions

- **Steps.** asyncio runs a handler without interruption between its `await`s, so a
  handler is two actions: up to the call, and from the end of the call to the
  answer. In `Pipeline`, which is about the layers, every layer is a step of its
  own; the event loop turns to other requests between them at will, which allows
  more interleavings than Starlette does.
- **Handlers and the pipeline.** The modules of the routes have the role check and
  the validation of the body in their first action (403, 422) and the validation
  of the answer in the last (500, after the store was written, as in the code).
- **Services.** They are not in the repository. The models assume of them what the
  gateway's use of them says and no more: a call is executed at most once, at any
  time after it was sent, also after the deadline or a restart; it may be refused
  with any code; the reply to a write is the record, a reply without one, or (where
  the reply is an untyped `Struct`) a record that does not fit the model. A service
  that breaks (`BreakCodes`: INTERNAL, UNKNOWN, ABORTED, DATA_LOSS) may have carried the
  call out before it broke; one that refuses a call with any other code has not. Late
  execution after a fallback and lost replies are therefore in every run.
- **Data.** A write is told apart by its request, which stands for amount, dates,
  note or URL. A payment the gateway makes up has the id `pay-{order_id}`, the same
  for all of an order: kept as `"pay-order"`. Validity of a record is one flag per
  thing that can make validation fail. A kept record that is no object, or whose photos are
  no list, is one of those that do not fit: a completion or a photo that is added to it
  breaks its handler (`Breaks` in `ServiceExecution`). Message texts, timestamps and the mock
  values of names and phone numbers are left out.
- **Names.** A client writes any word, with the prefix of the enum or without, in upper
  case or not, with blanks before and behind. Parsers strip and compare; the fallback of a
  confirmation asks whether the word *ends* in ACCEPT (`Accepting` are the words that do)
  with nothing behind it, and that of a worker's status adds the prefix and strips nothing.
- **Queries.** A list of orders carries its customer, its status and its page (`Windows`:
  number and size); the service type is a filter of the same kind as the status, read by
  the same kind of parser, and goes with it. The service answers with a page of the
  matching orders as long as page and size say, and chooses which orders come on which
  page. A query for available workers has a filter and a limit; the daily schedule a date.
- **Aliasing.** An answer is the very object that is kept in the store. FastAPI
  serialises it before the handler's task is suspended again, so no answer shows a
  later change; the models copy.
- **Restarts.** The process may die at any moment: handlers in flight are lost, the
  store is empty, calls already sent are not taken back.
- **History.** `acked`, `epoch` in `call` and `answer`, and `by` in the journal of
  `Orders` are not in the code; properties need them to speak of what had been
  acknowledged when a request came in. No guard reads them.
- **The flow.** The client of `CoreFlow` is the one of *Core Integration Flow* in
  `API_DOCUMENTATION.md`: create, assign, confirm, start, complete, pay, close, each when
  all before it have been acknowledged, then one look. A payment that got no
  acknowledgement is tried once more. The client waits for each answer; overlapping
  requests are for the modules of the single areas.
- **The process.** A stop (SIGTERM) lets no request in, waits for those in flight and
  closes the channels; a kill may come in any phase. Closing may raise on any channel:
  of the sets of closed channels that can leave, the smallest and the largest are
  taken. The settings are left out.
- **The mocks.** `docker-compose` runs a mock for all six services. The gateway speaks
  the services' own protobuf to four of them, which a mock does not understand, so only
  the two of `Struct` are of use; `deployment` chooses whether these two are mocks.
- **Bounds.** `MaxRestarts` bounds the restarts. Each request of `Requests` comes in
  once, so the number of requests bounds everything else. In `CoreFlow`, `MaxFailures`
  bounds the steps that fail (but for the look, and for a step in flight during a stop,
  which may always fail).

### Fairness

`EveryRequestEnds` (`ServiceExecution`) assumes weak fairness of `TimesOut(r)`
alone: every call is made with `timeout=self.timeout_seconds`
(`grpc_clients.py:219`, `:248`), and the timer of gRPC ends the `await` then. Nothing is
assumed of the services: they may never answer. `EveryRequestAnswered` (`Pipeline`)
assumes weak fairness of `Advances(r)`: ready tasks are run, and that same timer
fires. `Receive`, `Returns` and the other failures are under no fairness. `StopEnds`
(`CoreFlow`) assumes weak fairness of `TimesOut` while the server waits for requests in
flight (that timer again; `TimesOut` has the timed call of every area), of `Close` and of
`Exits`: the server goes on when the last request is answered, and the process ends
after its lifespan, whether or not closing a channel raised. That a stop is asked for,
that services answer and that clients go on is under no fairness. The other modules
state safety only; the life of their calls is that of `Calls` too.

## Runs

| Run | Instance | Shows |
| --- | --- | --- |
| `finance` | 3 requests, 2 orders, a role on each side of the rule, 1 restart; symmetric | `AckedPaymentListed`, `EveryPaymentIsBacked`, `StoreMatchesAnswers`, `NoDoubleCount`, `FallbackListIsFresh`, and `KeepsBook`: the routes implement `PaymentBook` |
| `finance_held` | 3 requests, 1 order, 1 restart | *violated*, see below |
| `service` | 3 requests, 1 order, 1 restart; symmetric | `EveryMarkIsBacked`, `StatusFitsMarks`, `BrokenRecordIsReported`, `DoubledOnlyByOvertaking`, `HistoryGoesOnlyWithReplacement`, and `KeepsRecords`: the routes implement `RecordBook` |
| `service_orders` | 2 requests, 2 orders, 1 restart; no symmetry | records of two orders do not mix; `EveryRequestEnds` |
| `service_completed` | 3 requests, 1 order | *violated*, see below |
| `pipeline` | 1 request with every path, token, role, id, header and body | `OnlyCheckedRequestsCall`, `EveryRequestAnswered` |
| `pipeline_overlap` | 2 requests of 2 users on three calling paths; symmetric | `CallsCarryTheCaller`, `OneIdEverywhere`, `LogTellsTheAnswer` |
| `orders` | 3 requests, 2 orders, 2 customers, two spellings of a status, first pages of two orders, 1 restart; symmetric | `WrittenAsAsked`, `EveryAnswerIsBacked`, `FilteredListIsExact` |
| `orders_list` | 2 requests | *violated*, see below |
| `dispatch` | 3 requests, 1 order, 2 workers of whom one has the skill, a limit of 1, three responses (an acceptance in an odd spelling, a rejection, a word that ends in ACCEPT), 1 restart; symmetric in the requests | `EveryAnswerIsBacked`, `ReadingsAgree`, `OneOutcome` |
| `worker_schedule` | 3 requests, 2 workers, 1 order, 2 dates, two spellings of a status, two of an event, 1 restart; symmetric | `ReadingsAgree`, `AckedWorkerIsListed`, `AckedEventsAreShown` |
| `core_flow` | 12 steps (7 of the flow, a second payment, 4 looks) on one order, 2 failures, 1 restart, services or mocks | `VerificationHolds`, `PaidMeansConfirmed`, `NoCallOnClosedChannel`, `StopEnds` |

Each passing safety run also checks the `TypeOK` of its module (`pipeline_overlap` and
`service_orders` leave it to their siblings).

**Why these bounds are enough.** The shortest ways to break the properties take two
writes on one order and a read between or after them, hence three requests: one
whose call is open, one that is acknowledged meanwhile, and one that looks. Two
orders (workers, customers) show mixing. One restart separates two incarnations,
and nothing counts incarnations beyond "mine or not". The failure codes are one for
each way the code treats them: out of reach and falling back, refused and falling
back (where it matters that the service did not execute), and reported. A page of two
orders is filled by two and not by one, so both sides of `LastPage` occur; pages beyond the
first, other sizes and limits are in the theorems, not in the runs. Two dates are what it
takes to move an order. The
flow needs two failures for its worst cases: one that the gateway covers up (a
completion, a payment) and one that makes the client pay again or a close be made up;
the look that comes after them may fail besides. The pipeline's checks are per
request, so one request with all inputs covers them, and two show interference. Symmetry
is over sets no definition singles out an element of, and is not used where liveness is
checked.

**Deadlock** is checked everywhere; `Terminated` marks the end of a behaviour whose
requests have all ended, and `Listens` in `CoreFlow` a server that waits for requests.

What the less obvious properties say:

- `FallbackListIsFresh`, `KeepsRecords`: the store is looked up before the
  call and again after it. The second look must be a real one: a handler that
  answered with what it had read before the `await` would deny writes that were
  acknowledged meanwhile.
- `StoreMatchesAnswers`: the store is written *before* the answer is validated, so an
  answer of 500 may leave its payment behind, and nothing else may.
- `NoDoubleCount`: after a deadline both the gateway and the service hold the
  payment. No list shows both, because a list is never merged from the two.
- `StatusFitsMarks`: whichever of starts, completions, photos and reads end in
  whichever order, the record that is kept never claims a status nothing in it
  accounts for; the record invented for a read is never kept.
- `BrokenRecordIsReported`: the store is written before the answer is validated, so a
  record that fits no model may be kept, and completed and photographed further; every
  read of it is a 500 then. The property says that a write on the order was answered with a
  failure: writes that are all acknowledged leave no such record.
- `DoubledOnlyByOvertaking`: a photo is appended when its call ends, also if the reply to
  a start or a completion has brought it already. It is in a record twice at most, and in
  that order.
- `KeepsRecords`: `ServiceExecution` implements `RecordBook`. An entry changes at one
  instant between a write and its answer and through nothing else, and without one no
  write is acknowledged; a photo adds itself to what is there, a stub included; a read
  shows the entry of that instant, or of the end of its wait, and the invented record only
  while there is none.
- `FilteredListIsExact`: a list for a customer has nobody else's orders, none of another
  status than the one asked for, no more than its page, and, when no status is asked for
  and the first page is not full, all that had been acknowledged for him.
- `ReadingsAgree` (`Dispatch`, `WorkerSchedule`): the parser before the call and the fallback
  after it read every documented name alike, within the limits the code has: no blank
  behind a response, none at all around a status.
- `OneOutcome`: a worker may respond again and the other way; the service refuses, and the
  refusal falls back. Only an answer made up that way may contradict another one.
- `AckedWorkerIsListed`: the list of workers is the service's. It misses an acknowledged
  worker only where the gateway acknowledged him by itself, and has nobody else.
- `AckedEventsAreShown`: the tasks are read from the service only, so a synchronised
  event must not be acknowledged in its stead. The detail of its order shows the order
  from then on; the schedule of its date does until another event, possibly one that is
  executed late, has put the order on another date.
- `VerificationHolds`: the documentation has the client verify the flow by the order
  detail, the dispatch history, the service record and the payment list. The property says
  what each may deny of what was acknowledged on the way: the detail a close, and the
  history a confirmation, that the gateway made up; the record a completion, and the list a
  payment, only after a restart, and only if the service was out of reach at the one time
  or the other, or is a mock.
- `PaidMeansConfirmed`: "`PAID` means payment has been confirmed". The order service has
  the order as PAID only while a payment of it is held somewhere, except where the one
  the gateway made up, or a mock confirmed, went with a restart.
- `HistoryGoesOnlyWithReplacement`: who may make a photo or a start disappear.
- `OneIdEverywhere`, `LogTellsTheAnswer`: what holds also when a handler breaks, where
  the code behind `call_next` is not run.

## Where code and documents diverge

Each of these runs is expected to be violated: the property is the document's, the
counterexample is the code's.

- `finance_held` — *"Lists payment records for one order."* A list is answered from the
  store as soon as that has one payment of the order. After a restart one new
  payment hides all the older ones, which the finance service still holds. Lists whose
  call has failed are no part of the property; they are a point of their own, below.
- `service_completed` — *CREATED → … → IN_SERVICE → COMPLETE → PAID.* The reply to a start
  replaces the record, whenever it comes; a start that fails does so with a record
  made up. After an acknowledged completion the order is read as IN_SERVICE again.
- `orders_list` — *"Lists orders."* `list_orders` always passes `customer_name`; when the
  query has none, `str(None)` asks the service for the customer named `None`.

Others follow at once from a handler's text, without any interleaving, or are the
exceptions that a property of a passing run names, and have no run of their own:

- FastAPI words 422 and 404 by itself, without `code` and `request_id`, where the
  documentation has one *error format* for all (`main.py:96`, `Leaves` in `Pipeline`).
- After a restart with the finance service out of reach, the list of payments is answered
  200 and empty, although a payment was acknowledged and the service holds it
  (`http_to_rpc_router.py:702`). TLC found this as the first violation of a
  `VerificationHolds` that did not name it.
- A restart between a payment the gateway made up and the close leaves an order PAID with
  no payment anywhere (`:681`, the exception in `PaidMeansConfirmed`).
- UNAVAILABLE of a service of the core flow is answered 200 by the fallback, while the
  repository's README says `UNAVAILABLE -> 503` (`http_to_rpc_router.py:666`).
- The record of an order nobody knows is read as COMPLETE
  (`http_to_rpc_router.py:619`).
- A completion's reply that was made before an acknowledged photo drops it
  (`http_to_rpc_router.py:527`).
- A close, and a confirmation of a dispatch, that the gateway answers by itself are
  remembered nowhere (`:275`, `:354`); a worker it registers by itself is in no list
  (`:391`).
- The fallback of a confirmation does not strip blanks, where the parser does
  (`:353`): an acceptance with a blank behind it is answered REJECTED. It takes any word
  that ends in ACCEPT for an acceptance, which the service was asked about as
  UNSPECIFIED. The fallback of a worker's status accepts names that there are not, and
  keeps the blanks around one (`:428`).
- A worker who responds a second time, the other way, is refused by the service and told
  by the gateway that it counts (`:354`, the exception in `OneOutcome`).
- A handler that breaks leaves no line in the access log (`main.py:74`), which
  `LogTellsTheAnswer` states as it is.

## Proofs

Checked by TLAPS, for every set of requests, orders, customers, workers, users, roles,
paths, ids and spellings, every set of failure codes and every bound on restarts and
failures. Every safety property of a passing run is proved, refinements included. The
proofs assume of the constants

| Assumption | Says | Because |
| --- | --- | --- |
| `CallsAssumption`, `PipelineAssumption` | failure codes are status codes and the deadline's is one; the bound is a natural number; `None` names no request, user or id | gRPC has no other codes, every call has a deadline, and `None` is an absent value |
| `ServiceExecutionAssumption`, `NoneAssumption` | `None` names no request, no order | it stands for "no write", "no order" |
| `OrdersAssumption`, `WorkerScheduleAssumption`, `DispatchAssumption` | what a client writes for a status, an event or a response is a name: a word with its prefix, case and blanks; ACCEPT ends in ACCEPT and REJECT does not; pages start at 1, sizes and limits are in 1..200; who has the skill is a worker | bodies and queries carry strings, and the queries have `ge=1`, `le=200` |
| `CoreFlowAssumption` | the requests are the steps of the flow; the services of `Struct` are real or mocks | that is what the module is about |

**Lemmas on calls (`CallsProofs`).** Every area EXTENDS `Calls`, and its proofs cite the
same facts: the shape of the steps of a call, `LifeInv` (only a call that was sent is
executed, only a waiting handler is answered, what was seen stays seen), which codes a
fallback covers and what status the others have, and what the two readers of a name make
of it.

**Payments (`FinanceProofs`).** `ReadYourPayments` (`[]AckedPaymentListed`) speaks of an
answer and of the past, so it is not inductive. The invariant `IInv` adds

- `StageInv`: a request leaves no trace before it comes in, and no answer before its end;
- `CreateInv`: the reply to a confirmation can only hold the record of that confirmation;
- `StoreInv`: each payment in the store belongs to an answered request of the desk for
  that order;
- `AckedInv`: what this incarnation acknowledged, its store holds. This is the heart of
  it: it makes both branches of the list that read the store right;
- `WaitInv`: a list is sent to the service only when nothing was owed to it, because
  it is sent only when the store had nothing. This makes the third branch right.

`PaymentsBacked` and `FreshFallback` follow from it.

*Refinement.* `FinanceKeepsBook`: `Spec => KeepsBook`. Under the
mapping in `Finance` (`BookOf`, `PhaseOf`, `AboutOf`, `OwedOf`, `ToldOf`) a confirmation
that is kept is a `Confirm`, a list is `Look` or `Open` and `Show`, an error is
`Decline`, and what the service does is a stutter. `RInv` adds that a reply has one
payment at most (`ReplyInv`), that only 200 shows payments (`BodyInv`), and that the store
is of this incarnation (`EpochInv`); `SameAcknowledged` shows that the book and the answers
agree on what has been acknowledged.

*No payment twice.* `NothingCountedTwice` and `StoreAndAnswersAgree` count occurrences, so
`MInv` adds to `RInv` that neither the ledger nor any reply nor the store has a request
twice (`OnceInv`: a request is executed once and kept once), and that what is kept was
answered 200, or 500 if it does not fit (`KeptInv`). A list shows either the ledger of one
instant or the store of one, never the two together.

**Service records (`ServiceExecutionProofs`).** The theorems are `MarksAreBacked`,
`StatusesFit`, `BrokenIsReported`, `DoubledByOvertaking`, and `HistoryStays` for the
action property. None of them is inductive without what the service holds and
what is on its way: a reply made long ago replaces the record. `IInv` has

- `ArchiveInv`: every record of the archive is backed and fits its marks;
- `ReplyInv`: so does every reply, which also has the mark of its own call, or the photo;
- `StoreInv`: so does every record of the store. The three are one argument: marks are
  set together with the status that goes with them, by the service and by the gateway;
- `AheadInv`: a photo that is in the store before its own request is answered is there
  once, and another reply brought it. This is what bounds `DoubledOnlyByOvertaking` by two.

*Refinement.* `ServiceExecutionKeepsRecords`: `Spec => KeepsRecords`. Writes are `Open`
and then `Enter` or `Decline`, reads `Open` and `Look`, then `Show` or `Decline`, the service
a stutter, and a restart is a `Restart`. Each branch of the two looks at the store has a
lemma of its own.

**Orders (`OrdersProofs`).** `OrdersAreWrittenAsAsked`, `AnswersAreBacked`,
`FilteredListsAreExact`. `AskedInv` ties the message to the request it was built from
(parsers, filters, the role for a close), `JournalInv` the journal to executed writes, one
customer for each order, `AckedInv` the acknowledged creation to its entry. A list is
exact because of `ReplyInv`: the reply, made after the list came in, has on a first page
that is not full what was acknowledged before, as fewer orders than the page's size can
only be all that match (a fact on cardinalities); `AnswerInv` keeps this after the answer.
Pages of any number and size are covered.
The property speaks of a list for a customer whose name is neither absent nor empty: the
query may say `customer_name=`, which the client of the service cannot tell from no filter.

**Dispatch (`DispatchProofs`).** `AnswersAreBacked`, `ResponsesReadAlike`,
`OutcomesAgree`. `ReplyInv` says of a reply that it shows what was entered, and to a
confirmation what the worker said. That parser and fallback agree on documented names is a
fact about names (`CallsProofs`). `JournalInv` is why there is one outcome: a dispatch is
entered once as pending, by the request that names it, and at most once after that.

**Workers (`WorkerScheduleProofs`).** `StatusesReadAlike`, `AckedWorkersListed`,
`AckedShown`. `ScheduleInv` (the service knows whom an executed write named, and nobody
else) and `AckedInv` (a write is acknowledged after its execution, or made up by the
gateway, which it never is for an event) carry the second. For the third, `TaskInv` says
that an order has a task once an event of it was executed, the task of an executed event:
if that is on another date, the order was moved. `ReplyInv` takes both through the wait of
a read, `AnswerInv` beyond its answer.

**Pipeline (`PipelineProofs`).** `CallerCarried`, `IdCarried`, `LogTold`, from `IdInv`,
`CallerInv`, `AnswerInv` and `LogInv`, and `OnlyCheckedCall` from `CheckInv` (whoever is
past authentication was let through, whoever has called had a body that fits). The
argument is
locality: a step of one request leaves the entries of every other as they are
(`StepIsLocal`), so each conjunct is proved for the one request that steps
(`OwnStep`). `MappedStatus` (a downstream error is never a 500) is where the table of
`Errors` comes in: it is why a 500 has no log line and everything else has one.

**The core flow (`CoreFlowProofs`).** Its actions are whole actions of one instance, so the
proofs go by who steps (`StepKinds`); what a step does to the requests and what it leaves
alone of the rest are lemmas of their own (`StepOfCalls`, `OthersStay`, `AnswersStay`).

- `CallsHaveChannels` from `ProcessInv`: a handler waits only while the server listens or
  drains, with all channels open (`ChannelInv`).
- `PaidIsConfirmed` from `MoneyInv` and `OrderInv`. A payment that was acknowledged was
  done by the service, a mock or the gateway, and is in the store as long as the
  process lives (`AcknowledgedInv`); what the service replied with is in its ledger
  (`LedgerInv`); and the close, which alone makes an order PAID, is not asked for before
  a payment was acknowledged (`CloseInv`).
- `LooksBearOut` is about all that came before the look, so it needs the order of the
  flow and the history of three services. `AnsweredInv`: what is acknowledged is over.
  `TurnInv`: a step comes in when all before it were acknowledged, so that no other handler
  waits when the look comes in, though calls that were given up may be executed late.
  `DetailInv` and `HistoryInv`: the last word of the order service is the close, that of
  the dispatch service the confirmation, if they executed them. `RecordInv` and
  `ListInv`: the store has the completion (a payment) in the incarnation that
  acknowledged it, and in a later one nothing, in which case the service is asked, which
  has it unless it was out of reach or a mock.

**Model-checked only.** Liveness, which the prover does not do: `EveryRequestEnds`,
`EveryRequestAnswered`, `StopEnds`. The three properties of the runs that are expected to
be violated are refuted by TLC.

## Not modelled

- Signatures and claims of tokens (the library's), of which only the outcome is kept.
- Encodings: protobuf, `Struct` (every number a double), enum numbers. What they can
  break is the unexpected exception of `Pipeline` (`Call`, `Returns`).
- Empty records: a service record that is `{}` is false in Python and treated as
  absent; the services are taken to reply with a record that has something in it.
- The mocks of the services that speak protobuf: what a server makes of a message of
  another type is the transport's, and reaches the gateway as a failure or a broken reply,
  which the pipeline has.
- The flow of several clients at once, and the worker schedule beside it: the areas share
  no state, and each has its overlaps in its own run.
- Settings (`config.py`): they are read once and cached. An application built with
  settings of its own (`create_app(settings)`) has authentication use these and the
  lifespan the cached ones (`main.py:55`, `:66`); nothing in the repository builds one.
- The sets of channels that a failure halfway through closing leaves closed, between none
  and all: no property tells them from these two, and they make the run of the flow much
  longer.
- Upper-casing of roles beyond the spellings that `Access.Upper` lists.
- Second pages of a list, and limits other than the runs', in TLC; the theorems have them.
- What numbers beyond int32 in a page or a limit break: the query's bounds keep them out,
  but for the page, which is the unexpected exception of `Pipeline`.
- Generated stubs (code of `protoc`), scripts, images, tests.

## Plan

Done so far, in this order: the life of a call, payments with their abstract
specification and proofs, service records, the pipeline with proofs, orders,
dispatch, workers; then the abstract book of service records, the remaining reads of
dispatch and schedule, the life of the process, the mocks, and the core flow as their
composition; then the proofs of every safety property and of both refinements. All
components with behaviour of their own are modelled. What is left to consider:

1. Lemmas towards what the liveness properties rest on: a waiting request always has the
   step that ends it, short of `ENABLED`.
2. What an incarnation promises within `CoreFlow` for several orders at once, from the
   areas' own invariants instead of the flow's.
