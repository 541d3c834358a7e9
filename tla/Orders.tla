------------------------------- MODULE Orders -------------------------------
(***************************************************************************)
(* The order routes of the gateway (create, get, list, status and close in *)
(* app/gateway/http_to_rpc_router.py, order_* in grpc_clients.py), and the *)
(* order service behind them.                                              *)
(*                                                                         *)
(* The gateway keeps nothing of orders: it forwards, converting what the   *)
(* client wrote into what the proto messages hold, and it alone answers    *)
(* only when closing an order fails.                                       *)
(***************************************************************************)
EXTENDS Calls, Access, Names, FiniteSets

CONSTANTS Orders, Customers, Roles,
          Targets,  \* the names clients write for a status
          Windows   \* the pages of a list clients ask for

\* What clients write are names, and a page is one the query allows (ge=1, le=200).
ASSUME OrdersAssumption ==
    /\ Targets \subseteq Name(STRING)
    /\ Windows \subseteq [page : Nat \ {0}, size : 1..200]

None == "none"
NoTarget == Plain("")
NoWindow == [page |-> 0, size |-> 0]
OrderStatus == {"CREATED", "PENDING", "ACCEPT", "IN_SERVICE", "COMPLETE", "PAID"}

VARIABLES
    call,     \* what a request asks for, and by whom
    asked,    \* what the gateway asks of the service
    reply,    \* the orders in the service's reply
    answer,   \* the HTTP answer to a request
    journal   \* the writes the service has carried out, in order

orderVars == <<call, asked, reply, answer, journal>>
vars == <<callVars, orderVars>>

Writes == {"create", "update", "close"}
Ops == Writes \cup {"get", "list"}

\* customer: of a created order, or the filter of a list, None without one.  target:
\* of an update, or the status a list filters by, which stands for its service_type
\* too (a parser of the same kind reads it).  role: where it matters.  acked is
\* history: the writes acknowledged when a list came in.
Call == [op : Ops, order : Orders \cup {None}, customer : Customers \cup {None},
         target : Targets \cup {NoTarget}, window : Windows \cup {NoWindow},
         role : Roles \cup {None}, acked : SUBSET Requests]
NoCall == [op |-> None, order |-> None, customer |-> None, target |-> NoTarget,
           window |-> NoWindow, role |-> None, acked |-> {}]

\* The message of a call.  A string of proto3 is "" unless it is set, a number 0 and
\* an enum UNSPECIFIED.
Asked == [customer : Customers \cup {"", "None"}, status : OrderStatus \cup {"UNSPECIFIED"},
          window : Windows \cup {NoWindow}]
NoAsked == [customer |-> "", status |-> "UNSPECIFIED", window |-> NoWindow]

\* An order as of the write that was its last one.
Order == [order : Orders, customer : Customers, by : Requests,
          status : OrderStatus \cup {"UNSPECIFIED"}]

OwnOrder == [order : Orders, customer : {None}, by : Requests, status : {"PAID"}]

Status == {200, 403, 422, 500} \cup {MapGrpcError(s).status_code : s \in FailureCodes}

\* Of an order it closes by itself the gateway knows the id and the status.
OwnClose(r) == [order |-> call[r].order, customer |-> None, by |-> r, status |-> "PAID"]

TypeOK ==
    /\ CallsTypeOK
    /\ call \in [Requests -> Call \cup {NoCall}]
    /\ asked \in [Requests -> Asked]
    /\ \A r \in Requests : reply[r] \subseteq Order
    /\ \A r \in Requests : 
          /\ answer[r].status \in {0} \cup Status
          /\ answer[r].orders \subseteq Order \cup OwnOrder
    /\ journal \in Seq(Order)

Init ==
    /\ CallsInit
    /\ call = [r \in Requests |-> NoCall]
    /\ asked = [r \in Requests |-> NoAsked]
    /\ reply = [r \in Requests |-> {}]
    /\ answer = [r \in Requests |-> [status |-> 0, orders |-> {}]]
    /\ journal = <<>>

-----------------------------------------------------------------------------
(* What the service holds. *)

\* The orders of a journal, each as its last entry has it.
Held(entries) ==
    {entries[i] : i \in {j \in DOMAIN entries :
                            \A k \in DOMAIN entries :
                               k > j => entries[k].order # entries[j].order}}

HeldAs(o) == CHOOSE order \in Held(journal) : order.order = o
IsHeld(o) == \E order \in Held(journal) : order.order = o

-----------------------------------------------------------------------------
(* From the HTTP request to the message. *)

\* Mutated form of FilterOf: the filter is looked up under another key.
NoFilter(customer) == ""

\* str(payload.get("customer_name", "")): the key is there, also when its value is
\* None, whose str() is "None".
FilterOf(customer) == IF customer = None THEN "None" ELSE customer

MessageOf(c) ==
    [customer |-> CASE c.op = "create" -> c.customer
                    [] c.op = "list"   -> FilterOf(c.customer)
                    [] OTHER           -> "",
     status   |-> CASE c.op \in {"update", "list"} -> Parse(c.target, OrderStatus)
                    [] c.op = "close"             -> "PAID"
                    [] OTHER                      -> "UNSPECIFIED",
     window   |-> c.window]

\* The requests there are: each operation with the parameters it has.
Asks(op) ==
    [op : {op},
     order : IF op \in {"create", "list"} THEN {None} ELSE Orders,
     customer : CASE op = "create" -> Customers
                  [] op = "list"   -> Customers \cup {None}
                  [] OTHER         -> {None},
     target : CASE op = "update" -> Targets
                [] op = "list"   -> Targets \cup {NoTarget}
                [] OTHER         -> {NoTarget},
     window : IF op = "list" THEN Windows ELSE {NoWindow},
     role : IF op = "close" THEN Roles ELSE {None},
     acked : IF op = "list"
             THEN {{q \in Requests : call[q].op \in Writes /\ answer[q].status = 200}}
             ELSE {{}}]

ClosePath(o) == <<"api", "orders", "v1", "orders", o, "close">>

Answers(r, status, orders) ==
    answer' = [answer EXCEPT ![r] = [status |-> status, orders |-> orders]]

\* create_order, get_order, list_orders, update_order_status and close_order up to
\* their call.
Request(r) ==
    /\ pc[r] = "idle"
    /\ \E op \in Ops : \E c \in Asks(op) :
           /\ call' = [call EXCEPT ![r] = c]
           /\ LET forbidden == op = "close" /\ Forbidden(ClosePath(c.order), c.role)
              IN  \/ /\ forbidden
                     /\ AnsweredAtOnce(r)
                     /\ Answers(r, 403, {})
                     /\ UNCHANGED asked
                  \/ /\ ~forbidden                       \* unfit body or query
                     /\ op # "get"
                     /\ AnsweredAtOnce(r)
                     /\ Answers(r, 422, {})
                     /\ UNCHANGED asked
                  \/ /\ ~forbidden
                     /\ Sends(r)
                     /\ asked' = [asked EXCEPT ![r] = MessageOf(c)]
                     /\ UNCHANGED answer
           /\ UNCHANGED <<reply, journal>>

\* The reply is answered; one without an order fits only the model of a list.
Replies(r) ==
    /\ Returns(r)
    /\ IF call[r].op # "list" /\ reply[r] = {} THEN Answers(r, 500, {})
       ELSE Answers(r, 200, reply[r])
    /\ UNCHANGED <<call, asked, reply, journal>>

\* Mutated forms of Covers: every failure of a close is covered up; the failures of
\* every route are.
CoversAll(r, status) == call[r].op = "close"
CoversEveryRoute(r, status) == ShouldUseMockFallback(MapGrpcError(status))

\* Only a close is answered by the gateway itself when its call has failed.
Covers(r, status) == call[r].op = "close" /\ ShouldUseMockFallback(MapGrpcError(status))

Fails(r, status) ==
    /\ call[r].op \in Ops
    /\ Raises(r, status)
    /\ IF Covers(r, status) THEN Answers(r, 200, {OwnClose(r)})
       ELSE Answers(r, MapGrpcError(status).status_code, {})
    /\ UNCHANGED <<call, asked, reply, journal>>

-----------------------------------------------------------------------------
(* The order service, and the process. *)

\* What was written is replied, or no order is.
Enters(r, entry) ==
    /\ Executes(r)
    /\ journal' = Append(journal, entry)
    /\ \E shown \in {{entry}, {}} : reply' = [reply EXCEPT ![r] = shown]
    /\ UNCHANGED <<call, asked, answer>>

ServesCreate(r) ==
    /\ call[r].op = "create"
    /\ \E o \in Orders :
          /\ ~IsHeld(o)
          /\ Enters(r, [order |-> o, customer |-> asked[r].customer, by |-> r,
                        status |-> "CREATED"])

\* A paid order is closed: the service refuses to change it.
ServesUpdate(r) ==
    /\ call[r].op \in {"update", "close"}
    /\ IsHeld(call[r].order)
    /\ HeldAs(call[r].order).status # "PAID"
    /\ Enters(r, [HeldAs(call[r].order) EXCEPT !.status = asked[r].status, !.by = r])

Shows(r, orders) ==
    /\ Executes(r)
    /\ reply' = [reply EXCEPT ![r] = orders]
    /\ UNCHANGED <<call, asked, answer, journal>>

ServesGet(r) ==
    /\ call[r].op = "get"
    /\ IsHeld(call[r].order)
    /\ Shows(r, {HeldAs(call[r].order)})

\* "" and UNSPECIFIED filter nothing.
Matching(message) ==
    {order \in Held(journal) : /\ message.customer \in {"", order.customer}
                               /\ message.status \in {"UNSPECIFIED", order.status}}

\* How many of n orders a page has: those the pages before it leave, up to its size.
PageLength(n, window) ==
    LET left == n - (window.page - 1) * window.size
    IN  CASE left <= 0           -> 0
          [] left > window.size -> window.size
          [] OTHER              -> left

\* Which orders come on which page is up to the service.
ServesList(r) ==
    /\ call[r].op = "list"
    /\ \E page \in SUBSET Matching(asked[r]) :
          /\ Cardinality(page) = PageLength(Cardinality(Matching(asked[r])), asked[r].window)
          /\ Shows(r, page)

Restart == Crashes /\ UNCHANGED orderVars

\* Every request has come to its end.
Terminated ==
    /\ \A r \in Requests : pc[r] \in {"answered", "lost"}
    /\ UNCHANGED vars

Next ==
    \/ \E r \in Requests :
          \/ Request(r)
          \/ Replies(r)
          \/ \E status \in FailureCodes : Fails(r, status)
          \/ ServesCreate(r)
          \/ ServesUpdate(r)
          \/ ServesGet(r)
          \/ ServesList(r)
    \/ Restart
    \/ Terminated

Spec == Init /\ [][Next]_vars

-----------------------------------------------------------------------------
(* Properties. *)

\* What the service has entered is what the client meant: a created order for the
\* customer named, an update to the status named, however it was written, and a
\* close to PAID, whose route only the desk can use (an update to PAID is open to
\* everybody); a name the gateway does not know moves no order to another stage of
\* its life (_parse_order_status, close_order).
WrittenAsAsked ==
    \A i \in DOMAIN journal :
        LET c == call[journal[i].by] IN
        CASE c.op = "create" -> /\ journal[i].status = "CREATED"
                                /\ journal[i].customer = c.customer
          [] c.op = "update" -> journal[i].status =
                                   IF c.target.word \in OrderStatus THEN c.target.word
                                   ELSE "UNSPECIFIED"
          [] c.op = "close"  -> /\ journal[i].status = "PAID"
                                /\ Upper(c.role) \in Desk

\* An answer shows orders as the service has them, at the time of the answer or
\* before; the one order the gateway makes up is the one it was asked to close,
\* when the service could not (close_order).
EveryAnswerIsBacked ==
    \A r \in Requests : \A order \in answer[r].orders :
        \/ \E i \in DOMAIN journal : journal[i] = order
        \/ /\ call[r].op = "close"
           /\ order.order = call[r].order
           /\ seen[r] \in MOCKABLE_DOWNSTREAM_GAP_CODES

\* Orders of customer that had been acknowledged as created when r came in.
Created(r, customer) ==
    {journal[i].order : i \in {j \in DOMAIN journal : /\ journal[j].by \in call[r].acked
                                                     /\ call[journal[j].by].op = "create"
                                                     /\ customer \in {None, journal[j].customer}}}

ShownIn(r) == {order.order : order \in answer[r].orders}

\* No order is left for another page: the first one is not full.
LastPage(r) ==
    call[r].window.page = 1 /\ Cardinality(answer[r].orders) < call[r].window.size

\* A list that is filtered by a customer shows no order of another, and one that is
\* filtered by a status, however it is written, no order that was in another; it
\* shows no more than the page it was asked for holds; and when it leaves nothing
\* for another page and no status is asked for, none of the customer's orders that
\* had been acknowledged is missing (list_orders, order_list).  A customer may be
\* called "" (schemas/order.py): asking for his orders filters nothing.
FilteredListIsExact ==
    \A r \in Requests :
        (call[r].op = "list" /\ call[r].customer \notin {None, ""} /\ answer[r].status = 200)
            => /\ \A order \in answer[r].orders :
                     /\ order.customer = call[r].customer
                     /\ call[r].target.word \in OrderStatus => order.status = call[r].target.word
               /\ Cardinality(answer[r].orders) <= call[r].window.size
               /\ (LastPage(r) /\ call[r].target.word \notin OrderStatus)
                     => Created(r, call[r].customer) \subseteq ShownIn(r)

\* A list that is not filtered, and leaves nothing for another page, has all the
\* orders ("Lists orders.", API_DOCUMENTATION.md).
PlainListIsComplete ==
    \A r \in Requests :
        (/\ call[r].op = "list" /\ call[r].customer = None /\ call[r].target = NoTarget
         /\ answer[r].status = 200 /\ LastPage(r))
            => Created(r, None) \subseteq ShownIn(r)

=============================================================================
