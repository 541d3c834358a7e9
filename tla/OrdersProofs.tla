------------------------------ MODULE OrdersProofs ------------------------------
(***************************************************************************)
(* Theorems about Orders, for every set of requests, orders, customers,    *)
(* roles, written names, pages and failure codes and every bound on        *)
(* restarts.                                                               *)
(***************************************************************************)
EXTENDS Orders, CallsProofs, SequenceTheorems, FiniteSetTheorems

(* The steps. *)

Serves(r) == ServesCreate(r) \/ ServesUpdate(r) \/ ServesGet(r) \/ ServesList(r)

\* The call of r ends, and r is answered.
Ends(r) == Replies(r) \/ \E status \in FailureCodes : Fails(r, status)

\* Every step is one of these.
LEMMA Steps ==
    ASSUME [Next]_vars
    PROVE  \/ \E r \in Requests : Request(r) \/ Ends(r) \/ Serves(r)
           \/ Restart
           \/ UNCHANGED vars
  BY DEF Next, Terminated, Ends, Serves

\* What a step does to the shared part.
LEMMA StepOfCalls ==
    ASSUME [Next]_vars
    PROVE  CallsStep
  <1>1. ASSUME NEW r \in Requests, Request(r) PROVE CallsStep
    BY <1>1 DEF Request, CallsStep
  <1>2. ASSUME NEW r \in Requests, Ends(r) PROVE CallsStep
    BY <1>2 DEF Ends, Replies, Fails, CallsStep
  <1>3. ASSUME NEW r \in Requests, Serves(r) PROVE CallsStep
    BY <1>3 DEF Serves, ServesCreate, ServesUpdate, ServesGet, ServesList, Enters, Shows,
                CallsStep
  <1>4. CASE Restart
    BY <1>4 DEF Restart, CallsStep
  <1>5. CASE UNCHANGED vars
    BY <1>5 DEF vars, CallsStep
  <1> QED
    BY <1>1, <1>2, <1>3, <1>4, <1>5, Steps

-----------------------------------------------------------------------------
(* The inductive invariant. *)

Answer == [status : {0} \cup Status, orders : SUBSET (Order \cup OwnOrder)]
Blank == [status |-> 0, orders |-> {}]

\* Each operation has the parameters it needs.
Fits(c) ==
    /\ c.op \in {"get", "update", "close"} => c.order \in Orders
    /\ c.op = "create" => c.customer \in Customers
    /\ c.op = "update" => c.target \in Targets
    /\ c.op = "list" => c.window \in Windows
    /\ c.op # "list" => c.acked = {}

TypeInv ==
    /\ CallsTypeOK
    /\ call \in [Requests -> Call \cup {NoCall}]
    /\ \A r \in Requests : Fits(call[r])
    /\ asked \in [Requests -> Asked]
    /\ reply \in [Requests -> SUBSET Order]
    /\ answer \in [Requests -> Answer]
    /\ journal \in Seq(Order)

\* What the service has entered.
Entered == {journal[i] : i \in DOMAIN journal}

\* A request that has not come in has left no trace, and one that is not answered
\* has no answer.
StageInv ==
    \A r \in Requests :
        /\ pc[r] = "idle" => call[r] = NoCall /\ reply[r] = {}
        /\ pc[r] # "answered" => answer[r] = Blank

\* A call that was sent asks what its request asked, and one that closes an order
\* comes from the desk.
AskedInv ==
    \A r \in Requests :
        svc[r] # "none" =>
            /\ asked[r] = MessageOf(call[r])
            /\ call[r].op = "close" => Upper(call[r].role) \in Desk

\* The entry is what c asks for.
AsAsked(c, entry) ==
    /\ c.op \in Writes
    /\ c.op = "create" => entry.status = "CREATED" /\ entry.customer = c.customer
    /\ c.op = "update" =>
          entry.status = IF c.target.word \in OrderStatus THEN c.target.word ELSE "UNSPECIFIED"
    /\ c.op = "close" => entry.status = "PAID" /\ Upper(c.role) \in Desk

\* Every entry is that of an executed write; every order entered is held; and an order
\* keeps its customer.
JournalInv ==
    /\ \A entry \in Entered : AsAsked(call[entry.by], entry) /\ svc[entry.by] = "executed"
    /\ \A entry \in Entered : \E order \in Held(journal) : order.order = entry.order
    /\ \A entry, other \in Entered :
          entry.order = other.order => entry.customer = other.customer

\* A created order is acknowledged after it was created.
AckedInv ==
    /\ \A r \in Requests :
          call[r].op = "create" /\ answer[r].status = 200 => svc[r] = "executed"
    /\ \A r \in Requests : \A q \in call[r].acked :
          call[q].op \in Writes /\ (call[q].op = "create" => svc[q] = "executed")

\* The orders are what c filters by, and no more than its page holds.
Filtered(c, orders) ==
    /\ \A order \in orders :
          /\ order.customer = c.customer
          /\ c.target.word \in OrderStatus => order.status = c.target.word
    /\ Cardinality(orders) <= c.window.size

\* They are all there are for c.
Whole(c, orders) ==
    /\ c.window.page = 1 /\ Cardinality(orders) < c.window.size
    /\ c.target.word \notin OrderStatus

\* The orders shown to a list c are what it filters by, and if they are all there are,
\* the ones whose creation it knows of are among them.
Exact(c, orders) ==
    c.op = "list" /\ c.customer \notin {None, ""} =>
        /\ Filtered(c, orders)
        /\ Whole(c, orders) =>
              \A entry \in Entered :
                  (/\ entry.by \in c.acked
                   /\ call[entry.by].op = "create"
                   /\ entry.customer = c.customer)
                      => \E order \in orders : order.order = entry.order

\* A reply shows what was entered, and to a list what it asks for.
ReplyInv ==
    \A r \in Requests :
        /\ reply[r] \subseteq Entered
        /\ svc[r] = "executed" => Exact(call[r], reply[r])

\* And so does a list that was answered.
AnswerInv ==
    \A r \in Requests : answer[r].status = 200 => Exact(call[r], answer[r].orders)

\* What is answered was entered, or is the close the gateway makes up.
BackedInv ==
    \A r \in Requests : \A order \in answer[r].orders :
        \/ order \in Entered
        \/ /\ call[r].op = "close"
           /\ order.order = call[r].order
           /\ seen[r] \in MOCKABLE_DOWNSTREAM_GAP_CODES

IInv ==
    /\ TypeInv /\ LifeInv /\ StageInv /\ AskedInv /\ JournalInv /\ AckedInv
    /\ ReplyInv /\ AnswerInv /\ BackedInv

-----------------------------------------------------------------------------
(* What the journal holds. *)

\* What is entered comes on top of what was, and is held; what is held is so until
\* its order is entered again.
LEMMA Entering ==
    ASSUME journal \in Seq(Order), NEW entry \in Order, journal' = Append(journal, entry)
    PROVE  /\ journal' \in Seq(Order) /\ Entered' = Entered \cup {entry}
           /\ entry \in Held(journal')
           /\ \A order \in Held(journal) :
                 order.order # entry.order => order \in Held(journal')
  <1> DEFINE n == Len(journal)
  <1>1. n \in Nat /\ DOMAIN journal = 1..n
    BY LenProperties
  <1>2. /\ journal' \in Seq(Order) /\ DOMAIN journal' = 1..n + 1
        /\ \A i \in 1..n : journal'[i] = journal[i]
        /\ journal'[n + 1] = entry
    BY AppendProperties
  <1> HIDE DEF n
  <1>3. \A i \in 1..n + 1 : i \in 1..n \/ i = n + 1
    BY <1>1
  <1>4. 1..n \subseteq 1..n + 1 /\ n + 1 \in 1..n + 1
    BY <1>1
  <1>5. Entered' = Entered \cup {entry}
    BY <1>1, <1>2, <1>3, <1>4 DEF Entered
  <1>6. entry \in Held(journal')
    <2>1. \A k \in 1..n + 1 : ~(k > n + 1)
      BY <1>1
    <2> QED
      BY <1>2, <1>4, <2>1 DEF Held
  <1>7. ASSUME NEW order \in Held(journal), order.order # entry.order
        PROVE  order \in Held(journal')
    <2>1. PICK j \in 1..n : /\ order = journal[j]
                            /\ \A k \in 1..n : k > j => journal[k].order # journal[j].order
      BY <1>1 DEF Held
    <2>2. j \in 1..n + 1 /\ order = journal'[j]
      BY <1>2, <1>4, <2>1
    <2>3. \A k \in 1..n + 1 : k > j => journal'[k].order # journal'[j].order
      BY <1>2, <1>3, <1>7, <2>1, <2>2
    <2> QED
      BY <1>2, <2>2, <2>3 DEF Held
  <1> QED
    BY <1>2, <1>5, <1>6, <1>7

\* What is held was entered.
LEMMA HeldEntered == Held(journal) \subseteq Entered
  BY DEF Held, Entered

\* The order that is held is an order.
LEMMA HeldOrder ==
    ASSUME journal \in Seq(Order), NEW o, IsHeld(o)
    PROVE  /\ HeldAs(o) \in Held(journal) /\ HeldAs(o) \in Entered /\ HeldAs(o) \in Order
           /\ HeldAs(o).order = o
  <1>1. HeldAs(o) \in Held(journal) /\ HeldAs(o).order = o
    BY DEF IsHeld, HeldAs
  <1>2. Entered \subseteq Order
    BY DEF Entered
  <1> QED
    BY <1>1, <1>2, HeldEntered

-----------------------------------------------------------------------------
(* What the steps do. *)

\* Who is not of the desk is kept from closing an order.
LEMMA CloseIsForDesk ==
    ASSUME NEW o, NEW role, ~Forbidden(ClosePath(o), role)
    PROVE  Upper(role) \in Desk
  <1> DEFINE path == ClosePath(o)
             start == <<"api", "orders", "v1", "orders">>
  <1>1. Len(path) = 6 /\ Len(start) = 4 /\ path[6] = "close"
    BY DEF ClosePath
  <1>2. SubSeq(start, 1, 4) = SubSeq(path, 1, 4)
    BY DEF ClosePath
  <1>3. IsStrictPrefix(start, path) /\ Last(path) = "close"
    BY <1>1, <1>2 DEF IsStrictPrefix, IsPrefix, Last
  <1> QED
    BY <1>3 DEF Forbidden

\* A message is one.
LEMMA MessageType ==
    ASSUME NEW c \in Call, Fits(c)
    PROVE  /\ MessageOf(c) \in Asked
           /\ c.op = "update" =>
                 MessageOf(c).status = IF c.target.word \in OrderStatus THEN c.target.word
                                       ELSE "UNSPECIFIED"
           /\ c.op = "close" => MessageOf(c).status = "PAID"
           /\ c.op = "create" => MessageOf(c).customer = c.customer
           /\ c.op = "list" =>
                 /\ MessageOf(c).status = IF c.target.word \in OrderStatus THEN c.target.word
                                          ELSE "UNSPECIFIED"
                 /\ c.customer # None => MessageOf(c).customer = c.customer
           /\ MessageOf(c).window = c.window
  <1>1. /\ Parse(c.target, OrderStatus) \in OrderStatus \cup {"UNSPECIFIED"}
        /\ Parse(c.target, OrderStatus) =
              IF c.target.word \in OrderStatus THEN c.target.word ELSE "UNSPECIFIED"
    <2>1. CASE c.target \in Targets
      BY <2>1, OrdersAssumption, ParsedName DEF OrdersAssumption
    <2>2. CASE c.target = NoTarget
      <3> DEFINE no == FALSE
                 bare == {}
                 blank == ""
      <3>0. no \in BOOLEAN /\ bare \in SUBSET {"before", "behind"}
        OBVIOUS
      <3>2. c.target = [word |-> blank, prefixed |-> no, lower |-> no, blanks |-> bare]
        BY <2>2 DEF NoTarget, Plain
      <3> HIDE DEF no, bare, blank
      <3>1. c.target \in Name({blank})
        BY <3>0, <3>2 DEF Name
      <3> QED
        BY <3>1, ParsedName
    <2> QED
      BY <2>1, <2>2 DEF Call
  <1>2. c.op = "list" => FilterOf(c.customer) \in Customers \cup {"None"}
    BY DEF FilterOf, Call
  <1>3. c.op = "create" => c.customer \in Customers
    BY DEF Fits
  <1>4. MessageOf(c).customer = CASE c.op = "create" -> c.customer
                                  [] c.op = "list"   -> FilterOf(c.customer)
                                  [] OTHER           -> ""
    BY DEF MessageOf
  <1>5. MessageOf(c).status = CASE c.op \in {"update", "list"} -> Parse(c.target, OrderStatus)
                                [] c.op = "close"             -> "PAID"
                                [] OTHER                      -> "UNSPECIFIED"
    BY DEF MessageOf
  <1>6. /\ MessageOf(c) = [customer |-> MessageOf(c).customer, status |-> MessageOf(c).status,
                           window |-> MessageOf(c).window]
        /\ MessageOf(c).window = c.window /\ c.window \in Windows \cup {NoWindow}
    BY DEF MessageOf, Call
  <1>7. MessageOf(c).customer \in Customers \cup {"", "None"}
    BY <1>2, <1>3, <1>4
  <1>8. MessageOf(c).status \in OrderStatus \cup {"UNSPECIFIED"}
    BY <1>1, <1>5 DEF OrderStatus
  <1>9. MessageOf(c) \in Asked
    BY <1>6, <1>7, <1>8 DEF Asked
  <1> QED
    BY <1>1, <1>4, <1>5, <1>6, <1>9 DEF FilterOf

\* The orders a list is served with.
Listed(message, orders) ==
    /\ orders \subseteq Matching(message)
    /\ Cardinality(orders) = PageLength(Cardinality(Matching(message)), message.window)

\* What is held is finite.
LEMMA HeldFinite ==
    ASSUME journal \in Seq(Order)
    PROVE  IsFiniteSet(Held(journal))
  <1> DEFINE n == Len(journal)
  <1>1. n \in Nat /\ DOMAIN journal = 1..n
    BY LenProperties
  <1>2. IsFiniteSet(1..n)
    BY <1>1, FS_Interval
  <1>3. journal \in Surjection(1..n, Entered)
    BY <1>1 DEF Entered, Surjection
  <1>4. IsFiniteSet(Entered)
    BY <1>2, <1>3, FS_Surjection
  <1> QED
    BY <1>4, HeldEntered, FS_Subset

\* A page holds no more than its size, and a first page with room left holds all.
LEMMA Pages ==
    ASSUME NEW message \in Asked, message.window \in Windows, journal \in Seq(Order),
           NEW orders, Listed(message, orders)
    PROVE  /\ Cardinality(orders) <= message.window.size
           /\ message.window.page = 1 /\ Cardinality(orders) < message.window.size =>
                 orders = Matching(message)
  <1> DEFINE matching == Matching(message)
             n == Cardinality(matching)
             size == message.window.size
             page == message.window.page
             skip == (page - 1) * size
  <1>1. IsFiniteSet(matching)
    BY HeldFinite, FS_Subset DEF Matching
  <1>2. n \in Nat
    BY <1>1, FS_CardinalityType
  <1>3. orders \in SUBSET matching /\ Cardinality(orders) = PageLength(n, message.window)
    BY DEF Listed
  <1>4. size \in 1..200 /\ page \in Nat
    BY OrdersAssumption DEF OrdersAssumption
  <1>5. skip \in Int /\ (page = 1 => skip = 0)
    <2> HIDE DEF size, page
    <2>1. page - 1 \in Int /\ size \in Int
      BY <1>4
    <2>2. (page - 1) * size \in Int
      BY <2>1
    <2>3. page = 1 => page - 1 = 0
      BY <1>4
    <2>4. 0 * size = 0
      BY <2>1
    <2> QED
      BY <2>2, <2>3, <2>4
  <1>6. PageLength(n, message.window) = CASE n - skip <= 0   -> 0
                                          [] n - skip > size -> size
                                          [] OTHER           -> n - skip
    BY DEF PageLength
  <1>7. n = Cardinality(orders) => orders = matching
    BY <1>1, <1>3, FS_Subset
  <1> HIDE DEF matching, n, size, page, skip
  <1>8. /\ PageLength(n, message.window) <= size
        /\ skip = 0 /\ PageLength(n, message.window) < size =>
              PageLength(n, message.window) = n
    <2>1. size \in Nat /\ n - skip \in Int /\ (skip = 0 => n - skip = n)
      BY <1>2, <1>4, <1>5
    <2>2. CASE n - skip <= 0
      BY <1>2, <1>6, <2>1, <2>2
    <2>3. CASE ~(n - skip <= 0) /\ n - skip > size
      BY <1>6, <2>1, <2>3
    <2>4. CASE ~(n - skip <= 0) /\ ~(n - skip > size)
      BY <1>6, <2>1, <2>4
    <2> QED
      BY <2>2, <2>3, <2>4
  <1> QED
    BY <1>3, <1>5, <1>7, <1>8 DEF matching, size, page

\* A step of the service: the reply it gives, and what it enters.
LEMMA WhatServes ==
    ASSUME TypeInv, AskedInv, LifeInv, NEW r \in Requests, Serves(r)
    PROVE  /\ Executes(r) /\ call' = call /\ asked' = asked /\ answer' = answer
           /\ \E orders \in SUBSET Order :
                 /\ reply' = [reply EXCEPT ![r] = orders]
                 /\ \/ /\ journal' = journal /\ call[r].op \notin Writes
                       /\ orders \subseteq Entered
                       /\ call[r].op = "list" => Listed(asked[r], orders)
                    \/ \E entry \in Order :
                          /\ journal' = Append(journal, entry)
                          /\ orders \subseteq {entry}
                          /\ entry.by = r /\ AsAsked(call[r], entry)
                          /\ \/ ~IsHeld(entry.order)
                             \/ \E order \in Entered : /\ order.order = entry.order
                                                       /\ order.customer = entry.customer
  <1>0. /\ reply \in [Requests -> SUBSET Order] /\ journal \in Seq(Order)
        /\ Entered \subseteq Order
        /\ call[r] \in Call \cup {NoCall} /\ Fits(call[r]) /\ asked[r] \in Asked
        /\ NoCall.op \notin Ops
    BY DEF TypeInv, Entered, NoCall, None, Ops, Writes
  <1>1. svc[r] = "pending" => /\ asked[r] = MessageOf(call[r])
                              /\ call[r].op = "close" => Upper(call[r].role) \in Desk
    BY DEF AskedInv
  <1>2. ASSUME NEW entry \in Order, Enters(r, entry),
               entry.by = r /\ AsAsked(call[r], entry),
               \/ ~IsHeld(entry.order)
               \/ \E order \in Entered : /\ order.order = entry.order
                                         /\ order.customer = entry.customer
        PROVE  /\ Executes(r) /\ call' = call /\ asked' = asked /\ answer' = answer
               /\ \E orders \in SUBSET Order :
                     /\ reply' = [reply EXCEPT ![r] = orders]
                     /\ \E new \in Order :
                           /\ journal' = Append(journal, new)
                           /\ orders \subseteq {new}
                           /\ new.by = r /\ AsAsked(call[r], new)
                           /\ \/ ~IsHeld(new.order)
                              \/ \E order \in Entered : /\ order.order = new.order
                                                        /\ order.customer = new.customer
    <2>1. PICK orders \in {{entry}, {}} : reply' = [reply EXCEPT ![r] = orders]
      BY <1>2 DEF Enters
    <2>2. orders \in SUBSET Order /\ orders \subseteq {entry}
      BY <2>1
    <2> QED
      BY <1>2, <2>1, <2>2 DEF Enters
  <1>3. CASE ServesCreate(r)
    <2>1. PICK o \in Orders :
             /\ call[r].op = "create" /\ ~IsHeld(o)
             /\ Enters(r, [order |-> o, customer |-> asked[r].customer, by |-> r,
                           status |-> "CREATED"])
      BY <1>3 DEF ServesCreate
    <2> DEFINE entry == [order |-> o, customer |-> asked[r].customer, by |-> r,
                         status |-> "CREATED"]
    <2>2. call[r] \in Call
      BY <1>0, <2>1 DEF Ops, Writes
    <2>3. asked[r].customer = call[r].customer /\ call[r].customer \in Customers
      BY <1>0, <1>1, <2>1, <2>2, MessageType DEF Enters, Executes, Fits
    <2>4. /\ entry \in Order /\ entry.by = r /\ entry.order = o
          /\ entry.status = "CREATED" /\ entry.customer = call[r].customer
      BY <2>3 DEF Order, OrderStatus
    <2>5. Enters(r, entry)
      BY <2>1
    <2> HIDE DEF entry
    <2>6. AsAsked(call[r], entry)
      BY <2>1, <2>4 DEF AsAsked, Writes
    <2> QED
      BY <1>2, <2>1, <2>4, <2>5, <2>6
  <1>4. CASE ServesUpdate(r)
    <2> DEFINE held == HeldAs(call[r].order)
               status == asked[r].status
               entry == [held EXCEPT !.status = status, !.by = r]
    <2>1. /\ call[r].op \in {"update", "close"} /\ IsHeld(call[r].order)
          /\ Enters(r, entry)
      BY <1>4 DEF ServesUpdate
    <2>2. held \in Entered /\ held \in Order
      BY <1>0, <2>1, HeldOrder
    <2>3. call[r] \in Call
      BY <1>0, <2>1 DEF Ops, Writes
    <2>4. status = MessageOf(call[r]).status /\ status \in OrderStatus \cup {"UNSPECIFIED"}
      BY <1>0, <1>1, <2>1 DEF Enters, Executes, Asked
    <2>5. /\ call[r].op = "update" =>
                status = IF call[r].target.word \in OrderStatus THEN call[r].target.word
                         ELSE "UNSPECIFIED"
          /\ call[r].op = "close" => status = "PAID" /\ Upper(call[r].role) \in Desk
      BY <1>0, <1>1, <2>1, <2>3, <2>4, MessageType DEF Enters, Executes
    <2> HIDE DEF held, status
    <2>6. /\ entry \in Order /\ entry.by = r /\ entry.order = held.order
          /\ entry.customer = held.customer /\ entry.status = status
      BY <2>2, <2>4 DEF Order
    <2> HIDE DEF entry
    <2>7. AsAsked(call[r], entry)
      BY <2>1, <2>5, <2>6 DEF AsAsked, Writes
    <2> QED
      BY <1>2, <2>1, <2>2, <2>6, <2>7
  <1>5. ASSUME NEW orders \in SUBSET Entered, Shows(r, orders), call[r].op \notin Writes,
               call[r].op = "list" => Listed(asked[r], orders)
        PROVE  /\ Executes(r) /\ call' = call /\ asked' = asked /\ answer' = answer
               /\ journal' = journal
               /\ \E some \in SUBSET Order :
                     /\ reply' = [reply EXCEPT ![r] = some]
                     /\ some \subseteq Entered
                     /\ call[r].op = "list" => Listed(asked[r], some)
    BY <1>0, <1>5 DEF Shows
  <1>6. CASE ServesGet(r)
    <2> DEFINE orders == {HeldAs(call[r].order)}
    <2>1. call[r].op = "get" /\ IsHeld(call[r].order) /\ Shows(r, orders)
      BY <1>6 DEF ServesGet
    <2>2. orders \in SUBSET Entered
      BY <1>0, <2>1, HeldOrder
    <2> HIDE DEF orders
    <2> QED
      BY <1>5, <2>1, <2>2 DEF Writes
  <1>7. CASE ServesList(r)
    <2>1. call[r].op = "list"
      BY <1>7 DEF ServesList
    <2>3. PICK orders \in SUBSET Matching(asked[r]) :
             Listed(asked[r], orders) /\ Shows(r, orders)
      BY <1>7 DEF ServesList, Listed
    <2>2. orders \in SUBSET Entered
      BY HeldEntered DEF Matching
    <2> QED
      BY <1>5, <2>1, <2>2, <2>3 DEF Writes
  <1>8. ServesCreate(r) \/ ServesUpdate(r) \/ ServesGet(r) \/ ServesList(r)
    BY DEF Serves
  <1>9. CASE ServesGet(r) \/ ServesList(r)
    <2>1. call[r].op \notin Writes
      BY <1>9 DEF ServesGet, ServesList, Writes
    <2> QED
      BY <1>6, <1>7, <1>9
  <1> QED
    BY <1>3, <1>4, <1>8, <1>9

\* The end of a call: a reply is passed on, a failure is reported, or a close is
\* answered by the gateway.
LEMMA WhatEnds ==
    ASSUME TypeInv, NEW r \in Requests, Ends(r)
    PROVE  /\ Wakes(r) /\ call' = call /\ asked' = asked /\ reply' = reply
           /\ journal' = journal
           /\ \E a \in Answer :
                 /\ answer' = [answer EXCEPT ![r] = a]
                 /\ \/ a.status # 200 /\ a.orders = {}
                    \/ svc[r] = "executed" /\ a.orders = reply[r]
                    \/ /\ call[r].op = "close" /\ a.orders = {OwnClose(r)}
                       /\ seen'[r] \in MOCKABLE_DOWNSTREAM_GAP_CODES
  <1>0. /\ reply[r] \in SUBSET Order /\ seen \in [Requests -> {"none", "OK"} \cup FailureCodes]
        /\ Fits(call[r])
    BY DEF TypeInv, CallsTypeOK
  <1>1. CASE Replies(r)
    <2>1. Returns(r) /\ svc[r] = "executed" /\ UNCHANGED <<call, asked, reply, journal>>
      BY <1>1 DEF Replies, Returns
    <2>2. CASE Answers(r, 500, {})
      <3> DEFINE a == [status |-> 500, orders |-> {}]
      <3>1. a \in Answer /\ a.status # 200 /\ a.orders = {}
        BY DEF Answer, Status
      <3>2. answer' = [answer EXCEPT ![r] = a]
        BY <2>2 DEF Answers
      <3> HIDE DEF a
      <3> QED
        BY <2>1, <3>1, <3>2 DEF Wakes
    <2>3. CASE Answers(r, 200, reply[r])
      <3> DEFINE a == [status |-> 200, orders |-> reply[r]]
      <3>1. a \in Answer /\ a.orders = reply[r]
        BY <1>0 DEF Answer, Status
      <3>2. answer' = [answer EXCEPT ![r] = a]
        BY <2>3 DEF Answers
      <3> HIDE DEF a
      <3> QED
        BY <2>1, <3>1, <3>2 DEF Wakes
    <2> QED
      BY <1>1, <2>2, <2>3 DEF Replies
  <1>2. ASSUME NEW status \in FailureCodes, Fails(r, status)
        PROVE  /\ Wakes(r) /\ call' = call /\ asked' = asked /\ reply' = reply
               /\ journal' = journal
               /\ \E a \in Answer :
                     /\ answer' = [answer EXCEPT ![r] = a]
                     /\ \/ a.status # 200 /\ a.orders = {}
                        \/ /\ call[r].op = "close" /\ a.orders = {OwnClose(r)}
                           /\ seen'[r] \in MOCKABLE_DOWNSTREAM_GAP_CODES
    <2>1. Raises(r, status) /\ UNCHANGED <<call, asked, reply, journal>>
      BY <1>2 DEF Fails
    <2>2. seen'[r] = status
      BY <1>0, <2>1 DEF Raises, Refused, OutOfReach
    <2>3. CASE Covers(r, status)
      <3> DEFINE a == [status |-> 200, orders |-> {OwnClose(r)}]
      <3>1. call[r].op = "close" /\ status \in MOCKABLE_DOWNSTREAM_GAP_CODES
        BY <2>3, Failures DEF Covers
      <3>2. OwnClose(r) \in OwnOrder
        BY <1>0, <3>1 DEF OwnClose, OwnOrder, Fits
      <3>3. a \in Answer /\ a.orders = {OwnClose(r)}
        BY <3>2 DEF Answer, Status
      <3>4. answer' = [answer EXCEPT ![r] = a]
        BY <1>2, <2>3 DEF Fails, Answers
      <3> HIDE DEF a
      <3> QED
        BY <2>1, <2>2, <3>1, <3>3, <3>4 DEF Wakes
    <2>4. CASE ~Covers(r, status)
      <3> DEFINE code == MapGrpcError(status).status_code
                 a == [status |-> code, orders |-> {}]
      <3>1. code \in Status /\ code # 200
        BY FailureStatus DEF Status
      <3>2. answer' = [answer EXCEPT ![r] = a]
        BY <1>2, <2>4 DEF Fails, Answers
      <3> HIDE DEF code
      <3>3. a \in Answer /\ a.status # 200 /\ a.orders = {}
        BY <3>1 DEF Answer
      <3> HIDE DEF a
      <3> QED
        BY <2>1, <3>2, <3>3 DEF Wakes
    <2> QED
      BY <2>3, <2>4
  <1> QED
    BY <1>1, <1>2 DEF Ends

\* A request comes in: it asks something, and is refused, or its call is sent as asked.
LEMMA WhatComes ==
    ASSUME TypeInv, NEW r \in Requests, Request(r)
    PROVE  /\ pc[r] = "idle" /\ reply' = reply /\ journal' = journal
           /\ \E c \in Call :
                 /\ Fits(c) /\ call' = [call EXCEPT ![r] = c]
                 /\ \A q \in c.acked : call[q].op \in Writes /\ answer[q].status = 200
                 /\ \/ /\ AnsweredAtOnce(r) /\ asked' = asked
                       /\ \E a \in Answer : /\ a.status # 200 /\ a.orders = {}
                                            /\ answer' = [answer EXCEPT ![r] = a]
                    \/ /\ Sends(r) /\ answer' = answer
                       /\ asked' = [asked EXCEPT ![r] = MessageOf(c)]
                       /\ c.op = "close" => Upper(c.role) \in Desk
  <1>1. PICK op \in Ops : \E c \in Asks(op) :
           /\ call' = [call EXCEPT ![r] = c]
           /\ \/ /\ AnsweredAtOnce(r) /\ asked' = asked
                 /\ Answers(r, 403, {}) \/ Answers(r, 422, {})
              \/ /\ ~(op = "close" /\ Forbidden(ClosePath(c.order), c.role))
                 /\ Sends(r) /\ answer' = answer
                 /\ asked' = [asked EXCEPT ![r] = MessageOf(c)]
           /\ UNCHANGED <<reply, journal>>
    BY DEF Request
  <1>2. PICK c \in Asks(op) :
           /\ call' = [call EXCEPT ![r] = c]
           /\ \/ /\ AnsweredAtOnce(r) /\ asked' = asked
                 /\ Answers(r, 403, {}) \/ Answers(r, 422, {})
              \/ /\ ~(op = "close" /\ Forbidden(ClosePath(c.order), c.role))
                 /\ Sends(r) /\ answer' = answer
                 /\ asked' = [asked EXCEPT ![r] = MessageOf(c)]
           /\ UNCHANGED <<reply, journal>>
    BY <1>1
  <1>3. /\ c.op = op
        /\ c.order \in IF op \in {"create", "list"} THEN {None} ELSE Orders
        /\ c.customer \in CASE op = "create" -> Customers
                            [] op = "list"   -> Customers \cup {None}
                            [] OTHER         -> {None}
        /\ c.target \in CASE op = "update" -> Targets
                          [] op = "list"   -> Targets \cup {NoTarget}
                          [] OTHER         -> {NoTarget}
        /\ c.window \in IF op = "list" THEN Windows ELSE {NoWindow}
        /\ c.role \in IF op = "close" THEN Roles ELSE {None}
        /\ c.acked \in IF op = "list"
             THEN {{q \in Requests : call[q].op \in Writes /\ answer[q].status = 200}}
             ELSE {{}}
        /\ c = [op |-> c.op, order |-> c.order, customer |-> c.customer,
                target |-> c.target, window |-> c.window, role |-> c.role,
                acked |-> c.acked]
    BY <1>2 DEF Asks
  <1>4. Fits(c)
    BY <1>3 DEF Fits
  <1>5. c \in Call
    <2>1. c.order \in Orders \cup {None} /\ c.customer \in Customers \cup {None}
      BY <1>3
    <2>2. /\ c.target \in Targets \cup {NoTarget} /\ c.role \in Roles \cup {None}
          /\ c.window \in Windows \cup {NoWindow}
      BY <1>3
    <2>3. c.acked \in SUBSET Requests
      BY <1>3
    <2> QED
      BY <1>3, <2>1, <2>2, <2>3 DEF Call
  <1>6. \A q \in c.acked : call[q].op \in Writes /\ answer[q].status = 200
    BY <1>3
  <1> DEFINE Refusal == \E a \in Answer : /\ a.status # 200 /\ a.orders = {}
                                          /\ answer' = [answer EXCEPT ![r] = a]
             denied == [status |-> 403, orders |-> {}]
             unfit == [status |-> 422, orders |-> {}]
  <1>a. /\ denied \in Answer /\ denied.status # 200 /\ denied.orders = {}
        /\ unfit \in Answer /\ unfit.status # 200 /\ unfit.orders = {}
        /\ Answers(r, 403, {}) => answer' = [answer EXCEPT ![r] = denied]
        /\ Answers(r, 422, {}) => answer' = [answer EXCEPT ![r] = unfit]
    BY DEF Answer, Status, Answers
  <1> HIDE DEF denied, unfit
  <1>7. Answers(r, 403, {}) \/ Answers(r, 422, {}) => Refusal
    BY <1>a
  <1>8. pc[r] = "idle"
    BY <1>2 DEF AnsweredAtOnce, Sends
  <1>9. \/ AnsweredAtOnce(r) /\ asked' = asked /\ Refusal
        \/ /\ Sends(r) /\ answer' = answer
           /\ asked' = [asked EXCEPT ![r] = MessageOf(c)]
           /\ c.op = "close" => Upper(c.role) \in Desk
    BY <1>2, <1>3, <1>7, CloseIsForDesk
  <1>10. call' = [call EXCEPT ![r] = c] /\ reply' = reply /\ journal' = journal
    BY <1>2
  <1> QED
    BY <1>4, <1>5, <1>6, <1>8, <1>9, <1>10

\* A step is one of the request q itself, or leaves what there is of q alone.
LEMMA OwnStep ==
    ASSUME TypeInv, AskedInv, LifeInv, [Next]_vars, NEW q \in Requests
    PROVE  \/ Request(q) \/ Ends(q) \/ Serves(q)
           \/ /\ UNCHANGED <<call[q], asked[q], reply[q], answer[q], svc[q], seen[q]>>
              /\ pc'[q] = pc[q] \/ pc'[q] = "lost"
  <1>0. /\ CallsTypeOK
        /\ call \in [Requests -> Call \cup {NoCall}]
        /\ asked \in [Requests -> Asked]
        /\ reply \in [Requests -> SUBSET Order]
        /\ answer \in [Requests -> Answer]
    BY DEF TypeInv
  <1> DEFINE Kept == UNCHANGED <<call[q], asked[q], reply[q], answer[q], svc[q], seen[q], pc[q]>>
  <1>1. ASSUME NEW r \in Requests, r # q, Request(r) PROVE Kept
    <2>1. PICK c \in Call :
             /\ call' = [call EXCEPT ![r] = c]
             /\ \/ /\ AnsweredAtOnce(r) /\ asked' = asked
                   /\ \E a \in Answer : answer' = [answer EXCEPT ![r] = a]
                \/ /\ Sends(r) /\ answer' = answer
                   /\ asked' = [asked EXCEPT ![r] = MessageOf(c)]
      BY <1>1, WhatComes
    <2>2. reply' = reply
      BY <1>1, WhatComes
    <2>3. UNCHANGED <<svc[q], seen[q], pc[q]>>
      BY <1>0, <1>1, <2>1 DEF AnsweredAtOnce, Sends, CallsTypeOK
    <2> QED
      BY <1>0, <1>1, <2>1, <2>2, <2>3
  <1>2. ASSUME NEW r \in Requests, r # q, Ends(r) PROVE Kept
    <2>1. /\ Wakes(r) /\ call' = call /\ asked' = asked /\ reply' = reply
          /\ \E a \in Answer : answer' = [answer EXCEPT ![r] = a]
      BY <1>2, WhatEnds
    <2>2. UNCHANGED <<svc[q], seen[q], pc[q]>>
      BY <1>0, <1>2, <2>1, Waking DEF CallsTypeOK
    <2> QED
      BY <1>0, <1>2, <2>1, <2>2
  <1>3. ASSUME NEW r \in Requests, r # q, Serves(r) PROVE Kept
    <2>1. /\ Executes(r) /\ call' = call /\ asked' = asked /\ answer' = answer
          /\ \E orders \in SUBSET Order : reply' = [reply EXCEPT ![r] = orders]
      BY <1>3, WhatServes
    <2> QED
      BY <1>0, <1>3, <2>1 DEF Executes, CallsTypeOK
  <1>4. ASSUME Restart
        PROVE  /\ UNCHANGED <<call[q], asked[q], reply[q], answer[q], svc[q], seen[q]>>
               /\ pc'[q] = pc[q] \/ pc'[q] = "lost"
    BY <1>0, <1>4 DEF Restart, Crashes, orderVars, CallsTypeOK
  <1>5. ASSUME UNCHANGED vars PROVE Kept
    BY <1>5 DEF vars, callVars, orderVars
  <1> QED
    BY <1>1, <1>2, <1>3, <1>4, <1>5, Steps

\* What a request asks stays, once it has asked, and what was executed was asked.
LEMMA CallStays ==
    ASSUME IInv, [Next]_vars, NEW q \in Requests
    PROVE  /\ call[q] # NoCall => call'[q] = call[q]
           /\ svc[q] = "executed" => call'[q] = call[q] /\ svc'[q] = "executed"
           /\ pc[q] = "answered" => /\ call'[q] = call[q] /\ answer'[q] = answer[q]
                                    /\ seen'[q] = seen[q]
  <1>0. /\ TypeInv /\ AskedInv /\ LifeInv /\ CallsTypeOK
        /\ pc[q] = "idle" => call[q] = NoCall /\ svc[q] = "none"
    BY DEF IInv, TypeInv, StageInv, LifeInv
  <1>1. svc[q] = "executed" => svc'[q] = "executed"
    BY <1>0, StepOfCalls, LifeGoesOn
  <1>2. CASE Request(q)
    BY <1>0, <1>1, <1>2, WhatComes
  <1>3. CASE Ends(q)
    <2>1. Wakes(q) /\ call' = call
      BY <1>0, <1>3, WhatEnds
    <2>2. pc[q] = "waiting"
      BY <1>0, <2>1, Waking
    <2> QED
      BY <1>1, <2>1, <2>2
  <1>4. CASE Serves(q)
    <2>1. Executes(q) /\ call' = call /\ answer' = answer
      BY <1>0, <1>4, WhatServes
    <2> QED
      BY <1>1, <2>1 DEF Executes
  <1> QED
    BY <1>0, <1>1, <1>2, <1>3, <1>4, OwnStep

\* What can happen to the journal.
LEMMA JournalGrows ==
    ASSUME TypeInv, AskedInv, LifeInv, [Next]_vars
    PROVE  \/ journal' = journal /\ Entered' = Entered
           \/ \E r \in Requests : \E entry \in Order :
                 /\ Executes(r) /\ call' = call
                 /\ entry.by = r /\ AsAsked(call[r], entry)
                 /\ \/ ~IsHeld(entry.order)
                    \/ \E order \in Entered : /\ order.order = entry.order
                                              /\ order.customer = entry.customer
                 /\ journal' \in Seq(Order) /\ Entered' = Entered \cup {entry}
                 /\ entry \in Held(journal')
                 /\ \A order \in Held(journal) :
                       order.order # entry.order => order \in Held(journal')
  <1>0. journal \in Seq(Order)
    BY DEF TypeInv
  <1>1. journal' = journal => Entered' = Entered
    BY DEF Entered
  <1>2. CASE Restart \/ UNCHANGED vars
    BY <1>1, <1>2 DEF Restart, vars, orderVars
  <1>3. ASSUME NEW r \in Requests, Request(r) \/ Ends(r) PROVE journal' = journal
    BY <1>3, WhatComes, WhatEnds
  <1>4. ASSUME NEW r \in Requests, Serves(r), journal' # journal
        PROVE  \E entry \in Order :
                 /\ Executes(r) /\ call' = call
                 /\ entry.by = r /\ AsAsked(call[r], entry)
                 /\ \/ ~IsHeld(entry.order)
                    \/ \E order \in Entered : /\ order.order = entry.order
                                              /\ order.customer = entry.customer
                 /\ journal' \in Seq(Order) /\ Entered' = Entered \cup {entry}
                 /\ entry \in Held(journal')
                 /\ \A order \in Held(journal) :
                       order.order # entry.order => order \in Held(journal')
    <2>1. Executes(r) /\ call' = call
      BY <1>4, WhatServes
    <2>2. PICK entry \in Order :
             /\ journal' = Append(journal, entry)
             /\ entry.by = r /\ AsAsked(call[r], entry)
             /\ \/ ~IsHeld(entry.order)
                \/ \E order \in Entered : /\ order.order = entry.order
                                          /\ order.customer = entry.customer
      BY <1>4, WhatServes
    <2>3. /\ journal' \in Seq(Order) /\ Entered' = Entered \cup {entry}
          /\ entry \in Held(journal')
          /\ \A order \in Held(journal) :
                order.order # entry.order => order \in Held(journal')
      BY <1>0, <2>2, Entering
    <2> QED
      BY <2>1, <2>2, <2>3
  <1>5. ASSUME NEW r \in Requests, Serves(r), journal' = journal
        PROVE  journal' = journal /\ Entered' = Entered
    BY <1>1, <1>5
  <1> QED
    BY <1>1, <1>2, <1>3, <1>4, <1>5, Steps

\* What was entered stays so.
LEMMA EnteredStays ==
    ASSUME TypeInv, AskedInv, LifeInv, [Next]_vars
    PROVE  Entered \subseteq Entered' /\ journal' \in Seq(Order)
  <1>1. journal \in Seq(Order)
    BY DEF TypeInv
  <1> QED
    BY <1>1, JournalGrows

-----------------------------------------------------------------------------
(* The invariant is inductive. *)

\* Every variable keeps its type.
LEMMA TypeStep == IInv /\ [Next]_vars => TypeInv'
  <1> SUFFICES ASSUME IInv, [Next]_vars PROVE TypeInv'
    OBVIOUS
  <1>0. /\ TypeInv /\ AskedInv /\ LifeInv /\ CallsTypeOK
        /\ call \in [Requests -> Call \cup {NoCall}]
        /\ \A q \in Requests : Fits(call[q])
        /\ asked \in [Requests -> Asked]
        /\ reply \in [Requests -> SUBSET Order]
        /\ answer \in [Requests -> Answer]
    BY DEF IInv, TypeInv
  <1>1. CallsTypeOK' /\ journal' \in Seq(Order)
    BY <1>0, StepOfCalls, CallsType, EnteredStays
  <1> DEFINE Typed == /\ call' \in [Requests -> Call \cup {NoCall}]
                      /\ \A q \in Requests : Fits(call'[q])
                      /\ asked' \in [Requests -> Asked]
                      /\ reply' \in [Requests -> SUBSET Order]
                      /\ answer' \in [Requests -> Answer]
  <1>2. ASSUME NEW r \in Requests, Request(r) PROVE Typed
    <2>1. PICK c \in Call :
             /\ Fits(c) /\ call' = [call EXCEPT ![r] = c]
             /\ \/ /\ asked' = asked
                   /\ \E a \in Answer : answer' = [answer EXCEPT ![r] = a]
                \/ /\ answer' = answer /\ asked' = [asked EXCEPT ![r] = MessageOf(c)]
      BY <1>0, <1>2, WhatComes
    <2>2. reply' = reply
      BY <1>0, <1>2, WhatComes
    <2>3. MessageOf(c) \in Asked
      BY <2>1, MessageType
    <2>4. asked' \in [Requests -> Asked] /\ answer' \in [Requests -> Answer]
      BY <1>0, <2>1, <2>3
    <2>5. \A q \in Requests : call'[q] = call[q] \/ call'[q] = c
      BY <1>0, <2>1
    <2>6. call' \in [Requests -> Call \cup {NoCall}]
      BY <1>0, <2>1
    <2>7. \A q \in Requests : Fits(call'[q])
      BY <1>0, <2>1, <2>5
    <2> QED
      BY <1>0, <2>2, <2>4, <2>6, <2>7
  <1>3. ASSUME NEW r \in Requests, Ends(r) PROVE Typed
    <2>1. /\ call' = call /\ asked' = asked /\ reply' = reply
          /\ \E a \in Answer : answer' = [answer EXCEPT ![r] = a]
      BY <1>0, <1>3, WhatEnds
    <2> QED
      BY <1>0, <2>1
  <1>4. ASSUME NEW r \in Requests, Serves(r) PROVE Typed
    <2>1. /\ call' = call /\ asked' = asked /\ answer' = answer
          /\ \E orders \in SUBSET Order : reply' = [reply EXCEPT ![r] = orders]
      BY <1>0, <1>4, WhatServes
    <2> QED
      BY <1>0, <2>1
  <1>5. ASSUME Restart \/ UNCHANGED vars PROVE Typed
    <2>1. UNCHANGED <<call, asked, reply, answer>>
      BY <1>5 DEF Restart, vars, orderVars
    <2> QED
      BY <1>0, <2>1
  <1> HIDE DEF Typed
  <1>6. Typed
    BY <1>2, <1>3, <1>4, <1>5, Steps
  <1>7. (\A q \in Requests : Fits(call[q]))'
    BY <1>6 DEF Fits, Typed
  <1> QED
    BY <1>1, <1>6, <1>7 DEF TypeInv, Typed

\* A request leaves no trace before it comes in, and has no answer before it is over.
LEMMA StageStep == IInv /\ [Next]_vars => StageInv'
  <1> SUFFICES ASSUME IInv, [Next]_vars, NEW q \in Requests
               PROVE  /\ pc'[q] = "idle" => call'[q] = NoCall /\ reply'[q] = {}
                      /\ pc'[q] # "answered" => answer'[q] = Blank
    BY DEF StageInv, NoCall, Blank
  <1>0. /\ TypeInv /\ AskedInv /\ LifeInv /\ CallsTypeOK
        /\ pc[q] = "idle" => call[q] = NoCall /\ reply[q] = {}
        /\ pc[q] # "answered" => answer[q] = Blank
    BY DEF IInv, TypeInv, StageInv
  <1>1. CASE UNCHANGED <<call[q], reply[q], answer[q]>> /\ (pc'[q] = pc[q] \/ pc'[q] = "lost")
    <2>1. pc[q] = "answered" => pc'[q] = "answered"
      BY <1>0, StepOfCalls, LifeGoesOn
    <2> QED
      BY <1>0, <1>1, <2>1
  <1>2. CASE Request(q)
    <2>1. /\ pc[q] = "idle"
          /\ AnsweredAtOnce(q) \/ (Sends(q) /\ answer' = answer)
      BY <1>0, <1>2, WhatComes
    <2>2. AnsweredAtOnce(q) => pc'[q] = "answered"
      BY <1>0 DEF AnsweredAtOnce, CallsTypeOK
    <2>3. Sends(q) => pc'[q] = "waiting"
      BY <1>0 DEF Sends, CallsTypeOK
    <2> QED
      BY <1>0, <2>1, <2>2, <2>3
  <1>3. CASE Ends(q)
    <2>1. Wakes(q)
      BY <1>0, <1>3, WhatEnds
    <2>2. pc'[q] = "answered"
      BY <1>0, <2>1, Waking DEF CallsTypeOK
    <2> QED
      BY <2>2
  <1>4. CASE Serves(q)
    <2>1. Executes(q) /\ call' = call /\ answer' = answer
      BY <1>0, <1>4, WhatServes
    <2>2. svc[q] = "pending" /\ pc' = pc
      BY <2>1 DEF Executes
    <2>3. pc[q] # "idle"
      BY <1>0, <2>2 DEF LifeInv
    <2> QED
      BY <1>0, <2>1, <2>2, <2>3
  <1> QED
    BY <1>0, <1>1, <1>2, <1>3, <1>4, OwnStep

\* A call, once sent, asks what its request asked: neither changes afterwards.
LEMMA AskedStep == IInv /\ [Next]_vars => AskedInv'
  <1> SUFFICES ASSUME IInv, [Next]_vars, NEW q \in Requests, svc'[q] # "none"
               PROVE  /\ asked'[q] = MessageOf(call'[q])
                      /\ call'[q].op = "close" => Upper(call'[q].role) \in Desk
    BY DEF AskedInv, MessageOf
  <1>0. /\ TypeInv /\ AskedInv /\ LifeInv /\ CallsTypeOK
        /\ call \in [Requests -> Call \cup {NoCall}]
        /\ asked \in [Requests -> Asked]
        /\ pc[q] = "idle" => svc[q] = "none"
        /\ svc[q] # "none" =>
              /\ asked[q] = MessageOf(call[q])
              /\ call[q].op = "close" => Upper(call[q].role) \in Desk
    BY DEF IInv, TypeInv, LifeInv, AskedInv
  <1>1. CASE UNCHANGED <<call[q], asked[q], svc[q]>>
    BY <1>0, <1>1
  <1>2. CASE Request(q)
    <2>1. PICK c \in Call :
             /\ call' = [call EXCEPT ![q] = c]
             /\ \/ AnsweredAtOnce(q)
                \/ /\ Sends(q) /\ asked' = [asked EXCEPT ![q] = MessageOf(c)]
                   /\ c.op = "close" => Upper(c.role) \in Desk
      BY <1>0, <1>2, WhatComes
    <2>2. AnsweredAtOnce(q) => svc'[q] = "none"
      BY <1>0 DEF AnsweredAtOnce
    <2>3. call'[q] = c
      BY <1>0, <2>1
    <2>4. asked'[q] = MessageOf(c) /\ (c.op = "close" => Upper(c.role) \in Desk)
      BY <1>0, <2>1, <2>2
    <2> QED
      BY <2>3, <2>4
  <1>3. CASE Ends(q)
    <2>1. Wakes(q) /\ call' = call /\ asked' = asked
      BY <1>0, <1>3, WhatEnds
    <2>2. pc[q] = "waiting"
      BY <1>0, <2>1, Waking
    <2>3. svc[q] # "none"
      BY <1>0, <2>2 DEF LifeInv
    <2> QED
      BY <1>0, <2>1, <2>3
  <1>4. CASE Serves(q)
    <2>1. Executes(q) /\ call' = call /\ asked' = asked
      BY <1>0, <1>4, WhatServes
    <2> QED
      BY <1>0, <2>1 DEF Executes
  <1> QED
    BY <1>0, <1>1, <1>2, <1>3, <1>4, OwnStep

\* Entries are of executed writes and as these asked; orders stay held, with their
\* customer.
LEMMA JournalStep == IInv /\ [Next]_vars => JournalInv'
  <1> SUFFICES ASSUME IInv, [Next]_vars
               PROVE  /\ \A entry \in Entered' :
                            AsAsked(call'[entry.by], entry) /\ svc'[entry.by] = "executed"
                      /\ \A entry \in Entered' :
                            \E order \in Held(journal') : order.order = entry.order
                      /\ \A entry, other \in Entered' :
                            entry.order = other.order => entry.customer = other.customer
    BY DEF JournalInv, AsAsked
  <1>0. /\ TypeInv /\ AskedInv /\ LifeInv /\ CallsTypeOK
        /\ Entered \subseteq Order
        /\ \A entry \in Entered :
              AsAsked(call[entry.by], entry) /\ svc[entry.by] = "executed"
        /\ \A entry \in Entered : \E order \in Held(journal) : order.order = entry.order
        /\ \A entry, other \in Entered :
              entry.order = other.order => entry.customer = other.customer
    BY DEF IInv, TypeInv, JournalInv, Entered
  <1>1. \A entry \in Entered : AsAsked(call'[entry.by], entry) /\ svc'[entry.by] = "executed"
    <2>1. \A entry \in Entered : entry.by \in Requests
      BY <1>0 DEF Order
    <2> QED
      BY <1>0, <2>1, CallStays
  <1>2. CASE journal' = journal /\ Entered' = Entered
    BY <1>0, <1>1, <1>2
  <1>3. ASSUME NEW r \in Requests, NEW entry \in Order,
               Executes(r), call' = call, entry.by = r, AsAsked(call[r], entry),
               \/ ~IsHeld(entry.order)
               \/ \E order \in Entered : /\ order.order = entry.order
                                         /\ order.customer = entry.customer,
               Entered' = Entered \cup {entry}, entry \in Held(journal'),
               \A order \in Held(journal) :
                   order.order # entry.order => order \in Held(journal')
        PROVE  /\ \A new \in Entered' :
                      AsAsked(call'[new.by], new) /\ svc'[new.by] = "executed"
               /\ \A new \in Entered' : \E order \in Held(journal') : order.order = new.order
               /\ \A new, other \in Entered' :
                      new.order = other.order => new.customer = other.customer
    <2>1. svc'[r] = "executed"
      BY <1>0, <1>3 DEF Executes, CallsTypeOK
    <2>2. \A new \in Entered' : AsAsked(call'[new.by], new) /\ svc'[new.by] = "executed"
      BY <1>1, <1>3, <2>1
    <2>3. ASSUME NEW new \in Entered' PROVE \E order \in Held(journal') : order.order = new.order
      <3>1. CASE new.order = entry.order
        BY <1>3, <3>1
      <3>2. CASE new.order # entry.order
        <4>1. new \in Entered
          BY <1>3, <3>2
        <4>2. PICK order \in Held(journal) : order.order = new.order
          BY <1>0, <4>1
        <4> QED
          BY <1>3, <3>2, <4>2
      <3> QED
        BY <3>1, <3>2
    <2>4. \A old \in Entered : old.order = entry.order => old.customer = entry.customer
      <3>1. CASE ~IsHeld(entry.order)
        BY <1>0, <3>1 DEF IsHeld
      <3>2. CASE \E order \in Entered : /\ order.order = entry.order
                                        /\ order.customer = entry.customer
        BY <1>0, <3>2
      <3> QED
        BY <1>3, <3>1, <3>2
    <2>5. \A new, other \in Entered' :
             new.order = other.order => new.customer = other.customer
      BY <1>0, <1>3, <2>4
    <2> QED
      BY <2>2, <2>3, <2>5
  <1> QED
    BY <1>0, <1>2, <1>3, JournalGrows

\* A creation is acknowledged when it was executed, and a list knows of none before.
LEMMA AckedStep == IInv /\ [Next]_vars => AckedInv'
  <1> SUFFICES ASSUME IInv, [Next]_vars, NEW q \in Requests
               PROVE  /\ call'[q].op = "create" /\ answer'[q].status = 200 =>
                            svc'[q] = "executed"
                      /\ \A p \in call'[q].acked :
                            call'[p].op \in Writes /\ (call'[p].op = "create" =>
                                                          svc'[p] = "executed")
    BY DEF AckedInv, Writes
  <1>0. /\ TypeInv /\ AskedInv /\ LifeInv /\ CallsTypeOK
        /\ call \in [Requests -> Call \cup {NoCall}]
        /\ answer \in [Requests -> Answer]
        /\ pc[q] # "answered" => answer[q] = Blank
        /\ \A p \in Requests : call[p].op = "create" /\ answer[p].status = 200 =>
              svc[p] = "executed"
        /\ \A p \in call[q].acked :
              call[p].op \in Writes /\ (call[p].op = "create" => svc[p] = "executed")
        /\ NoCall.op \notin Writes
    BY DEF IInv, TypeInv, StageInv, AckedInv, NoCall, None, Writes
  <1>1. \A c \in Call \cup {NoCall} : c.acked \subseteq Requests
    BY DEF Call, NoCall
  <1>2. \A p \in Requests :
           /\ call[p].op \in Writes => call'[p] = call[p]
           /\ svc[p] = "executed" => svc'[p] = "executed"
    BY <1>0, CallStays
  <1>3. \A p \in call[q].acked :
           call'[p].op \in Writes /\ (call'[p].op = "create" => svc'[p] = "executed")
    BY <1>0, <1>1, <1>2
  <1>4. CASE UNCHANGED <<call[q], answer[q]>>
    BY <1>0, <1>2, <1>3, <1>4 DEF Writes
  <1>5. CASE Request(q)
    <2>1. /\ pc[q] = "idle"
          /\ \/ answer' = answer
             \/ \E a \in Answer : a.status # 200 /\ answer' = [answer EXCEPT ![q] = a]
      BY <1>0, <1>5, WhatComes
    <2>2. answer'[q].status # 200
      BY <1>0, <2>1 DEF Blank
    <2>3. PICK c \in Call :
             /\ call' = [call EXCEPT ![q] = c]
             /\ \A p \in c.acked : call[p].op \in Writes /\ answer[p].status = 200
      BY <1>0, <1>5, WhatComes
    <2>4. call'[q] = c /\ c.acked \subseteq Requests
      BY <1>0, <1>1, <2>3
    <2>5. \A p \in c.acked :
             call'[p].op \in Writes /\ (call'[p].op = "create" => svc'[p] = "executed")
      BY <1>0, <1>2, <2>3, <2>4
    <2> QED
      BY <2>2, <2>4, <2>5
  <1>6. CASE Ends(q)
    <2>1. /\ call' = call
          /\ \E a \in Answer :
                /\ answer' = [answer EXCEPT ![q] = a]
                /\ a.status # 200 \/ svc[q] = "executed" \/ call[q].op = "close"
      BY <1>0, <1>6, WhatEnds
    <2> QED
      BY <1>0, <1>2, <1>3, <2>1
  <1>7. CASE Serves(q)
    <2>1. call' = call /\ answer' = answer
      BY <1>0, <1>7, WhatServes
    <2> QED
      BY <1>0, <1>2, <1>3, <2>1
  <1> QED
    BY <1>0, <1>4, <1>5, <1>6, <1>7, OwnStep

\* Exact in the next state.
ExactNext(c, orders) ==
    c.op = "list" /\ c.customer \notin {None, ""} =>
        /\ Filtered(c, orders)
        /\ Whole(c, orders) =>
              \A entry \in Entered' :
                  (/\ entry.by \in c.acked
                   /\ call'[entry.by].op = "create"
                   /\ entry.customer = c.customer)
                      => \E order \in orders : order.order = entry.order

\* What a list has to show does not grow after it came in: the creations it knows of
\* were executed before.
LEMMA ExactStays ==
    ASSUME IInv, [Next]_vars, NEW q \in Requests, NEW orders, Exact(call[q], orders),
           NEW c, c = call[q]
    PROVE  ExactNext(c, orders)
  <1>0. /\ TypeInv /\ AskedInv /\ LifeInv
        /\ Entered \subseteq Order
        /\ \A entry \in Entered : svc[entry.by] = "executed"
        /\ \A p \in c.acked : call[p].op = "create" => svc[p] = "executed"
    BY DEF IInv, TypeInv, JournalInv, AckedInv, Entered
  <1>1. \A entry \in Entered : call'[entry.by] = call[entry.by]
    <2>1. \A entry \in Entered : entry.by \in Requests
      BY <1>0 DEF Order
    <2> QED
      BY <1>0, <2>1, CallStays
  <1>2. \A entry \in Entered' :
           entry \in Entered \/ (call' = call /\ svc[entry.by] = "pending")
    BY <1>0, JournalGrows DEF Executes
  <1> QED
    BY <1>0, <1>1, <1>2 DEF Exact, ExactNext

\* A reply shows what it should when it is made, and what it shows stays right.
LEMMA ReplyStep == IInv /\ [Next]_vars => ReplyInv'
  <1> SUFFICES ASSUME IInv, [Next]_vars, NEW q \in Requests
               PROVE  /\ reply'[q] \subseteq Entered'
                      /\ svc'[q] = "executed" => ExactNext(call'[q], reply'[q])
    BY DEF ReplyInv, Exact, ExactNext
  <1>0. /\ TypeInv /\ AskedInv /\ LifeInv /\ CallsTypeOK /\ Entered \subseteq Entered'
        /\ call \in [Requests -> Call \cup {NoCall}]
        /\ reply \in [Requests -> SUBSET Order]
        /\ pc[q] = "idle" => svc[q] = "none"
        /\ reply[q] \subseteq Entered
        /\ svc[q] = "executed" => Exact(call[q], reply[q])
    BY EnteredStays DEF IInv, TypeInv, LifeInv, ReplyInv
  <1>1. svc[q] = "executed" => ExactNext(call[q], reply[q])
    BY <1>0, ExactStays
  <1>2. CASE UNCHANGED <<call[q], reply[q], svc[q]>>
    <2> QED
      BY <1>0, <1>1, <1>2
  <1>3. CASE Request(q)
    <2>1. /\ pc[q] = "idle" /\ reply' = reply
          /\ AnsweredAtOnce(q) \/ Sends(q)
      BY <1>0, <1>3, WhatComes
    <2>2. svc'[q] # "executed"
      BY <1>0, <2>1 DEF AnsweredAtOnce, Sends, CallsTypeOK
    <2> QED
      BY <1>0, <2>1, <2>2
  <1>4. CASE Ends(q)
    <2>1. Wakes(q) /\ call' = call /\ reply' = reply
      BY <1>0, <1>4, WhatEnds
    <2>2. svc'[q] = "executed" => svc[q] = "executed"
      BY <1>0, <2>1 DEF Wakes, Returns, Raises, Refused, OutOfReach, CallsTypeOK
    <2> QED
      BY <1>0, <1>1, <2>1, <2>2
  <1>5. CASE Serves(q)
    <2>0. call' = call /\ Executes(q)
      BY <1>0, <1>5, WhatServes
    <2>1. PICK orders \in SUBSET Order :
             /\ reply' = [reply EXCEPT ![q] = orders]
             /\ \/ /\ journal' = journal /\ call[q].op \notin Writes
                   /\ orders \subseteq Entered
                   /\ call[q].op = "list" => Listed(asked[q], orders)
                \/ \E entry \in Order : /\ journal' = Append(journal, entry)
                                        /\ orders \subseteq {entry}
                                        /\ AsAsked(call[q], entry)
      BY <1>0, <1>5, WhatServes
    <2>2. reply'[q] = orders
      BY <1>0, <2>1
    <2>3. CASE /\ journal' = journal /\ orders \subseteq Entered
               /\ call[q].op = "list" => Listed(asked[q], orders)
      <3>1. Entered' = Entered
        BY <2>3 DEF Entered
      <3>2. ASSUME call[q].op = "list", call[q].customer \notin {None, ""}
            PROVE  /\ Filtered(call[q], orders)
                   /\ Whole(call[q], orders) =>
                         \A entry \in Entered : entry.customer = call[q].customer =>
                             \E order \in orders : order.order = entry.order
        <4>0. svc[q] = "pending" /\ NoCall.op # "list"
          BY <2>0 DEF Executes, NoCall, None
        <4>1. call[q] \in Call /\ asked[q] = MessageOf(call[q]) /\ Fits(call[q])
          BY <1>0, <3>2, <4>0 DEF AskedInv, TypeInv
        <4>2. /\ asked[q].customer = call[q].customer /\ asked[q].customer # ""
              /\ asked[q].status = IF call[q].target.word \in OrderStatus
                                   THEN call[q].target.word ELSE "UNSPECIFIED"
              /\ asked[q].window = call[q].window /\ call[q].window \in Windows
              /\ asked[q] \in Asked
          BY <3>2, <4>1, MessageType DEF Fits
        <4>3. Listed(asked[q], orders) /\ orders \subseteq Matching(asked[q])
          BY <2>3, <3>2 DEF Listed
        <4>4. \A entry \in Entered : \E order \in Held(journal) :
                 order.order = entry.order /\ order.customer = entry.customer
          BY HeldEntered DEF IInv, JournalInv
        <4>5. /\ Cardinality(orders) <= call[q].window.size
              /\ Whole(call[q], orders) => orders = Matching(asked[q])
          <5>1. journal \in Seq(Order)
            BY <1>0 DEF TypeInv
          <5> QED
            BY <4>2, <4>3, <5>1, Pages DEF Whole
        <4>6. /\ \A order \in Matching(asked[q]) :
                    /\ order.customer = call[q].customer
                    /\ call[q].target.word \in OrderStatus => order.status = call[q].target.word
              /\ call[q].target.word \notin OrderStatus =>
                    \A order \in Held(journal) :
                        order.customer = call[q].customer => order \in Matching(asked[q])
          BY <4>2 DEF Matching, OrderStatus
        <4>7. Filtered(call[q], orders)
          BY <4>3, <4>5, <4>6 DEF Filtered
        <4>8. ASSUME Whole(call[q], orders), NEW entry \in Entered,
                     entry.customer = call[q].customer
              PROVE  \E order \in orders : order.order = entry.order
          BY <4>4, <4>5, <4>6, <4>8 DEF Whole
        <4> QED
          BY <4>7, <4>8
      <3> QED
        BY <2>0, <2>2, <2>3, <3>1, <3>2 DEF ExactNext
    <2>4. ASSUME NEW entry \in Order, journal' = Append(journal, entry),
                 orders \subseteq {entry}, AsAsked(call[q], entry)
          PROVE  /\ reply'[q] \subseteq Entered'
                 /\ svc'[q] = "executed" => ExactNext(call'[q], reply'[q])
      <3>1. journal \in Seq(Order)
        BY <1>0 DEF TypeInv
      <3>2. entry \in Entered'
        BY <2>4, <3>1, Entering
      <3>3. call[q].op # "list"
        BY <2>4 DEF AsAsked, Writes
      <3> QED
        BY <2>0, <2>2, <2>4, <3>2, <3>3 DEF ExactNext
    <2> QED
      BY <2>1, <2>3, <2>4
  <1> QED
    BY <1>0, <1>2, <1>3, <1>4, <1>5, OwnStep

\* Each answer, once given, shows what it should, and stays as it is.
LEMMA AnswerStep == IInv /\ [Next]_vars => AnswerInv' /\ BackedInv'
  <1> SUFFICES ASSUME IInv, [Next]_vars, NEW q \in Requests
               PROVE  /\ answer'[q].status = 200 => ExactNext(call'[q], answer'[q].orders)
                      /\ \A order \in answer'[q].orders :
                            \/ order \in Entered'
                            \/ /\ call'[q].op = "close"
                               /\ order.order = call'[q].order
                               /\ seen'[q] \in MOCKABLE_DOWNSTREAM_GAP_CODES
    BY DEF AnswerInv, Exact, ExactNext, BackedInv
  <1>0. /\ TypeInv /\ AskedInv /\ LifeInv /\ CallsTypeOK /\ Entered \subseteq Entered'
        /\ answer \in [Requests -> Answer]
        /\ pc[q] # "answered" => answer[q] = Blank
        /\ answer[q].status = 200 => Exact(call[q], answer[q].orders)
        /\ \A order \in answer[q].orders :
              \/ order \in Entered
              \/ /\ call[q].op = "close"
                 /\ order.order = call[q].order
                 /\ seen[q] \in MOCKABLE_DOWNSTREAM_GAP_CODES
    BY EnteredStays DEF IInv, TypeInv, StageInv, AnswerInv, BackedInv
  <1>1. answer[q].status = 200 => ExactNext(call[q], answer[q].orders)
    BY <1>0, ExactStays
  <1>2. CASE UNCHANGED <<call[q], answer[q], seen[q]>>
    BY <1>0, <1>1, <1>2
  <1>3. CASE Request(q)
    <2>1. /\ pc[q] = "idle"
          /\ \/ answer' = answer
             \/ \E a \in Answer : /\ a.status # 200 /\ a.orders = {}
                                  /\ answer' = [answer EXCEPT ![q] = a]
      BY <1>0, <1>3, WhatComes
    <2>2. answer'[q].status # 200 /\ answer'[q].orders = {}
      BY <1>0, <2>1 DEF Blank
    <2> QED
      BY <2>2
  <1>4. CASE Ends(q)
    <2>1. call' = call
      BY <1>0, <1>4, WhatEnds
    <2>2. PICK a \in Answer :
             /\ answer' = [answer EXCEPT ![q] = a]
             /\ \/ a.status # 200 /\ a.orders = {}
                \/ svc[q] = "executed" /\ a.orders = reply[q]
                \/ /\ call[q].op = "close" /\ a.orders = {OwnClose(q)}
                   /\ seen'[q] \in MOCKABLE_DOWNSTREAM_GAP_CODES
      BY <1>0, <1>4, WhatEnds
    <2>3. answer'[q] = a
      BY <1>0, <2>2
    <2>4. CASE a.status # 200 /\ a.orders = {}
      BY <2>3, <2>4
    <2>5. CASE svc[q] = "executed" /\ a.orders = reply[q]
      <3>1. reply[q] \subseteq Entered /\ Exact(call[q], reply[q])
        BY <2>5 DEF IInv, ReplyInv
      <3>2. ExactNext(call[q], reply[q])
        BY <3>1, ExactStays
      <3> QED
        BY <1>0, <2>1, <2>3, <2>5, <3>1, <3>2
    <2>6. CASE /\ call[q].op = "close" /\ a.orders = {OwnClose(q)}
               /\ seen'[q] \in MOCKABLE_DOWNSTREAM_GAP_CODES
      <3>1. OwnClose(q).order = call[q].order
        BY DEF OwnClose
      <3>2. ExactNext(call[q], a.orders)
        BY <2>6 DEF ExactNext
      <3> QED
        BY <2>1, <2>3, <2>6, <3>1, <3>2
    <2> QED
      BY <2>2, <2>4, <2>5, <2>6
  <1>5. CASE Serves(q)
    <2>1. Executes(q) /\ call' = call /\ answer' = answer
      BY <1>0, <1>5, WhatServes
    <2> QED
      BY <1>0, <1>1, <2>1 DEF Executes
  <1> QED
    BY <1>0, <1>2, <1>3, <1>4, <1>5, OwnStep

-----------------------------------------------------------------------------
(* The theorems. *)

\* The strengthened invariant holds in every reachable state.
LEMMA Invariance == Spec => []IInv
  <1>1. Init => IInv
    <2> SUFFICES ASSUME Init PROVE IInv
      OBVIOUS
    <2>1. CallsTypeOK /\ LifeInv
      BY CallsTypeInit DEF Init
    <2>2. \A r \in Requests : svc[r] = "none"
      BY DEF Init, CallsInit
    <2>3. /\ call \in [Requests -> Call \cup {NoCall}]
          /\ \A r \in Requests : call[r] = NoCall
          /\ asked \in [Requests -> Asked]
          /\ reply \in [Requests -> SUBSET Order]
          /\ \A r \in Requests : reply[r] = {}
      BY DEF Init, Asked, NoAsked
    <2>4. /\ answer \in [Requests -> Answer]
          /\ \A r \in Requests : answer[r] = Blank
      BY DEF Init, Answer, Blank
    <2>5. journal \in Seq(Order) /\ Entered = {}
      BY DEF Init, Entered
    <2>6. Fits(NoCall) /\ NoCall.op = None /\ NoCall.acked = {}
      BY DEF Fits, NoCall, None
    <2>7. TypeInv
      BY <2>1, <2>3, <2>4, <2>5, <2>6 DEF TypeInv
    <2>8. StageInv
      BY <2>3, <2>4 DEF StageInv
    <2>9. AskedInv /\ JournalInv
      BY <2>2, <2>5 DEF AskedInv, JournalInv
    <2>10. AckedInv
      BY <2>3, <2>4, <2>6 DEF AckedInv, Blank
    <2>11. ReplyInv
      BY <2>2, <2>3 DEF ReplyInv
    <2>12. AnswerInv /\ BackedInv
      BY <2>4 DEF AnswerInv, BackedInv, Blank
    <2> QED
      BY <2>1, <2>7, <2>8, <2>9, <2>10, <2>11, <2>12 DEF IInv
  <1>2. IInv /\ [Next]_vars => IInv'
    <2> SUFFICES ASSUME IInv, [Next]_vars PROVE IInv'
      OBVIOUS
    <2>1. TypeInv /\ LifeInv /\ CallsTypeOK
      BY DEF IInv, TypeInv
    <2>2. LifeInv'
      BY <2>1, StepOfCalls, LifeStep
    <2> QED
      BY <2>1, <2>2, TypeStep, StageStep, AskedStep, JournalStep, AckedStep, ReplyStep,
         AnswerStep DEF IInv
  <1> QED
    BY <1>1, <1>2, PTL DEF Spec

\* Every variable keeps its type.
THEOREM TypeCorrect == Spec => []TypeOK
  <1>1. IInv => TypeOK
    <2>1. IInv => TypeInv
      BY DEF IInv
    <2>2. TypeInv => \A r \in Requests : reply[r] \subseteq Order /\ answer[r] \in Answer
      BY DEF TypeInv
    <2> QED
      BY <2>1, <2>2 DEF TypeInv, TypeOK, Answer
  <1> QED
    BY <1>1, Invariance, PTL

\* Every entry of the service is what its client meant, however he wrote it and
\* whatever failed, came late or was lost around it; only the desk closes an order
\* (_parse_order_status, close_order, the middleware's check of roles).
THEOREM OrdersAreWrittenAsAsked == Spec => []WrittenAsAsked
  <1>1. IInv => WrittenAsAsked
    <2> SUFFICES ASSUME IInv, NEW i \in DOMAIN journal, NEW c, c = call[journal[i].by]
                 PROVE  CASE c.op = "create" -> /\ journal[i].status = "CREATED"
                                                /\ journal[i].customer = c.customer
                          [] c.op = "update" -> journal[i].status =
                                                   IF c.target.word \in OrderStatus
                                                   THEN c.target.word ELSE "UNSPECIFIED"
                          [] c.op = "close"  -> /\ journal[i].status = "PAID"
                                                /\ Upper(c.role) \in Desk
      BY DEF WrittenAsAsked
    <2>1. journal[i] \in Entered
      BY DEF Entered
    <2>2. AsAsked(c, journal[i])
      BY <2>1 DEF IInv, JournalInv
    <2>3. CASE c.op = "create"
      BY <2>2, <2>3 DEF AsAsked
    <2>4. CASE c.op = "update"
      BY <2>2, <2>4 DEF AsAsked
    <2>5. CASE c.op = "close"
      BY <2>2, <2>5 DEF AsAsked
    <2>6. c.op \in {"create", "update", "close"}
      BY <2>2 DEF AsAsked, Writes
    <2> QED
      BY <2>3, <2>4, <2>5, <2>6
  <1> QED
    BY <1>1, Invariance, PTL

\* An answer shows only what the service entered, but for the order the gateway says
\* it has closed when the service could not serve it (close_order).
THEOREM AnswersAreBacked == Spec => []EveryAnswerIsBacked
  <1>1. IInv => EveryAnswerIsBacked
    BY DEF IInv, BackedInv, EveryAnswerIsBacked, Entered
  <1> QED
    BY <1>1, Invariance, PTL

\* The orders of a customer that a list has to show are among the entries.
LEMMA CreatedAreShown ==
    ASSUME NEW r \in Requests, call[r].customer # None,
           \A entry \in Entered :
              (/\ entry.by \in call[r].acked
               /\ call[entry.by].op = "create"
               /\ entry.customer = call[r].customer)
                  => \E order \in answer[r].orders : order.order = entry.order
    PROVE  Created(r, call[r].customer) \subseteq ShownIn(r)
  <1> SUFFICES ASSUME NEW o \in Created(r, call[r].customer) PROVE o \in ShownIn(r)
    OBVIOUS
  <1>1. PICK j \in DOMAIN journal :
           /\ o = journal[j].order /\ journal[j].by \in call[r].acked
           /\ call[journal[j].by].op = "create"
           /\ call[r].customer \in {None, journal[j].customer}
    BY DEF Created
  <1>2. journal[j] \in Entered
    BY DEF Entered
  <1>3. journal[j].customer = call[r].customer
    BY <1>1
  <1>4. PICK order \in answer[r].orders : order.order = journal[j].order
    BY <1>1, <1>2, <1>3
  <1> QED
    BY <1>1, <1>4 DEF ShownIn

\* A list for a customer shows only what it filters by, no more than its page holds,
\* and misses no order of his that was acknowledged when it came in unless there are
\* more pages or it asks for a status, with other requests between its call and its
\* answer, whatever page it asks for (list_orders, order_list).
THEOREM FilteredListsAreExact == Spec => []FilteredListIsExact
  <1>1. IInv => FilteredListIsExact
    <2> SUFFICES ASSUME IInv, NEW r \in Requests, call[r].op = "list",
                        call[r].customer \notin {None, ""}, answer[r].status = 200
                 PROVE  /\ Filtered(call[r], answer[r].orders)
                        /\ Whole(call[r], answer[r].orders) =>
                              Created(r, call[r].customer) \subseteq ShownIn(r)
      BY DEF FilteredListIsExact, Filtered, Whole, LastPage
    <2>1. Exact(call[r], answer[r].orders)
      BY DEF IInv, AnswerInv
    <2>2. Whole(call[r], answer[r].orders) =>
             \A entry \in Entered :
                (/\ entry.by \in call[r].acked
                 /\ call[entry.by].op = "create"
                 /\ entry.customer = call[r].customer)
                    => \E order \in answer[r].orders : order.order = entry.order
      BY <2>1 DEF Exact
    <2>3. Whole(call[r], answer[r].orders) =>
             Created(r, call[r].customer) \subseteq ShownIn(r)
      BY <2>2, CreatedAreShown
    <2> QED
      BY <2>1, <2>3 DEF Exact
  <1> QED
    BY <1>1, Invariance, PTL

=================================================================================
