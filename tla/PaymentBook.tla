----------------------------- MODULE PaymentBook -----------------------------
(***************************************************************************)
(* What the payment routes of the gateway promise, whatever the service    *)
(* does and however requests overlap: a book of payments per order, kept   *)
(* by one incarnation of the process.                                      *)
(*                                                                         *)
(*   - A payment is entered at most once, at the end of the book of its    *)
(*     order, and only by the request that confirms it.                    *)
(*   - Nothing is ever taken out of a book, short of a restart, which      *)
(*     empties them all.                                                   *)
(*   - A list shows at least the payments that had been acknowledged in    *)
(*     this incarnation when the list was asked for.                       *)
(*                                                                         *)
(* A payment is named by the request that confirms it.                     *)
(***************************************************************************)
EXTENDS Naturals, Sequences

CONSTANTS Requests, Orders, Nobody

VARIABLES
    book,    \* per order, the payments entered, in order
    phase,   \* per request: "new", "open" or "done"
    about,   \* per open request, its order; Nobody for the others
    owed,    \* per open request, the payments its answer has to show
    told     \* per request, the payments its answer showed

vars == <<book, phase, about, owed, told>>

\* The payments of an order that a client has been told of by the answer to
\* the request that confirmed them.
Acknowledged(o) ==
    {q \in Requests : (\E i \in DOMAIN book[o] : book[o][i] = q) /\ told[q] = {q}}

Init ==
    /\ book = [o \in Orders |-> <<>>]
    /\ phase = [r \in Requests |-> "new"]
    /\ about = [r \in Requests |-> Nobody]
    /\ owed = [r \in Requests |-> {}]
    /\ told = [r \in Requests |-> {}]

Closes(r, shown) ==
    /\ phase' = [phase EXCEPT ![r] = "done"]
    /\ about' = [about EXCEPT ![r] = Nobody]
    /\ owed' = [owed EXCEPT ![r] = {}]
    /\ told' = [told EXCEPT ![r] = shown]

Open(r) ==
    /\ phase[r] = "new"
    /\ \E o \in Orders :
          /\ phase' = [phase EXCEPT ![r] = "open"]
          /\ about' = [about EXCEPT ![r] = o]
          /\ owed' = [owed EXCEPT ![r] = Acknowledged(o)]
    /\ UNCHANGED <<book, told>>

\* The payment of r is entered; an answer the gateway cannot deliver leaves it
\* unacknowledged.
Confirm(r) ==
    /\ phase[r] = "open"
    /\ book' = [book EXCEPT ![about[r]] = Append(@, r)]
    /\ \E shown \in {{}, {r}} : Closes(r, shown)

Show(r) ==
    /\ phase[r] = "open"
    /\ \E shown \in SUBSET Requests : owed[r] \subseteq shown /\ Closes(r, shown)
    /\ UNCHANGED book

\* A list that is answered where it is asked.
Look(r) ==
    /\ phase[r] = "new"
    /\ \E o \in Orders, shown \in SUBSET Requests :
          Acknowledged(o) \subseteq shown /\ Closes(r, shown)
    /\ UNCHANGED book

\* An answer that shows no payment: an error.
Decline(r) ==
    /\ phase[r] # "done"
    /\ Closes(r, {})
    /\ UNCHANGED book

\* The books are lost, and so are the open requests.
Restart ==
    /\ book' = [o \in Orders |-> <<>>]
    /\ phase' = [r \in Requests |-> IF phase[r] = "open" THEN "done" ELSE phase[r]]
    /\ about' = [r \in Requests |-> Nobody]
    /\ owed' = [r \in Requests |-> {}]
    /\ UNCHANGED told

Next ==
    \/ \E r \in Requests : Open(r) \/ Confirm(r) \/ Show(r) \/ Look(r) \/ Decline(r)
    \/ Restart

Spec == Init /\ [][Next]_vars

=============================================================================
