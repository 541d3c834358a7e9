------------------------------ MODULE RecordBook ------------------------------
(***************************************************************************)
(* What the service execution routes promise, whatever the service does    *)
(* and however requests overlap: one entry per order, kept by one          *)
(* incarnation of the process.                                             *)
(*                                                                         *)
(*   - An entry changes at one instant between a write on its order and    *)
(*     the answer to it, and through nothing else: a start and a           *)
(*     completion replace it by one that has their own mark, a photo adds  *)
(*     its own mark to what is there.                                      *)
(*   - A write is acknowledged only if it was entered.                     *)
(*   - A read leaves the book as it is.  It shows the entry as it is when  *)
(*     the read comes in; only where there is none does it wait, and then  *)
(*     it shows the entry as it is by then, or what the service holds.     *)
(*   - Whatever is entered or shown is made of writes on that very order.  *)
(*                                                                         *)
(* An entry names the requests that started, completed and photographed.   *)
(***************************************************************************)
EXTENDS Naturals, Sequences

CONSTANTS Requests, Orders, Nobody

VARIABLES
    book,    \* per order, its entry
    phase,   \* per request: "new", "open" or "done"
    about,   \* per request that came in, its order; Nobody for the others
    kind,    \* per request that came in, what it asks for
    told     \* per request, the entry its answer showed, if it showed any: a set

vars == <<book, phase, about, kind, told>>

\* What is shown of an order that nothing is known of.
Blank == [started |-> Nobody, completed |-> Nobody, photos |-> <<>>]

Did(q, k, o) == kind[q] = k /\ about[q] = o

\* An entry that says something, and nothing but what was asked for on o.
MadeOfWritesOn(o, entry) ==
    /\ entry # Blank
    /\ entry.started # Nobody => Did(entry.started, "start", o)
    /\ entry.completed # Nobody => Did(entry.completed, "complete", o)
    /\ \A i \in DOMAIN entry.photos : Did(entry.photos[i], "photo", o)

Init ==
    /\ book = [o \in Orders |-> Blank]
    /\ phase = [r \in Requests |-> "new"]
    /\ about = [r \in Requests |-> Nobody]
    /\ kind = [r \in Requests |-> Nobody]
    /\ told = [r \in Requests |-> {}]

Arrives(r, k, o) ==
    /\ phase[r] = "new"
    /\ about' = [about EXCEPT ![r] = o]
    /\ kind' = [kind EXCEPT ![r] = k]

Ends(r, shown) ==
    /\ phase' = [phase EXCEPT ![r] = "done"]
    /\ told' = [told EXCEPT ![r] = shown]

Open(r) ==
    /\ \E o \in Orders :
          \/ \E k \in {"start", "complete", "photo"} : Arrives(r, k, o)
          \/ Arrives(r, "get", o) /\ book[o] = Blank
    /\ phase' = [phase EXCEPT ![r] = "open"]
    /\ UNCHANGED <<book, told>>

Enter(r) ==
    LET o == about[r]
        entry == book'[o]
    IN  /\ phase[r] = "open"
        /\ \A p \in Orders \ {o} : book'[p] = book[p]
        /\ \/ /\ kind[r] = "start" /\ entry.started = r
              /\ MadeOfWritesOn(o, entry)
              /\ \E shown \in {{}, {entry}} : Ends(r, shown)
           \/ /\ kind[r] = "complete" /\ entry.completed = r
              /\ MadeOfWritesOn(o, entry)
              /\ \E shown \in {{}, {entry}} : Ends(r, shown)
           \/ /\ kind[r] = "photo"
              /\ entry = [book[o] EXCEPT !.photos = Append(@, r)]
              /\ \E shown \in {{}, {[Blank EXCEPT !.photos = <<r>>]}} : Ends(r, shown)
        /\ UNCHANGED <<about, kind>>

\* A read that is answered where it is asked.
Look(r) ==
    /\ \E o \in Orders : /\ book[o] # Blank
                         /\ Arrives(r, "get", o)
                         /\ Ends(r, {book[o]})
    /\ UNCHANGED book

Show(r) ==
    LET shown == told'[r]
        o == about[r]
    IN  /\ phase[r] = "open"
        /\ kind[r] = "get"
        /\ \A entry \in shown : entry = book[o] \/ MadeOfWritesOn(o, entry)
        /\ Ends(r, shown)
        /\ UNCHANGED <<book, about, kind>>

\* An answer that shows nothing: an error.
Decline(r) ==
    /\ \/ phase[r] = "open" /\ UNCHANGED <<about, kind>>
       \/ \E o \in Orders, k \in {"start", "complete", "photo", "get"} : Arrives(r, k, o)
    /\ Ends(r, {})
    /\ UNCHANGED book

\* The book is lost, and so are the open requests.
Restart ==
    /\ book' = [o \in Orders |-> Blank]
    /\ phase' = [r \in Requests |-> IF phase[r] = "open" THEN "done" ELSE phase[r]]
    /\ UNCHANGED <<about, kind, told>>

Next ==
    \/ \E r \in Requests : Open(r) \/ Enter(r) \/ Look(r) \/ Show(r) \/ Decline(r)
    \/ Restart

Spec == Init /\ [][Next]_vars

================================================================================
