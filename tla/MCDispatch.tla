------------------------------ MODULE MCDispatch ------------------------------
(* Instances of Dispatch for model checking. *)
EXTENDS Dispatch, TLC

\* A failure that falls back and one that is reported.
MCFailureCodes == {"DEADLINE_EXCEEDED", "INTERNAL"}

\* An acceptance with everything that the two readings overlook, a rejection as it is
\* documented, and a word that is no response but ends like one.
MCResponses ==
    {[word |-> "ACCEPT", prefixed |-> TRUE, lower |-> TRUE, blanks |-> {"before"}],
     Plain("REJECT"),
     Plain("NOT_ACCEPT")}

MCAccepting == {"ACCEPT", "NOT_ACCEPT"}

\* No order or request is singled out by the specification.
Symmetry == Permutations(Requests) \cup Permutations(Orders)
===============================================================================
