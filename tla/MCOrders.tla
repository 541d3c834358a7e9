------------------------------- MODULE MCOrders -------------------------------
(* Instances of Orders for model checking. *)
EXTENDS Orders, TLC

MCFailureCodes == {"DEADLINE_EXCEEDED", "INTERNAL"}

MCRoles == {"Customer_Service", "WORKER"}

\* A status written in every way but its plain one, and a name that is no status.
MCTargets ==
    {[word |-> "IN_SERVICE", prefixed |-> TRUE, lower |-> TRUE, blanks |-> {"before", "behind"}],
     Plain("LOST")}

\* A page that some lists fill and others do not.
MCWindows == {[page |-> 1, size |-> 2]}

\* What a list asks for by default.
MCDefaultWindow == {[page |-> 1, size |-> 20]}

MCOneTarget == {Plain("COMPLETE")}

\* No order or customer is singled out by the specification, nor is a request.
Symmetry == Permutations(Requests) \cup Permutations(Orders) \cup Permutations(Customers)
===============================================================================
