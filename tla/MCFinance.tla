------------------------------ MODULE MCFinance ------------------------------
(* Instances of Finance for model checking. *)
EXTENDS Finance, TLC

\* A role of each side of the rule; the tokens carry them in either case.
MCRoles == {"customer_service", "Worker"}

\* A deadline (out of reach, falls back), a refusal that falls back, and one
\* that is reported.
MCFailureCodes == {"DEADLINE_EXCEEDED", "FAILED_PRECONDITION", "INTERNAL"}

\* No value of a request or an order is singled out by the specification.
Symmetry == Permutations(Requests) \cup Permutations(Orders)
=============================================================================
