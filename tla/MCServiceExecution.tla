-------------------------- MODULE MCServiceExecution --------------------------
(* Instances of ServiceExecution for model checking. *)
EXTENDS ServiceExecution, TLC

\* A failure that falls back, with the call carried out or not, and one that is
\* reported.
MCFailureCodes == {"DEADLINE_EXCEEDED", "INTERNAL"}

\* No request is singled out by the specification.
Symmetry == Permutations(Requests)
=============================================================================
