--------------------------- MODULE MCWorkerSchedule ---------------------------
(* Instances of WorkerSchedule for model checking. *)
EXTENDS WorkerSchedule, TLC

\* A failure that falls back and one that is reported.
MCFailureCodes == {"DEADLINE_EXCEEDED", "RESOURCE_EXHAUSTED"}

\* A status with the prefix, in lower case, and one without.
MCStatuses ==
    {[word |-> "IN_SERVICE", prefixed |-> TRUE, lower |-> TRUE, blanks |-> {}],
     Plain("ASSIGNED")}

\* A type of event, and a name that is none.
MCEvents ==
    {[word |-> "COMPLETED", prefixed |-> TRUE, lower |-> TRUE, blanks |-> {"before"}],
     Plain("FINISHED")}

\* No worker, date or request is singled out by the specification.
Symmetry == Permutations(Requests) \cup Permutations(Workers) \cup Permutations(Dates)
===============================================================================
