------------------------------ MODULE MCPipeline ------------------------------
(* Instances of Pipeline for model checking. *)
EXTENDS Pipeline, TLC

MCFailureCodes == {"DEADLINE_EXCEEDED", "ABORTED"}

MCRoles == {"worker", "OWNER"}

\* A public path with a call, a protected one and one that is closed to workers.
MCCallingPaths ==
    {<<"api", "users", "v1", "auth", "login">>,
     <<"api", "users", "v1", "profile">>,
     <<"api", "users", "v1", "admin", "ping">>}

\* Every kind of path: answered in place, with a call, with and without a body,
\* open or not, with a slash too many, and unknown.
MCPaths ==
    MCCallingPaths \cup
    {<<"healthz">>,
     <<"healthz", "">>,
     <<"api", "users", "v1", "orders", "dispatch">>,
     <<"api", "users", "v1", "orders", "dispatch", "">>,
     <<"api", "orders", "v1", "orders">>,
     <<"api", "users", "v1", "auth", "register">>,
     <<"api", "finance", "v1", "invoices", "invoice">>,
     <<"nowhere">>}

\* No request is singled out by the specification.
Symmetry == Permutations(Requests)
===============================================================================
