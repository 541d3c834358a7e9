------------------------------- MODULE Access -------------------------------
(***************************************************************************)
(* Which requests the authentication middleware lets through               *)
(* (app/middleware/auth.py).                                               *)
(*                                                                         *)
(* A path is the sequence of the segments between its slashes: the root is *)
(* the empty sequence, and a trailing slash is a last segment "".  The     *)
(* middleware compares whole strings; on the routes the gateway serves     *)
(* that is the same as comparing segments.                                 *)
(***************************************************************************)
EXTENDS Sequences, SequencesExt

PUBLIC_PATHS ==
    {<<"healthz">>,
     <<"docs">>,
     <<"docs", "oauth2-redirect">>,
     <<"openapi.json">>,
     <<"redoc">>,
     <<"api", "users", "v1", "auth", "register">>,
     <<"api", "users", "v1", "auth", "login">>}

\* str.rstrip("/"): every trailing slash goes.
NormalizePath(path) ==
    LET kept == {i \in 1..Len(path) : path[i] # ""}
    IN  SubSeq(path, 1, IF kept = {} THEN 0
                        ELSE CHOOSE i \in kept : \A j \in kept : j <= i)

IsPublic(path) == NormalizePath(path) \in PUBLIC_PATHS

\* Mutated form of Upper: roles are compared as they are written.
AsWritten(role) == role

\* str.upper() on the roles a token may carry.
Upper(role) ==
    CASE role \in {"owner", "Owner"}                       -> "OWNER"
      [] role \in {"customer_service", "Customer_Service"} -> "CUSTOMER_SERVICE"
      [] role \in {"worker", "Worker"}                     -> "WORKER"
      [] OTHER                                             -> role

Desk == {"CUSTOMER_SERVICE", "OWNER"}

\* The request is refused with 403; path is normalised.
Forbidden(path, role) ==
    \/ /\ IsPrefix(<<"api", "users", "v1", "admin">>, path)
       /\ Upper(role) = "WORKER"
    \/ /\ path = <<"api", "users", "v1", "orders", "dispatch">>
       /\ Upper(role) \notin Desk
    \/ /\ IsStrictPrefix(<<"api", "finance", "v1", "orders">>, path)
       /\ Upper(role) \notin Desk
    \/ /\ IsStrictPrefix(<<"api", "orders", "v1", "orders">>, path)
       /\ Last(path) = "close"
       /\ Upper(role) \notin Desk

=============================================================================
