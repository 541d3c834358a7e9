------------------------------ MODULE MCCoreFlow ------------------------------
(* CoreFlow for TLC. *)
EXTENDS CoreFlow

MCRequests == Steps

===============================================================================
