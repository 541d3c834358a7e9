------------------------------ MODULE Lifecycle ------------------------------
(***************************************************************************)
(* The life of the gateway process: its channels (GatewayGrpcClients in    *)
(* app/gateway/grpc_clients.py), and how it starts and stops (create_app   *)
(* and lifespan in app/main.py).                                           *)
(*                                                                         *)
(* The module app.main is imported first, which builds the application;    *)
(* then the lifespan opens the channels to the services.  To stop, the     *)
(* server (uvicorn) takes no more requests, waits for those in flight,     *)
(* and lets the lifespan close the channels one after the other.  The      *)
(* settings, of the environment or of create_app's argument, are left out. *)
(*                                                                         *)
(* What a stop or a kill means for requests is for the module that EXTENDS *)
(* this one to say.                                                        *)
(***************************************************************************)
VARIABLES
    phase,     \* how far the process has come
    channels   \* the open channels

processVars == <<phase, channels>>

Channels ==
    {"user", "order", "dispatch", "worker_schedule", "service_execution", "finance"}

\* What GatewayGrpcClients.close leaves closed: all, or those before one that raises;
\* of these sets, the smallest and the largest.
Closed == {{}, Channels}

ProcessTypeOK ==
    /\ phase \in {"down", "loaded", "serving", "draining", "closing"}
    /\ channels \subseteq Channels

ProcessInit ==
    /\ phase = "down"
    /\ channels = {}

\* The import of app.main: app = create_app().
Load ==
    /\ phase = "down"
    /\ phase' = "loaded"
    /\ UNCHANGED channels

\* lifespan up to its yield.
Startup ==
    /\ phase = "loaded"
    /\ phase' = "serving"
    /\ channels' = Channels

\* SIGTERM: no request is taken from now on.
Terminate ==
    /\ phase = "serving"
    /\ phase' = "draining"
    /\ UNCHANGED channels

\* Mutated form of Close: the server does not wait for requests.
CloseAtOnce(inFlight) ==
    /\ phase = "draining"
    /\ phase' = "closing"
    /\ \E closed \in Closed : channels' = channels \ closed

\* No request is in flight any more, and the lifespan goes on after its yield: the
\* channels are closed one after the other until closing one raises.
Close(inFlight) ==
    /\ phase = "draining"
    /\ inFlight = {}
    /\ phase' = "closing"
    /\ \E closed \in Closed : channels' = channels \ closed

\* The process ends and takes along what it holds.
Gone ==
    /\ phase' = "down"
    /\ channels' = {}

\* Whether or not closing a channel raised.
Stopped ==
    /\ phase = "closing"
    /\ Gone

Killed ==
    /\ phase # "down"
    /\ Gone

==============================================================================
