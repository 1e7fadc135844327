------------------------------- MODULE MCService -------------------------------
(***************************************************************************)
(* What replicas do besides serving requests, on small instances, for TLC: *)
(* they start, pass events on, and stop. Starting is over before a replica *)
(* has a hub, and of stopping the events only know that a hub is closed    *)
(* and a listener ends, which their own model lets happen at any time. So  *)
(* one of the three moves while the others stay as they began.             *)
(***************************************************************************)
EXTENDS Realtime, Startup, Shutdown, TLC

VARIABLE side  \* what this behaviour is about

serviceVars == <<vars, startupVars, shutdownVars, side>>

ServiceInit ==
  \/ side = "start" /\ StartupInit /\ ShutdownInit /\ Init /\ durable = {}
  \/ /\ side \in {"events", "stop"}
     /\ Init /\ StartupInit /\ ShutdownInit
     /\ carries = [p \in Processes |-> Newest]
     /\ side = "stop" => durable = {}

StartMove  == side = "start" /\ StartupNext /\ UNCHANGED <<vars, shutdownVars, side>>
EventsMove == side = "events" /\ Next /\ UNCHANGED <<startupVars, shutdownVars, side>>
StopMove   == side = "stop" /\ ShutdownNext /\ UNCHANGED <<vars, startupVars, side>>

ServiceSpec == ServiceInit /\ [][StartMove \/ EventsMove \/ StopMove]_serviceVars

ReplicaSymmetry == Permutations(Replicas)

\* Every variable stays in its type.
ServiceTypeOK == TypeOK /\ StartupTypeOK /\ ShutdownTypeOK
=============================================================================
