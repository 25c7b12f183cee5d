------------------------------ MODULE MC_Calls ------------------------------
(* A bench for what waits to be served: method calls at the service registry *)
(* and requests at the state manager.  They do not interact: of each         *)
(* behaviour one is live and the other stays as it starts.                   *)
EXTENDS ServiceRegistry, MC_StateManagement

VARIABLE live

callsVars == <<live, registryVars, smVars>>

Live(component) == live = component

CallsInit == live \in {"calls", "requests"} /\ RegistryInit /\ SMInit

CallsNext ==
  /\ UNCHANGED live
  /\ \/ Live("calls") /\ RegistryNext /\ UNCHANGED smVars
     \/ Live("requests") /\ SMNext /\ UNCHANGED registryVars

(* Providers serve the calls they have, the platform the requests it has.   *)
CallsSpec ==
  /\ CallsInit /\ [][CallsNext]_callsVars
  /\ ServingFairness /\ WF_smVars(ApplyNextRequest)
=============================================================================
