------------------------------ MODULE MC_Groups ------------------------------
(* A bench for function groups, and for the samples that are sent through    *)
(* the service registry and the handles services are found by.  They do not  *)
(* interact: of each behaviour one is live and the others stay as they start. *)
EXTENDS MC_StateManagement, ServiceRegistry

VARIABLE live

groupsVars == <<live, smVars, registryVars>>

Live(component) == live = component

GroupsInit == live \in {"groups", "samples", "handles"} /\ SMInit /\ RegistryInit

GroupsNext ==
  /\ UNCHANGED live
  /\ \/ Live("groups") /\ SMNext /\ UNCHANGED registryVars
     \/ Live("samples") /\ RegistryNext /\ UNCHANGED <<smVars, findHandles, nextHandle>>
     \/ Live("handles") /\ RegistryNext /\ UNCHANGED <<smVars, sampleVars>>

GroupsSpec == GroupsInit /\ [][GroupsNext]_groupsVars
=============================================================================
