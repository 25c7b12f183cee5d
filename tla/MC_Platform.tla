----------------------------- MODULE MC_Platform -----------------------------
(* A bench for what applications keep and exchange on one machine: an        *)
(* endpoint of local IPC and a key-value store.  They do not interact: of    *)
(* each behaviour one is live and the other stays as it starts.              *)
EXTENDS MC_LocalIpc, MC_KeyValueStore

VARIABLE live

platformVars == <<live, vars, kvsVars>>

Live(component) == live = component

(* The endpoint that is not live has the mapping with samples.               *)
PlatformInit ==
  /\ live \in {"ipc", "store"}
  /\ Init /\ StoreInit
  /\ ~Live("ipc") => mapping \in SampleMappings

PlatformNext ==
  /\ UNCHANGED live
  /\ \/ Live("ipc") /\ Next /\ UNCHANGED kvsVars
     \/ Live("store") /\ StoreNext /\ UNCHANGED vars

PlatformSpec == PlatformInit /\ [][PlatformNext]_platformVars

(* Consumers are alike, and keys.                                            *)
AllAlike == PeersAlike \cup KeysAlike
=============================================================================
