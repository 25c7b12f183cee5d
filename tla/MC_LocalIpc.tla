---------------------------- MODULE MC_LocalIpc ----------------------------
(* Two consumers of one endpoint with the shortest lease, under deployments  *)
(* with events, fields and triggers or with methods, under either policy.    *)
EXTENDS LocalIpc, TLC
CONSTANTS c1, c2, v1, v2

TwoConsumers == {c1, c2}
TwoValues == {v1, v2}
PeersAlike == Permutations(TwoConsumers)

Mapping(kinds, correlations, hooks, depth, dropOldest) ==
  [kinds |-> kinds, correlations |-> correlations, hooks |-> hooks,
   depth |-> depth, dropOldest |-> dropOldest]
AllKinds == {"Event", "FieldValue", "Trigger"}
AllHooks == {"DropNextFrame", "ForceTimeout", "MarkEndpointStale"}
LossAndTimeout == {"DropNextFrame", "ForceTimeout"}
SampleMappings == {Mapping(AllKinds, {}, AllHooks, 2, TRUE)}
CallMappings ==
  {Mapping({}, {1}, LossAndTimeout, 2, TRUE), Mapping({}, {1}, LossAndTimeout, 1, FALSE)}
Deployments == SampleMappings \cup CallMappings
=============================================================================
