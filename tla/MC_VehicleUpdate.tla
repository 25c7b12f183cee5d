-------------------------- MODULE MC_VehicleUpdate --------------------------
(* An adaptive ECU and a dashboard ECU; upgrades of the provider and of the  *)
(* dashboard, one that depends on what may be missing, one that is not       *)
(* acceptable, and a later upgrade of the provider.  ECUs register with the  *)
(* versions from before the upgrades, without a provider, or ahead of them.  *)
EXTENDS VehicleUpdate, TLC

CONSTANTS adaptive, dashboardEcu, dashboard, provider, v1_9, v1_10, v2_0

BothEcus == {adaptive, dashboardEcu}
BothClusters == {dashboard, provider}
NameOrder == (dashboard :> 1) @@ (provider :> 2)

(* The texts "1.10" < "1.9" < "2.0" of the releases 1.9, 1.10 and 2.0.       *)
ThreeVersions == {v1_9, v1_10, v2_0}
ByText == (v1_10 :> 1) @@ (v1_9 :> 2) @@ (v2_0 :> 3)
ByRelease == (v1_9 :> 1) @@ (v1_10 :> 2) @@ (v2_0 :> 3)

Pack(ecu, cluster, version) ==
  [ecu |-> ecu, cluster |-> cluster, version |-> version, acceptable |-> TRUE,
   dependencies |-> {}, activation |-> "UpdateAllowed"]
Has(d, p) == (dashboard :> d) @@ (provider :> p)
Recorded(availability, fit, versions) ==
  [availability |-> availability, fit |-> fit, versions |-> versions]

OfferedPackages ==
  {Pack(adaptive, provider, v1_9), Pack(adaptive, provider, v2_0),
   [Pack(dashboardEcu, dashboard, v1_9) EXCEPT !.dependencies = {provider}],
   [Pack(dashboardEcu, provider, v1_9) EXCEPT !.activation = "DrivingReady"],
   Pack(adaptive, dashboard, v1_9), [Pack(adaptive, dashboard, v1_10) EXCEPT !.acceptable = FALSE]}
Fleet ==
  {Recorded("Online", TRUE, Has(v1_10, v1_10)), Recorded("Offline", TRUE, Has(v1_10, v1_10)),
   Recorded("Online", FALSE, Has(v1_10, v2_0)), Recorded("Online", TRUE, Has(v1_10, Unrecorded))}
=============================================================================
