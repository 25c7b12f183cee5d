----------------------------- MODULE MC_Vehicle -----------------------------
(* A bench for what goes on across a vehicle: supervised processes and       *)
(* update campaigns.  They do not interact: of each behaviour one is live    *)
(* and the other stays as it starts.                                         *)
EXTENDS MC_SupervisedProcess, MC_VehicleUpdate

VARIABLE live

vehicleVars == <<live, supervisedVars, campaignVars>>

Live(component) == live = component

(* While no campaign is live none has to be confirmed.                       *)
VehicleInit ==
  /\ live \in {"health", "campaigns"}
  /\ ProcessInit /\ CampaignInit
  /\ ~Live("campaigns") => ~needsConfirmation

BenchNext ==
  /\ UNCHANGED live
  /\ \/ Live("health") /\ ProcessNext /\ UNCHANGED campaignVars
     \/ Live("campaigns") /\ VehicleNext /\ UNCHANGED supervisedVars

VehicleSpec == VehicleInit /\ [][BenchNext]_vehicleVars
=============================================================================
