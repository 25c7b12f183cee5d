--------------------------- MODULE VehicleUpdate ---------------------------
(***************************************************************************)
(* openautosar::runtime::vucm::VehicleUpdateManager: the inventory of ECUs  *)
(* and one campaign at a time that updates clusters on several of them, is  *)
(* activated, and ends when the ECUs' health is confirmed or with a         *)
(* coordinated rollback.  A call that names another campaign changes        *)
(* nothing and is left out.  The policy requires targets to be online and   *)
(* able to roll back, as the deployed one does.                             *)
(***************************************************************************)
EXTENDS Integers, FiniteSets

CONSTANTS
  Ecus, Clusters,
  Rank,                \* cluster -> its place in the order of names
  Versions,            \* the texts of the versions in use
  TextOrder,           \* version -> its place among texts, as std::string compares
  Release,             \* version -> its place in the order of releases
  Packages,            \* the CampaignPackages requests are made of
  Inventories,         \* what an ECU may register: availability, fit, versions
  MaxSteps,            \* policy_.max_steps
  ConfirmationPolicies,   \* values policy_.require_health_confirmation may have
  Unrecorded           \* no record of an ECU, no version of a cluster

(* "acceptable" stands for the signer, platform, manifest, SBOM and         *)
(* provenance checks, "fit" for the ECU's rollback support and free space.  *)
Package ==
  [ecu : Ecus, cluster : Clusters, version : Versions, acceptable : BOOLEAN,
   dependencies : SUBSET Clusters, activation : {"DrivingReady", "UpdateAllowed"}]
Inventory ==
  [availability : {"Online", "Offline", "Updating", "RecoveryRequired"},
   fit : BOOLEAN, versions : [Clusters -> Versions \cup {Unrecorded}]]

ASSUME CampaignAssumption ==
  /\ Packages \subseteq Package /\ Inventories \subseteq Inventory
  /\ Unrecorded \notin Inventory \cup Versions /\ MaxSteps \in Nat /\ ConfirmationPolicies \subseteq BOOLEAN
  /\ Rank \in [Clusters -> Nat]
  /\ \A c, d \in Clusters : Rank[c] = Rank[d] => c = d
  /\ TextOrder \in [Versions -> Nat] /\ Release \in [Versions -> Nat]

CampaignStates ==
  {"Idle", "Planned", "AwaitingHealthConfirmation", "Committed", "RolledBack", "Rejected"}
StepStates == {"Ready", "Activated", "Committed", "RolledBack"}

VARIABLES
  needsConfirmation,   \* policy_.require_health_confirmation
  inventory,   \* ECU -> what is recorded of it, Unrecorded if not registered
  state,       \* active_campaign_->state, "Idle" before the first campaign
  packages,    \* the packages of the active campaign's steps
  steps,       \* package -> state of its step
  before,      \* observer: ECU -> the versions recorded when the campaign was planned
  reported     \* observer: ECUs that registered again since then

observers == <<before, reported>>
campaignVars == <<needsConfirmation, inventory, state, packages, steps, observers>>

CampaignInit ==
  /\ needsConfirmation \in ConfirmationPolicies
  /\ inventory = [e \in Ecus |-> Unrecorded]
  /\ state = "Idle"
  /\ packages = {} /\ steps = [p \in {} |-> "Ready"]
  /\ before = inventory /\ reported = {}

Target(p) == <<p.ecu, p.cluster>>
Targeted == {p.ecu : p \in packages}

(* The inventory with every ECU of the campaign put to one availability.    *)
AllNow(availability) ==
  [e \in Ecus |-> IF e \in Targeted THEN [inventory[e] EXCEPT !.availability = availability]
                  ELSE inventory[e]]
(* The same ECU with one package recorded as installed.                     *)
WithPackage(record, p) ==
  [record EXCEPT !.availability = "Online", !.versions[p.cluster] = p.version]

-----------------------------------------------------------------------------
RegisterEcu(e, record) ==
  /\ inventory' = [inventory EXCEPT ![e] = record]
  /\ reported' = reported \cup {e}
  /\ UNCHANGED <<state, packages, steps, before>>

(* IsVersionUpgrade: the text of the version is greater, or there is none.  *)
Upgrades(old, new) == old # Unrecorded => TextOrder[new] > TextOrder[old]

\* Mutated: any version is an upgrade.
ValidateAnyVersion(p) ==
  LET record == inventory[p.ecu]
  IN  /\ record # Unrecorded
      /\ record.availability = "Online" /\ record.fit
      /\ p.acceptable
      /\ \A c \in p.dependencies : record.versions[c] # Unrecorded

ValidatePackage(p) ==
  LET record == inventory[p.ecu]
  IN  /\ record # Unrecorded
      /\ record.availability = "Online" /\ record.fit
      /\ p.acceptable
      /\ \A c \in p.dependencies : record.versions[c] # Unrecorded
      /\ Upgrades(record.versions[p.cluster], p.version)

ValidateRequest(request) ==
  /\ request # {}
  /\ Cardinality(request) <= MaxSteps
  /\ \A p \in request : ValidatePackage(p)
  /\ \A p, q \in request : Target(p) = Target(q) => p = q

(* A new request replaces the active campaign, whatever state that is in.   *)
Adopt(request, result) ==
  /\ state' = result /\ packages' = request
  /\ steps' = [p \in request |-> "Ready"]

VersionsRecorded ==
  [e \in Ecus |-> IF inventory[e] = Unrecorded THEN Unrecorded ELSE inventory[e].versions]

PlanCampaign(request) ==
  /\ LET valid == ValidateRequest(request)
     IN  \/ valid /\ Adopt(request, "Planned")
         \/ ~valid /\ Adopt({}, "Rejected")
  /\ before' = VersionsRecorded /\ reported' = {}
  /\ UNCHANGED inventory

(* Every ECU of the campaign with all its packages recorded as installed.   *)
CommittedAtOnce ==
  [e \in Ecus |->
     IF e \notin Targeted THEN inventory[e]
     ELSE [inventory[e] EXCEPT
             !.availability = "Online",
             !.versions = [c \in Clusters |->
               IF \E p \in packages : Target(p) = <<e, c>>
               THEN (CHOOSE p \in packages : Target(p) = <<e, c>>).version
               ELSE @[c]]]]

ActivateCampaign(vehicleState) ==
  /\ state = "Planned"
  /\ \/ /\ \E p \in packages : p.activation # vehicleState
        /\ state' = "Rejected"
        /\ UNCHANGED <<inventory, steps>>
     \/ /\ \A p \in packages : p.activation = vehicleState
        /\ needsConfirmation
        /\ state' = "AwaitingHealthConfirmation"
        /\ steps' = [p \in packages |-> "Activated"]
        /\ inventory' = AllNow("Updating")
     \/ /\ \A p \in packages : p.activation = vehicleState
        /\ ~needsConfirmation
        /\ state' = "Committed"
        /\ steps' = [p \in packages |-> "Committed"]
        /\ inventory' = CommittedAtOnce
  /\ UNCHANGED <<packages, observers>>

(* Every step and every ECU of the campaign, the committed ones too.        *)
RollBackAll ==
  /\ state' = "RolledBack"
  /\ steps' = [p \in packages |-> "RolledBack"]
  /\ inventory' = AllNow("RecoveryRequired")

\* Mutated: only the failed ECU is rolled back.
RollBackOne(e) ==
  /\ state' = "RolledBack"
  /\ steps' = [p \in packages |-> IF p.ecu = e THEN "RolledBack" ELSE steps[p]]
  /\ inventory' = [inventory EXCEPT ![e].availability = "RecoveryRequired"]
RollBackFor(e) == RollBackAll

CommitStep(p) ==
  /\ steps' = [steps EXCEPT ![p] = "Committed"]
  /\ inventory' = [inventory EXCEPT ![p.ecu] = WithPackage(@, p)]

AllCommitted == \A p \in packages : steps'[p] = "Committed"

(* find_if: the step of the ECU whose cluster's name comes first.           *)
IsFirstStepOf(p, e) ==
  /\ p.ecu = e
  /\ \A q \in packages : q.ecu = e => Rank[p.cluster] <= Rank[q.cluster]

ConfirmEcuHealth(e, healthy) ==
  /\ state = "AwaitingHealthConfirmation"
  /\ \E p \in packages :
       /\ IsFirstStepOf(p, e)
       /\ \/ ~healthy /\ RollBackFor(e)
          \/ /\ healthy
             /\ CommitStep(p)
             /\ state' = IF AllCommitted THEN "Committed" ELSE state
  /\ UNCHANGED <<packages, observers>>

(* Accepted in every state of the campaign.                                 *)
AbortAndRollback ==
  /\ state # "Idle"
  /\ RollBackAll
  /\ UNCHANGED <<packages, observers>>

(* A request is refused for one step too many as for more of them.          *)
Requests == {request \in SUBSET Packages : Cardinality(request) <= MaxSteps + 1}

CampaignSteps ==
  \/ \E vehicleState \in {"DrivingReady", "UpdateAllowed"} : ActivateCampaign(vehicleState)
  \/ \E e \in Ecus, healthy \in BOOLEAN : ConfirmEcuHealth(e, healthy)
  \/ AbortAndRollback

CampaignNext == CampaignSteps \/ \E request \in Requests : PlanCampaign(request)

VehicleNext ==
  /\ CampaignNext \/ \E e \in Ecus, record \in Inventories : RegisterEcu(e, record)
  /\ UNCHANGED needsConfirmation

CampaignSpec == CampaignInit /\ [][VehicleNext]_campaignVars

-----------------------------------------------------------------------------
(* Properties.                                                              *)

CampaignTypeOK ==
  /\ needsConfirmation \in ConfirmationPolicies
  /\ inventory \in [Ecus -> Inventory \cup {Unrecorded}]
  /\ state \in CampaignStates
  /\ packages \in SUBSET Packages
  /\ steps \in [packages -> StepStates]
  /\ \A p \in packages : inventory[p.ecu] # Unrecorded

(* A committed campaign is installed everywhere: every step is committed,   *)
(* and each of its ECUs is recorded as online with the packages it was      *)
(* meant to get, unless it registered anew and told otherwise.  A rollback  *)
(* is coordinated: no step stays committed or activated, and every ECU of   *)
(* the campaign is known to need recovery.                                  *)
OutcomeIsEverywhere ==
  \A p \in packages :
    /\ state = "Committed" =>
         /\ steps[p] = "Committed"
         /\ p.ecu \notin reported =>
              /\ inventory[p.ecu].availability = "Online"
              /\ inventory[p.ecu].versions[p.cluster] = p.version
    /\ state = "RolledBack" =>
         /\ steps[p] = "RolledBack"
         /\ p.ecu \notin reported => inventory[p.ecu].availability = "RecoveryRequired"

(* Where a campaign changes the version recorded of a cluster, it is by an  *)
(* upgrade, in the order of texts, of what was recorded when the campaign   *)
(* was planned, however often the ECU registered since; and of what is      *)
(* recorded now, unless it did.                                             *)
Changed(e, c) ==
  inventory[e] # Unrecorded /\ inventory'[e].versions[c] # inventory[e].versions[c]
CampaignsUpgrade ==
  [][\A e \in Ecus, c \in Clusters : Changed(e, c) /\ CampaignSteps =>
       /\ Upgrades(before[e][c], inventory'[e].versions[c])
       /\ e \notin reported => Upgrades(inventory[e].versions[c], inventory'[e].versions[c])]_campaignVars

(* "reject_non_upgrade_version": a campaign never puts a version in place   *)
(* of one that comes after it in the order of texts.                        *)
RecordedIsNotUndone ==
  [][\A e \in Ecus, c \in Clusters : Changed(e, c) /\ CampaignSteps =>
       Upgrades(inventory[e].versions[c], inventory'[e].versions[c])]_campaignVars

(* The same of the order of releases, for ECUs that did not register again. *)
ReleasesOnlyGrow ==
  [][\A e \in Ecus \ reported, c \in Clusters :
       Changed(e, c) /\ inventory[e].versions[c] # Unrecorded /\ CampaignSteps =>
         Release[inventory'[e].versions[c]] > Release[inventory[e].versions[c]]]_campaignVars
=============================================================================
