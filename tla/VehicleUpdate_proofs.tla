------------------------- MODULE VehicleUpdate_proofs -------------------------
(* Proofs about vehicle update campaigns: what a campaign's end says holds   *)
(* of every ECU, and a campaign records upgrades only of what was validated, *)
(* for any fleet, versions, packages, inventories and policies.              *)
EXTENDS VehicleUpdate, TLAPS

Installed(p) ==
  /\ inventory[p.ecu].availability = "Online"
  /\ inventory[p.ecu].versions[p.cluster] = p.version

(* While a campaign is under way its steps have different targets, each of   *)
(* them upgrades what was recorded when it was planned, and what is recorded *)
(* of its target is that or the step's own version, unless its ECU reported. *)
StepsUpgrade ==
  state \in {"Planned", "AwaitingHealthConfirmation"} =>
    /\ \A p, q \in packages : Target(p) = Target(q) => p = q
    /\ \A p \in packages :
         /\ Upgrades(before[p.ecu][p.cluster], p.version)
         /\ p.ecu \notin reported =>
              inventory[p.ecu].versions[p.cluster] \in {before[p.ecu][p.cluster], p.version}

(* A step that is committed while others wait for their ECUs' health stays   *)
(* installed.                                                                *)
CommittedIsInstalled ==
  state = "AwaitingHealthConfirmation" =>
    \A p \in packages : steps[p] = "Committed" /\ p.ecu \notin reported => Installed(p)

CampaignInv == CampaignTypeOK /\ StepsUpgrade /\ CommittedIsInstalled /\ OutcomeIsEverywhere

-----------------------------------------------------------------------------
(* Helpers.                                                                  *)

LEMMA PackageParts ==
  ASSUME NEW p \in Packages
  PROVE  p.ecu \in Ecus /\ p.cluster \in Clusters /\ p.version \in Versions
BY CampaignAssumption DEF Package

(* A registered ECU has an inventory.                                        *)
LEMMA Registered ==
  ASSUME CampaignTypeOK, NEW p \in packages
  PROVE  /\ p \in Packages /\ p.ecu \in Ecus /\ p.cluster \in Clusters
         /\ p.version \in Versions /\ p.ecu \in Targeted
         /\ inventory[p.ecu] \in Inventory /\ inventory[p.ecu] # Unrecorded
         /\ inventory[p.ecu].versions \in [Clusters -> Versions \cup {Unrecorded}]
<1>1. p \in Packages
  BY DEF CampaignTypeOK
<1>2. inventory[p.ecu] \in Inventory /\ inventory[p.ecu] # Unrecorded
  BY <1>1, PackageParts DEF CampaignTypeOK
<1> QED BY <1>1, <1>2, PackageParts DEF Inventory, Targeted

(* What a step of a campaign under way puts in place of another version.     *)
LEMMA StepUpgrades ==
  ASSUME CampaignInv, state \in {"Planned", "AwaitingHealthConfirmation"}, NEW p \in packages,
         inventory[p.ecu].versions[p.cluster] # p.version
  PROVE  /\ Upgrades(before[p.ecu][p.cluster], p.version)
         /\ p.ecu \notin reported => Upgrades(inventory[p.ecu].versions[p.cluster], p.version)
BY DEF CampaignInv, StepsUpgrade

LEMMA InitCampaign == CampaignInit => CampaignInv
BY CampaignAssumption
   DEF CampaignInit, CampaignInv, CampaignTypeOK, StepsUpgrade, CommittedIsInstalled, OutcomeIsEverywhere,
       CampaignStates, Targeted

-----------------------------------------------------------------------------
(* One lemma per operation.                                                  *)

LEMMA RegisterCampaign ==
  ASSUME CampaignInv, NEW e \in Ecus, NEW record \in Inventories, RegisterEcu(e, record),
         UNCHANGED needsConfirmation
  PROVE  CampaignInv'
<1> USE DEF CampaignInv, RegisterEcu
<1>1. record \in Inventory /\ record # Unrecorded
  BY CampaignAssumption
<1>2. inventory' \in [Ecus -> Inventory \cup {Unrecorded}] /\ inventory'[e] = record
  BY <1>1 DEF CampaignTypeOK
<1>3. \A p \in packages :
        /\ p.ecu = e => inventory'[p.ecu] = record /\ p.ecu \in reported'
        /\ p.ecu # e => inventory'[p.ecu] = inventory[p.ecu]
                        /\ (p.ecu \in reported' <=> p.ecu \in reported)
  BY Registered, <1>2 DEF CampaignTypeOK
<1>4. CampaignTypeOK'
  BY <1>1, <1>2, <1>3 DEF CampaignTypeOK, Targeted
<1>5. StepsUpgrade'
  BY <1>3 DEF StepsUpgrade, Target
<1>6. CommittedIsInstalled' /\ OutcomeIsEverywhere'
  BY <1>3 DEF CommittedIsInstalled, OutcomeIsEverywhere, Installed
<1> QED BY <1>4, <1>5, <1>6

LEMMA PlanCampaignInv ==
  ASSUME CampaignInv, NEW request \in Requests, PlanCampaign(request),
         UNCHANGED needsConfirmation
  PROVE  CampaignInv'
<1> USE DEF CampaignInv, PlanCampaign, Adopt, Requests
<1>1. CASE ValidateRequest(request) /\ Adopt(request, "Planned")
  <2>1. \A p \in request :
          /\ p \in Packages /\ inventory[p.ecu] # Unrecorded
          /\ Upgrades(inventory[p.ecu].versions[p.cluster], p.version)
    BY <1>1 DEF ValidateRequest, ValidatePackage
  <2>2. CampaignTypeOK'
    BY <1>1, <2>1 DEF CampaignTypeOK, CampaignStates, StepStates
  <2>3. StepsUpgrade'
    <3>1. \A p \in request : before'[p.ecu] = inventory[p.ecu].versions
      BY <2>1, PackageParts DEF VersionsRecorded
    <3> QED BY <1>1, <2>1, <3>1 DEF StepsUpgrade, ValidateRequest, Target
  <2>4. CommittedIsInstalled' /\ OutcomeIsEverywhere'
    BY <1>1 DEF CommittedIsInstalled, OutcomeIsEverywhere
  <2> QED BY <2>2, <2>3, <2>4
<1>2. CASE Adopt({}, "Rejected")
  BY <1>2 DEF CampaignTypeOK, CampaignStates, Targeted, StepsUpgrade, CommittedIsInstalled,
              OutcomeIsEverywhere
<1> QED BY <1>1, <1>2

(* Every ECU of the campaign changes its availability and nothing else.      *)
LEMMA AllNowParts ==
  ASSUME CampaignTypeOK, NEW a \in {"Updating", "RecoveryRequired"}, inventory' = AllNow(a),
         UNCHANGED packages
  PROVE  /\ inventory' \in [Ecus -> Inventory \cup {Unrecorded}]
         /\ \A p \in packages :
              /\ inventory'[p.ecu].versions = inventory[p.ecu].versions
              /\ inventory'[p.ecu].availability = a
              /\ inventory'[p.ecu] # Unrecorded
<1>1. ASSUME NEW p \in packages
      PROVE  /\ inventory'[p.ecu] = [inventory[p.ecu] EXCEPT !.availability = a]
             /\ inventory'[p.ecu] \in Inventory /\ inventory'[p.ecu] # Unrecorded
             /\ inventory'[p.ecu].versions = inventory[p.ecu].versions
             /\ inventory'[p.ecu].availability = a
  <2>1. inventory'[p.ecu] = [inventory[p.ecu] EXCEPT !.availability = a]
    BY Registered, <1>1 DEF AllNow
  <2>2. inventory'[p.ecu] \in Inventory
    BY <2>1, Registered, <1>1 DEF Inventory
  <2> QED BY <2>1, <2>2, Registered, <1>1, CampaignAssumption DEF Inventory
<1>2. \A e \in Ecus : inventory'[e] \in Inventory \cup {Unrecorded}
  <2> SUFFICES ASSUME NEW e \in Ecus, e \in Targeted PROVE inventory'[e] \in Inventory
    BY DEF AllNow, CampaignTypeOK
  <2>1. PICK p \in packages : e = p.ecu
    BY DEF Targeted
  <2> QED BY <1>1, <2>1
<1> QED BY <1>1, <1>2 DEF AllNow

LEMMA RollBackCampaign ==
  ASSUME CampaignInv, RollBackAll, UNCHANGED <<packages, reported, needsConfirmation>>
  PROVE  CampaignInv'
<1> USE DEF CampaignInv, RollBackAll
<1>1. CampaignTypeOK'
  BY AllNowParts DEF CampaignTypeOK, CampaignStates, StepStates, Targeted
<1>2. OutcomeIsEverywhere'
  BY AllNowParts DEF OutcomeIsEverywhere
<1> QED BY <1>1, <1>2 DEF StepsUpgrade, CommittedIsInstalled

(* A campaign that needs no confirmation installs each package on its        *)
(* target.                                                                   *)
LEMMA CommittedAtOnceParts ==
  ASSUME CampaignInv, state = "Planned", inventory' = CommittedAtOnce, UNCHANGED packages
  PROVE  /\ inventory' \in [Ecus -> Inventory \cup {Unrecorded}]
         /\ \A p \in packages :
              /\ inventory'[p.ecu] # Unrecorded
              /\ inventory'[p.ecu].availability = "Online"
              /\ inventory'[p.ecu].versions[p.cluster] = p.version
         /\ \A e \in Ecus, c \in Clusters :
              \/ inventory'[e].versions[c] = inventory[e].versions[c]
              \/ \E p \in packages :
                   p.ecu = e /\ p.cluster = c /\ inventory'[e].versions[c] = p.version
<1> DEFINE Chosen(e, c) == CHOOSE p \in packages : Target(p) = <<e, c>>
           Installs(e) == [c \in Clusters |->
             IF \E p \in packages : Target(p) = <<e, c>> THEN Chosen(e, c).version
             ELSE inventory[e].versions[c]]
<1> USE DEF CampaignInv
<1>1. ASSUME NEW e \in Targeted
      PROVE  /\ e \in Ecus /\ inventory[e] \in Inventory
             /\ inventory'[e] = [inventory[e] EXCEPT !.availability = "Online",
                                                     !.versions = Installs(e)]
  BY <1>1, Registered DEF CommittedAtOnce, Targeted
<1>2. ASSUME NEW e, NEW c, NEW q \in packages, Target(q) = <<e, c>>
      PROVE  Chosen(e, c) = q
  <2>1. Chosen(e, c) \in packages /\ Target(Chosen(e, c)) = <<e, c>>
    BY <1>2
  <2> QED BY <1>2, <2>1 DEF StepsUpgrade
<1>3. ASSUME NEW e \in Targeted PROVE Installs(e) \in [Clusters -> Versions \cup {Unrecorded}]
  <2>1. inventory[e].versions \in [Clusters -> Versions \cup {Unrecorded}]
    BY <1>1, <1>3 DEF Inventory
  <2>2. ASSUME NEW c \in Clusters, NEW q \in packages, Target(q) = <<e, c>>
        PROVE  Chosen(e, c).version \in Versions
    <3>1. Chosen(e, c) = q
      BY <1>2, <2>2
    <3>2. q.version \in Versions
      BY Registered
    <3> HIDE DEF Chosen
    <3> QED BY <3>1, <3>2
  <2> QED BY <2>1, <2>2
<1>4. ASSUME NEW e \in Targeted
      PROVE  /\ inventory'[e] \in Inventory
             /\ inventory'[e].availability = "Online" /\ inventory'[e].versions = Installs(e)
  <2>1. /\ inventory[e] \in Inventory
        /\ inventory'[e] = [inventory[e] EXCEPT !.availability = "Online",
                                                !.versions = Installs(e)]
    BY <1>1, <1>4
  <2>2. Installs(e) \in [Clusters -> Versions \cup {Unrecorded}]
    BY <1>3, <1>4
  <2> HIDE DEF Installs
  <2> QED BY <2>1, <2>2 DEF Inventory
<1>5. inventory' \in [Ecus -> Inventory \cup {Unrecorded}]
  <2> SUFFICES ASSUME NEW e \in Ecus PROVE inventory'[e] \in Inventory \cup {Unrecorded}
    BY DEF CommittedAtOnce
  <2> QED BY <1>4 DEF CommittedAtOnce, CampaignTypeOK
<1>6. ASSUME NEW p \in packages
      PROVE  /\ inventory'[p.ecu] # Unrecorded
             /\ inventory'[p.ecu].availability = "Online"
             /\ inventory'[p.ecu].versions[p.cluster] = p.version
  <2>1. p.ecu \in Targeted /\ p.cluster \in Clusters
    BY Registered
  <2>2. Target(p) = <<p.ecu, p.cluster>>
    BY DEF Target
  <2>3. Chosen(p.ecu, p.cluster) = p
    BY <1>2, <2>2
  <2>4. inventory'[p.ecu] \in Inventory /\ inventory'[p.ecu].availability = "Online"
        /\ inventory'[p.ecu].versions = Installs(p.ecu)
    BY <1>4, <2>1
  <2>5. Installs(p.ecu)[p.cluster] = p.version
    BY <2>1, <2>2, <2>3
  <2> QED BY <2>4, <2>5, CampaignAssumption
<1>7. ASSUME NEW e \in Ecus, NEW c \in Clusters
      PROVE  \/ inventory'[e].versions[c] = inventory[e].versions[c]
             \/ \E p \in packages :
                  p.ecu = e /\ p.cluster = c /\ inventory'[e].versions[c] = p.version
  <2>1. CASE e \notin Targeted
    BY <2>1 DEF CommittedAtOnce
  <2>2. CASE e \in Targeted /\ \E q \in packages : Target(q) = <<e, c>>
    <3>1. PICK q \in packages : Target(q) = <<e, c>>
      BY <2>2
    <3>2. q.ecu = e /\ q.cluster = c
      BY <3>1 DEF Target
    <3>3. inventory'[e].versions[c] = q.version
      BY <1>6, <3>2
    <3> QED BY <3>2, <3>3
  <2>3. CASE e \in Targeted /\ ~\E q \in packages : Target(q) = <<e, c>>
    <3>1. inventory'[e].versions = Installs(e)
      BY <1>4, <2>3
    <3> QED BY <2>3, <3>1
  <2> QED BY <2>1, <2>2, <2>3
<1> QED BY <1>5, <1>6, <1>7

LEMMA ActivateCampaignInv ==
  ASSUME CampaignInv, NEW v, ActivateCampaign(v), UNCHANGED needsConfirmation
  PROVE  CampaignInv'
<1> USE DEF CampaignInv, ActivateCampaign, observers
<1>1. CASE state' = "Rejected" /\ UNCHANGED <<inventory, steps>>
  BY <1>1 DEF CampaignTypeOK, CampaignStates, Targeted, StepsUpgrade, CommittedIsInstalled,
              OutcomeIsEverywhere
<1>2. CASE /\ state' = "AwaitingHealthConfirmation"
           /\ steps' = [p \in packages |-> "Activated"]
           /\ inventory' = AllNow("Updating")
  <2>1. CampaignTypeOK'
    BY <1>2, AllNowParts DEF CampaignTypeOK, CampaignStates, StepStates, Targeted
  <2>2. StepsUpgrade'
    BY <1>2, AllNowParts DEF StepsUpgrade, Target
  <2>3. CommittedIsInstalled' /\ OutcomeIsEverywhere'
    BY <1>2 DEF CommittedIsInstalled, OutcomeIsEverywhere
  <2> QED BY <2>1, <2>2, <2>3
<1>3. CASE /\ state' = "Committed"
           /\ steps' = [p \in packages |-> "Committed"]
           /\ inventory' = CommittedAtOnce
  <2>1. CampaignTypeOK'
    BY <1>3, CommittedAtOnceParts DEF CampaignTypeOK, CampaignStates, StepStates, Targeted
  <2>2. OutcomeIsEverywhere'
    BY <1>3, CommittedAtOnceParts DEF OutcomeIsEverywhere
  <2> QED BY <1>3, <2>1, <2>2 DEF StepsUpgrade, CommittedIsInstalled
<1> QED BY <1>1, <1>2, <1>3

(* An ECU that confirms its health is recorded with one package more.        *)
WithPackageOf(p) ==
  /\ inventory' \in [Ecus -> Inventory \cup {Unrecorded}]
  /\ \A q \in packages : inventory'[q.ecu] # Unrecorded
  /\ \A e \in Ecus \ {p.ecu} : inventory'[e] = inventory[e]
  /\ inventory'[p.ecu].availability = "Online"
  /\ \A c \in Clusters :
       inventory'[p.ecu].versions[c] =
         IF c = p.cluster THEN p.version ELSE inventory[p.ecu].versions[c]

LEMMA WithPackageParts ==
  ASSUME CampaignTypeOK, NEW p \in packages, inventory' = [inventory EXCEPT ![p.ecu] = WithPackage(@, p)],
         UNCHANGED packages
  PROVE  WithPackageOf(p)
<1> DEFINE record == inventory[p.ecu]
<1>1. inventory'[p.ecu] = WithPackage(record, p)
  BY Registered DEF CampaignTypeOK
<1>2. /\ record \in Inventory /\ record.versions \in [Clusters -> Versions \cup {Unrecorded}]
      /\ p.cluster \in Clusters /\ p.version \in Versions
  BY Registered
<1>3. /\ inventory'[p.ecu] \in Inventory
      /\ inventory'[p.ecu].availability = "Online"
      /\ inventory'[p.ecu].versions = [inventory[p.ecu].versions EXCEPT ![p.cluster] = p.version]
  <2> HIDE DEF record
  <2>1. /\ WithPackage(record, p) \in Inventory
        /\ WithPackage(record, p).availability = "Online"
        /\ WithPackage(record, p).versions = [record.versions EXCEPT ![p.cluster] = p.version]
    BY <1>2 DEF WithPackage, Inventory
  <2> QED BY <1>1, <2>1 DEF record
<1> QED BY <1>2, <1>3, Registered, CampaignAssumption DEF CampaignTypeOK, WithPackageOf

LEMMA ConfirmCampaign ==
  ASSUME CampaignInv, NEW e \in Ecus, NEW healthy \in BOOLEAN, ConfirmEcuHealth(e, healthy),
         UNCHANGED needsConfirmation
  PROVE  CampaignInv'
<1> USE DEF CampaignInv
<1>1. PICK p \in packages :
        /\ p.ecu = e
        /\ \/ RollBackFor(e)
           \/ /\ CommitStep(p)
              /\ state' = IF AllCommitted THEN "Committed" ELSE state
  BY DEF ConfirmEcuHealth, IsFirstStepOf
<1>2. state = "AwaitingHealthConfirmation" /\ UNCHANGED <<packages, before, reported>>
  BY DEF ConfirmEcuHealth, observers
<1>3. CASE RollBackFor(e)
  BY <1>2, <1>3, RollBackCampaign DEF RollBackFor
<1>4. CASE /\ CommitStep(p)
           /\ state' = IF AllCommitted THEN "Committed" ELSE state
  <2>1. /\ inventory' = [inventory EXCEPT ![p.ecu] = WithPackage(@, p)]
        /\ steps' = [steps EXCEPT ![p] = "Committed"]
    BY <1>4 DEF CommitStep
  <2>7. WithPackageOf(p)
    BY <1>2, <2>1, WithPackageParts
  <2>2. CampaignTypeOK'
    BY <1>1, <1>2, <1>4, <2>1, <2>7, Registered
    DEF WithPackageOf, CampaignTypeOK, CampaignStates, StepStates, Targeted
  <2>3. StepsUpgrade'
    <3>1. ASSUME NEW q \in packages, q.ecu \notin reported
          PROVE  inventory'[q.ecu].versions[q.cluster] \in {before[q.ecu][q.cluster], q.version}
      <4>1. CASE q.ecu = p.ecu /\ q.cluster = p.cluster
        <5>1. q = p
          BY <4>1, <1>2 DEF StepsUpgrade, Target
        <5> QED BY <5>1, <4>1, <1>2, <2>7, Registered DEF WithPackageOf
      <4>2. CASE ~(q.ecu = p.ecu /\ q.cluster = p.cluster)
        <5>1. inventory'[q.ecu].versions[q.cluster] = inventory[q.ecu].versions[q.cluster]
          BY <4>2, <1>2, <2>7, Registered DEF WithPackageOf
        <5> QED BY <5>1, <3>1, <1>2 DEF StepsUpgrade
      <4> QED BY <4>1, <4>2
    <3> QED BY <3>1, <1>2 DEF StepsUpgrade, Target
  <2>4. \A q \in packages : steps'[q] = "Committed" /\ q.ecu \notin reported => Installed(q)'
    <3> SUFFICES ASSUME NEW q \in packages, steps'[q] = "Committed", q.ecu \notin reported
                 PROVE  Installed(q)'
      OBVIOUS
    <3>1. CASE q = p
      BY <3>1, <1>2, <2>7, Registered DEF Installed, WithPackageOf
    <3>2. CASE q # p
      <4>1. steps[q] = "Committed"
        BY <3>2, <2>1 DEF CampaignTypeOK
      <4>2. Installed(q)
        BY <4>1, <1>2 DEF CommittedIsInstalled
      <4>3. ~(q.ecu = p.ecu /\ q.cluster = p.cluster)
        BY <3>2, <1>2 DEF StepsUpgrade, Target
      <4> QED BY <4>2, <4>3, <1>2, <2>7, Registered DEF Installed, WithPackageOf
    <3> QED BY <3>1, <3>2
  <2>5. CommittedIsInstalled'
    BY <2>4, <1>2 DEF CommittedIsInstalled
  <2>6. OutcomeIsEverywhere'
    BY <2>4, <1>2, <1>4 DEF OutcomeIsEverywhere, AllCommitted, Installed
  <2> QED BY <2>2, <2>3, <2>5, <2>6
<1> QED BY <1>1, <1>3, <1>4

-----------------------------------------------------------------------------
(* The theorems.                                                             *)

LEMMA NextCampaign == CampaignInv /\ [VehicleNext]_campaignVars => CampaignInv'
<1> SUFFICES ASSUME CampaignInv, [VehicleNext]_campaignVars PROVE CampaignInv'
  OBVIOUS
<1>1. CASE UNCHANGED campaignVars
  BY <1>1 DEF campaignVars, observers, CampaignInv, CampaignTypeOK, StepsUpgrade, CommittedIsInstalled,
              OutcomeIsEverywhere, Installed, Target, Targeted
<1>2. CASE VehicleNext
  <2>1. ASSUME NEW request \in Requests, PlanCampaign(request), UNCHANGED needsConfirmation
        PROVE  CampaignInv'
    BY <2>1, PlanCampaignInv
  <2>2. ASSUME NEW v, ActivateCampaign(v), UNCHANGED needsConfirmation
        PROVE  CampaignInv'
    BY <2>2, ActivateCampaignInv
  <2>3. ASSUME NEW e \in Ecus, NEW healthy \in BOOLEAN, ConfirmEcuHealth(e, healthy),
               UNCHANGED needsConfirmation
        PROVE  CampaignInv'
    BY <2>3, ConfirmCampaign
  <2>4. ASSUME AbortAndRollback, UNCHANGED needsConfirmation
        PROVE  CampaignInv'
    BY <2>4, RollBackCampaign DEF AbortAndRollback, observers
  <2>5. ASSUME NEW e \in Ecus, NEW record \in Inventories, RegisterEcu(e, record),
               UNCHANGED needsConfirmation
        PROVE  CampaignInv'
    BY <2>5, RegisterCampaign
  <2> QED BY <1>2, <2>1, <2>2, <2>3, <2>4, <2>5 DEF VehicleNext, CampaignNext, CampaignSteps
<1> QED BY <1>1, <1>2

LEMMA CampaignInvariant == CampaignSpec => []CampaignInv
BY InitCampaign, NextCampaign, PTL DEF CampaignSpec

(* The inventory, the campaign and its steps keep their types; every ECU of  *)
(* the campaign is registered.                                               *)
THEOREM CampaignTypeCorrect == CampaignSpec => []CampaignTypeOK
<1>1. CampaignInv => CampaignTypeOK
  BY DEF CampaignInv
<1> QED BY <1>1, CampaignInvariant, PTL

(* A committed campaign is installed on every ECU it targets, a rolled back  *)
(* one is rolled back on every ECU, whatever campaigns came before, in       *)
(* whatever order health is confirmed and whichever ECUs register anew.      *)
THEOREM OutcomeCorrect == CampaignSpec => []OutcomeIsEverywhere
<1>1. CampaignInv => OutcomeIsEverywhere
  BY DEF CampaignInv
<1> QED BY <1>1, CampaignInvariant, PTL

(* Whatever version a campaign changes, it is by a package that upgrades, as *)
(* texts compare, what was recorded when the campaign was planned; and what  *)
(* is recorded when it is changed, unless the ECU registered in between.     *)
THEOREM UpgradeCorrect == CampaignSpec => CampaignsUpgrade
<1>1. ASSUME CampaignInv, CampaignSteps, NEW e \in Ecus, NEW c \in Clusters, Changed(e, c)
      PROVE  /\ Upgrades(before[e][c], inventory'[e].versions[c])
             /\ e \notin reported =>
                  Upgrades(inventory[e].versions[c], inventory'[e].versions[c])
  <2> DEFINE ByStep == /\ state \in {"Planned", "AwaitingHealthConfirmation"}
                       /\ \E p \in packages : p.ecu = e /\ p.cluster = c
                                               /\ inventory'[e].versions[c] = p.version
             Same == inventory'[e].versions[c] = inventory[e].versions[c]
  <2>1. ASSUME NEW a \in {"Updating", "RecoveryRequired"}, inventory' = AllNow(a)
        PROVE  Same
    <3>1. inventory[e] \in Inventory
      BY <1>1 DEF CampaignInv, CampaignTypeOK, Changed
    <3> QED BY <2>1, <3>1 DEF AllNow, Inventory
  <2>2. ASSUME NEW v, ActivateCampaign(v)
        PROVE  Same \/ ByStep
    BY <1>1, <2>1, <2>2, CommittedAtOnceParts DEF ActivateCampaign
  <2>3. ASSUME NEW f \in Ecus, NEW healthy \in BOOLEAN, ConfirmEcuHealth(f, healthy)
        PROVE  Same \/ ByStep
    <3>1. CASE RollBackAll
      BY <2>1, <3>1 DEF RollBackAll
    <3>2. CASE \E p \in packages : CommitStep(p)
      <4>1. PICK p \in packages : CommitStep(p)
        BY <3>2
      <4>2. WithPackageOf(p)
        BY <1>1, <2>3, <4>1, WithPackageParts DEF CampaignInv, CommitStep, ConfirmEcuHealth
      <4>3. CASE e = p.ecu /\ c = p.cluster
        BY <2>3, <4>2, <4>3 DEF WithPackageOf, ConfirmEcuHealth
      <4>4. CASE ~(e = p.ecu /\ c = p.cluster)
        BY <4>2, <4>4 DEF WithPackageOf
      <4> QED BY <4>3, <4>4
    <3> QED BY <2>3, <3>1, <3>2 DEF ConfirmEcuHealth, RollBackFor
  <2>4. ASSUME AbortAndRollback
        PROVE  Same
    BY <2>1, <2>4 DEF AbortAndRollback, RollBackAll
  <2>5. ByStep
    BY <1>1, <2>2, <2>3, <2>4 DEF CampaignSteps, Changed
  <2>6. PICK p \in packages : /\ p.ecu = e /\ p.cluster = c
                              /\ inventory'[e].versions[c] = p.version
    BY <2>5
  <2>7. inventory[p.ecu].versions[p.cluster] # p.version
    BY <1>1, <2>6 DEF Changed
  <2>8. /\ Upgrades(before[p.ecu][p.cluster], p.version)
        /\ p.ecu \notin reported => Upgrades(inventory[p.ecu].versions[p.cluster], p.version)
    BY <1>1, <2>5, <2>7, StepUpgrades
  <2> QED BY <2>6, <2>8
<1> DEFINE Upgraded ==
      \A e \in Ecus, c \in Clusters : Changed(e, c) /\ CampaignSteps =>
        /\ Upgrades(before[e][c], inventory'[e].versions[c])
        /\ e \notin reported => Upgrades(inventory[e].versions[c], inventory'[e].versions[c])
<1>2. CampaignInv => Upgraded
  BY <1>1
<1> QED BY <1>2, CampaignInvariant, PTL DEF CampaignSpec, CampaignsUpgrade
=============================================================================
