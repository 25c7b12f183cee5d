--------------------------- MODULE UpdateManager ---------------------------
(***************************************************************************)
(* openautosar::runtime::ucm::UpdateManager over its A/B slot backend, the  *)
(* RaucBackendSimulator.  A package is transferred, verified, staged in the *)
(* inactive slot, activated, and confirmed or rolled back on its health.    *)
(* Any backend operation may be made to fail once.  The manager keeps       *)
(* nothing across a restart, while the slots stay as they were.             *)
(***************************************************************************)
EXTENDS Integers

CONSTANTS
  Clusters,          \* software cluster names
  Packages,          \* packages clients may transfer
  Factory,           \* the package active when the program starts
  FreeBytes,         \* inactive_slot_free_bytes
  MaxBootAttempts,   \* policy_.max_boot_attempts
  MaxBoots,          \* bound on restarts after an activation
  None

(* The size and the signature, signer, compatibility and manifest checks of *)
(* a package do not change: "acceptable" is their conjunction.  A version n *)
(* stands for the text "1.n.0".                                             *)
Package ==
  [cluster : Clusters, version : 1 .. 99, size : Nat, complete : BOOLEAN,
   acceptable : BOOLEAN, dependencies : SUBSET Clusters]

Slots == {"A", "B"}

ASSUME PackagesAssumption ==
  Packages \subseteq Package /\ Factory \in Package /\ None \notin Package \cup Slots
ASSUME PolicyAssumption == FreeBytes \in Nat /\ MaxBootAttempts \in Nat /\ MaxBoots \in Nat

Other(slot) == IF slot = "A" THEN "B" ELSE "A"
Operations == {"InstallInactive", "ActivatePending", "Commit", "Rollback"}
States ==
  {"Idle", "Transferred", "Verified", "Staged", "PendingHealthConfirmation",
   "Committed", "RolledBack", "Rejected", "Failed"}

VARIABLES
  state,             \* state_
  package,           \* pending_package_
  installed,         \* policy_.installed_versions, 0 for none
  activeSlot,        \* status_.active_slot; the inactive slot is the other one
  pendingSlot,       \* status_.pending_slot
  inInactive,        \* status_.installed_in_inactive_slot
  active,            \* status_.active_package
  previous,          \* previous_active_package_
  bootAttempts,      \* status_.boot_attempts_remaining
  failNext,          \* fail_next_
  contents,          \* observer: the package each slot really holds
  boots              \* observer: restarts since the last activation

managerVars == <<state, package, installed>>
backendVars == <<activeSlot, pendingSlot, inInactive, active, previous, bootAttempts, contents>>
vars == <<state, package, installed, activeSlot, pendingSlot, inInactive, active,
          previous, bootAttempts, failNext, contents, boots>>

Init ==
  /\ state = "Idle"
  /\ package = None
  /\ installed = [c \in Clusters |-> IF c = Factory.cluster THEN Factory.version ELSE 0]
  /\ activeSlot = "A" /\ pendingSlot = None /\ inInactive = None
  /\ active = Factory /\ previous = None
  /\ bootAttempts = 0 /\ failNext = None
  /\ contents = [s \in Slots |-> IF s = "A" THEN Factory ELSE None]
  /\ boots = 0

-----------------------------------------------------------------------------
(* The backend.  An operation either happens or, when its one failure is    *)
(* due or its precondition does not hold, leaves the slots alone.           *)

FailNext(op) ==
  /\ failNext' = op
  /\ UNCHANGED <<managerVars, backendVars, boots>>

(* ConsumeFailure *)
FailureDue(op) == failNext = op
ConsumeFailure(op) == failNext' = IF failNext = op THEN None ELSE failNext

\* Mutated: a pending update does not protect the inactive slot.
CanInstallAnyway(p) == ~FailureDue("InstallInactive") /\ p.size <= FreeBytes

CanInstall(p) ==
  /\ ~FailureDue("InstallInactive")
  /\ p.size <= FreeBytes
  /\ pendingSlot = None

InstallInactive(p) ==
  /\ inInactive' = p
  /\ contents' = [contents EXCEPT ![Other(activeSlot)] = p]
  /\ UNCHANGED <<activeSlot, pendingSlot, active, previous, bootAttempts>>

CanActivate ==
  /\ ~FailureDue("ActivatePending")
  /\ inInactive # None
  /\ MaxBootAttempts # 0

ActivatePending ==
  /\ previous' = active
  /\ activeSlot' = Other(activeSlot)
  /\ active' = inInactive
  /\ pendingSlot' = Other(activeSlot)
  /\ bootAttempts' = MaxBootAttempts
  /\ UNCHANGED <<inInactive, contents>>

CanCommit == ~FailureDue("Commit") /\ pendingSlot # None

Commit ==
  /\ pendingSlot' = None /\ inInactive' = None /\ previous' = None
  /\ bootAttempts' = 0
  /\ UNCHANGED <<activeSlot, active, contents>>

\* Mutated: the package is restored but the slots are not swapped back.
RestoreInPlace ==
  /\ active' = previous
  /\ inInactive' = active /\ previous' = None /\ pendingSlot' = None
  /\ bootAttempts' = 0
  /\ UNCHANGED <<activeSlot, contents>>
\* Mutated: the slots are swapped back and the failed package stays active.
RestoreSlot ==
  /\ activeSlot' = Other(activeSlot)
  /\ inInactive' = active /\ previous' = None /\ pendingSlot' = None
  /\ bootAttempts' = 0
  /\ UNCHANGED <<active, contents>>

Restore ==
  /\ activeSlot' = Other(activeSlot)
  /\ inInactive' = active
  /\ active' = previous
  /\ previous' = None /\ pendingSlot' = None
  /\ bootAttempts' = 0
  /\ UNCHANGED contents

(* Rollback with nothing pending only forgets what was staged.              *)
Rollback ==
  \/ /\ pendingSlot # None
     /\ Restore
  \/ /\ pendingSlot = None
     /\ inInactive' = None
     /\ UNCHANGED <<activeSlot, pendingSlot, active, previous, bootAttempts, contents>>

-----------------------------------------------------------------------------
(* The manager.                                                             *)

TransferPackage(p) ==
  /\ state \in {"Idle", "Committed", "RolledBack", "Rejected"}
  /\ \/ /\ ~p.complete
        /\ state' = "Rejected" /\ UNCHANGED package
     \/ /\ p.complete
        /\ state' = "Transferred" /\ package' = p
  /\ UNCHANGED <<installed, backendVars, failNext, boots>>

(* The order of the texts "1.m.0" and "1.n.0", character by character.      *)
TextLess(m, n) ==
  LET first(k) == IF k < 10 THEN k ELSE k \div 10
  IN  \/ first(m) < first(n)
      \/ /\ first(m) = first(n)
         /\ \/ m < 10 /\ n >= 10
            \/ m >= 10 /\ n >= 10 /\ m % 10 < n % 10

IsVersionUpgrade(p) ==
  installed[p.cluster] = 0 \/ TextLess(installed[p.cluster], p.version)

ValidatePackage(p) ==
  /\ p.acceptable
  /\ \A c \in p.dependencies : installed[c] # 0
  /\ IsVersionUpgrade(p)
  /\ p.size <= FreeBytes

VerifyPackage ==
  /\ state = "Transferred" /\ package # None
  /\ state' = IF ValidatePackage(package) THEN "Verified" ELSE "Rejected"
  /\ UNCHANGED <<package, installed, backendVars, failNext, boots>>

StagePackage ==
  /\ state = "Verified" /\ package # None
  /\ ConsumeFailure("InstallInactive")
  /\ \/ CanInstall(package) /\ InstallInactive(package) /\ state' = "Staged"
     \/ ~CanInstall(package) /\ UNCHANGED backendVars /\ state' = "Failed"
  /\ UNCHANGED <<package, installed, boots>>

(* allowed: the machine is in policy_.activation_state.                     *)
Activate(allowed) ==
  /\ state = "Staged"
  /\ \/ /\ ~allowed
        /\ state' = "Rejected"
        /\ UNCHANGED <<backendVars, failNext, boots>>
     \/ /\ allowed
        /\ ConsumeFailure("ActivatePending")
        /\ \/ /\ CanActivate
              /\ ActivatePending
              /\ state' = "PendingHealthConfirmation" /\ boots' = 0
           \/ /\ ~CanActivate
              /\ state' = "Failed" /\ UNCHANGED <<backendVars, boots>>
  /\ UNCHANGED <<package, installed>>

(* Call the backend's Rollback and take its result as the outcome.          *)
RollBack ==
  /\ ConsumeFailure("Rollback")
  /\ \/ ~FailureDue("Rollback") /\ Rollback /\ state' = "RolledBack"
     \/ FailureDue("Rollback") /\ UNCHANGED backendVars /\ state' = "Failed"
  /\ UNCHANGED <<package, installed, boots>>

ConfirmHealth(confirmed) ==
  /\ state = "PendingHealthConfirmation"
  /\ \/ /\ confirmed
        /\ ConsumeFailure("Commit")
        /\ \/ /\ CanCommit
              /\ Commit
              /\ state' = "Committed"
              /\ installed' = IF package = None THEN installed
                              ELSE [installed EXCEPT ![package.cluster] = package.version]
           \/ /\ ~CanCommit
              /\ state' = "Failed" /\ UNCHANGED <<installed, backendVars>>
        /\ UNCHANGED <<package, boots>>
     \/ ~confirmed /\ RollBack

(* Accepted in every state.                                                 *)
AbortAndRollback == RollBack

(* A crash or power loss: the manager starts anew on the slots as they are, *)
(* with the installed versions its owner recorded.                          *)
Restart ==
  /\ boots < MaxBoots
  /\ boots' = boots + 1
  /\ state' = "Idle" /\ package' = None
  /\ UNCHANGED <<installed, backendVars, failNext>>

Next ==
  \/ \E op \in Operations : FailNext(op)
  \/ \E p \in Packages : TransferPackage(p)
  \/ VerifyPackage
  \/ StagePackage
  \/ \E allowed \in BOOLEAN : Activate(allowed)
  \/ \E confirmed \in BOOLEAN : ConfirmHealth(confirmed)
  \/ AbortAndRollback
  \/ Restart

Spec == Init /\ [][Next]_vars

-----------------------------------------------------------------------------
(* Properties.                                                              *)

TypeOK ==
  /\ state \in States
  /\ package \in Packages \cup {None}
  /\ installed \in [Clusters -> 0 .. 99]
  /\ activeSlot \in Slots /\ pendingSlot \in Slots \cup {None}
  /\ inInactive \in Packages \cup {Factory, None}
  /\ active \in Packages \cup {Factory}
  /\ previous \in Packages \cup {Factory, None}
  /\ bootAttempts \in 0 .. MaxBootAttempts
  /\ failNext \in Operations \cup {None}
  /\ contents \in [Slots -> Packages \cup {Factory, None}]
  /\ boots \in 0 .. MaxBoots

(* The package the backend reports as active is the one in the active slot, *)
(* and while an update is on trial the other slot holds, untouched, the     *)
(* package to return to, however stagings, failures and restarts mix.       *)
SlotsTellTheTruth ==
  /\ contents[activeSlot] = active
  /\ pendingSlot # None =>
       /\ pendingSlot = activeSlot
       /\ previous # None
       /\ contents[Other(activeSlot)] = previous

(* Unless health confirmation is awaited, or an operation failed, or the    *)
(* manager restarted meanwhile, no update is on trial: a package never      *)
(* becomes permanent without a confirmation, nor a rollback is reported     *)
(* that did not happen.                                                     *)
NoSilentTrial ==
  pendingSlot # None =>
    state \in {"PendingHealthConfirmation", "Failed"} \/ boots > 0

(* When nothing is on trial, the recorded version of the active package's   *)
(* cluster is the version that runs.                                        *)
VersionsMatch ==
  pendingSlot = None => installed[active.cluster] = active.version

(* All three: what runs, what is on trial and what is recorded agree.       *)
TrialsAreSafe == SlotsTellTheTruth /\ NoSilentTrial /\ VersionsMatch

(* Whatever happened before, an abort whose backend call does not fail ends *)
(* every trial and leaves the machine on the last confirmed package.        *)
AbortRecovers ==
  [][AbortAndRollback /\ failNext # "Rollback" =>
       /\ pendingSlot' = None /\ state' = "RolledBack"
       /\ active' = IF pendingSlot = None THEN active ELSE previous]_vars

(* The slots implement the A/B update.                                      *)
AB == INSTANCE ABUpdate WITH
        Packages <- Packages \cup {Factory},
        running <- active,
        fallback <- IF pendingSlot = None THEN None ELSE previous
UpdatesAreAB == AB!Spec
=============================================================================
