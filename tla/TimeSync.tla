------------------------------ MODULE TimeSync ------------------------------
(***************************************************************************)
(* openautosar::runtime::tnm::TimeManager: one clock domain of an ECU whose *)
(* monotonic clock is a VirtualClock.  Samples of the global time come late *)
(* and out of order; the master's time drifts and jumps.                    *)
(***************************************************************************)
EXTENDS Integers

CONSTANTS
  JumpPolicies,      \* jump_policy the domain may have
  JumpThreshold,     \* jump_threshold_ns
  MaxUncertainty,    \* max_uncertainty_ns
  LossTimeout,       \* loss_of_sync_timeout_ns
  GlobalTimes,       \* global times samples carry
  Uncertainties,     \* uncertainties they carry
  MaxMonotonic,      \* bound on the monotonic clock
  MaxSyncs           \* bound on the samples accepted

(* RegisterClockDomain                                                      *)
ASSUME TimeAssumption ==
  /\ JumpPolicies \subseteq {"Reject", "Degrade", "Accept"}
  /\ JumpThreshold \in Nat /\ MaxUncertainty \in Nat /\ LossTimeout \in Nat \ {0}
  /\ GlobalTimes \subseteq Int /\ Uncertainties \subseteq Nat
  /\ MaxMonotonic \in Nat /\ MaxSyncs \in Nat

VARIABLES
  virtualNow,      \* now_ns_ of the virtual clock
  jumpPolicy,
  hasSample,       \* has_sample
  snapshot,        \* monotonic, global, quality, synchronized
  origin,          \* observer: global time at monotonic time 0 by the first sample
  syncs            \* observer: how many samples were accepted

timeVars == <<virtualNow, jumpPolicy, hasSample, snapshot, origin, syncs>>

TimeInit ==
  /\ virtualNow = 0 /\ jumpPolicy \in JumpPolicies
  /\ hasSample = FALSE
  /\ snapshot = [monotonic |-> 0, global |-> 0, quality |-> "Unsynchronized", synchronized |-> FALSE]
  /\ origin = 0 /\ syncs = 0

(* AdvanceBy and AdvanceTo, which refuses to go back.                       *)
AdvanceTo(next) ==
  /\ next \in virtualNow .. MaxMonotonic
  /\ virtualNow' = next
  /\ UNCHANGED <<jumpPolicy, hasSample, snapshot, origin, syncs>>

-----------------------------------------------------------------------------
\* Mutated: a jump back is not seen.
DifferenceAhead(left, right) == IF left >= right THEN left - right ELSE 0

AbsoluteDifference(left, right) == IF left >= right THEN left - right ELSE right - left

Expected(monotonic) == snapshot.global + (monotonic - snapshot.monotonic)
Jumps(monotonic, global) ==
  hasSample /\ AbsoluteDifference(global, Expected(monotonic)) > JumpThreshold

(* A domain that lost sync with policy Reject still refuses a master that   *)
(* has really jumped.                                                       *)
ObserveTimeSync(monotonic, global, uncertainty) ==
  /\ syncs < MaxSyncs
  /\ hasSample => monotonic >= snapshot.monotonic
  /\ Jumps(monotonic, global) => jumpPolicy # "Reject"
  /\ snapshot' =
       [monotonic |-> monotonic, global |-> global, synchronized |-> TRUE,
        quality |-> IF uncertainty > MaxUncertainty
                         \/ (Jumps(monotonic, global) /\ jumpPolicy = "Degrade")
                    THEN "Degraded" ELSE "Synchronized"]
  /\ hasSample' = TRUE
  /\ origin' = IF hasSample THEN origin ELSE global - monotonic
  /\ syncs' = syncs + 1
  /\ UNCHANGED <<virtualNow, jumpPolicy>>

EvaluateLossOfSync(monotonic) ==
  /\ hasSample /\ monotonic >= snapshot.monotonic
  /\ monotonic - snapshot.monotonic > LossTimeout
  /\ snapshot' = [snapshot EXCEPT !.quality = "LostSync", !.synchronized = FALSE]
  /\ UNCHANGED <<virtualNow, jumpPolicy, hasSample, origin, syncs>>

(* Samples are stamped and evaluations begun before they come through.      *)
TimeNext ==
  \/ \E next \in 0 .. MaxMonotonic : AdvanceTo(next)
  \/ \E monotonic \in 0 .. virtualNow :
       \/ EvaluateLossOfSync(monotonic)
       \/ \E global \in GlobalTimes, uncertainty \in Uncertainties :
            ObserveTimeSync(monotonic, global, uncertainty)

TimeSpec == TimeInit /\ [][TimeNext]_timeVars

-----------------------------------------------------------------------------
TimeTypeOK ==
  /\ virtualNow \in 0 .. MaxMonotonic /\ jumpPolicy \in JumpPolicies
  /\ hasSample \in BOOLEAN
  /\ snapshot \in [monotonic : 0 .. virtualNow, global : Int, synchronized : BOOLEAN,
                    quality : {"Unsynchronized", "Synchronized", "Degraded", "LostSync"}]
  /\ origin \in Int /\ syncs \in 0 .. MaxSyncs

(* A domain that rejects jumps is not led astray, however samples come and  *)
(* whatever sync it loses in between: its time stays on the line of the     *)
(* first sample but for one threshold for each sample accepted since.       *)
DriftIsBounded ==
  jumpPolicy = "Reject" /\ hasSample =>
    LET drift == snapshot.global - (origin + snapshot.monotonic)
        bound == (syncs - 1) * JumpThreshold
    IN  drift <= bound /\ - drift <= bound
=============================================================================
