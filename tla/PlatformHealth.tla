--------------------------- MODULE PlatformHealth ---------------------------
(***************************************************************************)
(* openautosar::runtime::phm::PlatformHealthManager: supervised entities    *)
(* with a policy each, what is reported of them, and the recovery action    *)
(* every report asks for.  Only differences of timestamps matter, so the    *)
(* model keeps the time since an entity was last heard, up to MaxSilence,   *)
(* and timestamps never go back.                                            *)
(***************************************************************************)
EXTENDS Integers, Sequences

CONSTANTS
  Entities,      \* supervised entities
  Policy,        \* entity -> its SupervisionPolicy
  Checkpoints,   \* checkpoint names reporters use
  MaxSilence,    \* the longest silence told apart
  None

Actions ==
  {"Ignore", "RestartProcess", "RestartFunctionGroup", "EnterDegradedMode",
   "RequestMachineRestart", "TriggerExternalWatchdog", "RequestSafeState"}

(* What ValidatePolicy lets pass.                                           *)
Policies ==
  {p \in [sequence : Seq(Checkpoints), alive : Nat \ {0}, deadline : Nat \ {0},
          degradedAfter : Nat \ {0}, failedAfter : Nat, maxRestarts : Nat,
          onSequenceError : Actions, onDeadlineMiss : Actions, onDegraded : Actions,
          onFailed : Actions, onTermination : Actions, onExhaustion : Actions,
          onUnavailable : Actions] :
     p.failedAfter >= p.degradedAfter}

Statuses ==
  {"Ok", "MissingCheckpoint", "LogicalSequenceError", "DeadlineMissed", "ProcessTerminated",
   "ResourceExhausted", "ServiceUnavailable", "RestartLimitExceeded"}

Reports ==
  [health : {"Healthy", "Degraded", "Failed"}, status : Statuses, action : Actions,
   missed : Nat, restarts : Nat]

ASSUME PolicyAssumption ==
  /\ MaxSilence \in Nat /\ None \notin Reports
  /\ \A e \in Entities :
       /\ Policy[e] \in Policies
       /\ MaxSilence > Policy[e].deadline
       /\ MaxSilence > Policy[e].failedAfter * Policy[e].alive

VARIABLES
  report,    \* entity -> EntityState.report, None before registration
  next,      \* entity -> next_checkpoint_index
  heard,     \* entity -> whether last_checkpoint_time_ms is set
  silence,   \* entity -> time since then, or since its activation
  inARow     \* observer: entity -> restarts reported since any other report

vars == <<report, next, heard, silence, inARow>>
timeVars == <<next, heard, silence>>

Registered(e) == report[e] # None

Init ==
  /\ report = [e \in Entities |-> None]
  /\ next = [e \in Entities |-> 0]
  /\ heard = [e \in Entities |-> FALSE]
  /\ silence = [e \in Entities |-> 0]
  /\ inARow = [e \in Entities |-> 0]

-----------------------------------------------------------------------------
MakeReport(health, status, action) ==
  [health |-> health, status |-> status, action |-> action, missed |-> 0, restarts |-> 0]

Accepted == MakeReport("Healthy", "Ok", "Ignore")

(* A report other than a restart.                                           *)
Reported(e, r) ==
  /\ report' = [report EXCEPT ![e] = r]
  /\ inARow' = [inARow EXCEPT ![e] = 0]

RegisterEntity(e) ==
  /\ ~Registered(e)
  /\ Reported(e, Accepted)
  /\ silence' = [silence EXCEPT ![e] = 0]
  /\ UNCHANGED <<next, heard>>

(* The deadline is looked at only after a report without a fault.           *)
Late(e) ==
  heard[e] /\ report[e].status = "Ok" /\ silence[e] > Policy[e].deadline

\* Mutated: a late checkpoint does not count as reached.
AdvanceUnlessLate(e, inOrder) ==
  next' = [next EXCEPT ![e] = IF Policy[e].sequence = <<>> \/ ~inOrder \/ Late(e) THEN @
                              ELSE (@ + 1) % Len(Policy[e].sequence)]

(* next_checkpoint_index waits for the checkpoint it names.                 *)
Advance(e, inOrder) ==
  next' = [next EXCEPT ![e] = IF Policy[e].sequence = <<>> \/ ~inOrder THEN @
                              ELSE (@ + 1) % Len(Policy[e].sequence)]

ReportCheckpoint(e, checkpoint) ==
  LET sequence == Policy[e].sequence
      inOrder == sequence # <<>> => checkpoint = sequence[next[e] + 1]
  IN  /\ Registered(e)
      /\ Advance(e, inOrder)
      /\ \/ /\ ~inOrder
            /\ Reported(e, MakeReport("Failed", "LogicalSequenceError", Policy[e].onSequenceError))
            /\ UNCHANGED <<heard, silence>>
         \/ /\ inOrder
            /\ heard' = [heard EXCEPT ![e] = TRUE]
            /\ silence' = [silence EXCEPT ![e] = 0]
            /\ Reported(e, IF Late(e)
                           THEN MakeReport("Degraded", "DeadlineMissed", Policy[e].onDeadlineMiss)
                           ELSE Accepted)

\* Mutated: the window in which the entity fell silent is not counted.
WindowsAfterFirst(e) ==
  IF silence[e] <= Policy[e].alive THEN 0
  ELSE (silence[e] - Policy[e].alive) \div Policy[e].alive

MissedAliveWindows(e) ==
  IF silence[e] <= Policy[e].alive THEN 0
  ELSE ((silence[e] - Policy[e].alive) \div Policy[e].alive) + 1

(* What EvaluateAlive makes of the entity, whatever was reported before.    *)
Judged(e) ==
  LET missed == MissedAliveWindows(e)
      health == CASE missed >= Policy[e].failedAfter -> "Failed"
                  [] missed \in Policy[e].degradedAfter .. Policy[e].failedAfter - 1 -> "Degraded"
                  [] OTHER -> "Healthy"
      action == CASE health = "Failed" -> Policy[e].onFailed
                  [] health = "Degraded" -> Policy[e].onDegraded
                  [] health = "Healthy" -> "Ignore"
      status == IF missed = 0 THEN "Ok" ELSE "MissingCheckpoint"
  IN  [MakeReport(health, status, action) EXCEPT !.missed = missed]

EvaluateAlive(e) ==
  /\ Registered(e)
  /\ Reported(e, Judged(e))
  /\ UNCHANGED timeVars

EvaluateAll ==
  /\ report' = [e \in Entities |-> IF Registered(e) THEN Judged(e) ELSE None]
  /\ inARow' = [e \in Entities |-> 0]
  /\ UNCHANGED timeVars

ReportProcessTermination(e) ==
  /\ Registered(e)
  /\ Reported(e, MakeReport("Failed", "ProcessTerminated", Policy[e].onTermination))
  /\ UNCHANGED timeVars

ReportResourceExhaustion(e) ==
  /\ Registered(e)
  /\ Reported(e, MakeReport("Degraded", "ResourceExhausted", Policy[e].onExhaustion))
  /\ UNCHANGED timeVars

ReportServiceAvailability(e, available) ==
  /\ Registered(e)
  /\ Reported(e, IF available THEN Accepted
                 ELSE MakeReport("Degraded", "ServiceUnavailable", Policy[e].onUnavailable))
  /\ UNCHANGED timeVars

\* Mutated: the restart that spends the limit is not counted.
OverLimitLate(e) == report[e].restarts > Policy[e].maxRestarts

IsOverLimit(e) == report[e].restarts + 1 > Policy[e].maxRestarts

OverLimit(e) ==
  [MakeReport("Failed", "RestartLimitExceeded", Policy[e].onFailed)
     EXCEPT !.restarts = Policy[e].maxRestarts + 1]

OneMore(e) == [report[e] EXCEPT !.restarts = @ + 1]

ReportRestart(e) ==
  /\ Registered(e)
  /\ report' = [report EXCEPT ![e] =
                  IF IsOverLimit(e) THEN OverLimit(e)
                  ELSE OneMore(e)]
  /\ inARow' = [inARow EXCEPT ![e] = IF @ > Policy[e].maxRestarts THEN @ ELSE @ + 1]
  /\ UNCHANGED timeVars

(* Time passes.                                                             *)
Lapse ==
  /\ \E e \in Entities : silence[e] < MaxSilence
  /\ silence' = [e \in Entities |-> IF silence[e] < MaxSilence THEN silence[e] + 1 ELSE MaxSilence]
  /\ UNCHANGED <<report, next, heard, inARow>>

AnyReport(e) ==
  \/ RegisterEntity(e)
  \/ \E checkpoint \in Checkpoints : ReportCheckpoint(e, checkpoint)
  \/ EvaluateAlive(e)
  \/ ReportProcessTermination(e)
  \/ ReportResourceExhaustion(e)
  \/ \E available \in BOOLEAN : ReportServiceAvailability(e, available)
  \/ ReportRestart(e)

Next == (\E e \in Entities : AnyReport(e)) \/ EvaluateAll \/ Lapse

Spec == Init /\ [][Next]_vars

-----------------------------------------------------------------------------
(* Properties.                                                              *)

TypeOK ==
  /\ report \in [Entities -> Reports \cup {None}]
  /\ \A e \in Entities :
       /\ Registered(e) => report[e].restarts <= Policy[e].maxRestarts + 1
       /\ next[e] \in 0 .. Len(Policy[e].sequence)
       /\ next[e] = 0 \/ next[e] < Len(Policy[e].sequence)
       /\ inARow[e] \in 0 .. Policy[e].maxRestarts + 1
  /\ heard \in [Entities -> BOOLEAN]
  /\ silence \in [Entities -> 0 .. MaxSilence]

(* An evaluation fails an entity that was silent for more than its allowed  *)
(* number of windows, whatever was reported meanwhile, and never one that   *)
(* was heard within fewer.                                                  *)
SilenceIsJudged ==
  [][\A e \in Entities :
       LET allowed == Policy[e].failedAfter * Policy[e].alive
       IN  EvaluateAlive(e) \/ (EvaluateAll /\ Registered(e)) =>
             /\ silence[e] > allowed => report'[e].health = "Failed"
             /\ report'[e].health = "Failed" => silence[e] >= allowed]_vars

(* Once restarts follow one another without any other report, more often    *)
(* than allowed, the entity is failed for it and stays so.                  *)
RestartsInARowEscalate ==
  \A e \in Entities :
    inARow[e] > Policy[e].maxRestarts =>
      /\ report[e].status = "RestartLimitExceeded"
      /\ report[e].action = Policy[e].onFailed
=============================================================================
