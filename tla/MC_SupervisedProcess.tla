------------------------ MODULE MC_SupervisedProcess ------------------------
(* A camera whose process reports two checkpoints, and a gateway of which    *)
(* anything is reported and no checkpoint order is asked.                    *)
EXTENDS SupervisedProcess, TLC

CONSTANTS camera, gateway, Started, Alive

Supervise(sequence, alive, deadline, degradedAfter, failedAfter, maxRestarts) ==
  [sequence |-> sequence, alive |-> alive, deadline |-> deadline,
   degradedAfter |-> degradedAfter, failedAfter |-> failedAfter, maxRestarts |-> maxRestarts,
   onSequenceError |-> "RestartProcess", onDeadlineMiss |-> "RestartProcess",
   onDegraded |-> "EnterDegradedMode", onFailed |-> "RequestSafeState",
   onTermination |-> "RestartProcess", onExhaustion |-> "EnterDegradedMode",
   onUnavailable |-> "EnterDegradedMode"]
CameraAndGateway == {camera, gateway}
OnlyCamera == {camera}
TwoNames == {Started, Alive}
TwoPolicies ==
  (camera :> Supervise(<<Started, Alive>>, 2, 1, 1, 2, 1)) @@ (gateway :> Supervise(<<>>, 1, 2, 1, 3, 0))
=============================================================================
