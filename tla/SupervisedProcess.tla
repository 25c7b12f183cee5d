------------------------- MODULE SupervisedProcess -------------------------
(***************************************************************************)
(* Platform health management with the processes it supervises: a process   *)
(* goes through its checkpoints in their order, over and over; it may       *)
(* terminate at any place, and starts again at the first checkpoint.        *)
(* Evaluations, resource and availability reports come at any time.  Of the *)
(* other entities anything may be reported in any order.                    *)
(***************************************************************************)
EXTENDS PlatformHealth

CONSTANTS
  Processes,      \* the entities whose process is modelled
  MaxFruitless    \* bound on restarts without an accepted checkpoint

ASSUME ProcessAssumption ==
  /\ Processes \subseteq Entities /\ MaxFruitless \in Nat
  /\ \A e \in Processes : Policy[e].sequence # <<>>

VARIABLES
  place,       \* entity -> index of the checkpoint its process reaches next, 0 while down
  crashed,     \* observer: entity -> its process terminated at least once
  blamed,      \* observer: entity -> sequence errors since it was started
  fruitless,   \* observer: entity -> restarts since a checkpoint was accepted
  escalated    \* observer: entity -> the restart limit was reported since then

processVars == <<place, crashed, blamed, fruitless, escalated>>
supervisedVars == <<vars, processVars>>

ProcessInit ==
  /\ Init
  /\ place = [e \in Processes |-> 0]
  /\ crashed = [e \in Processes |-> FALSE]
  /\ blamed = [e \in Processes |-> 0]
  /\ fruitless = [e \in Processes |-> 0]
  /\ escalated = [e \in Processes |-> FALSE]

(* A process is started when it is registered.                              *)
Starts(e) ==
  /\ RegisterEntity(e)
  /\ place' = [place EXCEPT ![e] = 1]
  /\ UNCHANGED <<crashed, blamed, fruitless, escalated>>

Reaches(e) ==
  LET sequence == Policy[e].sequence
      accepted == report'[e].status = "Ok"
      outOfOrder == report'[e].status = "LogicalSequenceError"
  IN  /\ place[e] # 0
      /\ ReportCheckpoint(e, sequence[place[e]])
      /\ place' = [place EXCEPT ![e] = (@ % Len(sequence)) + 1]
      /\ blamed' = [blamed EXCEPT ![e] = IF outOfOrder /\ @ < Len(sequence) THEN @ + 1 ELSE @]
      /\ fruitless' = [fruitless EXCEPT ![e] = IF accepted THEN 0 ELSE @]
      /\ escalated' = [escalated EXCEPT ![e] = @ /\ ~accepted]
      /\ UNCHANGED crashed

Terminates(e) ==
  /\ place[e] # 0
  /\ ReportProcessTermination(e)
  /\ place' = [place EXCEPT ![e] = 0]
  /\ crashed' = [crashed EXCEPT ![e] = TRUE]
  /\ UNCHANGED <<blamed, fruitless, escalated>>

StartsAgain(e) ==
  /\ place[e] = 0 /\ fruitless[e] < MaxFruitless
  /\ ReportRestart(e)
  /\ place' = [place EXCEPT ![e] = 1]
  /\ blamed' = [blamed EXCEPT ![e] = 0]
  /\ fruitless' = [fruitless EXCEPT ![e] = @ + 1]
  /\ escalated' = [escalated EXCEPT ![e] = @ \/ report'[e].status = "RestartLimitExceeded"]
  /\ UNCHANGED crashed

(* What others report of it.                                                *)
OthersReport(e) ==
  /\ \/ EvaluateAlive(e)
     \/ ReportResourceExhaustion(e)
     \/ \E available \in BOOLEAN : ReportServiceAvailability(e, available)
  /\ UNCHANGED processVars

(* No process is behind what reaches the manager here.                      *)
Unrelated ==
  /\ \/ \E e \in Entities \ Processes : AnyReport(e)
     \/ EvaluateAll
     \/ Lapse
  /\ UNCHANGED processVars

ProcessNext ==
  \/ \E e \in Processes :
       Starts(e) \/ Reaches(e) \/ Terminates(e) \/ StartsAgain(e) \/ OthersReport(e)
  \/ Unrelated

SupervisedSpec == ProcessInit /\ [][ProcessNext]_supervisedVars

-----------------------------------------------------------------------------
(* A process that never terminated is never accused of a wrong checkpoint   *)
(* order, whatever else is reported of it; one that starts again while a    *)
(* later checkpoint is awaited falls in with the sequence before it has     *)
(* gone through it once.                                                    *)
BlameIsDeserved ==
  \A e \in Processes :
    /\ Registered(e) /\ ~crashed[e] => report[e].status # "LogicalSequenceError"
    /\ blamed[e] < Len(Policy[e].sequence)

(* "repeated failure escalates": a process that was restarted more often    *)
(* than allowed without an accepted checkpoint has been reported as over    *)
(* its restart limit.                                                       *)
CrashLoopEscalates ==
  \A e \in Processes : fruitless[e] > Policy[e].maxRestarts => escalated[e]
=============================================================================
