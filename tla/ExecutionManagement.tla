------------------------ MODULE ExecutionManagement ------------------------
(***************************************************************************)
(* openautosar::runtime::ExecutionManager with the DryRunProcessLauncher it *)
(* owns: the processes, their restart budgets, and the machine's function   *)
(* group state.  Both keep their data by process name, so one record per    *)
(* process holds the manager's half (state, restarts, launched) and the     *)
(* launcher's half (active, instances).  Calls are serialised and the       *)
(* launcher is synchronous: Starting and Terminating are never seen from    *)
(* outside.                                                                 *)
(***************************************************************************)
EXTENDS Integers

CONSTANTS
  Processes,     \* process names
  MaxRestarts,   \* resource_policy.max_restarts of each process
  Launchable     \* processes whose launch specification the launcher accepts

ASSUME RestartsAssumption == MaxRestarts \in [Processes -> Nat]
ASSUME LaunchableAssumption == Launchable \subseteq Processes

FunctionGroupStates ==
  {"Off", "Startup", "DrivingReady", "Diagnostic", "Parking", "Update",
   "Degraded", "Shutdown"}

VARIABLES
  procs,          \* processes_ and the launcher's records_ and active_records_
  functionGroup   \* function_group_

emVars == <<procs, functionGroup>>

Process ==
  [state : {"Unregistered", "Declared", "Running", "Stopped", "Failed"},
   restarts : Nat,        \* restart_count: every start, the first included
   launched : BOOLEAN,    \* last_launch.has_value()
   active : BOOLEAN,      \* the launcher has an active record of this name
   instances : Nat]       \* records of this name still in the state Running

Unregistered ==
  [state |-> "Unregistered", restarts |-> 0, launched |-> FALSE,
   active |-> FALSE, instances |-> 0]

EMInit ==
  /\ procs = [p \in Processes |-> Unregistered]
  /\ functionGroup = "Off"

-----------------------------------------------------------------------------
Declared(r) == IF r.state = "Unregistered" THEN [r EXCEPT !.state = "Declared"] ELSE r

(* DryRunProcessLauncher::Launch adds a running record and makes it the     *)
(* active one of its name, whatever was active before.                      *)
Launched(r) == [r EXCEPT !.active = TRUE, !.instances = @ + 1]

\* Mutated: a process that was stopped gets a new budget.
ExhaustedRunning(r, p) == r.restarts > MaxRestarts[p] /\ r.state # "Stopped"

Exhausted(r, p) == r.restarts > MaxRestarts[p]

(* The record of p after StartProcess(p), which succeeds iff it is Running. *)
Started(r, p) ==
  CASE r.state \in {"Unregistered", "Running"} -> r
    [] r.state \notin {"Unregistered", "Running"} /\ Exhausted(r, p) ->
         [r EXCEPT !.state = "Failed"]
    [] OTHER ->
         LET counted == [r EXCEPT !.restarts = @ + 1]
         IN  IF p \in Launchable
             THEN [Launched(counted) EXCEPT !.state = "Running", !.launched = TRUE]
             ELSE [counted EXCEPT !.state = "Failed"]

\* Mutated: the launcher is not told to stop the process.
StoppedUntold(r) == IF r.state = "Unregistered" THEN r ELSE [r EXCEPT !.state = "Stopped"]

(* The record after StopProcess, which succeeds iff it is Stopped.  The     *)
(* launcher is asked once there was a launch, and fails on a name that has  *)
(* no active record: a process that failed for its budget cannot be stopped.*)
Stopped(r) ==
  CASE r.state = "Unregistered" -> r
    [] r.state \in {"Declared", "Stopped"} -> [r EXCEPT !.state = "Stopped"]
    [] r.state \in {"Running", "Failed"} /\ r.launched /\ ~r.active ->
         [r EXCEPT !.state = "Failed"]
    [] r.state \in {"Running", "Failed"} /\ r.launched /\ r.active ->
         [r EXCEPT !.state = "Stopped", !.active = FALSE, !.instances = @ - 1]
    [] OTHER -> [r EXCEPT !.state = "Stopped"]

(* IsAllowedTransition *)
AllowedFrom(current) ==
  CASE current = "Off"          -> {"Startup"}
    [] current = "Startup"      -> {"DrivingReady", "Diagnostic", "Degraded"}
    [] current = "DrivingReady" -> {"Parking", "Degraded"}
    [] current = "Diagnostic"   -> {"Parking"}
    [] current = "Parking"      -> {"DrivingReady", "Diagnostic", "Update"}
    [] current = "Update"       -> {"Parking"}
    [] current = "Degraded"     -> {"DrivingReady", "Parking"}
    [] current = "Shutdown"     -> {}

IsAllowedTransition(current, next) ==
  next = current \/ next = "Shutdown" \/ next \in AllowedFrom(current)

-----------------------------------------------------------------------------
RegisterProcess(p) ==
  /\ procs[p].state = "Unregistered"
  /\ procs' = [procs EXCEPT ![p] = Declared(@)]
  /\ UNCHANGED functionGroup

(* Both calls may fail; they then leave the record Failed.                  *)
StartProcess(p) ==
  /\ procs[p].state # "Unregistered"
  /\ procs' = [procs EXCEPT ![p] = Started(@, p)]
  /\ UNCHANGED functionGroup

StopProcess(p) ==
  /\ procs[p].state # "Unregistered"
  /\ procs' = [procs EXCEPT ![p] = Stopped(@)]
  /\ UNCHANGED functionGroup

TransitionFunctionGroup(next) ==
  /\ IsAllowedTransition(functionGroup, next)
  /\ functionGroup' = next
  /\ UNCHANGED procs

EMNext ==
  \/ \E p \in Processes : RegisterProcess(p) \/ StartProcess(p) \/ StopProcess(p)
  \/ \E next \in FunctionGroupStates : TransitionFunctionGroup(next)

EMSpec == EMInit /\ [][EMNext]_emVars

-----------------------------------------------------------------------------
(* Properties.                                                              *)

EMTypeOK ==
  /\ procs \in [Processes -> Process]
  /\ functionGroup \in FunctionGroupStates

(* What the manager believes is what the launcher runs: a process is        *)
(* Running exactly while the launcher holds one running instance of it, its *)
(* active one, so no instance is ever orphaned by a failed stop, a relaunch *)
(* or an exhausted budget, and none survives in a state that hides it.      *)
LauncherAgrees ==
  \A p \in Processes :
    LET r == procs[p] IN
    /\ r.state = "Running" <=> r.active
    /\ r.instances = IF r.active THEN 1 ELSE 0
    /\ r.active => r.launched

(* However starts, stops and restarts mix, a process is launched at most    *)
(* once more than its restart budget in its whole life.                     *)
BudgetRespected ==
  \A p \in Processes :
    /\ procs[p].restarts <= MaxRestarts[p] + 1
    /\ procs[p].instances <= procs[p].restarts

(* A process that has spent its budget and is down stays down.              *)
BudgetIsFinal ==
  [][\A p \in Processes :
       procs[p].restarts > MaxRestarts[p] /\ ~procs[p].active
         => ~procs'[p].active]_emVars
=============================================================================
