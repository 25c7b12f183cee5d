------------------------- MODULE MC_StateManagement -------------------------
(* Instances of StateManagement: the reference model of the state manager's  *)
(* unit test, with its two processes, and a machine group that shares the    *)
(* machine with a second group.                                              *)
EXTENDS StateManagement

Starts(p, required) == [process |-> p, kind |-> "Start", required |-> required]
Stops(p, required) == [process |-> p, kind |-> "Stop", required |-> required]
Restarts(p, required) == [process |-> p, kind |-> "Restart", required |-> required]
Move(from, to, actions) ==
  [from |-> from, to |-> to, actions |-> actions, degrade |-> FALSE, failure |-> "Degraded"]
DegradingMove(from, to, actions) ==
  [Move(from, to, actions) EXCEPT !.degrade = TRUE]

(* ReferenceModel() of tests/unit/state_management_test.cpp.                 *)
ReferenceModel ==
  [initial |-> "Off",
   allowed |-> FunctionGroupStates,
   transitions |-> <<
     Move("Off", "Startup", <<>>),
     DegradingMove("Startup", "DrivingReady",
                   <<Starts("provider", TRUE), Starts("dashboard", TRUE)>>),
     Move("Startup", "Degraded", <<>>),
     Move("Startup", "Diagnostic", <<>>),
     Move("DrivingReady", "Degraded",
          <<Restarts("provider", TRUE), Stops("dashboard", FALSE)>>),
     Move("Degraded", "Parking", <<Stops("provider", FALSE)>>),
     Move("Parking", "Update", <<Stops("provider", FALSE)>>),
     Move("Update", "Parking", <<Starts("provider", TRUE)>>),
     Move("Parking", "DrivingReady", <<Starts("dashboard", FALSE)>>),
     Move("Parking", "Shutdown",
          <<Stops("provider", FALSE), Stops("dashboard", FALSE)>>)>>]

(* A second group over the same machine and the same provider, and a process *)
(* that the launcher refuses and that the group does not insist on.          *)
ServiceGroup ==
  [initial |-> "Startup",
   allowed |-> {"Startup", "DrivingReady", "Degraded", "Shutdown"},
   transitions |-> <<
     DegradingMove("Startup", "DrivingReady",
                   <<Starts("refused", FALSE), Restarts("provider", TRUE)>>),
     Move("DrivingReady", "Degraded", <<Stops("provider", TRUE), Stops("refused", FALSE)>>),
     Move("Degraded", "Shutdown", <<Stops("provider", FALSE)>>)>>]

ReferenceGroups == {"MachineFG"}
ReferencePolicy == [g \in ReferenceGroups |-> ReferenceModel]
SharingGroups == {"MachineFG", "ServiceFG"}
SharingPolicy ==
  [g \in SharingGroups |-> IF g = "MachineFG" THEN ReferenceModel ELSE ServiceGroup]
BothProcesses == {"provider", "dashboard"}
ThreeProcesses == BothProcesses \cup {"refused"}
NoRestart == [p \in BothProcesses |-> 0]
OneRestart == [p \in ThreeProcesses |-> IF p = "refused" THEN 0 ELSE 1]
AllStates == FunctionGroupStates
UrgentStates == {"Startup", "Degraded"}
TwoPriorities == {1, 2}
OnePriority == {1}

(* While one group is registered the state it reports is the machine's,     *)
(* whichever action failed and whether or not a failure state was entered.  *)
(* In its update window the provider is down, and in Shutdown everything is: *)
(* no start, failed restart or exhausted budget on the way there leaves an   *)
(* instance running, although no transition requires its stops to succeed.   *)
(* A second group may start the provider in the window: its actions come     *)
(* before the move they belong to is refused.                                *)
WindowsAreQuiet ==
  /\ Cardinality(registered) = 1 =>
       \A g \in registered : groupState[g] = functionGroup
  /\ registered = {"MachineFG"} =>
       /\ functionGroup = "Update" => ~procs["provider"].active
       /\ functionGroup = "Shutdown" => \A p \in Processes : ~procs[p].active
=============================================================================
