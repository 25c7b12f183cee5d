-------------------------- MODULE StateManagement --------------------------
(***************************************************************************)
(* openautosar::runtime::state::StateManager: function groups whose         *)
(* transitions start, stop and restart processes through the Execution      *)
(* Manager, which keeps one machine-wide function group state for all of    *)
(* them.  A request is applied as a whole: its process actions in order,    *)
(* up to the first required one that fails, then the transition or the      *)
(* failure state.  What earlier actions did is not undone.                  *)
(***************************************************************************)
EXTENDS ExecutionManagement, SequencesExt

CONSTANTS
  Groups,        \* function group names
  Policy,        \* the definition of each group
  Wanted,        \* states clients ask for
  Priorities,    \* the ranks of the request priorities in use
  MaxPending     \* bound on requests waiting at a time

(* What a transition does to a process, and a transition.                   *)
Action == [process : Processes, kind : {"Start", "Stop", "Restart"}, required : BOOLEAN]
Transition ==
  [from : FunctionGroupStates, to : FunctionGroupStates, actions : Seq(Action),
   degrade : BOOLEAN, failure : FunctionGroupStates]

ASSUME GroupsAssumption ==
  \A g \in Groups :
    /\ Policy[g].initial \in FunctionGroupStates
    /\ Policy[g].allowed \subseteq FunctionGroupStates
    /\ Policy[g].transitions \in Seq(Transition)
ASSUME RequestAssumption ==
  Wanted \subseteq FunctionGroupStates /\ Priorities \subseteq Nat /\ MaxPending \in Nat

VARIABLES
  registered,   \* the groups in function_groups_
  groupState,   \* FunctionGroupRecord::state
  pendingRequests, \* pending_requests_, in the order of their sequence numbers
  last          \* history_.back()

groupVars == <<registered, groupState, pendingRequests, last>>
smVars == <<procs, functionGroup, groupVars>>

Request == [group : Groups, want : Wanted, priority : Priorities]
NoRecord == [none |-> "record"]

SMInit ==
  /\ EMInit
  /\ registered = {}
  /\ groupState = [g \in Groups |-> Policy[g].initial]
  /\ pendingRequests = <<>>
  /\ last = NoRecord

-----------------------------------------------------------------------------
(* ValidateDefinition *)
ValidDefinition(d) ==
  /\ d.allowed # {} /\ d.initial \in d.allowed /\ d.transitions # <<>>
  /\ \A i \in 1 .. Len(d.transitions) :
       LET t == d.transitions[i] IN
       /\ {t.from, t.to} \subseteq d.allowed
       /\ t.degrade => t.failure \in d.allowed

(* Only the first group must start where the Execution Manager is.          *)
RegisterFunctionGroup(g) ==
  /\ ValidDefinition(Policy[g])
  /\ g \notin registered
  /\ registered = {} => functionGroup = Policy[g].initial
  /\ registered' = registered \cup {g}
  /\ groupState' = [groupState EXCEPT ![g] = Policy[g].initial]
  /\ UNCHANGED <<procs, functionGroup, pendingRequests, last>>

SubmitStateRequest(g, want, priority) ==
  /\ g \in registered
  /\ Len(pendingRequests) < MaxPending
  /\ pendingRequests' = Append(pendingRequests, [group |-> g, want |-> want, priority |-> priority])
  /\ UNCHANGED <<procs, functionGroup, registered, groupState, last>>

-----------------------------------------------------------------------------
(* ApplyProcessAction: the record of the process afterwards, and whether    *)
(* the action succeeded.  A restart whose stop fails does not start.        *)
Acted(r, a) ==
  CASE a.kind = "Start" -> Started(r, a.process)
    [] a.kind = "Stop"  -> Stopped(r)
    [] a.kind = "Restart" ->
         IF Stopped(r).state = "Stopped" THEN Started(Stopped(r), a.process)
         ELSE Stopped(r)

Succeeded(r, a) == r.state = IF a.kind = "Stop" THEN "Stopped" ELSE "Running"

(* The processes after the first i actions.                                 *)
After(actions) ==
  LET after[i \in 0 .. Len(actions)] ==
        IF i = 0 THEN procs
        ELSE [after[i - 1] EXCEPT ![actions[i].process] = Acted(@, actions[i])]
  IN  after

\* Mutated: a failed action never stops the transition.
StopsNever(after, a) == FALSE

StopsAt(after, a) == a.required /\ ~Succeeded(after[a.process], a)

(* FindTransition: the first one from the group's state to the wanted one.  *)
Leading(g, want) ==
  {i \in DOMAIN Policy[g].transitions :
     Policy[g].transitions[i].from = groupState[g] /\ Policy[g].transitions[i].to = want}
FindTransition(g, want) == Policy[g].transitions[Min(Leading(g, want))]

(* The TransitionRecord stored last.                                        *)
TransitionRecord(g, want, accepted, completed) ==
  [group |-> g, want |-> want, resulting |-> groupState'[g],
   accepted |-> accepted, completed |-> completed]

\* Mutated: the group enters its failure state and the machine stays behind.
FailureStateOfGroupOnly(g, t) ==
  /\ UNCHANGED functionGroup
  /\ IF t.degrade /\ IsAllowedTransition(functionGroup, t.failure)
     THEN groupState' = [groupState EXCEPT ![g] = t.failure]
     ELSE UNCHANGED groupState

(* EnterFailureState *)
EnterFailureState(g, t) ==
  IF /\ t.degrade
     /\ groupState[g] # t.failure
     /\ IsAllowedTransition(functionGroup, t.failure)
  THEN /\ functionGroup' = t.failure
       /\ groupState' = [groupState EXCEPT ![g] = t.failure]
  ELSE UNCHANGED <<functionGroup, groupState>>

(* The group moves with the machine, if every required action succeeded and *)
(* the Execution Manager accepts the move from where the machine is.        *)
Transit(g, t) ==
  LET actions == t.actions
      after == After(actions)
      stops == {i \in 1 .. Len(actions) : StopsAt(after[i], actions[i])}
      reached == IF stops = {} THEN Len(actions)
                 ELSE Min(stops)
      moves == stops = {} /\ IsAllowedTransition(functionGroup, t.to)
  IN  /\ procs' = after[reached]
      /\ IF moves
         THEN /\ functionGroup' = t.to
              /\ groupState' = [groupState EXCEPT ![g] = t.to]
         ELSE EnterFailureState(g, t)
      /\ last' = TransitionRecord(g, t.to, TRUE, moves)

(* ApplyRequest *)
ApplyRequest(g, want) ==
  \/ /\ g \notin registered
     /\ UNCHANGED <<procs, functionGroup, groupState, last>>
  \/ /\ g \in registered
     /\ \/ groupState[g] = want
        \/ Leading(g, want) = {}
     /\ UNCHANGED <<procs, functionGroup, groupState>>
     /\ last' = TransitionRecord(g, want, groupState[g] = want, groupState[g] = want)
  \/ /\ g \in registered
     /\ groupState[g] # want
     /\ Leading(g, want) # {}
     /\ Transit(g, FindTransition(g, want))

RequestFunctionGroupState(g, want) ==
  ApplyRequest(g, want) /\ UNCHANGED <<registered, pendingRequests>>

\* Mutated: of equal priority, the latest request wins.
OutranksLatest(i, j) ==
  \/ pendingRequests[i].priority > pendingRequests[j].priority
  \/ pendingRequests[i].priority = pendingRequests[j].priority /\ i > j

(* The highest priority wins, and within it the lowest sequence number.     *)
Outranks(i, j) ==
  \/ pendingRequests[i].priority > pendingRequests[j].priority
  \/ pendingRequests[i].priority = pendingRequests[j].priority /\ i < j

ApplyNextRequest ==
  \E i \in 1 .. Len(pendingRequests) :
    /\ \A j \in 1 .. Len(pendingRequests) : j # i => Outranks(i, j)
    /\ pendingRequests' = RemoveAt(pendingRequests, i)
    /\ ApplyRequest(pendingRequests[i].group, pendingRequests[i].want)
    /\ UNCHANGED registered

SMNext ==
  \/ \E p \in Processes : RegisterProcess(p) /\ UNCHANGED groupVars
  \/ \E g \in Groups : RegisterFunctionGroup(g)
  \/ \E g \in Groups, want \in Wanted, priority \in Priorities :
       SubmitStateRequest(g, want, priority)
  \/ \E g \in Groups, want \in Wanted : RequestFunctionGroupState(g, want)
  \/ ApplyNextRequest

SMSpec == SMInit /\ [][SMNext]_smVars

-----------------------------------------------------------------------------
(* Properties.                                                              *)

SMTypeOK ==
  /\ EMTypeOK
  /\ registered \subseteq Groups
  /\ groupState \in [Groups -> FunctionGroupStates]
  /\ pendingRequests \in Seq(Request) /\ Len(pendingRequests) <= MaxPending
  /\ last # NoRecord =>
       last.group \in registered /\ last.resulting = groupState[last.group]

(* Groups share one machine state: a group moves only together with the     *)
(* machine, along a transition of its own policy or into the failure state  *)
(* of one, and only if the machine may go there from where it is.           *)
GroupFollowsPolicy ==
  [][\A g \in registered : groupState'[g] # groupState[g] =>
       /\ functionGroup' = groupState'[g]
       /\ IsAllowedTransition(functionGroup, groupState'[g])
       /\ \E i \in 1 .. Len(Policy[g].transitions) :
            LET t == Policy[g].transitions[i] IN
            /\ t.from = groupState[g]
            /\ groupState'[g] \in {t.to} \cup (IF t.degrade THEN {t.failure} ELSE {})]_smVars

CompletedMeansDone(g) ==
  LET actions == FindTransition(g, groupState'[g]).actions IN
  \A i \in 1 .. Len(actions) :
    LET a == actions[i] IN
    a.required /\ (\A j \in i + 1 .. Len(actions) : actions[j].process # a.process)
      => procs'[a.process].active = (a.kind # "Stop")

RefusedForCause(g, want) ==
  LET actions == FindTransition(g, want).actions IN
  \/ ~IsAllowedTransition(functionGroup, want)
  \/ \E i \in 1 .. Len(actions) :
       /\ actions[i].required
       /\ procs'[actions[i].process].state \in {"Failed", "Unregistered"}

(* What is reported of a transition is so.  If completed, every process it  *)
(* must start is running and every process it must stop is down at the      *)
(* launcher, unless a later action of it says otherwise.  If accepted and   *)
(* not completed, a required action was on a process that is now Failed or  *)
(* was never registered, or the machine could not make the move: an         *)
(* optional action never holds a transition back.                           *)
OutcomesAreHonest ==
  [][/\ \A g \in registered :
          groupState'[g] # groupState[g] /\ last'.completed => CompletedMeansDone(g)
     /\ last' # last /\ last'.accepted /\ ~last'.completed =>
          RefusedForCause(last'.group, last'.want)]_smVars

-----------------------------------------------------------------------------
(* The platform keeps applying the requests it has queued.                  *)
SMFairSpec == SMSpec /\ WF_smVars(ApplyNextRequest)

(* A queued request of the highest priority is applied, however many more   *)
(* requests, of its own priority too, keep arriving behind it.              *)
UrgentServed ==
  \A g \in Groups, want \in Wanted :
    (\E i \in 1 .. Len(pendingRequests) :
       /\ pendingRequests[i].group = g /\ pendingRequests[i].want = want
       /\ \A q \in Priorities : q <= pendingRequests[i].priority)
      ~> (last # NoRecord /\ last.group = g /\ last.want = want)
=============================================================================
