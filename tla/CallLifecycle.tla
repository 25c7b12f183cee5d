---------------------------- MODULE CallLifecycle ----------------------------
(***************************************************************************)
(* What the service registry promises about method calls, without queues,   *)
(* counters or maps: every call is submitted under an id no other live call *)
(* uses, is taken by the provider, answered at most once, and collected;    *)
(* withdrawing a service ends all its calls at once.  A client's future is  *)
(* settled exactly when its own call is answered or ended, and never again. *)
(***************************************************************************)
CONSTANTS Services, Methods, Corr, Futures, Absent

VARIABLES
  calls,      \* the live calls
  settled     \* what each client's future holds

vars == <<calls, settled>>

Phases == {"pending", "taken", "answered"}
LiveCall == [service : Services, method : Methods, corr : Corr,
             phase : Phases, oneWay : BOOLEAN, future : Futures \cup {Absent}]

Init == calls = {} /\ settled = [f \in Futures |-> "unused"]

Submit(call) ==
  /\ call.phase = "pending"
  /\ call.oneWay => call.future = Absent
  /\ \A other \in calls : other.corr # call.corr
  /\ calls' = calls \cup {call}
  /\ IF call.future = Absent
     THEN UNCHANGED settled
     ELSE /\ settled[call.future] = "unused"
          /\ settled' = [settled EXCEPT ![call.future] = "open"]

Take(call) ==
  /\ call.phase = "pending"
  /\ calls' = (calls \ {call}) \cup
       (IF call.oneWay THEN {} ELSE {[call EXCEPT !.phase = "taken"]})
  /\ UNCHANGED settled

Answer(call) ==
  /\ call.phase = "taken"
  /\ calls' = (calls \ {call}) \cup
       {[call EXCEPT !.phase = "answered", !.future = Absent]}
  /\ IF call.future = Absent
     THEN UNCHANGED settled
     ELSE /\ settled[call.future] = "open"
          /\ settled' = [settled EXCEPT ![call.future] = "value"]

Collect(call) ==
  /\ call.phase = "answered"
  /\ calls' = calls \ {call}
  /\ UNCHANGED settled

Withdraw(s) ==
  LET ended == {call \in calls : call.service = s} IN
  /\ calls' = calls \ ended
  /\ settled' = [f \in Futures |->
       IF \E call \in ended : call.future = f THEN "error" ELSE settled[f]]

Next ==
  \/ \E call \in LiveCall : Submit(call)
  \/ \E call \in calls : Take(call) \/ Answer(call) \/ Collect(call)
  \/ \E s \in Services : Withdraw(s)

Spec == Init /\ [][Next]_vars
=============================================================================
