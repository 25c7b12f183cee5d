---------------------------- MODULE AccessPolicy ----------------------------
(***************************************************************************)
(* openautosar::security: what AccessPolicyEngine decides of a request, and *)
(* how SecurityEventCollector aggregates the events it is told of.  A rule  *)
(* lists what it applies to; an empty list applies to everything.           *)
(***************************************************************************)
EXTENDS Integers, Sequences, FiniteSets, FiniteSetsExt

Lists(values, value) == values = {} \/ value \in values

MatchesRule(rule, principal, operation, resources) ==
  /\ Lists(rule.operations, operation)
  /\ \E resource \in resources : Lists(rule.resources, resource)
  /\ Lists(rule.principals, principal.id)
  /\ rule.roles = {} \/ rule.roles \cap principal.roles # {}
  /\ rule.authenticated => principal.authenticated
  /\ principal.remote => rule.remote

Decision(decision, reason) == [decision |-> decision, reason |-> reason]

(* A rule that denies wins over every rule that allows, wherever it stands; *)
(* the first rule that denies and the last that allows give the reason.     *)
Authorize(policy, rules, principal, operation, resources) ==
  LET matching == {i \in DOMAIN rules : MatchesRule(rules[i], principal, operation, resources)}
      denying == {i \in matching : rules[i].decision = "Deny"}
  IN  IF policy.production /\ ~principal.authenticated
      THEN Decision("Deny", "unauthenticated in production")
      ELSE IF principal.remote /\ operation = "Diagnostic" /\ ~policy.remoteDiagnostics
      THEN Decision("Deny", "remote diagnostics")
      ELSE IF denying # {} THEN Decision("Deny", rules[Min(denying)].reason)
      ELSE IF matching # {} THEN Decision("Allow", rules[Max(matching)].reason)
      ELSE Decision(policy.default, "no matching rule")

-----------------------------------------------------------------------------
Elapsed(newer, older) == IF newer >= older THEN newer - older ELSE 0

(* The stored events an event is added to: the first with its key that is   *)
(* not too old.                                                             *)
Aggregating(events, key, at, window) ==
  {i \in DOMAIN events : events[i].key = key /\ Elapsed(at, events[i].at) <= window}

\* Mutated: an event that is added to another one replaces it.
RecordedAfresh(events, key, at, window, maxEvents) ==
  LET same == Aggregating(events, key, at, window)
      event == [key |-> key, count |-> 1, at |-> at]
  IN  IF same # {} THEN [events EXCEPT ![Min(same)] = event]
      ELSE Append(IF Len(events) >= maxEvents THEN Tail(events) ELSE events, event)

(* For a collector that may keep an event: one with max_events 0 erases the *)
(* first event of none.                                                     *)
Recorded(events, key, at, window, maxEvents) ==
  LET same == Aggregating(events, key, at, window)
      event == [key |-> key, count |-> 1, at |-> at]
  IN  IF same # {}
      THEN [events EXCEPT ![Min(same)] = [event EXCEPT !.count = events[Min(same)].count + 1]]
      ELSE Append(IF Len(events) >= maxEvents THEN Tail(events) ELSE events, event)
=============================================================================
