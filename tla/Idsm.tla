-------------------------------- MODULE Idsm --------------------------------
(***************************************************************************)
(* openautosar::security::idsm::IdsmManager: security events are made       *)
(* anonymous, aggregated, throttled and, from a severity on, queued for a   *)
(* backend that drains the queue.  Events come late and out of order.       *)
(***************************************************************************)
EXTENDS Integers, Sequences, FiniteSets, FiniteSetsExt

CONSTANTS
  SecurityEvents,      \* events: what they are, the principal, their severity rank
  Policies,            \* IdsmPolicy values
  MaxCount,            \* where counts saturate
  MaxEventTime,        \* timestamps are at most this
  MaxEvents            \* bound on the events recorded

ASSUME IdsmAssumption ==
  /\ MaxCount \in Nat /\ MaxEventTime \in Nat /\ MaxEvents \in Nat
  /\ \A p \in Policies :
       /\ p.max_records \in Nat /\ p.aggregation_window_ms \in Nat
       /\ p.rate_limit_count \in Nat /\ p.rate_limit_window_ms \in Nat

VARIABLES
  idsPolicy,      \* policy_
  records,        \* records_
  backlog,        \* forwarding_queue_
  dropped,        \* dropped_events_
  throttled,      \* throttled_events_
  told,           \* observer: what the queue was last given of each record
  seen,           \* observer: the counts recorded
  forgotten       \* observer: the counts of the records dropped

idsVars == <<idsPolicy, records, backlog, dropped, throttled, told, seen, forgotten>>

IdsInit ==
  /\ idsPolicy \in Policies
  /\ records = <<>> /\ backlog = <<>> /\ dropped = 0 /\ throttled = 0
  /\ told = <<>> /\ seen = 0 /\ forgotten = 0

-----------------------------------------------------------------------------
(* Normalize: principals, and resources too, lose their names.              *)
Key(e) ==
  [what |-> e.what, severity |-> e.severity,
   principal |-> IF idsPolicy.privacy = "Plain" \/ e.principal = "" THEN e.principal ELSE "redacted",
   resource |-> IF idsPolicy.privacy = "RedactIdentifiers" /\ e.resource # "" THEN "redacted" ELSE e.resource]

ElapsedMs(newer, older) == IF newer >= older THEN newer - older ELSE 0
SaturatingAdd(a, b) == IF MaxCount - a < b THEN MaxCount ELSE a + b

\* Mutated: events of the threshold itself stay in the vehicle.
ForwardsAbove(key) == idsPolicy.forwarding /\ key.severity > idsPolicy.threshold

ShouldForward(key) == idsPolicy.forwarding /\ key.severity >= idsPolicy.threshold

(* The records an event may be added to; it is added to the first.          *)
Matches(e, at) ==
  {i \in DOMAIN records :
     records[i].key = Key(e) /\ ElapsedMs(at, records[i].at) <= idsPolicy.aggregation_window_ms}

Throttles(stored, elapsed) ==
  stored.count > idsPolicy.rate_limit_count /\ elapsed <= idsPolicy.rate_limit_window_ms

(* What is queued is the record with all it has counted, not the event; an  *)
(* event from before the record takes its time back.                        *)
Aggregate(i, count, at) ==
  LET stored == [records[i] EXCEPT !.count = SaturatingAdd(@, count), !.at = at]
  IN  /\ records' = [records EXCEPT ![i] = stored]
      /\ \/ /\ Throttles(stored, ElapsedMs(at, records[i].at))
            /\ throttled' = throttled + 1
            /\ UNCHANGED <<backlog, told>>
         \/ /\ ~Throttles(stored, ElapsedMs(at, records[i].at))
            /\ backlog' = IF ShouldForward(stored.key) THEN Append(backlog, stored) ELSE backlog
            /\ told' = IF ShouldForward(stored.key) THEN [told EXCEPT ![i] = stored.count] ELSE told
            /\ UNCHANGED throttled
      /\ UNCHANGED <<dropped, forgotten>>

(* The oldest record makes room, whatever its severity.                     *)
Store(e, count, at) ==
  LET event == [key |-> Key(e), count |-> count, at |-> at]
      full == Len(records) >= idsPolicy.max_records
      forwards == ShouldForward(event.key)
  IN  /\ records' = Append(IF full THEN Tail(records) ELSE records, event)
      /\ told' = Append(IF full THEN Tail(told) ELSE told, IF forwards THEN count ELSE 0)
      /\ backlog' = IF forwards THEN Append(backlog, event) ELSE backlog
      /\ dropped' = IF full THEN dropped + 1 ELSE dropped
      /\ forgotten' = IF full THEN forgotten + Head(records).count ELSE forgotten
      /\ UNCHANGED throttled

(* Without a record budget, and without category and detail, an event is    *)
(* refused; a count of zero means one.                                      *)
Record(e, count, at) ==
  LET n == IF count = 0 THEN 1 ELSE count
  IN  /\ seen < MaxEvents
      /\ idsPolicy.max_records # 0 /\ e.what # ""
      /\ IF Matches(e, at) # {} THEN Aggregate(Min(Matches(e, at)), n, at) ELSE Store(e, n, at)
      /\ seen' = seen + n
      /\ UNCHANGED idsPolicy

DrainForwardingBatch ==
  /\ backlog # <<>>
  /\ backlog' = <<>>
  /\ UNCHANGED <<idsPolicy, records, dropped, throttled, told, seen, forgotten>>

IdsNext ==
  \/ \E e \in SecurityEvents, count \in 0 .. 2, at \in 0 .. MaxEventTime : Record(e, count, at)
  \/ DrainForwardingBatch

IdsSpec == IdsInit /\ [][IdsNext]_idsVars

-----------------------------------------------------------------------------
(* However late or often events come and whatever names are taken from      *)
(* them, every event counts in one record that is kept or was dropped for a *)
(* newer one, none twice, and none is lost to a counter at its limit before *)
(* more events came than a counter holds; and the backend is given all that *)
(* a record at or above the threshold counts until that is more than        *)
(* rate_limit_count.                                                        *)
Accounted == MapThenSumSet(LAMBDA i : records[i].count, DOMAIN records) + forgotten

EventsAreAccounted ==
  /\ Accounted <= seen
  /\ seen <= MaxCount => Accounted = seen
  /\ \A i \in DOMAIN records :
       idsPolicy.forwarding /\ records[i].key.severity >= idsPolicy.threshold
         /\ records[i].count <= idsPolicy.rate_limit_count => told[i] = records[i].count
=============================================================================
