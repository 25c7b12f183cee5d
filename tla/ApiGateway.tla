----------------------------- MODULE ApiGateway -----------------------------
(***************************************************************************)
(* openautosar::gateway::AutomotiveApiGateway between clients outside the   *)
(* vehicle network and the service registry: routes come and go, rules are  *)
(* added, services come and go, clients ask again and again.  Requests are  *)
(* stamped with the gateway's clock.  Of the service registry the gateway   *)
(* needs whether a service is offered.                                      *)
(***************************************************************************)
EXTENDS AccessPolicy

CONSTANTS
  Routes,           \* routes that may be registered
  Callers,          \* client contexts
  GatewayPolicy,    \* max_routes, max_payload_bytes, max_receipts, requireAuthenticated, rejectRemote
  SecurityPolicy,   \* production, remoteDiagnostics, default
  AccessRules,      \* rules that may be added
  RateWindow,       \* rate_window_ms of the routes
  RateLimit,        \* max_requests_per_window of the routes
  EventBudget,      \* max_events of the collector
  EventWindow,      \* its aggregation_window_ms
  MaxDispatches,    \* bound on the requests made
  MaxGatewayTime    \* bound on the clock

ASSUME GatewayAssumption ==
  /\ GatewayPolicy.max_routes \in Nat \ {0} /\ GatewayPolicy.max_payload_bytes \in Nat \ {0}
  /\ GatewayPolicy.max_receipts \in Nat
  /\ RateWindow \in Nat \ {0} /\ RateLimit \in Nat \ {0}
  /\ EventBudget \in Nat \ {0} /\ EventWindow \in Nat
  /\ MaxDispatches \in Nat /\ MaxGatewayTime \in Nat

VARIABLES
  gatewayClock,
  routes,        \* routes_
  windows,       \* windows_: client and route ids -> start and count
  rules,         \* rules of the access policy engine
  offered,       \* services the registry has on offer
  sequence,      \* next_sequence_
  unauthorized,  \* unauthorized_requests_; the other counters are left out
  receipts,      \* receipts_
  events,        \* events_ of the collector
  passed,        \* observer: requests that got past the rate limit, in order
  displaced      \* observer: count of the events the collector let go

gatewayVars == <<gatewayClock, routes, windows, rules, offered, sequence, unauthorized, receipts,
                 events, passed, displaced>>

Services == {r.service : r \in Routes}
Names == {r.id : r \in Routes}

GatewayInit ==
  /\ gatewayClock = 1
  /\ routes = <<>> /\ windows = [pair \in {} |-> {}]
  /\ rules = <<>> /\ offered = Services
  /\ sequence = 1 /\ unauthorized = 0 /\ receipts = <<>>
  /\ events = <<>> /\ passed = <<>> /\ displaced = 0

-----------------------------------------------------------------------------
IsValidService(service) == service # "none"
ValidateRoute(r) == r.id # "" /\ IsValidService(r.service) /\ r.max_payload_bytes # 0

FindRouteIndex(id) == {i \in DOMAIN routes : routes[i].id = id}
FindPathIndex(path) == {i \in DOMAIN routes : routes[i].path = path}

RegisterRoute(r) ==
  /\ ValidateRoute(r)
  /\ Len(routes) < GatewayPolicy.max_routes
  /\ FindRouteIndex(r.id) = {} /\ FindPathIndex(r.path) = {}
  /\ routes' = Append(routes, r)
  /\ UNCHANGED <<gatewayClock, windows, rules, offered, sequence, unauthorized, receipts, events,
                 passed, displaced>>

\* Mutated: a route takes its windows with it.
ForgetWindows(id) == [pair \in {p \in DOMAIN windows : p[2] # id} |-> windows[pair]]

(* What clients used of their windows outlives the route.                   *)
WindowsAfterRemoval(id) == windows

RemoveRoute(id) ==
  /\ FindRouteIndex(id) # {}
  /\ routes' = SelectSeq(routes, LAMBDA r : r.id # id)
  /\ windows' = WindowsAfterRemoval(id)
  /\ UNCHANGED <<gatewayClock, rules, offered, sequence, unauthorized, receipts, events,
                 passed, displaced>>

-----------------------------------------------------------------------------
ClientId(client) == IF client.id # "" THEN client.id ELSE "anonymous"

(* Authorize *)
Authorization(client, r) ==
  IF (GatewayPolicy.requireAuthenticated \/ r.requireAuthenticated) /\ ~client.authenticated
  THEN Decision("Deny", "unauthenticated")
  ELSE IF GatewayPolicy.rejectRemote /\ client.remote /\ ~r.allow_remote
  THEN Decision("Deny", "remote")
  ELSE Authorize(SecurityPolicy, rules, [client EXCEPT !.id = ClientId(client)],
                 "InvokeGatewayRoute", {r.id, r.access_policy})

Asker(client, r) == <<ClientId(client), r.id>>

(* IsRateLimited; a request from before the window starts a new one too.    *)
NewWindow(client, r) ==
  \/ Asker(client, r) \notin DOMAIN windows
  \/ gatewayClock < windows[Asker(client, r)].start
  \/ gatewayClock - windows[Asker(client, r)].start >= RateWindow
OverLimit(client, r) == ~NewWindow(client, r) /\ windows[Asker(client, r)].count >= RateLimit
Used(client, r) ==
  [pair \in DOMAIN windows \cup {Asker(client, r)} |->
     IF pair # Asker(client, r) THEN windows[pair]
     ELSE IF NewWindow(client, r) THEN [start |-> gatewayClock, count |-> 1]
     ELSE [windows[pair] EXCEPT !.count = @ + 1]]

EffectivePayloadLimit(r) == Min({GatewayPolicy.max_payload_bytes, r.max_payload_bytes})

(* What comes of a request, in the order Dispatch looks.                    *)
DispatchStatus(client, r, payload) ==
  IF ~r.enabled THEN "RouteRejected"
  ELSE IF Authorization(client, r).decision = "Deny" THEN "Unauthorized"
  ELSE IF payload > EffectivePayloadLimit(r) \/ (r.operation = "Publish" /\ payload = 0) THEN "PayloadRejected"
  ELSE IF OverLimit(client, r) THEN "RateLimited"
  ELSE IF r.service \notin offered THEN "ServiceUnavailable"
  ELSE "Accepted"

(* Accept, Block, RecordReceipt, CountBlocked.                              *)
Receipted(status) ==
  LET all == Append(receipts, [sequence |-> sequence, status |-> status])
  IN  /\ sequence' = sequence + 1
      /\ unauthorized' = IF status = "Unauthorized" THEN unauthorized + 1 ELSE unauthorized
      /\ receipts' = IF Len(all) > GatewayPolicy.max_receipts THEN Tail(all) ELSE all

(* RecordAuthorizationFailure *)
Reported(client, r) ==
  LET key == <<ClientId(client), r.id, Authorization(client, r).reason>>
      lets == Len(events) >= EventBudget /\ Aggregating(events, key, gatewayClock, EventWindow) = {}
  IN  /\ events' = Recorded(events, key, gatewayClock, EventWindow, EventBudget)
      /\ displaced' = IF lets THEN displaced + Head(events).count ELSE displaced

DispatchUnknown(id) ==
  /\ sequence <= MaxDispatches
  /\ FindRouteIndex(id) = {}
  /\ Receipted("RouteRejected")
  /\ UNCHANGED <<gatewayClock, routes, windows, rules, offered, events, passed, displaced>>

(* A request that passes the rate limit is counted against it, even if its  *)
(* service turns out not to be there.                                       *)
Dispatch(client, r, payload) ==
  LET status == DispatchStatus(client, r, payload)
  IN  /\ sequence <= MaxDispatches
      /\ \E i \in FindRouteIndex(r.id) : routes[i] = r
      /\ Receipted(status)
      /\ \/ /\ status \in {"Accepted", "ServiceUnavailable"}
            /\ windows' = Used(client, r)
            /\ passed' = Append(passed, [by |-> Asker(client, r), at |-> gatewayClock])
            /\ UNCHANGED <<events, displaced>>
         \/ /\ status = "Unauthorized"
            /\ Reported(client, r)
            /\ UNCHANGED <<windows, passed>>
         \/ /\ status \in {"RouteRejected", "PayloadRejected", "RateLimited"}
            /\ UNCHANGED <<windows, passed, events, displaced>>
      /\ UNCHANGED <<gatewayClock, routes, rules, offered>>

AddRule(rule) ==
  /\ \A i \in DOMAIN rules : rules[i] # rule
  /\ rules' = Append(rules, rule)
  /\ UNCHANGED <<gatewayClock, routes, windows, offered, sequence, unauthorized, receipts, events,
                 passed, displaced>>

OfferOrStopOffer(s) ==
  /\ offered' = IF s \in offered THEN offered \ {s} ELSE offered \cup {s}
  /\ UNCHANGED <<gatewayClock, routes, windows, rules, sequence, unauthorized, receipts, events,
                 passed, displaced>>

GatewayTick ==
  /\ gatewayClock < MaxGatewayTime
  /\ gatewayClock' = gatewayClock + 1
  /\ UNCHANGED <<routes, windows, rules, offered, sequence, unauthorized, receipts, events,
                 passed, displaced>>

GatewayNext ==
  \/ \E r \in Routes :
       RegisterRoute(r) \/ \E client \in Callers, payload \in 0 .. 2 : Dispatch(client, r, payload)
  \/ \E id \in Names : RemoveRoute(id) \/ DispatchUnknown(id)
  \/ \E rule \in AccessRules : AddRule(rule)
  \/ \E s \in Services : OfferOrStopOffer(s)
  \/ GatewayTick

GatewaySpec == GatewayInit /\ [][GatewayNext]_gatewayVars

-----------------------------------------------------------------------------
(* Over any stretch as long as the window of a route, wherever it starts, a *)
(* client gets less than twice the limit past the gateway, also if the      *)
(* route is removed and registered again meanwhile.                         *)
RateHolds ==
  \A i \in DOMAIN passed :
    Cardinality({j \in DOMAIN passed :
                   /\ passed[j].by = passed[i].by
                   /\ passed[j].at \in passed[i].at .. passed[i].at + RateWindow - 1}) < 2 * RateLimit

(* Every refusal for lack of authorization is counted in an event that the  *)
(* collector keeps or has let go for a newer one.                           *)
RefusalsAreOnRecord ==
  unauthorized = displaced + MapThenSumSet(LAMBDA i : events[i].count, DOMAIN events)
=============================================================================
