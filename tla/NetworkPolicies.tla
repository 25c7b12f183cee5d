-------------------------- MODULE NetworkPolicies --------------------------
(***************************************************************************)
(* openautosar::runtime::tnm::NetworkManager: interfaces and endpoints are  *)
(* registered, interfaces come up and go down, the platform asks whether a  *)
(* communication is allowed, and a firewall plan is built from time to time *)
(* and stays in force until the next.  Addresses and ports are values of a  *)
(* small set; an endpoint lists those it covers.                            *)
(***************************************************************************)
EXTENDS Sequences, FiniteSets, Integers, SequencesExt

CONSTANTS
  Interfaces,        \* NetworkInterfacePolicy values that may be registered
  Endpoints,         \* EndpointPolicy values that may be registered
  Requirements       \* what applications ask for

VARIABLES
  interfaces,        \* interfaces_: policy and state
  endpoints,         \* endpoints_
  installs,          \* endpoint ids the firewall authorization allows; all without one
  plan,              \* the rules of the plan in force
  rejected,          \* its rejected_rules
  planned            \* observer: the endpoint ids it was built for

netVars == <<interfaces, endpoints, installs, plan, rejected, planned>>

InterfaceStates == {"Down", "Ready", "Degraded", "Asleep"}
EndpointIds == {e.id : e \in Endpoints}

NetInit ==
  /\ interfaces = <<>> /\ endpoints = <<>>
  /\ installs = EndpointIds
  /\ plan = {} /\ rejected = {} /\ planned = {}

KnownInterface(name) == \E i \in DOMAIN interfaces : interfaces[i].policy.name = name
Interface(name) == SelectSeq(interfaces, LAMBDA i : i.policy.name = name)[1]
EndpointWith(id) == {e \in ToSet(endpoints) : e.id = id}

RegisterInterface(policy) ==
  /\ policy.name # "" /\ policy.recovery # 0 /\ ~KnownInterface(policy.name)
  /\ interfaces' = Append(interfaces, [policy |-> policy, state |-> "Down"])
  /\ UNCHANGED <<endpoints, installs, plan, rejected, planned>>

UpdateInterfaceState(name, state) ==
  /\ KnownInterface(name)
  /\ interfaces' = [i \in DOMAIN interfaces |->
       IF interfaces[i].policy.name = name THEN [interfaces[i] EXCEPT !.state = state]
       ELSE interfaces[i]]
  /\ UNCHANGED <<endpoints, installs, plan, rejected, planned>>

RegisterEndpointPolicy(e) ==
  /\ e.id # "" /\ e.portMin <= e.portMax /\ KnownInterface(e.interface)
  /\ EndpointWith(e.id) = {}
  /\ endpoints' = Append(endpoints, e)
  /\ UNCHANGED <<interfaces, installs, plan, rejected, planned>>

-----------------------------------------------------------------------------
ContainsState(groups, state) == groups = {} \/ state \in groups
AddressMatches(address, prefixes) == prefixes = {} \/ address \in prefixes

(* Whether a registered endpoint allows what is asked of it.                *)
Allows(e, r) ==
  /\ Interface(e.interface).state = "Ready"
  /\ ContainsState(e.groups, r.group)
  /\ ContainsState(Interface(e.interface).policy.groups, r.group)
  /\ r.updateMode => e.inUpdateMode
  /\ r.protocol = e.protocol
  /\ AddressMatches(r.address, e.addresses)
  /\ r.port \in e.portMin .. e.portMax

Evaluate(r) == \E e \in EndpointWith(r.endpoint) : Allows(e, r)

(* SetFirewallAuthorization, ClearFirewallAuthorization.                    *)
SetFirewallAuthorization(ids) ==
  /\ installs' = ids
  /\ UNCHANGED <<interfaces, endpoints, plan, rejected, planned>>

(* RuleCommandFor: only UDP and TCP have ports.                             *)
Ports(e) ==
  IF e.protocol \in {"UDP", "TCP"} THEN [protocol |-> e.protocol, min |-> e.portMin, max |-> e.portMax]
  ELSE [protocol |-> "any", min |-> 0, max |-> 0]
RuleFor(e) == [interface |-> e.interface, ports |-> Ports(e)]

\* Mutated: what is not up needs no rule.
EndpointsUp == {e \in ToSet(endpoints) : Interface(e.interface).state = "Ready"}

PlannedEndpoints == ToSet(endpoints)
AuthorizeFirewallRule(e) == e.id \in installs

(* The state of an interface does not matter to the plan.                   *)
BuildFirewallPlan ==
  /\ plan' = {RuleFor(e) : e \in {f \in PlannedEndpoints : AuthorizeFirewallRule(f)}}
  /\ rejected' = {e.id : e \in {f \in PlannedEndpoints : ~AuthorizeFirewallRule(f)}}
  /\ planned' = {e.id : e \in ToSet(endpoints)}
  /\ UNCHANGED <<interfaces, endpoints, installs>>

NetNext ==
  \/ \E policy \in Interfaces :
       \/ RegisterInterface(policy)
       \/ \E state \in InterfaceStates : UpdateInterfaceState(policy.name, state)
  \/ \E e \in Endpoints : RegisterEndpointPolicy(e)
  \/ \E ids \in {EndpointIds} \cup {EndpointIds \ {id} : id \in EndpointIds} :
       SetFirewallAuthorization(ids)
  \/ BuildFirewallPlan

NetSpec == NetInit /\ [][NetNext]_netVars

-----------------------------------------------------------------------------
Admits(rule, e, r) ==
  /\ rule.interface = e.interface
  /\ rule.ports.protocol = "any" \/ (rule.ports.protocol = r.protocol /\ r.port \in rule.ports.min .. rule.ports.max)

(* What an application is told it may do, the firewall in force lets        *)
(* through, also when the interface came up after the plan was built, if    *)
(* the plan was built for the endpoint and did not reject its rule.         *)
AllowedIsOpen ==
  \A r \in Requirements, e \in ToSet(endpoints) :
    e.id = r.endpoint /\ Evaluate(r) /\ r.endpoint \in planned \ rejected =>
      \E rule \in plan : Admits(rule, e, r)
=============================================================================
