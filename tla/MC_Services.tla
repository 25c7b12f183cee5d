----------------------------- MODULE MC_Services -----------------------------
(* A bench for the services of one machine: the update manager, the         *)
(* diagnostic manager, the intrusion detection manager, the time manager    *)
(* and the network manager.  They do not interact: of each behaviour one    *)
(* component is live and the others stay as they start.                     *)
EXTENDS MC_UpdateManager, Diagnostics, Idsm, TimeSync, NetworkPolicies

VARIABLE live

servicesVars == <<live, vars, diaVars, idsVars, timeVars, netVars>>

-----------------------------------------------------------------------------
(* A contribution that is taken whole, one refused at its first identifier  *)
(* and one refused at its last routine.                                     *)
SomeContributions ==
  {[identifiers |-> <<"i2">>, routines |-> <<"r1">>],
   [identifiers |-> <<"i1", "i2">>, routines |-> <<"r1">>],
   [identifiers |-> <<>>, routines |-> <<"r1", "zero">>]}

(* Events below, at and above the threshold, two of them of principals that *)
(* become the same.                                                         *)
Denied == [what |-> "denied", principal |-> "hmi", resource |-> "route", severity |-> 1]
SomeEvents ==
  {Denied, [Denied EXCEPT !.principal = "tester"],
   [Denied EXCEPT !.what = "attack", !.severity = 2],
   [Denied EXCEPT !.severity = 0, !.principal = ""]}
Forwarding ==
  [max_records |-> 2, aggregation_window_ms |-> 1, rate_limit_count |-> 2, rate_limit_window_ms |-> 1,
   forwarding |-> TRUE, threshold |-> 1, privacy |-> "Plain"]
SomePolicies ==
  {Forwarding,
   [Forwarding EXCEPT !.rate_limit_window_ms = 0, !.privacy = "RedactPrincipal"],
   [Forwarding EXCEPT !.max_records = 1, !.privacy = "RedactIdentifiers"]}

SomeTimes == -1 .. 5
AnyPolicy == {"Reject", "Degrade", "Accept"}

(* An Ethernet and a CAN interface, one that is not valid; an endpoint on   *)
(* each, and one whose id is taken.                                         *)
Eth == [name |-> "eth0", recovery |-> 1, groups |-> {}]
SomeInterfaces ==
  {Eth, [Eth EXCEPT !.name = "can0", !.groups = {"DrivingReady"}], [Eth EXCEPT !.recovery = 0]}
SomeIp ==
  [id |-> "someip", interface |-> "eth0", protocol |-> "UDP", addresses |-> {"peer"},
   portMin |-> 1, portMax |-> 2, groups |-> {"DrivingReady", "Update"}, inUpdateMode |-> FALSE]
SomeEndpoints ==
  {SomeIp, [SomeIp EXCEPT !.portMin = 3, !.portMax = 3],
   [SomeIp EXCEPT !.id = "uds", !.interface = "can0", !.protocol = "CAN",
                  !.portMin = 0, !.portMax = 0, !.inUpdateMode = TRUE]}
Asked ==
  [endpoint : {"someip", "uds"}, group : {"DrivingReady", "Update"}, updateMode : BOOLEAN,
   protocol : {"UDP", "TCP", "CAN"}, address : {"peer", "other"}, port : 0 .. 3]

-----------------------------------------------------------------------------
Live(component) == live = component

(* What is not live makes no choice.                                        *)
ServicesInit ==
  /\ live \in {"update", "diagnostics", "idsm", "time", "network"}
  /\ Init /\ DiaInit /\ IdsInit /\ TimeInit /\ NetInit
  /\ ~Live("idsm") => idsPolicy = Forwarding
  /\ ~Live("time") => jumpPolicy = "Accept"

ServicesNext ==
  /\ UNCHANGED live
  /\ \/ Live("update") /\ Next /\ UNCHANGED <<diaVars, idsVars, timeVars, netVars>>
     \/ Live("diagnostics") /\ DiaNext /\ UNCHANGED <<vars, idsVars, timeVars, netVars>>
     \/ Live("idsm") /\ IdsNext /\ UNCHANGED <<vars, diaVars, timeVars, netVars>>
     \/ Live("time") /\ TimeNext /\ UNCHANGED <<vars, diaVars, idsVars, netVars>>
     \/ Live("network") /\ NetNext /\ UNCHANGED <<vars, diaVars, idsVars, timeVars>>

ServicesSpec == ServicesInit /\ [][ServicesNext]_servicesVars
=============================================================================
