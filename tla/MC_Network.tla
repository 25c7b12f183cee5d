----------------------------- MODULE MC_Network -----------------------------
(* A bench for what meets the network: the DDS writers and readers, the DDS *)
(* discovery cache, the end-to-end protection, SOME/IP calls, raw data      *)
(* streams and the API gateway.  They do not interact: of each behaviour    *)
(* one component is live and the others stay as they start.                 *)
EXTENDS MC_DdsTransport, DdsDiscovery, E2eProtection, SomeIpCalls, RawDataStream, ApiGateway

VARIABLE live

networkVars ==
  <<live, vars, discoveryVars, e2eVars, sipVars, rawVars, gatewayVars>>

-----------------------------------------------------------------------------
(* One endpoint of another participant, which may change its reliability    *)
(* when it restarts.                                                        *)
Distance == [topic |-> "distance", reliable |-> FALSE, transient |-> FALSE]
RemotePublication ==
  {[participant |-> "remote", role |-> "Publication", id |-> 1]}
TwoContents == {Distance, [Distance EXCEPT !.reliable = TRUE]}
LocalReader == {[participant |-> "local", content |-> Distance]}

(* Calls of every kind between deployments that agree, the last of which do *)
(* not.  Two clients share the correlator in the first.                     *)
Ids(method, getter, setter) == [method |-> method, getter |-> getter, setter |-> setter]
Served(version, ids) == [service |-> 1, version |-> version, ids |-> ids]
Right == Served(1, Ids(1, 2, 3))
Deploy(clients, client, server, operations, outcomes) ==
  [clients |-> clients, client |-> client, server |-> server,
   operations |-> operations, outcomes |-> outcomes]
Fine == Outcome(FALSE, "", 0, "magic")
Failed == Outcome(TRUE, "app", 1, "value")
Bare3 ==
  {Outcome(TRUE, "", 0, "lookalike"), Outcome(TRUE, "", 0, "magic"), Outcome(TRUE, "", 1, "value")}
TwoClients == {1, 2}
TwoDeployed == Deploy(TwoClients, Right, Right, {"method"}, {Fine})
SomeDeployments ==
  {TwoDeployed,
   Deploy({1}, Right, Right, {"oneway", "method"}, {Failed}),
   Deploy({1}, Right, Right, {"method"}, Bare3),
   Deploy({1}, Right, Right, {"getter", "setter"}, {Fine}),
   Deploy({1}, Served(1, Ids(1, 2, 9)), Served(2, Ids(1, 2, 3)), {"method", "setter"}, {Fine})}
OneValue == {"value"}

(* Whole and fragmented samples: one too long for the small channel, one    *)
(* stamped apart, one in two minds about its size; and frames that are      *)
(* never valid.                                                             *)
Fragment(s, i, n, stamp) ==
  [sequence |-> s, index |-> i, count |-> n, stamp |-> stamp, checked |-> s = 2]
MixedFrames ==
  {Fragment(1, 0, 1, 1), Fragment(2, 0, 2, 1), Fragment(2, 1, 2, 3), Fragment(3, 0, 1, 2),
   Fragment(4, 0, 1, 4), Fragment(4, 1, 2, 4), Fragment(5, 0, 3, 4), Fragment(5, 1, 3, 4),
   Fragment(5, 2, 3, 4), Fragment(0, 0, 1, 4), Fragment(3, 1, 1, 2)}
SmallChannel ==
  [queue_depth |-> 1, max_fragments |-> 2, max_bytes |-> 2, stale_timeout |-> 1,
   buffer_policy |-> "DropOldest", monotonic |-> TRUE, reassembly |-> TRUE]
SomeChannels ==
  {SmallChannel,
   [SmallChannel EXCEPT !.queue_depth = 2, !.max_fragments = 3, !.buffer_policy = "RejectNewest"],
   [SmallChannel EXCEPT !.max_fragments = 3, !.buffer_policy = "RejectNewest", !.monotonic = FALSE],
   [SmallChannel EXCEPT !.max_fragments = 1, !.reassembly = FALSE]}

(* The channel of the unit test, with more samples than it remembers.       *)
TestedChannel ==
  [queue_depth |-> 2, max_fragments |-> 4, max_bytes |-> 12, stale_timeout |-> 10,
   buffer_policy |-> "DropOldest", monotonic |-> TRUE, reassembly |-> TRUE]
OnlyTested == {TestedChannel}
SevenSamples == {Fragment(s, 0, 1, s) : s \in 1 .. 7}

(* The publishing and the discovery route of the gateway's unit test, one   *)
(* that is disabled and one without an id.                                  *)
PublishRoute ==
  [id |-> "publish", path |-> "/distance", operation |-> "Publish", service |-> "ultrasonic",
   access_policy |-> "gateway/ultrasonic", enabled |-> TRUE, allow_remote |-> TRUE,
   requireAuthenticated |-> TRUE, max_payload_bytes |-> 1]
DiscoverRoute ==
  [PublishRoute EXCEPT !.id = "discover", !.path = "/ultrasonic", !.operation = "Discover",
                       !.allow_remote = FALSE, !.requireAuthenticated = FALSE]
SomeRoutes ==
  {PublishRoute, DiscoverRoute, [PublishRoute EXCEPT !.enabled = FALSE], [PublishRoute EXCEPT !.id = ""]}
Hmi == [id |-> "hmi", roles |-> {"api-consumer"}, authenticated |-> TRUE, remote |-> TRUE]
SomeCallers == {Hmi, [Hmi EXCEPT !.id = "", !.authenticated = FALSE, !.remote = FALSE]}
SmallGateway ==
  [max_routes |-> 2, max_payload_bytes |-> 2, max_receipts |-> 0,
   requireAuthenticated |-> FALSE, rejectRemote |-> TRUE]
DenyByDefault == [production |-> FALSE, remoteDiagnostics |-> FALSE, default |-> "Deny"]
AllowRule ==
  [decision |-> "Allow", reason |-> "consumer", operations |-> {"InvokeGatewayRoute"},
   resources |-> {"publish", "gateway/ultrasonic"}, principals |-> {},
   roles |-> {"api-consumer"}, authenticated |-> FALSE, remote |-> TRUE]
SomeRules == {AllowRule, [AllowRule EXCEPT !.decision = "Deny", !.reason = "barred", !.principals = {"hmi"}]}

-----------------------------------------------------------------------------
Live(component) == live = component

(* What is not live makes no choice.                                        *)
NetworkInit ==
  /\ live \in {"transport", "discovery", "e2e", "someip", "stream", "gateway"}
  /\ Init /\ DiscoveryInit /\ E2EInit /\ SipInit /\ RawInit /\ GatewayInit
  /\ ~Live("transport") => qos = TwoSources
  /\ ~Live("discovery") => contents = [e \in Announced |-> Distance]
  /\ ~Live("someip") => deployed = TwoDeployed
  /\ ~Live("stream") => streamConfig = CHOOSE c \in StreamConfigs : TRUE

NetworkNext ==
  /\ UNCHANGED live
  /\ \/ Live("transport") /\ Next
        /\ UNCHANGED <<discoveryVars, e2eVars, sipVars, rawVars, gatewayVars>>
     \/ Live("discovery") /\ DiscoveryNext
        /\ UNCHANGED <<vars, e2eVars, sipVars, rawVars, gatewayVars>>
     \/ Live("e2e") /\ E2ENext
        /\ UNCHANGED <<vars, discoveryVars, sipVars, rawVars, gatewayVars>>
     \/ Live("someip") /\ SipNext
        /\ UNCHANGED <<vars, discoveryVars, e2eVars, rawVars, gatewayVars>>
     \/ Live("stream") /\ RawNext
        /\ UNCHANGED <<vars, discoveryVars, e2eVars, sipVars, gatewayVars>>
     \/ Live("gateway") /\ GatewayNext
        /\ UNCHANGED <<vars, discoveryVars, e2eVars, sipVars, rawVars>>

NetworkSpec == NetworkInit /\ [][NetworkNext]_networkVars

(* Only streams.                                                            *)
StreamSpec == NetworkInit /\ Live("stream") /\ [][NetworkNext]_networkVars
=============================================================================
