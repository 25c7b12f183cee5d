# openAUTOSAR in TLA+

TLA+ models of the openAUTOSAR adaptive platform runtime (`src/`), the TLC
configurations that check them on small instances, and TLAPS proofs that hold
for every value of the constants. Every definition is translated from the C++
source; `PROJECT.json` maps it to its lines, lists the runs, the mutants that
show each property can fail, the hazards the properties are for, the findings
and the theorems.

The runtime is a set of C++20 libraries. Each manager is a class that keeps its
data in memory, is serialised by its caller and reports errors as
`core::Result`, so one call is one atomic step, and a call that returns an error
and changes nothing is a disabled action. What makes the system hard is not
threads inside a class but the order of calls from different clients, what is
left behind by calls that fail half way, restarts, lost and repeated messages,
leases and timeouts, and limits that are reached.

## 1. Inventory

### Modelled components

| Component (under `src/bsw`) | State it keeps | Operations that change it | What is hard | What must hold |
|---|---|---|---|---|
| `communication/ara-com-runtime` (`ServiceRegistry`) | offers, find handles, event/field/trigger subscriptions with bounded queues, field values, method calls pending, in flight and answered, promises of futures, three counters | offer, stop, invalidate, find, subscribe, publish, set field, fire trigger, poll, submit with or without a future, take, complete, take result | withdrawal with calls outstanding; correlation ids that wrap, or that clients choose; queues that overflow; a second provider | an id belongs to one live call; a future is always backed by a call that can settle it, and is settled; a withdrawn service leaves nothing to inherit; samples in order, fields fresh |
| `runtime/execution-management` with `platform/os/process` | process states, restart counts, launches; the launcher's records; the machine's function group state | register, start, stop, transition | the manager's and the launcher's records must agree through failed launches and failed stops | Running means one running instance; a spent budget is final |
| `runtime/state-management` | function groups, their states, the request queue, the last record | register group, submit, apply next, apply directly | a transition is a list of process actions that may fail at any place; groups share one machine state | groups move along their policy and with the machine; "completed" means done; urgent requests are served |
| `runtime/update-management` | transaction state and package; A/B slots of the backend | transfer, verify, stage, activate, confirm, abort | backend operations fail; restart in the middle of a trial | slots tell the truth, a trial keeps its way back, versions match what runs |
| `runtime/vehicle-update-management` | ECU inventory, active campaign and its steps | register ECU, plan, activate, confirm, abort | several ECUs, some confirm, some fail; plans replace plans; stale inventory | committed is installed everywhere, rolled back is rolled back everywhere, a campaign upgrades |
| `runtime/platform-health-management` | per entity report, sequence index, last checkpoint time, restart count | register, checkpoint, evaluate, termination, exhaustion, availability, restart | reports of different kinds overwrite each other; boundaries in time | silence is judged at its exact boundary; orderly processes are not blamed; restarts escalate |
| `communication/local-ipc-binding` | endpoint lease and generation, subscriber queues, requests, response routing, field, test hooks | offer, stop, subscribe, publish, call, take, respond, poll, clean up, restart, hooks | leases lapse, frames are lost, queues push out or push back, providers restart | responses reach their caller, correlations are released, nothing of an earlier generation is delivered |
| `communication/dds-binding` (writers, readers, discovery cache), what `dds-rtps` says of endpoints | numbers, bounded history, received numbers, writer states; discovered endpoints with number and time of their announcement | build sample, heartbeat, repair, replay; accept, acknowledge, expire; observe, match, expire, remove a participant | messages are lost, late, repeated; writers and participants restart; readers join late | a sample is taken once, best effort in order, nothing missing is hidden, requests can be served; discovery never goes back within a life and learns of a restart |
| `communication/e2e-protection` | counter of the sender; counter, time and repetitions of the receiver | protect, inject a fault, check | the counter wraps; frames are lost, old, repeated | what is accepted comes in sending order, repeated as often as the profile allows; silence ends |
| `communication/someip-protocol`, `communication/someip-binding` | the correlator's pending requests and next session id | allocate, build request, decode it, build response, decode it, complete, expire | session ids come round again while answers are late; mappings of client and server differ; a payload that looks like an error envelope | an answer is that of the client's own request; a request ends for a cause |
| `communication/raw-data-stream` | pending samples, queue, completed and oldest ids | push a frame, poll | fragments repeated, late, interleaved; a full queue under two policies | a sample is not queued again while the channel remembers it, and its loss is reported |
| `communication/automotive-api-gateway`, `runtime/identity-access-management` | routes, rate windows per route and client, receipts; rules, security events | register, remove, dispatch; add rule, authorize, record event | windows outlive routes; bounded lists drop what is on record | the rate holds; refusals are on record |
| `runtime/diagnostic-management` | session, lock, seed, DTCs, identifiers, routines | every service over CAN, report, clear, contribute, set policy | several testers share one session and one lock | a protected service was earned |
| `runtime/time-network-management` | clock domains; interfaces, endpoints, the plan | register, observe a sample, advance; register, set state, decide, build plan | small jumps add up; the plan and the decisions look at different things | drift is bounded; what is allowed is open |
| `runtime/intrusion-detection-system-management` | bounded records, forwarding queue, counters | record, drain, set policy | aggregation, throttling and eviction act on one record | every event recorded is accounted for |
| `runtime/persistency` (`KeyValueStore`) | entries in memory, one file per key, backup directory, schema | open, put, remove, clear, flush, migrate, backup, restore, shut down | several files are written one by one: a write fails, a crash comes between | acknowledged values are kept, each loss is counted by one open |

### Components that are not modelled, or only in part

`PROJECT.json` lists each with its reason. In short:

* Not modelled: `registry`, `log-and-trace`, `safe-hardware-acceleration` and the
  validator of `ultrasonic-sensor-model` (section 7); `cryptography` and
  `firewall`, pure functions and layouts; `ara-core`, values; programs and views:
  `dashboard`, `hello-service`, `platform/bootstrap` (one behaviour of
  `StateManagement`, with other names), `classic-ecu-simulator`, tools and
  scripts.
* In part: of SOME/IP, events, field notifications and service discovery entries
  are left out; of `dds-rtps`, wire formats and sockets; of
  `identity-access-management`, the trust store, a list of signers that nothing
  under `src/bsw` consults; of `persistency`, the remote client; of the launcher,
  the texts of commands and cgroups; of the gateway peer, its loop over a socket.

### Interactions

* `StateManager` owns no process: it calls `ExecutionManager::StartProcess`,
  `StopProcess` and `TransitionFunctionGroup`, which calls its `ProcessLauncher`.
  `StateManagement.tla` EXTENDS `ExecutionManagement.tla` and uses the same
  records.
* Clients and providers meet in `ServiceRegistry`; the bindings (local IPC, DDS,
  SOME/IP) carry what it holds between processes. The bindings do not share
  state with the registry, so each is a module of its own.
* The gateway peer reports a process's checkpoints, termination and restart to
  the health manager: `SupervisedProcess.tla` composes that process with
  `PlatformHealth.tla`. Recovery actions are advice in a report; nothing in the
  repository carries them out, so no module does.
* The vehicle update manager does not call the update manager: each works on its
  own record of versions, and is a module of its own.
* The API gateway asks the access policy and the service registry before it
  dispatches and tells the security event collector what it refused:
  `ApiGateway.tla` EXTENDS `AccessPolicy.tla`, and of the registry it needs
  whether a service is offered. A refused call of the registry or of diagnostics
  changes nothing of theirs.
* E2E protection, SOME/IP, raw data streams, the diagnostic manager, the
  intrusion detection manager and the time and network managers keep their state
  to themselves. Each is a module of its own, composed with the clients and the
  network it meets.

## 2. Modules and the code

| Module | Code | State and actions |
|---|---|---|
| `CallLifecycle` | (abstract) | the life of method calls, without queues or counters |
| `ServiceRegistry` | `service_registry.cpp` | one variable per container; one action per public operation. The overloads `...As(principal)` add only a refusal. Sample payloads are their sequence numbers |
| `ExecutionManagement` | `execution_manager.cpp`, `process_launcher.cpp` | one record per process with both objects' halves; `Started` and `Stopped` give the record after a call, so that `StateManagement` can run several in a row |
| `StateManagement` | `state_manager.cpp` | `ApplyRequest` runs the whole list of actions (`After`), stops at the first required one that failed, and moves group and machine or enters the failure state |
| `ABUpdate` | (abstract) | what an A/B update promises |
| `UpdateManager` | `update_manager.cpp` | manager and backend; `FailNext` arms one failure of one operation, `Restart` is the constructor over slots that stay |
| `VehicleUpdate` | `vehicle_update_manager.cpp` | inventory and one campaign; a version is a value with a place in the order of texts, which the code compares, and one in the order of releases |
| `PlatformHealth`, `SupervisedProcess` | `platform_health_manager.cpp`, the reports of `gateway-peer/src/main.cpp` | only differences of timestamps matter: `silence` is the time since the last checkpoint |
| `LocalIpc` | `local_ipc_binding.cpp` | one endpoint; `age` is the time since it was last seen |
| `DdsTransport` | `dds_binding.cpp` | writers and readers of one topic; `net` is the set of messages ever sent, from which any may arrive at any time, again or never |
| `DdsDiscovery` | `dds_binding.cpp` (discovery cache) | remote endpoints that announce themselves, restart and number anew; announcements arrive within `Delay`, in any order, again or never |
| `E2eProtection` | `e2e_protection.cpp` | sender, faulty network and receiver of one profile; a frame is known by its place in the sequence of counters before they wrap |
| `SomeIpCalls` | `request_correlation.cpp`, `someip_binding.cpp` | clients that share a correlator, the server, messages under way in both directions |
| `RawDataStream` | `raw_data_stream.cpp` | one channel of any limits `Open` accepts, with and without the check of time; `Push` is the whole chain of checks, `Poll` the reader; a frame says whether it carries a checksum |
| `AccessPolicy`, `ApiGateway` | `identity_access_manager.cpp`, `automotive_api_gateway.cpp` | the engine and the collector as operators; the gateway's `Dispatch` with every early return |
| `Diagnostics` | `diagnostic_manager.cpp` | one action per service, with every negative response in the order of the code |
| `Idsm` | `idsm_manager.cpp` | `RecordEvent` with anonymising, aggregating, throttling, evicting and queueing in one step |
| `TimeSync`, `NetworkPolicies` | `time_network_manager.cpp` | one clock domain; interfaces, endpoints and the firewall plan |
| `KeyValueStore` | `persistency.cpp` | a call that writes several files is `writing`; each file is a step, between which the process may crash |
| `MC_*` | | instances: small sets and the deployments used |
| `MC_Services`, `MC_Network`, `MC_Calls`, `MC_Groups`, `MC_Vehicle`, `MC_Platform` | | benches of components that share no state: one of them, chosen at the start, is live, the others stay as they start. TLC explores the sum of their state spaces, not the product |
| `*_proofs` | | theorems |

Conventions. Variables that are not in the code are marked `observer` in their
declaration; no guard of a modelled operation reads one, except a few that only
bound the instance. Definitions marked `Mutated:` are wrong on purpose: each is a
plausible bug that the property named with it in `PROJECT.json` must catch.
Counters for diagnosis, texts, log entries and audit trails are left out.

Abstractions worth knowing:

* A package's or campaign package's signature, signer, manifest and size checks
  are one Boolean, since nothing changes them.
* The code compares versions as `std::string`. `VehicleUpdate` takes any order of
  texts (`TextOrder`), next to the order of releases that only a property reads;
  `UpdateManager!TextLess` compares numbers as the texts of `1.n.0` compare.
* In the registry `MaxCorr` stands for 2^64 - 1, so that the automatic id really
  wraps and meets live ids; `MaxSeq`, `MaxHandles`, `MaxSubs` bound counters that
  do not wrap in practice.
* A campaign request has at most one package more than `MaxSteps`, which is enough to
  be refused for it; a larger one is refused the same way.
* In `PlatformHealth` silence is told apart only up to `MaxSilence`, which an
  assumption keeps above every deadline and alive threshold of the policies.
* In `DdsTransport` a match of a writer and a reader may appear at any time;
  `DdsDiscovery` models the cache that makes it. A reader id that is wrong makes a message
  invisible, as in `FindMatchedDataSubmessage`.
* `DiscoveryAssumption` asks that an announcement is not under way for longer than an
  entry lives; one that is could bring back an endpoint of an earlier life.
* E2E frames carry a counter, a time and whether their bytes are sound; the CRC
  finds every corruption. `E2EAssumption` asks that the frames young enough to be
  accepted fit the counter's range; a profile that breaks it accepts old frames,
  and no check of the code refuses such a profile.
* A SOME/IP payload is a value, the first bytes of an error envelope (`lookalike`)
  or the envelope's magic itself: all that `DecodeMethodResponse` tells apart.
  `SomeIpAssumption` asks that a round trip is over before session ids come round,
  that a deployment names clients and operations there are, and that an outcome
  without an error has neither domain nor code. The first of these is not the
  code's: `Complete` compares ids only, and would take a response that is still
  under way when its session id is given out again for the new request's.
* A raw data stream's fragments are one byte long; the policy and the limits are
  any that `Open` accepts, so `StreamAssumption` restricts nothing.
* Seed and key of the security access are abstracted to whether the key is right.
  A diagnostic frame has more than two bytes (it has eight).
* The key-value store has finitely many keys (`StoreAssumption`). Damage to a file
  makes it unreadable, so that it is quarantined, or its key one that is refused, so
  that the open fails. The checksum covers the value only: damage that turns a key
  into another key of the store, or the schema number into another, is left out.
* A supervised process has a sequence of checkpoints (`ProcessAssumption`); the
  health manager alone takes policies without one too.
* Of the gateway's security events the collector keeps `EventBudget` (at least
  one). `RateHolds` speaks of clients whose requests are stamped with a clock that
  does not go back.
* `Idsm` leaves out the total of forwarded events.

## 3. Runs

All passing runs explore their instance completely. "Deadlock off" is set where
the instance must stop because a bound on ids, samples, futures or budgets is
used up; where it is on, TLC also shows that some call is always possible.

| Run | Instance | Shows |
|---|---|---|
| `calls` | bench: the registry with two services, one method, two futures, ids 1..3; function group requests of two priorities, three pending | registry: `CallsAccounted`, ids stay unique across wraps and chosen ids, futures are backed; with a provider that serves, every future settles (`FutureSettles`); withdrawn services hold nothing, and the registry implements `CallLifecycle`. Requests: every most urgent one is applied (`UrgentServed`, liveness). Deadlock off: futures are used up |
| `groups` | bench: the unit test's reference machine group, a second group sharing machine and process, one restart each, one process the launcher refuses; the registry with two services, an event, a field, a trigger, two subscriptions, depth 1 and 2, four samples, and, on their own, one find handle | groups: launcher and manager agree; budgets are final; groups follow policy and share the machine; completed means done and refusals have a cause (`OutcomesAreHonest`); nothing runs in update and shutdown windows. Samples: `SamplesInOrder`, order, no repetition and bounded queues through overflow, withdrawal and re-offer; a field subscriber ends with the current value. Deadlock off: Shutdown is final and samples are used up |
| `services` | bench: six packages (good, dependent, too large, not acceptable, incomplete) over two restarts, any one failure armed; a DTC, two identifiers, a routine in seven byte frames; four security events under three policies with counters that hold 3; global times -1..5 against monotonic 0..3, three samples, jump threshold 1; two interfaces and two endpoints | update: slots, reported package and versions agree (`TrialsAreSafe`), aborts recover, implements `ABUpdate`; diagnostics: a protected service was earned in the session it is used in; `Idsm`: every event counts in one record, kept or dropped, all of them until more came than a counter holds, and the backend is given what a record counts up to its limit; time: drift of a rejecting domain is bounded; network: what is allowed is open in the plan. Deadlock off: bounds on time, events and restarts are used up |
| `vehicle` | bench: a camera with two checkpoints that terminates and restarts, a gateway of which anything is reported; campaigns for two ECUs, six packages in the versions 1.9, 1.10 and 2.0, up to two steps, ECUs that register again, one ahead of what is offered | health: windows, deadlines and restart limits at their exact boundary; sequence errors only after a crash and for less than one round. Campaigns: `OutcomeIsEverywhere`, committed, rolled back and recorded versions agree with the inventory; `CampaignsUpgrade`, a version is replaced only by one whose text comes after it and after the one recorded at planning |
| `platform` | bench: two consumers of a local endpoint under three deployments: samples; calls with either queue policy; a store of two keys of one and two bytes under a quota of three, one migration, faults on: failing writes and renames, crashes, damage to contents and keys. Consumers and keys are symmetric | local IPC: responses reach their caller and correlations are released (`CallsAreTracked`); no frame of an earlier generation, the newest field value wins (`FramesAreCurrent`). Store: acknowledged values are kept, and every loss was quarantined by exactly one open, one that failed half way included |
| `network` | bench: six QoS profiles of DDS; a remote publication with three announcements in each of two lives, TTL 2, delay 1; E2E counter modulo 5, window 1, timeout 2, seven frames; SOME/IP with two clients, three session ids, four calls, capacity 2, five deployments; five samples of one to three fragments, memories of two to five of them, so that samples are forgotten, both buffer policies, with and without the check of time; a gateway with two routes, two callers, two requests per window of 2, four dispatches | transport: every sample once, best effort in order, nothing hidden, requests within history; discovery: never back within a life, a restart is learnt before the TTL is over; E2E: accepted in order, silence ends; SOME/IP: answers are the caller's own, requests end for a cause; streams: no sample again while the channel remembers it, none lost unreported; gateway: the rate holds over removed and re-registered routes, refusals are on record. Deadlock off: bounds on messages and time are used up |
| `store_reopen`, `store_count` | the store of `platform`, without faults and with | findings, section 6 |
| `dds_repair` | two writers and two readers of a topic, documented profiles | finding |
| `campaign_stale` | the campaigns of `vehicle` with health confirmation | finding |
| `stream_repeats` | the channel of the unit test (2, 4, 10 ms) and seven samples, one more than it remembers | finding |
| `health_crashloop` | the camera of `vehicle` alone | finding |

Two configurations more end in a violation and are not listed as runs:
`MC_DdsTransport_writers.cfg` (`NothingHiddenOfAny`) and `MC_VehicleUpdate_release.cfg`
(`ReleasesOnlyGrow`); section 6 says what they show. `tlc -config X.cfg M` runs them
like the others.

Why the bounds are enough. Each instance is the smallest in which the hazard of
its properties occurs: two services so that a withdrawal can leave another one's
calls alone; three ids and two futures so that the id wraps onto a live call;
depth two and four samples so that a queue overflows between polls; two groups
and three processes so that a move fails at its second action while another group
holds the machine; two restarts so that a trial survives one; two ECUs so that one
confirms and the other fails; three versions so that the order of texts differs from
that of releases; a memory smaller than the number of samples so that one is forgotten; two consumers so that they choose the same
correlation; two writers so that their numbers collide; two files so that a crash
comes between; counters modulo 5 with seven frames, three session ids with four
calls and three announcements in two lives so that each wraps or starts anew with
old messages under way; three samples so that drift adds up over jumps that are
each accepted; counters that hold as much as two events bring, with four events, so
that they saturate; as many dispatches as twice the limit so that a window ends and
begins. The mutants confirm it: every listed property fails in its own run
when the code has the named bug.

The type invariants hold in these instances; where one is not in a configuration's
list it can be added to it, or is proved (section 5). A module of a bench without
one has its types in the invariant of its proof.

## 4. Fairness

* `ServiceRegistry!ServingFairness`: a provider keeps taking calls from each of its
  method queues and completing those in flight (weak fairness of
  `TakeMethodCall` and `CompleteMethodCall`). The registry itself schedules
  nothing; the skeletons that `tools/oa_cli/model.py:1254-1289` generates offer
  exactly these two calls to the provider's loop. Nothing is assumed of clients,
  of offers or of withdrawals: a withdrawn provider takes and completes nothing,
  and the future is settled by the withdrawal.
* Weak fairness of `StateManagement!ApplyNextRequest`: the platform keeps calling `ApplyNextRequest` while
  requests are queued. Weak fairness suffices because the action stays enabled
  while the queue is not empty. Only requests of the highest priority are served
  for certain; a lower one may wait for ever, and nothing in the code says
  otherwise.
* All other specifications assume no fairness: their properties are safety.

## 5. Proofs

| Module | Theorems | Properties |
|---|---|---|
| `ServiceRegistry_proofs` | `TypeCorrect`, `CallsCorrect`, `WithdrawnCorrect`, `SamplesCorrect`, `CallsFollow` | `RegistryTypeOK`, `CallsAccounted`, `WithdrawnServiceHoldsNothing`, `SamplesInOrder`, `CallsFollowLifecycle` (refinement) |
| `LocalIpc_proofs` | `EndpointTypeCorrect`, `CallsCorrect`, `FramesCorrect` | `TypeOK`, `CallsAreTracked`, `FramesAreCurrent` |
| `DdsBinding_proofs` (`DdsTransport`) | `TransportTypeCorrect`, `TakenOnceCorrect`, `NothingHiddenCorrect`, `BestEffortInOrderCorrect`, `RequestsServedCorrect` | `TypeOK`, `TakenOnce`, `NothingHidden`, `BestEffortInOrder`, `CurrentRequestsServed` |
| `DdsBinding_proofs` (`DdsDiscovery`) | `DiscoveryTypeCorrect`, `ForwardCorrect`, `RestartCorrect` | `DiscoveryTypeOK`, `DiscoveryGoesForward`, `RestartIsLearnt` |
| `Network_proofs` (`E2eProtection`) | `E2ETypeCorrect`, `AcceptedInOrderCorrect`, `SilenceEndsCorrect` | `E2ETypeOK`, `AcceptedInOrder`, `SilenceEnds` |
| `Network_proofs` (`SomeIpCalls`) | `AnswersCorrect`, `RequestsEndCorrect` | `AnswersAreOwn`, `RequestsEndForCause` |
| `Network_proofs` (`RawDataStream`) | `SamplesApartCorrect` | `SamplesApartOrReported` |
| `Network_proofs` (`ApiGateway`) | `RateCorrect` | `RateHolds` |
| `Accounts_proofs` (`KeyValueStore`) | `KeptCorrect`, `LossCorrect`, `StoreTypeCorrect`, `ReopensCorrect` | `AcknowledgedIsKept`, `LossIsAccounted`, `StoreTypeOK`, (`StoreReopens` without faults and restores) |
| `Accounts_proofs` (`ApiGateway`, `AccessPolicy`) | `RefusalsCorrect` | `RefusalsAreOnRecord` |
| `Accounts_proofs` (`Idsm`) | `EventsCorrect` | `EventsAreAccounted` |
| `Services_proofs` (`ExecutionManagement`) | `EMTypeCorrect`, `LauncherCorrect`, `BudgetCorrect`, `BudgetFinal` | `EMTypeOK`, `LauncherAgrees`, `BudgetRespected`, `BudgetIsFinal` |
| `Services_proofs` (`StateManagement`) | `StateTypeCorrect`, `GroupsLauncherCorrect`, `GroupsBudgetFinal`, `GroupsFollowPolicy`, `OutcomesCorrect`, `WindowsCorrect` | `SMTypeOK`, `LauncherAgrees`, `BudgetIsFinal`, `GroupFollowsPolicy`, `OutcomesAreHonest`, `WindowsAreQuiet` |
| `Services_proofs` (`UpdateManager`) | `UpdateTypeCorrect`, `TrialsCorrect`, `AbortCorrect`, `UpdateImplementsAB` | `TypeOK`, `TrialsAreSafe`, `AbortRecovers`, `UpdatesAreAB` (refinement) |
| `Services_proofs` (`TimeSync`) | `TimeTypeCorrect`, `DriftCorrect` | `TimeTypeOK`, `DriftIsBounded` |
| `Services_proofs` (`NetworkPolicies`) | `AllowedOpenCorrect` | `AllowedIsOpen` |
| `Services_proofs` (`Diagnostics`) | `ProtectedCorrect` | `ProtectedServices` |
| `VehicleUpdate_proofs` | `CampaignTypeCorrect`, `OutcomeCorrect`, `UpgradeCorrect` | `CampaignTypeOK`, `OutcomeIsEverywhere`, `CampaignsUpgrade` |
| `SupervisedProcess_proofs` | `HealthTypeCorrect`, `JudgedCorrect`, `EscalateCorrect`, `ProcessesReport`, `BlameCorrect` | `TypeOK`, `SilenceIsJudged`, `RestartsInARowEscalate`, (`SupervisedSpec => Spec`), `BlameIsDeserved` |

They assume only the named `ASSUME`s of the modules, which TLC evaluates on every
run; `WindowsCorrect` has one hypothesis more, that a group named `MachineFG` has
the reference model of the unit test, since that policy is what the windows are of.
`ReopensCorrect` speaks of the behaviours in which no write fails and no backup is
restored: with a restore its claim is false, which is the finding `store_reopen`.

**Induction over data.** Two things in these proofs are computed over lists of any
length: what a list of process actions leaves behind (`After`), and sums over sets
of records or of a store's entries (`MapThenSumSet`). The library's induction theorems take an operator as
a parameter, which no prover here can instantiate; the proofs use instead that `<`
on the naturals is well-founded (`NatLessThanWellFounded`, `WFMin`), which speaks of
sets. Hence `LeastNumber`, that a set of naturals has a least member, and
`NumbersAreReached`, that a set which 0 starts and each number continues is `Nat`;
each induction is the set of the numbers that satisfy its claim.

* **Registry.** `CallsAccounted` says that ids are unique (`CorrelationUnique`) and
  futures backed (`FutureBacked`), which are not inductive apart:
  completing a call settles the promise found under its id, which is the right
  one only because no other live call has that id, and a promise whose id is also
  an answered call's could be settled twice. The invariant `CallsInv` is their
  conjunction with the type and with `Routed`: every pending call sits in the
  queue of its own service and method, so that fetching or failing a call finds
  the queue its id is counted in. Each queue operation has a lemma that says
  which ids are queued after it. Withdrawal erases by service, and `WithdrawnServiceHoldsNothing` rests on
  it: a call can enter a queue only while its service is offered.
* **Registry, samples and life cycle.** `SamplesInv` says of each subscription that
  what is queued comes after what was polled last, in ascending order and before
  the next number, and that the end of a field's queue (or, when it is empty, what
  was polled last) is the current value. A full queue lets go of its oldest, which
  keeps all three. For the refinement, the abstract set of calls is rewritten as
  the entries of the two maps of queues and the calls in flight (`LiveParts`); each
  queue operation has a lemma about the entries, and `CallsInv` makes the entry
  with an id the only one, so that a step on the queue is a step on that call.
* **Execution manager.** `SoundInv` says, of every process record, that it is
  Running exactly while its instance is active, that it counts one instance then
  and none otherwise, that an active instance was launched, and that the restart
  counter is at most one past the budget. With it, `Stopped` and `Started` are shown to keep
  `LauncherAgrees` record by record; the theorem about the specification follows.
* **State manager.** The same lemmas hold for one process action (`Acted`), and by
  induction for the first `i` of a list (`After`), so `SMInv`, the type with
  `SoundInv`, holds for lists of any length. `OutcomesAreHonest` needs what an
  action did to be so at the end: only a later action on the same process changes
  its record, by induction from that action on; for a cause of a refusal, a
  required action that did not succeed leaves its process failed or unregistered.
  `WindowsAreQuiet` rests on `QuietInv`: a group alone on the machine reports the
  machine's state; before any group there are no instances, and with the reference
  model alone only the provider and the dashboard ever have one, the provider none in
  Update and neither in Shutdown. A stop leaves no instance, whatever it finds and
  whether or not it succeeds, and the transitions into these states stop what must be
  down. A group that joins ends the claim; none leaves.
* **Update manager.** `SlotInv` states what the backend's five fields mean
  together: without a trial the active slot holds the active package; with one,
  the pending slot is the active slot and the other holds the previous package;
  what is said to be installed in the inactive slot is there. It is what makes
  the rollback's swap right, and, under the refinement mapping `running <- active`,
  `fallback <- previous` while on trial, gives every step as a step of `ABUpdate`
  or a stutter.
* **Vehicle update.** `CampaignInv` adds to the outcome that, while a campaign is
  under way, its steps have different targets and none goes back, and that a step
  committed early stays installed while others wait: between plan and end ECUs may
  register again, which the observer `reported` takes note of. `StepsUpgrade` compares
  each step with the versions recorded at planning (`before`), which no registration
  changes; that an ECU which did not register still holds them, or a package of the
  campaign, gives the rest of `CampaignsUpgrade`, for any order of texts.
* **Health.** `HealthInv` says that a report's restart count is that of the restarts
  in a row, and that a spent limit is on report. `MissedWindows` computes from the
  rounding of the division that a number of windows is missed exactly from its
  boundary on. `ProcessesReport` shows that every step of a supervised process is one
  the manager alone could take, so that all of this holds with the processes.
  `BlameInv` measures how far the awaited checkpoint is ahead of the one the process
  reaches next, round the cycle (`Lag`): a checkpoint in order keeps it, a blame
  lowers it by one, and only a restart can raise it, to less than a round. A process
  that never terminated has no lag, so no blame.
* **Local IPC.** `EndpointInv` says that calls which expect a response have different
  correlations, over the queue and those taken (`CallsAreDistinct`), that what is
  queued was made since the last cleanup (`QueuedIsLive`), and that every frame
  queued is of the current generation (`FramesInv`). A push has three outcomes, which
  `PushParts` states once.
* **Key-value store.** `StoreInv` says of a key that is not in doubt that memory and
  its file hold the acknowledged value, and of a restore under way that what it has
  written is what it acknowledged: a crash between two of its files is then no loss.
  `WithinQuota` is the part of the type that takes work: what memory holds fits the
  quota, because an overwritten entry's bytes are taken off before the new ones count
  and a migration keeps the values; the lemmas on `Bytes` say what changing or removing
  one entry does to the sum. `QuarantinedAreGone` says that the file of a key which
  a failed open quarantined stays away until an open succeeds, so that no key is
  counted twice (`LostKeys`). `ReopensInv` says the same of the files: without faults
  and restores they are those of a table that fitted when it was synchronised.
* **DDS transport.** `TransportInv` says that a sample taken is one the reader
  would now refuse: a reliable reader holds its number, a best-effort reader that
  still remembers the writer has a last number no smaller. That makes every
  sample arrive once, and those of a best-effort writer in order. The converse
  for reliable readers, that a number held is that of a sample the client got,
  and that a request leaves out only numbers held, gives `NothingHidden`. That a
  history is an unbroken run up to the next number, and that every range under way is
  of the past of its writer's life (`RangesInv`), gives `CurrentRequestsServed`. The
  type's hard part is `ReaderBounds`: a reader's order of writers lists exactly those
  it has a state of, each once, although taking a sample moves one to the end and an
  expiry drops the first ones (`MovedToEnd`, `DroppedFirst`). The messages are a set that only grows, so the theorems hold for every loss,
  delay, repetition and order of them.

* **DDS discovery.** `DiscoveryInv` says that announcements under way are young
  and numbered in the order they were made (`Timed`), that one made before the one
  taken last would be refused (`OldIsRefused`), and that an entry is refreshed only
  by the announcement it is taken from (`SeenOnce`). The second gives that
  discovery never goes back, the third that an old entry which refuses a restarted
  participant is not kept alive by what it refuses, and is gone after the TTL.
  `DiscoveryAssumption` asks that an announcement is not longer on its way than an
  entry lives.
* **E2E.** The lemmas `Lag`, `Successor` and `DeltaRange` compute the distance of
  two counters over the wrap for every modulus. `E2EInv` says that the receiver
  holds the counter of the newest frame it took (`InStep`) and that frames under
  way are no further behind than they are old (`Timely`); then `MaxDelta + FrameTimeout + 1 < Modulus` makes every acceptable
  distance that of a frame ahead, which is order. For `SilenceEnds`, `GapCounted` relates
  the frames refused in a row to the distance of the last one heard: each moves the
  distance by one, so they come round to an acceptable one.
* **SOME/IP.** `SipInv` relates session ids to time: a message is no older than a
  round trip and as many calls were made since its own as time has passed, so no
  later call has its session id (`SameSession`: equal ids are a whole round apart).
  A pending request is that of the latest call with its id and unanswered (`Waits`),
  and a response carries what the server answered to that very call.
* **Raw data streams.** `HandedInv` says that what the channel remembers as complete is
  what was handed over last, and no sample twice: the memory is looked at before a
  frame is taken in, and forgets only the oldest of as many as it holds. `PendingInv`
  and `ArrivedInv` say that unless the channel is degraded each frame that came waits
  in a sample that is not complete, or its sample was handed over: so a sample of
  which all came is no longer waiting.
* **API gateway.** `Counts` says that a window holds as many requests as its count and
  that no stretch reaching into it has a limit's worth of requests before it. A
  stretch as long as a window meets at most two of them, so less than twice the limit.
  `RefusalsInv` says that the refusals are the counts of the events on record and of
  those displaced. The lemmas on `TotalCount` show what appending a record, raising a
  count and dropping the oldest do to the sum over a sequence, in whatever order
  `MapThenSumSet` adds it up: the sum over a set is the sum along any enumeration of
  it with nothing in the places that are not in the set (`SumsAlong`).
* **Intrusion detection.** `IdsInv` says the same of the events seen, the records
  and the ones dropped, exactly until more came than a counter holds and never more
  than came, and of each record, that the backend was given all it counts until
  that is throttled. A record that is kept moves down by one place when the oldest
  makes room, and what is noted of it moves with it.
* **Diagnostics and network.** `FirstRefusalMeans` says that the answer is the first
  refusing check's, hence a positive answer means that all checks passed; the lock is
  open only after a right key since the session was last chosen. An endpoint id
  stands for one policy, and a plan holds a rule for each that it did not reject
  (`PoliciesInv`), as `Decide` requires.
* **Time.** `TimeInv` bounds the drift of a domain that rejects jumps by the
  threshold times the samples accepted after the first: the code compares each
  sample with the one before, never with the first.

Only model-checked: liveness under fairness (`FutureSettles`, `UrgentServed`), which
the prover cannot do; and that the benches let one component move at a time, which is a fact about the runs
and not about the code. The runs that end in a violation have nothing
to prove: their properties are false.

## 6. Findings

* `store_reopen`: `KeyValueStore::RestoreFrom` replaces the entries in memory and
  writes their files, but leaves the files of other keys. `Put` counts only
  memory against the quota, so the files may exceed it and `OpenFilesystem` then
  fails for good, without any fault. `tests/unit/persistency_test.cpp:145`
  requires "filesystem store did not reopen" not to happen after a shutdown.
* `dds_repair`: a writer keeps a sample with the entity id of the reader it was
  first built for. A late joiner gets the history with its own id
  (`BuildHistoricalSamples`), but when such a sample is lost and the joiner asks
  for it, `BuildRepairSamples` sends the stored message unchanged, and the joiner
  does not recognise it. The replay's unit test states the intent
  (`tests/unit/dds_binding_test.cpp:1423`, "did not retarget reader id").

* Configuration `MC_DdsTransport_writers`: a reliable reader keeps the numbers it received in one set for all
  its writers (`dds_binding.cpp:1697`). A second writer's sample, or the first one's
  after a restart, is rejected as a duplicate of another, and `BuildAckNack` finds
  nothing missing.
* Configuration `MC_VehicleUpdate_release`: `VehicleUpdateManager::IsVersionUpgrade` compares texts
  (`vehicle_update_manager.cpp:318`): 1.9 replaces 1.10 and 1.10 is refused after 1.9,
  against the policy's `reject_non_upgrade_version`. `UpdateManager` does the same.
* `campaign_stale`: a version is validated when the campaign is planned, and not again
  when it is recorded. An ECU that meanwhile registered with a later version is set
  back to the campaign's.
* `store_count`: `LoadFilesystem` counts what it quarantines in the store it builds. When
  the open then fails, on a refused key, a rename or the quota, the count is gone with
  the store while the files stay renamed: the next open reports fewer losses than there
  are.
* `stream_repeats`: a channel remembers `queue_depth + max_fragments_per_sample` completed
  samples, but accepts frames until they are `stale_timeout_ms` behind. With the limits of
  the unit test, of the header and of the policy, samples that come faster than that are
  forgotten before their frames are stale, and a repeated frame is a sample again, against
  `reject_duplicate_sequences`.
* `health_crashloop`: the report of a termination starts the restart count anew, so a
  process that terminates and is restarted for ever is never over its limit;
  `safety/mechanisms/watchdog.md:11-12` requires that repeated failure escalates.

## 7. Plan

What is left, most important first.

1. `registry` (`RegistryManager`): leased records, retired ones that are declared
   and activated anew.
2. SOME/IP events, field notifications and service discovery entries with their
   TTL, in front of `SomeIpCalls`.
3. `Logger` (bounded buffer and rate window), `SafeHardwareAccelerationService` (redundant results
   and fallbacks), the sensor model's validator, the remote client of
   `persistency`.
