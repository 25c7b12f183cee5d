------------------------------ MODULE LocalIpc ------------------------------
(***************************************************************************)
(* openautosar::local_ipc::LocalIpcBinding for one service endpoint: its    *)
(* lease, the queues of its subscribers, its method requests and responses, *)
(* its field, and the hooks that lose a frame, force a timeout or age the   *)
(* lease.  All callers pass the offered mapping and are admitted; a call    *)
(* that is refused, or polls an empty queue, changes nothing and is left    *)
(* out.  Callers' time is monotone (and past the first lease), so the model *)
(* keeps the time since the endpoint was last seen.                         *)
(***************************************************************************)
EXTENDS Integers, Sequences, SequencesExt

CONSTANTS
  Consumers,        \* admitted peers
  FieldValues,      \* field values
  Mappings,         \* deployed mappings, each with what its endpoint is used with: the
                    \* correlation ids clients choose and the hooks a test sets
  Lease,            \* mapping.endpoint.lease_timeout_ms
  MaxGeneration,    \* bound on provider restarts
  None

(* A mapping with members, a queue depth within its bounds and a lease.     *)
ValidateMapping(m) ==
  /\ m.kinds # {} \/ m.correlations # {}
  /\ m.depth \in 1 .. 64
  /\ Lease # 0

ASSUME EndpointAssumption ==
  /\ \A m \in Mappings :
       /\ m.kinds \subseteq {"Event", "FieldValue", "Trigger"}
       /\ m.dropOldest \in BOOLEAN
       /\ m.hooks \subseteq {"DropNextFrame", "ForceTimeout", "MarkEndpointStale"}
       /\ ValidateMapping(m)
  /\ Lease \in Nat /\ MaxGeneration \in Nat \ {0}
  /\ None \notin Consumers \cup FieldValues

VARIABLES
  mapping,       \* the one all callers pass
  generation,    \* provider_generation, 0 before the first offer
  offered,
  age,           \* time since last_seen_ms, up to Lease + 1
  subs,          \* consumer -> its subscription's depth and queue, or None
  requests,      \* method_requests
  peers,         \* method_response_peers: correlation -> consumer or None
  responses,     \* method_responses: consumer -> queue
  setRequests,   \* field_set_requests
  latest,        \* latest_field
  hook,
  taken,         \* the provider: calls taken and not yet answered
  late           \* observer: the provider answered a call from before a cleanup

endpointVars == <<generation, offered, age>>
methodVars == <<requests, peers, responses, taken, late>>
fieldVars == <<setRequests, latest>>
vars == <<mapping, endpointVars, subs, methodVars, fieldVars, hook>>

Kinds == mapping.kinds                 \* what the provider sends to subscribers
Depth == mapping.depth                 \* endpoint.default_queue_depth
DropOldest == mapping.dropOldest       \* endpoint.queue_policy, else kRejectNewest
Correlations == mapping.correlations
Hooks == mapping.hooks

NoPeers == [c \in Correlations |-> None]
NoResponses == [k \in Consumers |-> <<>>]

Init ==
  /\ mapping \in Mappings
  /\ generation = 0 /\ offered = FALSE /\ age = 0
  /\ subs = [k \in Consumers |-> None]
  /\ requests = <<>> /\ peers = NoPeers /\ responses = NoResponses
  /\ setRequests = <<>> /\ latest = None
  /\ hook = None /\ taken = {} /\ late = FALSE

IsStale == age > Lease
Seen == age' = 0

(* The stale endpoint is found out: nothing but its offer is withdrawn.     *)
Lapse ==
  /\ offered /\ IsStale
  /\ offered' = FALSE
  /\ UNCHANGED <<generation, age, subs, methodVars, fieldVars, hook>>

-----------------------------------------------------------------------------
(* Queues.                                                                  *)

(* PushFrameWithPolicy.                                                     *)
Push(queue, frame, depth) ==
  CASE Len(queue) < depth -> Append(queue, frame)
    [] Len(queue) >= depth /\ DropOldest -> Append(Tail(queue), frame)
    [] OTHER -> queue

Delivers(queue, depth) == Len(queue) < depth \/ DropOldest

PushToAll(frame) ==
  subs' = [k \in Consumers |->
             IF subs[k] = None THEN None
             ELSE [subs[k] EXCEPT !.queue = Push(@, frame, subs[k].depth)]]

Frame(kind, value) == [kind |-> kind, value |-> value, generation |-> generation]

(* Take the first frame of the kind from a subscriber's queue.              *)
PollFrame(k, kind) ==
  /\ offered /\ subs[k] # None
  /\ \E i \in DOMAIN subs[k].queue :
       /\ subs[k].queue[i].kind = kind
       /\ \A j \in 1 .. i - 1 : subs[k].queue[j].kind # kind
       /\ subs' = [subs EXCEPT ![k].queue = RemoveAt(@, i)]
  /\ Seen
  /\ UNCHANGED <<generation, offered, methodVars, fieldVars, hook>>

ForcedTimeout ==
  /\ offered /\ hook = "ForceTimeout"
  /\ hook' = None
  /\ UNCHANGED <<endpointVars, subs, methodVars, fieldVars>>

FrameDropped ==
  /\ hook = "DropNextFrame"
  /\ hook' = None
  /\ UNCHANGED <<endpointVars, subs, methodVars, fieldVars>>

Emptied(queues) ==
  [k \in Consumers |-> IF queues[k] = None THEN None ELSE [queues[k] EXCEPT !.queue = <<>>]]

\* Mutated: calls in flight are kept.
ForgetFrames ==
  /\ subs' = Emptied(subs)
  /\ setRequests' = <<>>
  /\ UNCHANGED <<requests, peers, responses>>

(* What StopOffer, CleanupStaleEndpoints and SimulateProviderRestart clear. *)
Forget ==
  /\ subs' = Emptied(subs)
  /\ requests' = <<>> /\ peers' = NoPeers /\ responses' = NoResponses
  /\ setRequests' = <<>>

-----------------------------------------------------------------------------
(* The endpoint.                                                            *)

(* Offering again keeps the generation and every queue.                     *)
OfferService ==
  /\ generation' = IF generation = 0 THEN 1 ELSE generation
  /\ offered' = TRUE /\ Seen
  /\ UNCHANGED <<subs, methodVars, fieldVars, hook>>

StopOffer ==
  /\ offered
  /\ offered' = FALSE
  /\ Forget /\ latest' = None /\ taken' = {}
  /\ UNCHANGED <<generation, age, late, hook>>

CleanupStaleEndpoints ==
  /\ offered /\ IsStale
  /\ offered' = FALSE
  /\ Forget
  /\ taken' = {[r EXCEPT !.lapsed = TRUE] : r \in taken}
  /\ UNCHANGED <<generation, age, latest, late, hook>>

SimulateProviderRestart ==
  /\ generation \in 1 .. MaxGeneration - 1
  /\ generation' = generation + 1
  /\ offered' = TRUE /\ Seen
  /\ Forget /\ taken' = {}
  /\ UNCHANGED <<latest, late, hook>>

SetTestHook(h) == hook' = h /\ UNCHANGED <<endpointVars, subs, methodVars, fieldVars>>

Subscribe(k, depth) ==
  /\ offered
  /\ subs' = [subs EXCEPT ![k] = [depth |-> depth, queue |-> <<>>]]
  /\ Seen
  /\ UNCHANGED <<generation, offered, methodVars, fieldVars, hook>>

-----------------------------------------------------------------------------
(* Events and triggers.                                                     *)

PublishEvent ==
  \/ /\ offered /\ hook = "MarkEndpointStale"
     /\ offered' = FALSE /\ age' = Lease + 1 /\ hook' = None
     /\ UNCHANGED <<generation, subs, methodVars, fieldVars>>
  \/ hook # "MarkEndpointStale" /\ Lapse
  \/ offered /\ ~IsStale /\ FrameDropped
  \/ /\ offered /\ ~IsStale /\ hook \notin {"MarkEndpointStale", "DropNextFrame"}
     /\ PushToAll(Frame("Event", None))
     /\ Seen
     /\ UNCHANGED <<generation, offered, methodVars, fieldVars, hook>>

PollEvent(k) ==
  \/ ForcedTimeout
  \/ hook # "ForceTimeout" /\ Lapse
  \/ hook # "ForceTimeout" /\ ~IsStale /\ PollFrame(k, "Event")

FireTrigger ==
  /\ offered
  /\ PushToAll(Frame("Trigger", None))
  /\ Seen
  /\ UNCHANGED <<generation, offered, methodVars, fieldVars, hook>>

PollTrigger(k) == PollFrame(k, "Trigger")

-----------------------------------------------------------------------------
(* Methods.                                                                 *)

MayCall(c, expects) == expects => peers[c] = None

Activated(active, request) ==
  [c \in Correlations |->
     IF c = request.correlation /\ request.expects /\ active[c] = None
        /\ Delivers(requests, Depth)
     THEN request.caller ELSE active[c]]

\* Mutated: the correlation of a request pushed out stays active.
PeersUnreleased(request) == Activated(peers, request)

(* The active correlations after a request is queued: the one of a request  *)
(* it pushed out is released, and its own is active if it was taken in.     *)
PeersAfter(request) ==
  LET pushesOut == Len(requests) >= Depth /\ DropOldest /\ Head(requests).expects
  IN  Activated([c \in Correlations |->
                   IF pushesOut /\ c = Head(requests).correlation THEN None ELSE peers[c]],
                request)

SubmitMethodRequest(k, c, expects) ==
  LET request == [caller |-> k, correlation |-> c, expects |-> expects,
                  generation |-> generation, lapsed |-> FALSE]
  IN  \/ Lapse
      \/ offered /\ ~IsStale /\ MayCall(c, expects) /\ FrameDropped
      \/ /\ offered /\ ~IsStale /\ MayCall(c, expects) /\ hook # "DropNextFrame"
         /\ requests' = Push(requests, request, Depth)
         /\ peers' = PeersAfter(request)
         /\ Seen
         /\ UNCHANGED <<generation, offered, subs, responses, taken, late, fieldVars, hook>>

TakeMethodRequest ==
  \/ ForcedTimeout
  \/ hook # "ForceTimeout" /\ Lapse
  \/ /\ offered /\ hook # "ForceTimeout" /\ ~IsStale /\ requests # <<>>
     /\ requests' = Tail(requests)
     /\ taken' = IF Head(requests).expects THEN taken \cup {Head(requests)} ELSE taken
     /\ Seen
     /\ UNCHANGED <<generation, offered, subs, peers, responses, late, fieldVars, hook>>

(* The provider answers a call it took.  Its lease is not looked at, and a  *)
(* response that is pushed back leaves the correlation active.              *)
CompleteMethodResponse(call) ==
  LET peer == peers[call.correlation]
  IN  /\ offered /\ peer # None
      /\ responses' = [responses EXCEPT ![peer] =
           Push(@, [call EXCEPT !.generation = generation], Depth)]
      /\ \/ /\ Delivers(responses[peer], Depth)
            /\ peers' = [peers EXCEPT ![call.correlation] = None]
            /\ taken' = taken \ {call}
         \/ /\ ~Delivers(responses[peer], Depth)
            /\ UNCHANGED <<peers, taken>>
      /\ late' = (late \/ call.lapsed)
      /\ Seen
      /\ UNCHANGED <<generation, offered, subs, requests, fieldVars, hook>>

PollMethodResponse(k, c) ==
  /\ offered
  /\ \E i \in DOMAIN responses[k] :
       /\ responses[k][i].correlation = c
       /\ \A j \in 1 .. i - 1 : responses[k][j].correlation # c
       /\ responses' = [responses EXCEPT ![k] = RemoveAt(@, i)]
  /\ Seen
  /\ UNCHANGED <<generation, offered, subs, requests, peers, taken, late, fieldVars, hook>>

-----------------------------------------------------------------------------
(* The field.                                                               *)

UpdateField(v) ==
  \/ Lapse
  \/ /\ offered /\ ~IsStale
     /\ latest' = v
     /\ PushToAll(Frame("FieldValue", v))
     /\ Seen
     /\ UNCHANGED <<generation, offered, methodVars, setRequests, hook>>

GetField ==
  \/ Lapse
  \/ /\ offered /\ ~IsStale /\ latest # None
     /\ Seen
     /\ UNCHANGED <<generation, offered, subs, methodVars, fieldVars, hook>>

SubmitFieldSetRequest(v) ==
  /\ offered
  /\ setRequests' = Push(setRequests, Frame("FieldSetRequest", v), Depth)
  /\ Seen
  /\ UNCHANGED <<generation, offered, subs, methodVars, latest, hook>>

TakeFieldSetRequest ==
  /\ offered /\ setRequests # <<>>
  /\ setRequests' = Tail(setRequests)
  /\ Seen
  /\ UNCHANGED <<generation, offered, subs, methodVars, latest, hook>>

PollField(k) == PollFrame(k, "FieldValue")

-----------------------------------------------------------------------------
TimePasses ==
  /\ age <= Lease
  /\ age' = age + 1
  /\ UNCHANGED <<generation, offered, subs, methodVars, fieldVars, hook>>

EndpointNext ==
  \/ OfferService \/ StopOffer \/ CleanupStaleEndpoints \/ SimulateProviderRestart
  \/ \E h \in Hooks \cup {None} : SetTestHook(h)
  \/ TimePasses

SubscriberNext ==
  \/ Kinds # {} /\ \E k \in Consumers, depth \in 1 .. Depth : Subscribe(k, depth)
  \/ "Event" \in Kinds /\ (PublishEvent \/ \E k \in Consumers : PollEvent(k))
  \/ "Trigger" \in Kinds /\ (FireTrigger \/ \E k \in Consumers : PollTrigger(k))
  \/ "FieldValue" \in Kinds /\
       \/ \E v \in FieldValues : UpdateField(v) \/ SubmitFieldSetRequest(v)
       \/ GetField \/ TakeFieldSetRequest
       \/ \E k \in Consumers : PollField(k)

MethodNext ==
  \/ \E k \in Consumers, c \in Correlations :
       (\E expects \in BOOLEAN : SubmitMethodRequest(k, c, expects)) \/ PollMethodResponse(k, c)
  \/ Correlations # {} /\ TakeMethodRequest
  \/ \E call \in taken : CompleteMethodResponse(call)

Next == (EndpointNext \/ SubscriberNext \/ MethodNext) /\ UNCHANGED mapping

Spec == Init /\ [][Next]_vars

-----------------------------------------------------------------------------
(* Properties.                                                              *)

Frames(kinds) == [kind : kinds, value : FieldValues \cup {None}, generation : 1 .. MaxGeneration]
Calls ==
  [caller : Consumers, correlation : Correlations, expects : BOOLEAN,
   generation : 1 .. MaxGeneration, lapsed : BOOLEAN]
Queues(S, depth) == {q \in Seq(S) : Len(q) <= depth}

TypeOK ==
  /\ mapping \in Mappings
  /\ generation \in 0 .. MaxGeneration /\ offered \in BOOLEAN /\ age \in 0 .. Lease + 1
  /\ subs \in [Consumers -> {None} \cup [depth : 1 .. Depth, queue : Seq(Frames(Kinds))]]
  /\ \A k \in Consumers : subs[k] # None => Len(subs[k].queue) <= subs[k].depth
  /\ responses \in [Consumers -> Queues(Calls, Depth)]
  /\ requests \in Queues(Calls, Depth)
  /\ peers \in [Correlations -> Consumers \cup {None}]
  /\ setRequests \in Queues(Frames({"FieldSetRequest"}), Depth)
  /\ latest \in FieldValues \cup {None}
  /\ hook \in Hooks \cup {None}
  /\ taken \subseteq Calls /\ late \in BOOLEAN

InQueue(q) == {q[i] : i \in DOMAIN q}
Pending == {r \in InQueue(requests) : r.expects} \cup {r \in taken : ~r.lapsed}

(* A call that awaits its response can be answered to its caller, and a     *)
(* correlation is active only for such a call: dropped requests, timeouts,  *)
(* withdrawals and restarts leave none active that nobody will release.  A  *)
(* response waits only in the queue of the consumer that made the call,     *)
(* though consumers choose equal correlations.  All this holds until a      *)
(* provider answers a call from before a cleanup.                           *)
CallsAreTracked ==
  ~late =>
    /\ \A r \in Pending : peers[r.correlation] = r.caller
    /\ \A c \in Correlations :
         peers[c] # None => \E r \in Pending : r.correlation = c
    /\ \A k \in Consumers : \A r \in InQueue(responses[k]) : r.caller = k

Queued ==
  UNION {InQueue(requests), InQueue(setRequests),
         UNION {InQueue(responses[k]) : k \in Consumers},
         UNION {InQueue(subs[k].queue) : k \in {k \in Consumers : subs[k] # None}}}

NewestIs(v, q) ==
  \A i \in DOMAIN q :
    q[i].kind = "FieldValue" /\ (\A j \in i + 1 .. Len(q) : q[j].kind # "FieldValue") =>
      q[i].value = v

(* Nothing queued before a provider restart is delivered after it; and when *)
(* the oldest frames are dropped, the last field value that waits for a     *)
(* subscriber is the one GetField returns.                                  *)
FramesAreCurrent ==
  /\ \A f \in Queued : f.generation = generation
  /\ DropOldest => \A k \in Consumers : subs[k] # None => NewestIs(latest, subs[k].queue)
=============================================================================
