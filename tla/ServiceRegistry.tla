--------------------------- MODULE ServiceRegistry ---------------------------
(***************************************************************************)
(* openautosar::com::ServiceRegistry: the in-process ara::com runtime every *)
(* binding and generated proxy or skeleton calls.  It holds the service     *)
(* offers, the find handles, the event, field and trigger subscriptions     *)
(* with their bounded queues, the latest field values, and the life of      *)
(* every method call: queued for the provider, in flight, answered, and -   *)
(* for a call submitted through a future - settled.                         *)
(*                                                                         *)
(* The class is caller-serialised, so each public operation is one action.  *)
(* An operation that returns an error changes nothing: it is a disabled     *)
(* action here.  The ...As(principal) overloads differ only by the access   *)
(* policy, which can only refuse a request, and a refused request is such a *)
(* disabled action.  Payloads are abstracted away.                          *)
(***************************************************************************)
EXTENDS Integers, Sequences

CONSTANTS
  Services,     \* service identifiers
  Providers,    \* process identities that offer them
  Methods,      \* method names of a service
  Events, Fields, Triggers,   \* names of its events, fields and triggers
  Futures,      \* the futures handed to clients over a run
  MaxCorr,      \* largest correlation id; 2^64 - 1 in the code
  MaxDepth,     \* largest queue depth a subscriber may ask for; 64 in the code
  MaxHandles,   \* bound on find handles ever created
  MaxSubs,      \* bound on subscriptions ever created
  MaxSeq,       \* bound on samples ever published
  Absent          \* "no value": not a call, a future, a subscription or a provider

ASSUME MaxCorrAssumption == MaxCorr \in Nat \ {0}
ASSUME BoundsAssumption ==
  /\ MaxDepth \in Nat \ {0}
  /\ MaxHandles \in Nat /\ MaxSubs \in Nat /\ MaxSeq \in Nat
ASSUME FuturesAssumption == Absent \notin Futures

Corr == 1 .. MaxCorr
Call == [service : Services, method : Methods, corr : Corr, expects : BOOLEAN]
MethodResult == [service : Services, method : Methods, corr : Corr]
MethodKeys == Services \X Methods      \* MethodKeyFor
Promised == [service : Services, future : Futures]
NoCall == [none |-> "call"]
NoFuture == [none |-> "future"]
NoSub == [none |-> "subscription"]

Kinds == {"event", "field", "trigger"}
SubIds == 1 .. MaxSubs
Subscription ==
  [kind : Kinds, service : Services, name : Events \cup Fields \cup Triggers,
   depth : 1 .. MaxDepth, queue : Seq(1 .. MaxSeq)]

VARIABLES
  offers,       \* offers_: per service its state and the process offering it
  findHandles,  \* find_handles_
  nextHandle,   \* next_handle_id_
  pending,      \* pending_method_calls_: the call queue of each service method
  inFlight,     \* in_flight_method_calls_, by correlation id
  results,      \* pending_method_results_: the result queue of each method
  futures,      \* method_futures_: the promise still held, by correlation id
  nextCorr,     \* next_method_correlation_id_
  subs,         \* subscriptions_, field_ and trigger_subscriptions_, by id
  nextSub,      \* next_subscription_id_, shared by the three maps
  fieldValues,  \* field_values_: sequence number of the latest value, 0 if none
  nextSeq,      \* next_sequence_, shared by events, fields and triggers
  settled,      \* what each client's future holds
  lastPolled    \* observer: last sequence number each subscriber took

offerVars == <<offers, findHandles, nextHandle>>
methodVars == <<pending, inFlight, results, futures, nextCorr, settled>>
sampleVars == <<subs, nextSub, fieldValues, nextSeq, lastPolled>>
registryVars == <<offers, findHandles, nextHandle,
          pending, inFlight, results, futures, nextCorr, settled,
          subs, nextSub, fieldValues, nextSeq, lastPolled>>

(* Definitions under the heading "Mutated:" are wrong on purpose; they are   *)
(* substituted for the definition that follows to see a property fail.      *)

\* Mutated: any service ever offered counts.
EverOffered(s) == offers[s].state # "never"

(* OfferedService: lookups see an offer only while it is not stopped.       *)
Offered(s) == offers[s].state = "offered"

-----------------------------------------------------------------------------
(* Offers and discovery.                                                    *)

RegistryInit ==
  /\ offers = [s \in Services |-> [state |-> "never", provider |-> Absent]]
  /\ findHandles = {}
  /\ nextHandle = 1
  /\ pending = [k \in MethodKeys |-> <<>>]
  /\ inFlight = [c \in Corr |-> NoCall]
  /\ results = [k \in MethodKeys |-> <<>>]
  /\ futures = [c \in Corr |-> NoFuture]
  /\ nextCorr = 1
  /\ settled = [f \in Futures |-> "unused"]
  /\ subs = [i \in SubIds |-> NoSub]
  /\ nextSub = 1
  /\ fieldValues = [s \in Services |-> [n \in Fields |-> 0]]
  /\ nextSeq = 1
  /\ lastPolled = [i \in SubIds |-> 0]

(* A valid offer replaces whatever was recorded under the service key, an   *)
(* active offer of another process included, and touches no call or sample. *)
OfferService(s, p) ==
  /\ offers' = [offers EXCEPT ![s] = [state |-> "offered", provider |-> p]]
  /\ UNCHANGED <<findHandles, nextHandle, methodVars, sampleVars>>

EraseQueues(queues, s) ==
  [k \in MethodKeys |-> IF k[1] = s THEN <<>> ELSE queues[k]]

\* Mutated: calls are forgotten but their futures are not settled.
EraseMethodQueuesOnlyFor(s) ==
  /\ pending' = EraseQueues(pending, s)
  /\ results' = EraseQueues(results, s)
  /\ inFlight' = [c \in Corr |->
       IF inFlight[c] # NoCall /\ inFlight[c].service = s
       THEN NoCall ELSE inFlight[c]]
  /\ UNCHANGED <<futures, settled, nextCorr>>

(* EraseMethodQueuesFor: forget every call and result of the service and    *)
(* settle its outstanding futures with an error.                            *)
EraseMethodQueuesFor(s) ==
  /\ pending' = EraseQueues(pending, s)
  /\ results' = EraseQueues(results, s)
  /\ inFlight' = [c \in Corr |->
       IF inFlight[c] # NoCall /\ inFlight[c].service = s
       THEN NoCall ELSE inFlight[c]]
  /\ futures' = [c \in Corr |->
       IF futures[c] # NoFuture /\ futures[c].service = s
       THEN NoFuture ELSE futures[c]]
  /\ settled' = [f \in Futures |->
       IF \E c \in Corr : futures[c] = [service |-> s, future |-> f]
       THEN "error" ELSE settled[f]]
  /\ UNCHANGED nextCorr

(* EraseFieldStateFor and EraseTriggerStateFor drop the field values and    *)
(* the field and trigger subscriptions; event subscriptions are kept.       *)
EraseSampleStateFor(s) ==
  /\ fieldValues' = [fieldValues EXCEPT ![s] = [n \in Fields |-> 0]]
  /\ subs' = [i \in SubIds |->
       IF /\ subs[i] # NoSub
          /\ subs[i].service = s
          /\ subs[i].kind \in {"field", "trigger"}
       THEN NoSub ELSE subs[i]]
  /\ UNCHANGED <<nextSub, nextSeq, lastPolled>>

(* StopOffer accepts a service already stopped, and errs only on one never  *)
(* offered.                                                                 *)
StopOffer(s) ==
  /\ offers[s].state # "never"
  /\ offers' = [offers EXCEPT ![s].state = "stopped"]
  /\ EraseMethodQueuesFor(s)
  /\ EraseSampleStateFor(s)
  /\ UNCHANGED <<findHandles, nextHandle>>

(* InvalidateEndpoint does the same; it returns silently where StopOffer    *)
(* errs, and marks the offer failed, a flag that only clients read.         *)
InvalidateEndpoint(s) == StopOffer(s)

StartFind(s) ==
  /\ nextHandle <= MaxHandles
  /\ findHandles' = findHandles \cup {[id |-> nextHandle, service |-> s]}
  /\ nextHandle' = nextHandle + 1
  /\ UNCHANGED <<offers, methodVars, sampleVars>>

StopFind(h) ==
  /\ \E handle \in findHandles : handle.id = h
  /\ findHandles' = {handle \in findHandles : handle.id # h}
  /\ UNCHANGED <<offers, nextHandle, methodVars, sampleVars>>

-----------------------------------------------------------------------------
(* Method calls.                                                            *)

Queued(queues, c) ==
  \E k \in MethodKeys : \E i \in 1 .. Len(queues[k]) : queues[k][i].corr = c

\* Mutated: an answered call no longer owns its id.
KnownUnanswered(c) == Queued(pending, c) \/ inFlight[c] # NoCall

(* CorrelationIsKnown *)
Known(c) == Queued(pending, c) \/ inFlight[c] # NoCall \/ Queued(results, c)

(* How far the counter travels from nextCorr to reach c, wrapping past 0.   *)
Distance(c) == (c - nextCorr) % MaxCorr

Successor(c) == IF c = MaxCorr THEN 1 ELSE c + 1

(* The id a submitted call gets.  want = 0 asks for the next free one: the  *)
(* counter skips every id that is known (with all 2^64 - 1 known the code   *)
(* would loop; here no id qualifies).  Any other id must not be known.      *)
Assigns(want, c) ==
  /\ ~Known(c)
  /\ IF want = 0
     THEN /\ \A d \in Corr : Distance(d) < Distance(c) => Known(d)
          /\ nextCorr' = Successor(c)
     ELSE c = want /\ UNCHANGED nextCorr

AppendAt(queues, k, x) == [queues EXCEPT ![k] = Append(@, x)]

Enqueue(s, m, c, expects) ==
  pending' = AppendAt(pending, <<s, m>>,
    [service |-> s, method |-> m, corr |-> c, expects |-> expects])

SubmitMethodCall(s, m, want, expects) ==
  /\ Offered(s)
  /\ \E c \in Corr : Assigns(want, c) /\ Enqueue(s, m, c, expects)
  /\ UNCHANGED <<inFlight, results, futures, settled, offerVars, sampleVars>>

(* The promise is stored with emplace, which keeps an entry already there.  *)
SubmitMethodCallFuture(s, m, want, f) ==
  /\ Offered(s)
  /\ settled[f] = "unused"
  /\ settled' = [settled EXCEPT ![f] = "open"]
  /\ \E c \in Corr :
       /\ Assigns(want, c)
       /\ Enqueue(s, m, c, TRUE)
       /\ futures' = IF futures[c] = NoFuture
                     THEN [futures EXCEPT ![c] = [service |-> s, future |-> f]]
                     ELSE futures
  /\ UNCHANGED <<inFlight, results, offerVars, sampleVars>>

(* Deleting the i-th entry of a queue.                                      *)
Without(q, i) == [j \in 1 .. Len(q) - 1 |-> IF j < i THEN q[j] ELSE q[j + 1]]
WithoutPlace(queues, k, i) == [queues EXCEPT ![k] = Without(@, i)]

TakeMethodCall(s, m) ==
  /\ Offered(s)
  /\ pending[<<s, m>>] # <<>>
  /\ LET call == Head(pending[<<s, m>>]) IN
       inFlight' = IF call.expects
                   THEN [inFlight EXCEPT ![call.corr] = call] ELSE inFlight
  /\ pending' = WithoutPlace(pending, <<s, m>>, 1)
  /\ UNCHANGED <<results, futures, nextCorr, settled, offerVars, sampleVars>>

\* Mutated: the result is matched by correlation id alone.
MatchesInFlightId(s, m, c) == inFlight[c] # NoCall

MatchesInFlight(s, m, c) ==
  inFlight[c] # NoCall /\ inFlight[c].service = s /\ inFlight[c].method = m

CompleteMethodCall(s, m, c) ==
  /\ Offered(s)
  /\ MatchesInFlight(s, m, c)
  /\ inFlight' = [inFlight EXCEPT ![c] = NoCall]
  /\ results' = AppendAt(results, <<s, m>>,
                          [service |-> s, method |-> m, corr |-> c])
  /\ futures' = [futures EXCEPT ![c] = NoFuture]
  /\ settled' = IF futures[c] = NoFuture THEN settled
                ELSE [settled EXCEPT ![futures[c].future] = "value"]
  /\ UNCHANGED <<pending, nextCorr, offerVars, sampleVars>>

(* Takes the first result with that id, whether or not the service is still *)
(* offered.                                                                 *)
TakeMethodResult(s, m, c) ==
  /\ LET queue == results[<<s, m>>] IN
       \E i \in 1 .. Len(queue) :
         /\ queue[i].corr = c
         /\ \A j \in 1 .. i - 1 : queue[j].corr # c
         /\ results' = WithoutPlace(results, <<s, m>>, i)
  /\ UNCHANGED <<pending, inFlight, futures, nextCorr, settled,
                 offerVars, sampleVars>>

-----------------------------------------------------------------------------
(* Events, fields and triggers.                                             *)

\* Mutated: a field subscriber starts empty.
EmptyQueue(s, n) == <<>>

(* A field subscriber starts with the current value queued, if there is one.*)
InitialQueue(s, n) == IF fieldValues[s][n] # 0 THEN <<fieldValues[s][n]>> ELSE <<>>

AddSubscription(kind, s, n, depth, queue) ==
  /\ Offered(s)
  /\ nextSub <= MaxSubs
  /\ subs' = [subs EXCEPT ![nextSub] =
       [kind |-> kind, service |-> s, name |-> n, depth |-> depth, queue |-> queue]]
  /\ nextSub' = nextSub + 1
  /\ UNCHANGED <<fieldValues, nextSeq, lastPolled, offerVars, methodVars>>

Subscribe(s, n, depth) == AddSubscription("event", s, n, depth, <<>>)
SubscribeField(s, n, depth) ==
  AddSubscription("field", s, n, depth, InitialQueue(s, n))
SubscribeTrigger(s, n, depth) == AddSubscription("trigger", s, n, depth, <<>>)

(* An id is in one of the three maps of subscriptions only.                 *)
Unsubscribe(i) ==
  /\ subs[i] # NoSub
  /\ subs' = [subs EXCEPT ![i] = NoSub]
  /\ UNCHANGED <<nextSub, fieldValues, nextSeq, lastPolled, offerVars, methodVars>>

(* push_back, then pop_front while the queue is longer than its depth.      *)
PushBounded(q, x, depth) ==
  LET longer == Append(q, x)
  IN  SubSeq(longer, 1 + (IF Len(longer) > depth THEN Len(longer) - depth ELSE 0),
             Len(longer))

Deliver(kind, s, n) ==
  /\ nextSeq <= MaxSeq
  /\ nextSeq' = nextSeq + 1
  /\ subs' = [i \in SubIds |->
       IF subs[i] # NoSub /\ <<subs[i].kind, subs[i].service, subs[i].name>>
                             = <<kind, s, n>>
       THEN [subs[i] EXCEPT !.queue = PushBounded(@, nextSeq, subs[i].depth)]
       ELSE subs[i]]
  /\ UNCHANGED <<nextSub, lastPolled, offerVars, methodVars>>

Publish(s, n) == Offered(s) /\ Deliver("event", s, n) /\ UNCHANGED fieldValues

SetField(s, n) ==
  /\ Offered(s)
  /\ Deliver("field", s, n)
  /\ fieldValues' = [fieldValues EXCEPT ![s][n] = nextSeq]

FireTrigger(s, n) ==
  Offered(s) /\ Deliver("trigger", s, n) /\ UNCHANGED fieldValues

(* None of the polls asks for an active offer.                                *)
TakeFirst(kind, i) ==
  /\ subs[i] # NoSub /\ subs[i].kind = kind
  /\ subs[i].queue # <<>>
  /\ lastPolled' = [lastPolled EXCEPT ![i] = Head(subs[i].queue)]
  /\ subs' = [subs EXCEPT ![i].queue = Tail(@)]
  /\ UNCHANGED <<nextSub, fieldValues, nextSeq, offerVars, methodVars>>

Poll(i) == TakeFirst("event", i)
PollField(i) == TakeFirst("field", i)
PollTrigger(i) == TakeFirst("trigger", i)

-----------------------------------------------------------------------------
OfferNext ==
  \/ \E s \in Services, p \in Providers : OfferService(s, p)
  \/ \E s \in Services : StopOffer(s)
  \/ \E s \in Services : InvalidateEndpoint(s)
  \/ \E s \in Services : StartFind(s)
  \/ \E h \in 1 .. MaxHandles : StopFind(h)

MethodNext ==
  \E s \in Services, m \in Methods :
    \/ \E want \in {0} \cup Corr, expects \in BOOLEAN :
         SubmitMethodCall(s, m, want, expects)
    \/ \E want \in {0} \cup Corr, f \in Futures :
         SubmitMethodCallFuture(s, m, want, f)
    \/ TakeMethodCall(s, m)
    \/ \E c \in Corr : CompleteMethodCall(s, m, c)
    \/ \E c \in Corr : TakeMethodResult(s, m, c)

SampleNext ==
  \/ \E s \in Services, depth \in 1 .. MaxDepth :
       \/ \E n \in Events : Subscribe(s, n, depth)
       \/ \E n \in Fields : SubscribeField(s, n, depth)
       \/ \E n \in Triggers : SubscribeTrigger(s, n, depth)
  \/ \E i \in SubIds : Unsubscribe(i)
  \/ \E s \in Services, n \in Events : Publish(s, n)
  \/ \E s \in Services, n \in Fields : SetField(s, n)
  \/ \E s \in Services, n \in Triggers : FireTrigger(s, n)
  \/ \E i \in SubIds : Poll(i) \/ PollField(i) \/ PollTrigger(i)

RegistryNext == OfferNext \/ MethodNext \/ SampleNext

RegistrySpec == RegistryInit /\ [][RegistryNext]_registryVars

-----------------------------------------------------------------------------
(* Properties.                                                              *)

RegistryTypeOK ==
  /\ offers \in [Services -> [state : {"never", "offered", "stopped"},
                              provider : Providers \cup {Absent}]]
  /\ findHandles \subseteq [id : 1 .. MaxHandles, service : Services]
  /\ nextHandle \in 1 .. MaxHandles + 1
  /\ pending \in [MethodKeys -> Seq(Call)]
  /\ inFlight \in [Corr -> Call \cup {NoCall}]
  /\ results \in [MethodKeys -> Seq(MethodResult)]
  /\ futures \in [Corr -> Promised \cup {NoFuture}]
  /\ nextCorr \in Corr
  /\ settled \in [Futures -> {"unused", "open", "value", "error"}]
  /\ subs \in [SubIds -> Subscription \cup {NoSub}]
  /\ nextSub \in 1 .. MaxSubs + 1
  /\ fieldValues \in [Services -> [Fields -> 0 .. MaxSeq]]
  /\ nextSeq \in 1 .. MaxSeq + 1
  /\ lastPolled \in [SubIds -> 0 .. MaxSeq]

(* Every live call or result owns its correlation id: no id is queued twice,*)
(* and none is at once pending, in flight or answered.  A result can then   *)
(* be matched to one call only, also after the counter wraps and whatever   *)
(* ids clients choose themselves.                                           *)
QueuedOnce(queues) ==
  \A k, l \in MethodKeys :
    \A i \in 1 .. Len(queues[k]), j \in 1 .. Len(queues[l]) :
      queues[k][i].corr = queues[l][j].corr => k = l /\ i = j

CorrelationUnique ==
  /\ QueuedOnce(pending)
  /\ QueuedOnce(results)
  /\ \A c \in Corr :
       /\ ~(Queued(pending, c) /\ inFlight[c] # NoCall)
       /\ ~(Queued(pending, c) /\ Queued(results, c))
       /\ ~(Queued(results, c) /\ inFlight[c] # NoCall)

(* A client never waits on a future nothing can settle: a future is open    *)
(* exactly while the registry holds its promise, under one id only, and the *)
(* call with that id is still waiting for the same service to answer it.    *)
FutureBacked ==
  /\ \A f \in Futures :
       settled[f] = "open" <=> \E c \in Corr : futures[c] # NoFuture /\ futures[c].future = f
  /\ \A c, d \in Corr :
       futures[c] # NoFuture /\ futures[d] # NoFuture
         /\ futures[c].future = futures[d].future => c = d
  /\ \A c \in Corr : futures[c] # NoFuture =>
       \/ inFlight[c] # NoCall /\ inFlight[c].service = futures[c].service
       \/ \E k \in MethodKeys : \E i \in 1 .. Len(pending[k]) :
            /\ k[1] = futures[c].service
            /\ pending[k][i].corr = c /\ pending[k][i].expects

(* Both: every live call can be told apart, and every open future be kept.  *)
CallsAccounted == CorrelationUnique /\ FutureBacked

(* A service that is not offered leaves nothing behind that a later         *)
(* provider of the same service would inherit: no call, result, future,     *)
(* field value, field subscription or trigger subscription.                 *)
WithdrawnServiceHoldsNothing ==
  \A s \in Services : offers[s].state # "offered" =>
    /\ \A m \in Methods : pending[<<s, m>>] = <<>> /\ results[<<s, m>>] = <<>>
    /\ \A c \in Corr :
         /\ inFlight[c] # NoCall => inFlight[c].service # s
         /\ futures[c] # NoFuture => futures[c].service # s
    /\ \A n \in Fields : fieldValues[s][n] = 0
    /\ \A i \in SubIds :
         subs[i] # NoSub /\ subs[i].kind # "event" => subs[i].service # s

FieldSubscriberSeesLatest(i) ==
  LET queue == subs[i].queue
      latest == IF queue = <<>> THEN lastPolled[i] ELSE queue[Len(queue)]
  IN  latest = fieldValues[subs[i].service][subs[i].name]

(* A subscriber is handed samples in publication order, never one twice and *)
(* never one older than it already took, and its queue keeps to its depth,  *)
(* through overflows, withdrawals and new offers of the service.  A field   *)
(* subscriber that polls until its queue is empty ends with the value that  *)
(* GetField returns.                                                        *)
SamplesInOrder ==
  \A i \in SubIds : subs[i] # NoSub =>
    LET queue == subs[i].queue IN
    /\ Len(queue) <= subs[i].depth
    /\ \A j \in 1 .. Len(queue) : lastPolled[i] < queue[j] /\ queue[j] < nextSeq
    /\ \A j, k \in 1 .. Len(queue) : j < k => queue[j] < queue[k]
    /\ subs[i].kind = "field" => FieldSubscriberSeesLatest(i)

(* The registry implements the call lifecycle.                              *)
LiveCalls ==
  LET live(k, c, phase, oneWay) ==
        [service |-> k[1], method |-> k[2], corr |-> c, phase |-> phase,
         oneWay |-> oneWay,
         future |-> IF futures[c] = NoFuture THEN Absent ELSE futures[c].future]
      entries(queues) ==
        UNION {{<<k, i>> : i \in 1 .. Len(queues[k])} : k \in MethodKeys}
  IN  {live(e[1], pending[e[1]][e[2]].corr, "pending", ~pending[e[1]][e[2]].expects) :
         e \in entries(pending)}
      \cup {live(<<inFlight[c].service, inFlight[c].method>>, c, "taken", FALSE) :
             c \in {d \in Corr : inFlight[d] # NoCall}}
      \cup {live(e[1], results[e[1]][e[2]].corr, "answered", FALSE) :
             e \in entries(results)}

Lifecycle == INSTANCE CallLifecycle WITH calls <- LiveCalls
CallsFollowLifecycle == Lifecycle!Spec

-----------------------------------------------------------------------------
(* A provider that serves: it polls each of its method queues and completes *)
(* the calls it has taken, as the generated skeleton's Take and Complete    *)
(* wrappers let it do; nothing is assumed of clients or of withdrawals.     *)
ServingFairness ==
  /\ \A s \in Services, m \in Methods :
       /\ WF_registryVars(TakeMethodCall(s, m))
       /\ \A c \in Corr : WF_registryVars(CompleteMethodCall(s, m, c))

FairSpec == RegistrySpec /\ ServingFairness

(* A client waiting on a future is always released, with a value or with an *)
(* error, whatever other clients do and however often the service is        *)
(* withdrawn, invalidated and offered again.                                *)
FutureSettles ==
  \A f \in Futures : settled[f] = "open" ~> settled[f] \in {"value", "error"}
=============================================================================
