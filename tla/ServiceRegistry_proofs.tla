------------------------ MODULE ServiceRegistry_proofs ------------------------
(* Proofs about the service registry for every set of services, methods and  *)
(* names, every width of the correlation counter and every queue depth.      *)
EXTENDS ServiceRegistry, TLAPS

(* Calls sit in the queue of the service and method they name.               *)
Routed ==
  \A k \in MethodKeys : \A i \in 1 .. Len(pending[k]) :
    pending[k][i].service = k[1] /\ pending[k][i].method = k[2]

(* The names a subscription of each kind may have.                           *)
Names(kind) == CASE kind = "event"   -> Events
                 [] kind = "field"   -> Fields
                 [] kind = "trigger" -> Triggers

-----------------------------------------------------------------------------
(* Type correctness.                                                         *)

(* Deleting an entry of a sequence leaves a sequence of the same set.        *)
LEMMA WithoutType ==
  ASSUME NEW S, NEW q \in Seq(S), NEW i \in 1 .. Len(q)
  PROVE  /\ Without(q, i) \in Seq(S)
         /\ Len(Without(q, i)) = Len(q) - 1
         /\ \A j \in 1 .. Len(q) - 1 :
              Without(q, i)[j] = IF j < i THEN q[j] ELSE q[j + 1]
<1>1. Len(q) - 1 \in Nat
  OBVIOUS
<1>2. \A j \in 1 .. Len(q) - 1 : (IF j < i THEN q[j] ELSE q[j + 1]) \in S
  OBVIOUS
<1> QED BY <1>1, <1>2 DEF Without

(* A bounded push yields a queue of its depth at most.                       *)
LEMMA PushBoundedType ==
  ASSUME NEW S, NEW q \in Seq(S), NEW x \in S, NEW depth \in Nat \ {0}
  PROVE  PushBounded(q, x, depth) \in Seq(S)
<1> DEFINE longer == Append(q, x)
<1> DEFINE first == 1 + (IF Len(longer) > depth THEN Len(longer) - depth ELSE 0)
<1>1. longer \in Seq(S) /\ Len(longer) = Len(q) + 1
  OBVIOUS
<1>2. first \in 1 .. Len(longer)
  BY <1>1
<1>3. SubSeq(longer, first, Len(longer)) \in Seq(S)
  BY <1>1, <1>2
<1> QED BY <1>3 DEF PushBounded

(* Appending to one queue of a map of queues.                                *)
LEMMA AppendAtType ==
  ASSUME NEW S, NEW queues \in [MethodKeys -> Seq(S)], NEW k \in MethodKeys, NEW x \in S
  PROVE  AppendAt(queues, k, x) \in [MethodKeys -> Seq(S)]
<1>1. Append(queues[k], x) \in Seq(S)
  OBVIOUS
<1> QED BY <1>1 DEF AppendAt

(* Removing an entry of one queue of a map of queues.                        *)
LEMMA RemoveAtType ==
  ASSUME NEW S, NEW queues \in [MethodKeys -> Seq(S)], NEW k \in MethodKeys,
         NEW i \in 1 .. Len(queues[k])
  PROVE  WithoutPlace(queues, k, i) \in [MethodKeys -> Seq(S)]
<1>1. Without(queues[k], i) \in Seq(S)
  BY WithoutType
<1> QED BY <1>1 DEF WithoutPlace

LEMMA SingletonType ==
  ASSUME NEW S, NEW x \in S
  PROVE  <<x>> \in Seq(S)
  OBVIOUS

LEMMA HeadTailType ==
  ASSUME NEW S, NEW q \in Seq(S), q # <<>>
  PROVE  Head(q) \in S /\ Tail(q) \in Seq(S) /\ Len(q) \in Nat \ {0}
  OBVIOUS

LEMMA InitTypeOK == RegistryInit => RegistryTypeOK
  BY MaxCorrAssumption, BoundsAssumption
  DEF RegistryInit, RegistryTypeOK, Corr, SubIds, Subscription

(* A service that is withdrawn keeps every map within its type.              *)
LEMMA StopOfferTypeOK ==
  ASSUME RegistryTypeOK, NEW s \in Services, StopOffer(s)
  PROVE  RegistryTypeOK'
<1>1. offers' \in [Services -> [state : {"never", "offered", "stopped"},
                                provider : Providers \cup {Absent}]]
  BY DEF RegistryTypeOK, StopOffer
<1>2. pending' \in [MethodKeys -> Seq(Call)]
      /\ results' \in [MethodKeys -> Seq(MethodResult)]
  BY DEF RegistryTypeOK, StopOffer, EraseMethodQueuesFor, EraseQueues
<1>3. inFlight' \in [Corr -> Call \cup {NoCall}]
      /\ futures' \in [Corr -> Promised \cup {NoFuture}]
  BY DEF RegistryTypeOK, StopOffer, EraseMethodQueuesFor
<1>4. settled' \in [Futures -> {"unused", "open", "value", "error"}]
  BY DEF RegistryTypeOK, StopOffer, EraseMethodQueuesFor
<1>5. subs' \in [SubIds -> Subscription \cup {NoSub}]
  BY DEF RegistryTypeOK, StopOffer, EraseSampleStateFor
<1>6. fieldValues' \in [Services -> [Fields -> 0 .. MaxSeq]]
  BY BoundsAssumption DEF RegistryTypeOK, StopOffer, EraseSampleStateFor
<1> QED
  BY <1>1, <1>2, <1>3, <1>4, <1>5, <1>6
  DEF RegistryTypeOK, StopOffer, EraseMethodQueuesFor, EraseSampleStateFor

LEMMA OfferTypeOK ==
  ASSUME RegistryTypeOK, OfferNext
  PROVE  RegistryTypeOK'
<1>1. ASSUME NEW s \in Services, NEW p \in Providers, OfferService(s, p)
      PROVE  RegistryTypeOK'
  BY <1>1 DEF RegistryTypeOK, OfferService, methodVars, sampleVars
<1>2. ASSUME NEW s \in Services, StopOffer(s)
      PROVE  RegistryTypeOK'
  BY <1>2, StopOfferTypeOK
<1>3. ASSUME NEW s \in Services, StartFind(s)
      PROVE  RegistryTypeOK'
  BY <1>3, BoundsAssumption DEF RegistryTypeOK, StartFind, methodVars, sampleVars
<1>4. ASSUME NEW h \in 1 .. MaxHandles, StopFind(h)
      PROVE  RegistryTypeOK'
  BY <1>4 DEF RegistryTypeOK, StopFind, methodVars, sampleVars
<1> QED
  BY <1>1, <1>2, <1>3, <1>4 DEF OfferNext, InvalidateEndpoint

LEMMA MethodTypeOK ==
  ASSUME RegistryTypeOK, MethodNext
  PROVE  RegistryTypeOK'
<1> USE DEF offerVars, sampleVars
<1>1. ASSUME NEW c \in Corr, NEW want \in {0} \cup Corr, Assigns(want, c)
      PROVE  nextCorr' \in Corr
  BY <1>1, MaxCorrAssumption DEF Assigns, Successor, RegistryTypeOK, Corr
<1>2. ASSUME NEW s \in Services, NEW m \in Methods, NEW c \in Corr,
             NEW expects \in BOOLEAN, Enqueue(s, m, c, expects)
      PROVE  pending' \in [MethodKeys -> Seq(Call)]
  <2> DEFINE call == [service |-> s, method |-> m, corr |-> c, expects |-> expects]
  <2>1. call \in Call
    BY DEF Call
  <2>2. AppendAt(pending, <<s, m>>, call) \in [MethodKeys -> Seq(Call)]
    BY <2>1, AppendAtType DEF RegistryTypeOK, MethodKeys
  <2> QED BY <1>2, <2>2 DEF Enqueue
<1>3. ASSUME NEW s \in Services, NEW m \in Methods, NEW want \in {0} \cup Corr,
             NEW expects \in BOOLEAN, SubmitMethodCall(s, m, want, expects)
      PROVE  RegistryTypeOK'
  BY <1>1, <1>2, <1>3 DEF SubmitMethodCall, RegistryTypeOK
<1>4. ASSUME NEW s \in Services, NEW m \in Methods, NEW want \in {0} \cup Corr,
             NEW f \in Futures, SubmitMethodCallFuture(s, m, want, f)
      PROVE  RegistryTypeOK'
  <2>1. PICK c \in Corr : /\ Assigns(want, c) /\ Enqueue(s, m, c, TRUE)
                          /\ futures' = IF futures[c] = NoFuture
                               THEN [futures EXCEPT ![c] = [service |-> s, future |-> f]]
                               ELSE futures
    BY <1>4 DEF SubmitMethodCallFuture
  <2>2. futures' \in [Corr -> Promised \cup {NoFuture}]
    BY <2>1 DEF RegistryTypeOK, Promised
  <2>3. settled' \in [Futures -> {"unused", "open", "value", "error"}]
    BY <1>4 DEF RegistryTypeOK, SubmitMethodCallFuture
  <2> QED
    BY <1>1, <1>2, <1>4, <2>1, <2>2, <2>3 DEF SubmitMethodCallFuture, RegistryTypeOK
<1>5. ASSUME NEW s \in Services, NEW m \in Methods, TakeMethodCall(s, m)
      PROVE  RegistryTypeOK'
  <2> DEFINE k == <<s, m>>
  <2>1. k \in MethodKeys /\ pending[k] \in Seq(Call) /\ pending[k] # <<>>
    BY <1>5 DEF RegistryTypeOK, TakeMethodCall, MethodKeys
  <2>2. Head(pending[k]) \in Call /\ 1 \in 1 .. Len(pending[k])
    BY <2>1, HeadTailType
  <2>3. inFlight' \in [Corr -> Call \cup {NoCall}]
    BY <1>5, <2>2 DEF RegistryTypeOK, TakeMethodCall, Call
  <2>4. pending' \in [MethodKeys -> Seq(Call)]
    BY <1>5, <2>1, <2>2, RemoveAtType DEF RegistryTypeOK, TakeMethodCall
  <2> QED
    BY <1>5, <2>3, <2>4 DEF RegistryTypeOK, TakeMethodCall
<1>6. ASSUME NEW s \in Services, NEW m \in Methods, NEW c \in Corr,
             CompleteMethodCall(s, m, c)
      PROVE  RegistryTypeOK'
  <2>1. results' \in [MethodKeys -> Seq(MethodResult)]
    <3> DEFINE result == [service |-> s, method |-> m, corr |-> c]
    <3>1. result \in MethodResult
      BY DEF MethodResult
    <3>2. AppendAt(results, <<s, m>>, result) \in [MethodKeys -> Seq(MethodResult)]
      BY <3>1, AppendAtType DEF RegistryTypeOK, MethodKeys
    <3> QED BY <1>6, <3>2 DEF CompleteMethodCall
  <2>2. inFlight' \in [Corr -> Call \cup {NoCall}]
        /\ futures' \in [Corr -> Promised \cup {NoFuture}]
    BY <1>6 DEF RegistryTypeOK, CompleteMethodCall
  <2>3. settled' \in [Futures -> {"unused", "open", "value", "error"}]
    BY <1>6 DEF RegistryTypeOK, CompleteMethodCall
  <2> QED
    BY <1>6, <2>1, <2>2, <2>3 DEF RegistryTypeOK, CompleteMethodCall
<1>7. ASSUME NEW s \in Services, NEW m \in Methods, NEW c \in Corr,
             TakeMethodResult(s, m, c)
      PROVE  RegistryTypeOK'
  <2>1. PICK i \in 1 .. Len(results[<<s, m>>]) :
          results' = WithoutPlace(results, <<s, m>>, i)
    BY <1>7 DEF TakeMethodResult
  <2>2. results' \in [MethodKeys -> Seq(MethodResult)]
    BY <2>1, RemoveAtType DEF RegistryTypeOK, MethodKeys
  <2> QED
    BY <1>7, <2>2 DEF RegistryTypeOK, TakeMethodResult
<1> QED
  BY <1>3, <1>4, <1>5, <1>6, <1>7 DEF MethodNext

LEMMA DeliverTypeOK ==
  ASSUME RegistryTypeOK, NEW kind \in Kinds, NEW s \in Services, NEW n \in Names(kind),
         Deliver(kind, s, n)
  PROVE  /\ subs' \in [SubIds -> Subscription \cup {NoSub}]
         /\ nextSeq \in 1 .. MaxSeq
         /\ nextSeq' \in 1 .. MaxSeq + 1
<1>1. nextSeq \in 1 .. MaxSeq /\ nextSeq' \in 1 .. MaxSeq + 1
  BY BoundsAssumption DEF RegistryTypeOK, Deliver
<1>2. ASSUME NEW i \in SubIds, subs[i] # NoSub
      PROVE  [subs[i] EXCEPT !.queue = PushBounded(@, nextSeq, subs[i].depth)]
               \in Subscription
  <2>1. subs[i] \in Subscription
    BY <1>2 DEF RegistryTypeOK
  <2>2. subs[i].depth \in Nat \ {0} /\ subs[i].queue \in Seq(1 .. MaxSeq)
    BY <2>1, BoundsAssumption DEF Subscription
  <2>3. PushBounded(subs[i].queue, nextSeq, subs[i].depth) \in Seq(1 .. MaxSeq)
    BY <1>1, <2>2, PushBoundedType
  <2> QED BY <2>1, <2>3 DEF Subscription
<1>3. ASSUME NEW i \in SubIds
      PROVE  subs'[i] \in Subscription \cup {NoSub}
  BY <1>2 DEF RegistryTypeOK, Deliver
<1>4. DOMAIN subs' = SubIds /\ subs' = [i \in SubIds |-> subs'[i]]
  BY DEF Deliver
<1> QED BY <1>1, <1>3, <1>4

LEMMA SampleTypeOK ==
  ASSUME RegistryTypeOK, SampleNext
  PROVE  RegistryTypeOK'
<1> USE BoundsAssumption DEF offerVars, methodVars
<1>0. ASSUME NEW kind \in Kinds, NEW s \in Services, NEW depth \in 1 .. MaxDepth,
             NEW n \in Names(kind), NEW queue \in Seq(1 .. MaxSeq),
             AddSubscription(kind, s, n, depth, queue)
      PROVE  RegistryTypeOK'
  <2>1. n \in Events \cup Fields \cup Triggers /\ (kind = "field" => n \in Fields)
    BY DEF Names, Kinds
  <2>2. nextSub \in SubIds /\ nextSub' \in 1 .. MaxSubs + 1
    BY <1>0 DEF AddSubscription, RegistryTypeOK, SubIds
  <2>3. subs' \in [SubIds -> Subscription \cup {NoSub}]
    BY <1>0, <2>1, <2>2 DEF AddSubscription, RegistryTypeOK, Subscription
  <2> QED BY <1>0, <2>2, <2>3 DEF AddSubscription, RegistryTypeOK
<1>1. ASSUME NEW s \in Services, NEW n \in Fields
      PROVE  InitialQueue(s, n) \in Seq(1 .. MaxSeq)
  <2>1. CASE fieldValues[s][n] # 0
    <3>1. PICK v \in 1 .. MaxSeq : v = fieldValues[s][n]
      BY <2>1 DEF RegistryTypeOK
    <3>2. <<v>> \in Seq(1 .. MaxSeq)
      BY SingletonType
    <3> QED BY <2>1, <3>1, <3>2 DEF InitialQueue
  <2>2. CASE fieldValues[s][n] = 0
    BY <2>2 DEF InitialQueue
  <2> QED BY <2>1, <2>2
<1>7. ASSUME NEW s \in Services, NEW depth \in 1 .. MaxDepth,
             \/ \E n \in Events : Subscribe(s, n, depth)
             \/ \E n \in Fields : SubscribeField(s, n, depth)
             \/ \E n \in Triggers : SubscribeTrigger(s, n, depth)
      PROVE  RegistryTypeOK'
  <2>1. /\ Names("event") = Events /\ Names("field") = Fields
        /\ Names("trigger") = Triggers /\ Kinds = {"event", "field", "trigger"}
    BY DEF Names, Kinds
  <2>2. <<>> \in Seq(1 .. MaxSeq)
    OBVIOUS
  <2> QED BY <1>0, <1>1, <1>7, <2>1, <2>2 DEF Subscribe, SubscribeField, SubscribeTrigger
<1>2. ASSUME NEW i \in SubIds, Unsubscribe(i)
      PROVE  RegistryTypeOK'
  BY <1>2 DEF Unsubscribe, RegistryTypeOK
<1>3. ASSUME NEW s \in Services, NEW n \in Events, Publish(s, n)
      PROVE  RegistryTypeOK'
  <2>1. Deliver("event", s, n) /\ n \in Names("event") /\ "event" \in Kinds
    BY <1>3 DEF Publish, Names, Kinds
  <2>2. subs' \in [SubIds -> Subscription \cup {NoSub}] /\ nextSeq' \in 1 .. MaxSeq + 1
    BY <2>1, DeliverTypeOK
  <2> QED BY <1>3, <2>1, <2>2 DEF Publish, Deliver, RegistryTypeOK
<1>4. ASSUME NEW s \in Services, NEW n \in Fields, SetField(s, n)
      PROVE  RegistryTypeOK'
  <2>1. Deliver("field", s, n) /\ n \in Names("field") /\ "field" \in Kinds
    BY <1>4 DEF SetField, Names, Kinds
  <2>2. subs' \in [SubIds -> Subscription \cup {NoSub}]
        /\ nextSeq \in 1 .. MaxSeq /\ nextSeq' \in 1 .. MaxSeq + 1
    BY <2>1, DeliverTypeOK
  <2>3. fieldValues' \in [Services -> [Fields -> 0 .. MaxSeq]]
    BY <1>4, <2>2 DEF SetField, RegistryTypeOK
  <2> QED BY <1>4, <2>1, <2>2, <2>3 DEF SetField, Deliver, RegistryTypeOK
<1>5. ASSUME NEW s \in Services, NEW n \in Triggers, FireTrigger(s, n)
      PROVE  RegistryTypeOK'
  <2>1. Deliver("trigger", s, n) /\ n \in Names("trigger") /\ "trigger" \in Kinds
    BY <1>5 DEF FireTrigger, Names, Kinds
  <2>2. subs' \in [SubIds -> Subscription \cup {NoSub}] /\ nextSeq' \in 1 .. MaxSeq + 1
    BY <2>1, DeliverTypeOK
  <2> QED BY <1>5, <2>1, <2>2 DEF FireTrigger, Deliver, RegistryTypeOK
<1>6. ASSUME NEW i \in SubIds, NEW kind \in Kinds, TakeFirst(kind, i)
      PROVE  RegistryTypeOK'
  <2>1. subs[i] \in Subscription /\ subs[i].queue \in Seq(1 .. MaxSeq)
    BY <1>6 DEF TakeFirst, RegistryTypeOK, Subscription
  <2>2. Head(subs[i].queue) \in 1 .. MaxSeq /\ Tail(subs[i].queue) \in Seq(1 .. MaxSeq)
    <3>1. subs[i].queue # <<>>
      BY <1>6 DEF TakeFirst
    <3> QED BY <2>1, <3>1, HeadTailType
  <2>3. subs' \in [SubIds -> Subscription \cup {NoSub}]
    BY <1>6, <2>1, <2>2 DEF TakeFirst, RegistryTypeOK, Subscription
  <2>4. lastPolled' \in [SubIds -> 0 .. MaxSeq]
    BY <1>6, <2>2, SMTT(40) DEF TakeFirst, RegistryTypeOK
  <2> QED BY <1>6, <2>3, <2>4 DEF TakeFirst, RegistryTypeOK
<1> QED
  BY <1>2, <1>3, <1>4, <1>5, <1>6, <1>7
  DEF SampleNext, Poll, PollField, PollTrigger, Kinds

(* Every reachable state of the registry is well typed.                      *)
THEOREM TypeCorrect == RegistrySpec => []RegistryTypeOK
<1>1. RegistryTypeOK /\ [RegistryNext]_registryVars => RegistryTypeOK'
  <2>1. RegistryTypeOK /\ RegistryNext => RegistryTypeOK'
    BY OfferTypeOK, MethodTypeOK, SampleTypeOK DEF RegistryNext
  <2>2. RegistryTypeOK /\ UNCHANGED registryVars => RegistryTypeOK'
    BY DEF RegistryTypeOK, registryVars
  <2> QED BY <2>1, <2>2
<1> QED BY InitTypeOK, <1>1, PTL DEF RegistrySpec

-----------------------------------------------------------------------------
(* How the operations on a map of queues change the set of queued ids.       *)

(* Appending to one queue.                                                   *)
LEMMA AppendAtQueued ==
  ASSUME NEW S, NEW queues \in [MethodKeys -> Seq(S)], NEW k \in MethodKeys, NEW x \in S
  PROVE  LET after == AppendAt(queues, k, x)
         IN  /\ \A c : Queued(after, c) <=> Queued(queues, c) \/ c = x.corr
             /\ QueuedOnce(queues) /\ ~Queued(queues, x.corr) => QueuedOnce(after)
<1> DEFINE after == AppendAt(queues, k, x)
<1>1. \A l \in MethodKeys : queues[l] \in Seq(S) /\ Len(queues[l]) \in Nat
  OBVIOUS
<1>2. \A l \in MethodKeys : after[l] = IF l = k THEN Append(queues[k], x) ELSE queues[l]
  BY DEF AppendAt
<1>3. /\ Len(after[k]) = Len(queues[k]) + 1
      /\ after[k][Len(queues[k]) + 1] = x
      /\ \A i \in 1 .. Len(queues[k]) : after[k][i] = queues[k][i]
  <2>1. after[k] = Append(queues[k], x) /\ queues[k] \in Seq(S)
    BY <1>1, <1>2
  <2> HIDE DEF after
  <2> QED BY <2>1
<1>4. \A l \in MethodKeys : \A i \in 1 .. Len(queues[l]) :
        i \in 1 .. Len(after[l]) /\ after[l][i] = queues[l][i]
  BY <1>1, <1>2, <1>3
<1>5. \A l \in MethodKeys : \A i \in 1 .. Len(after[l]) :
        i \in 1 .. Len(queues[l]) \/ (l = k /\ i = Len(queues[k]) + 1)
  BY <1>1, <1>2, <1>3
<1>6. Len(queues[k]) + 1 \in 1 .. Len(after[k])
  BY <1>1, <1>3
<1> HIDE DEF after
<1>7. ASSUME NEW c
      PROVE  Queued(after, c) <=> Queued(queues, c) \/ c = x.corr
  BY <1>3, <1>4, <1>5, <1>6, SMTT(40) DEF Queued
<1>8. ASSUME QueuedOnce(queues), ~Queued(queues, x.corr)
      PROVE  QueuedOnce(after)
  <2>1. \A l \in MethodKeys : \A i \in 1 .. Len(queues[l]) : queues[l][i].corr # x.corr
    BY <1>8 DEF Queued
  <2> SUFFICES ASSUME NEW l1 \in MethodKeys, NEW l2 \in MethodKeys,
                      NEW i \in 1 .. Len(after[l1]), NEW j \in 1 .. Len(after[l2]),
                      after[l1][i].corr = after[l2][j].corr
               PROVE  l1 = l2 /\ i = j
    BY DEF QueuedOnce
  <2>2. CASE i \in 1 .. Len(queues[l1]) /\ j \in 1 .. Len(queues[l2])
    <3>1. after[l1][i] = queues[l1][i] /\ after[l2][j] = queues[l2][j]
      BY <1>4, <2>2
    <3> QED BY <1>8, <2>2, <3>1 DEF QueuedOnce
  <2>3. CASE i \notin 1 .. Len(queues[l1]) /\ j \notin 1 .. Len(queues[l2])
    BY <1>5, <2>3
  <2>4. CASE i \in 1 .. Len(queues[l1]) /\ j \notin 1 .. Len(queues[l2])
    <3>1. after[l1][i].corr # x.corr /\ after[l2][j] = x
      BY <1>3, <1>4, <1>5, <2>1, <2>4
    <3> QED BY <3>1
  <2>5. CASE i \notin 1 .. Len(queues[l1]) /\ j \in 1 .. Len(queues[l2])
    <3>1. after[l2][j].corr # x.corr /\ after[l1][i] = x
      BY <1>3, <1>4, <1>5, <2>1, <2>5
    <3> QED BY <3>1
  <2> QED BY <2>2, <2>3, <2>4, <2>5
<1> QED BY <1>7, <1>8 DEF after

(* Removing the i-th entry of one queue.                                     *)
(* Queues from which exactly the entry at place p of queue k is gone.        *)
IsRemoved(after, queues, k, p) ==
  /\ \A c : Queued(after, c) <=> Queued(queues, c) /\ c # queues[k][p].corr
  /\ QueuedOnce(after)
  /\ \A l \in MethodKeys : \A i \in 1 .. Len(after[l]) :
       \E j \in 1 .. Len(queues[l]) : after[l][i] = queues[l][j]
  /\ \A l \in MethodKeys : \A i \in 1 .. Len(queues[l]) : ~(l = k /\ i = p) =>
       \E j \in 1 .. Len(after[l]) : after[l][j] = queues[l][i]

LEMMA RemovedQueued ==
  ASSUME NEW S, NEW queues \in [MethodKeys -> Seq(S)], NEW k \in MethodKeys,
         NEW p \in 1 .. Len(queues[k]), QueuedOnce(queues)
  PROVE  IsRemoved(WithoutPlace(queues, k, p), queues, k, p)
<1> DEFINE after == WithoutPlace(queues, k, p)
<1> DEFINE origin(l, i) == IF l = k /\ ~(i < p) THEN i + 1 ELSE i
<1>1. \A l \in MethodKeys : queues[l] \in Seq(S) /\ Len(queues[l]) \in Nat
  OBVIOUS
<1>2. \A l \in MethodKeys : after[l] = IF l = k THEN Without(queues[k], p) ELSE queues[l]
  BY DEF WithoutPlace
<1>3. /\ Len(Without(queues[k], p)) = Len(queues[k]) - 1
      /\ \A j \in 1 .. Len(queues[k]) - 1 :
           Without(queues[k], p)[j] = IF j < p THEN queues[k][j] ELSE queues[k][j + 1]
  BY <1>1, WithoutType
<1>4. \A l \in MethodKeys : \A i \in 1 .. Len(after[l]) :
        /\ origin(l, i) \in 1 .. Len(queues[l])
        /\ after[l][i] = queues[l][origin(l, i)]
        /\ ~(l = k /\ origin(l, i) = p)
  BY <1>1, <1>2, <1>3
<1>5. ASSUME NEW l \in MethodKeys, NEW i \in 1 .. Len(queues[l]), ~(l = k /\ i = p)
      PROVE  \E j \in 1 .. Len(after[l]) : origin(l, j) = i
  <2>1. CASE l = k /\ i > p
    <3>1. i - 1 \in 1 .. Len(after[l]) /\ origin(l, i - 1) = i
      BY <1>1, <1>2, <1>3, <2>1
    <3> QED BY <3>1
  <2>2. CASE ~(l = k /\ i > p)
    <3>1. i \in 1 .. Len(after[l]) /\ origin(l, i) = i
      BY <1>1, <1>2, <1>3, <1>5, <2>2
    <3> QED BY <3>1
  <2> QED BY <2>1, <2>2
<1>6. \A l \in MethodKeys : \A i, j \in Nat : origin(l, i) = origin(l, j) => i = j
  OBVIOUS
<1> HIDE DEF after, origin
<1>7. ASSUME NEW c
      PROVE  Queued(after, c) <=> Queued(queues, c) /\ c # queues[k][p].corr
  <2>1. ASSUME Queued(after, c)
        PROVE  Queued(queues, c) /\ c # queues[k][p].corr
    <3>1. PICK l \in MethodKeys : \E i \in 1 .. Len(after[l]) : after[l][i].corr = c
      BY <2>1 DEF Queued
    <3>2. PICK i \in 1 .. Len(after[l]) : after[l][i].corr = c
      BY <3>1
    <3>3. /\ origin(l, i) \in 1 .. Len(queues[l])
          /\ queues[l][origin(l, i)].corr = c
          /\ ~(l = k /\ origin(l, i) = p)
      BY <1>4, <3>2
    <3> QED BY <3>3 DEF Queued, QueuedOnce
  <2>2. ASSUME Queued(queues, c), c # queues[k][p].corr
        PROVE  Queued(after, c)
    <3>1. PICK l \in MethodKeys : \E i \in 1 .. Len(queues[l]) : queues[l][i].corr = c
      BY <2>2 DEF Queued
    <3>2. PICK i \in 1 .. Len(queues[l]) : queues[l][i].corr = c
      BY <3>1
    <3>3. PICK j \in 1 .. Len(after[l]) : origin(l, j) = i
      BY <1>5, <2>2, <3>2
    <3>4. after[l][j].corr = c
      BY <1>4, <3>2, <3>3
    <3> QED BY <3>4 DEF Queued
  <2> QED BY <2>1, <2>2
<1>8. QueuedOnce(after)
  <2> SUFFICES ASSUME NEW l1 \in MethodKeys, NEW l2 \in MethodKeys,
                      NEW i \in 1 .. Len(after[l1]), NEW j \in 1 .. Len(after[l2]),
                      after[l1][i].corr = after[l2][j].corr
               PROVE  l1 = l2 /\ i = j
    BY DEF QueuedOnce
  <2>1. /\ origin(l1, i) \in 1 .. Len(queues[l1])
        /\ origin(l2, j) \in 1 .. Len(queues[l2])
        /\ queues[l1][origin(l1, i)].corr = queues[l2][origin(l2, j)].corr
    BY <1>4
  <2>2. l1 = l2 /\ origin(l1, i) = origin(l2, j)
    BY <2>1 DEF QueuedOnce
  <2>3. i \in Nat /\ j \in Nat
    OBVIOUS
  <2> QED BY <1>6, <2>2, <2>3
<1>9. \A l \in MethodKeys : \A i \in 1 .. Len(after[l]) :
        \E j \in 1 .. Len(queues[l]) : after[l][i] = queues[l][j]
  BY <1>4
<1>10. ASSUME NEW l \in MethodKeys, NEW i \in 1 .. Len(queues[l]), ~(l = k /\ i = p)
       PROVE  \E j \in 1 .. Len(after[l]) : after[l][j] = queues[l][i]
  <2>1. PICK j \in 1 .. Len(after[l]) : origin(l, j) = i
    BY <1>5, <1>10
  <2> QED BY <1>4, <2>1
<1> QED BY <1>7, <1>8, <1>9, <1>10 DEF after, IsRemoved

(* Forgetting all queues of a service.                                       *)
LEMMA EraseQueued ==
  ASSUME NEW queues, NEW s \in Services
  PROVE  LET after == EraseQueues(queues, s)
         IN  /\ \A c : Queued(after, c) => Queued(queues, c)
             /\ QueuedOnce(queues) => QueuedOnce(after)
<1> DEFINE after == EraseQueues(queues, s)
<1>1. \A k \in MethodKeys : after[k] = IF k[1] = s THEN <<>> ELSE queues[k]
  BY DEF EraseQueues
<1>2. \A k \in MethodKeys : \A i \in 1 .. Len(after[k]) : after[k] = queues[k]
  BY <1>1
<1> HIDE DEF after
<1>3. \A c : Queued(after, c) => Queued(queues, c)
  BY <1>2 DEF Queued
<1>4. QueuedOnce(queues) => QueuedOnce(after)
  BY <1>2 DEF QueuedOnce
<1> QED BY <1>3, <1>4 DEF after

-----------------------------------------------------------------------------
(* Correlation ids.                                                          *)

(* The part of FutureBacked that says where the call of a held promise is.   *)
Waiting(c, s) ==
  \/ inFlight[c] # NoCall /\ inFlight[c].service = s
  \/ \E k \in MethodKeys : \E i \in 1 .. Len(pending[k]) :
       k[1] = s /\ pending[k][i].corr = c /\ pending[k][i].expects

(* The inductive invariant: with the type invariant, ids are unique, queues  *)
(* hold their own calls and every promise still held has its waiting call.   *)
CallsInv == RegistryTypeOK /\ Routed /\ CorrelationUnique /\ FutureBacked

LEMMA InitCallsInv == RegistryInit => CallsInv
<1> SUFFICES ASSUME RegistryInit PROVE CallsInv
  OBVIOUS
<1>1. RegistryTypeOK
  BY InitTypeOK
<1>2. Routed /\ QueuedOnce(pending) /\ QueuedOnce(results)
  BY DEF RegistryInit, Routed, QueuedOnce
<1>3. CorrelationUnique
  BY <1>2 DEF RegistryInit, CorrelationUnique, Queued
<1>4. FutureBacked
  BY DEF RegistryInit, FutureBacked
<1> QED BY <1>1, <1>2, <1>3, <1>4 DEF CallsInv

(* Only the method operations and withdrawals touch calls and promises.      *)
LEMMA CallsUnchanged ==
  ASSUME CallsInv, RegistryTypeOK', UNCHANGED <<pending, inFlight, results, futures, settled>>
  PROVE  CallsInv'
<1>1. Routed'
  BY DEF CallsInv, Routed
<1>2. CorrelationUnique'
  BY DEF CallsInv, CorrelationUnique, QueuedOnce, Queued
<1>3. FutureBacked'
  BY DEF CallsInv, FutureBacked
<1> QED BY <1>1, <1>2, <1>3 DEF CallsInv

LEMMA StopOfferCallsInv ==
  ASSUME CallsInv, RegistryTypeOK', NEW s \in Services, StopOffer(s)
  PROVE  CallsInv'
<1> USE DEF StopOffer, EraseMethodQueuesFor
<1>1. Routed'
  BY DEF CallsInv, Routed, EraseQueues
<1>2. CorrelationUnique'
  <2>1. QueuedOnce(pending') /\ QueuedOnce(results')
    BY EraseQueued DEF CallsInv, CorrelationUnique
  <2>2. \A c : /\ Queued(pending', c) => Queued(pending, c)
               /\ Queued(results', c) => Queued(results, c)
    BY EraseQueued
  <2>3. \A c \in Corr : inFlight'[c] # NoCall => inFlight[c] # NoCall
    OBVIOUS
  <2> QED BY <2>1, <2>2, <2>3, ZenonT(60) DEF CallsInv, CorrelationUnique, QueuedOnce, Queued
<1>3. FutureBacked'
  <2>1. \A c \in Corr : futures'[c] # NoFuture =>
          futures[c] # NoFuture /\ futures'[c] = futures[c] /\ futures[c].service # s
    OBVIOUS
  <2>2. \A c \in Corr : futures[c] # NoFuture /\ futures[c].service = s =>
          futures[c] = [service |-> s, future |-> futures[c].future] /\ futures'[c] = NoFuture
    BY DEF CallsInv, RegistryTypeOK, Promised
  <2>3. ASSUME NEW f \in Futures
        PROVE  settled'[f] = "open" <=>
                 \E c \in Corr : futures'[c] # NoFuture /\ futures'[c].future = f
    <3>1. settled'[f] = IF \E c \in Corr : futures[c] = [service |-> s, future |-> f]
                        THEN "error" ELSE settled[f]
      OBVIOUS
    <3>2. settled[f] = "open" <=>
            \E c \in Corr : futures[c] # NoFuture /\ futures[c].future = f
      BY DEF CallsInv, FutureBacked
    <3>3. CASE \E c \in Corr : futures[c] = [service |-> s, future |-> f]
      <4>1. PICK c \in Corr : futures[c] = [service |-> s, future |-> f]
        BY <3>3
      <4>2. futures[c] # NoFuture /\ futures[c].future = f /\ futures[c].service = s
        BY <4>1 DEF NoFuture
      <4>3. \A d \in Corr : futures[d] # NoFuture /\ futures[d].future = f => d = c
        BY <4>2 DEF CallsInv, FutureBacked
      <4>4. \A d \in Corr : ~(futures'[d] # NoFuture /\ futures'[d].future = f)
        BY <2>1, <4>2, <4>3
      <4> QED BY <3>1, <3>3, <4>4
    <3>4. CASE ~ \E c \in Corr : futures[c] = [service |-> s, future |-> f]
      <4>1. \A c \in Corr : futures[c] # NoFuture /\ futures[c].future = f =>
              futures'[c] = futures[c]
        BY <2>2, <3>4
      <4> QED BY <2>1, <3>1, <3>2, <3>4, <4>1
    <3> QED BY <3>3, <3>4
  <2>4. \A c, d \in Corr :
          futures'[c] # NoFuture /\ futures'[d] # NoFuture
            /\ futures'[c].future = futures'[d].future => c = d
    BY <2>1 DEF CallsInv, FutureBacked
  <2>5. ASSUME NEW c \in Corr, futures'[c] # NoFuture
        PROVE  Waiting(c, futures[c].service)'
    <3>1. futures[c] # NoFuture /\ futures[c].service # s
      BY <2>1, <2>5
    <3>2. Waiting(c, futures[c].service)
      BY <3>1 DEF CallsInv, FutureBacked, Waiting
    <3>3. futures'[c] = futures[c]
      BY <2>1, <2>5
    <3>4. CASE inFlight[c] # NoCall /\ inFlight[c].service = futures[c].service
      BY <3>1, <3>3, <3>4 DEF Waiting
    <3>5. ASSUME NEW k \in MethodKeys, NEW i \in 1 .. Len(pending[k]),
                 k[1] = futures[c].service, pending[k][i].corr = c, pending[k][i].expects
          PROVE  Waiting(c, futures[c].service)'
      <4>1. pending'[k] = pending[k]
        BY <3>1, <3>5 DEF EraseQueues
      <4> QED BY <3>3, <3>5, <4>1 DEF Waiting
    <3> QED BY <3>2, <3>4, <3>5 DEF Waiting
  <2> QED BY <2>3, <2>4, <2>5 DEF FutureBacked, Waiting
<1> QED BY <1>1, <1>2, <1>3 DEF CallsInv

(* A submitted call gets an id nothing else has, and joins its own queue.    *)
LEMMA EnqueueCalls ==
  ASSUME CallsInv, NEW s \in Services, NEW m \in Methods, NEW c \in Corr,
         NEW expects \in BOOLEAN, ~Known(c), Enqueue(s, m, c, expects),
         UNCHANGED <<inFlight, results>>
  PROVE  /\ Routed' /\ CorrelationUnique'
         /\ futures[c] = NoFuture
         /\ \A d \in Corr, t \in Services : Waiting(d, t) => Waiting(d, t)'
         /\ expects => Waiting(c, s)'
<1> DEFINE k == <<s, m>>
<1> DEFINE call == [service |-> s, method |-> m, corr |-> c, expects |-> expects]
<1>1. k \in MethodKeys /\ call \in Call /\ pending \in [MethodKeys -> Seq(Call)]
  BY DEF CallsInv, RegistryTypeOK, MethodKeys, Call
<1>2. pending' = AppendAt(pending, k, call)
  BY DEF Enqueue
<1>3. /\ \A d : Queued(pending', d) <=> Queued(pending, d) \/ d = c
      /\ QueuedOnce(pending')
  <2>1. QueuedOnce(pending) /\ ~Queued(pending, call.corr)
    BY DEF CallsInv, CorrelationUnique, Known
  <2> QED BY <1>1, <1>2, <2>1, AppendAtQueued
<1>4. /\ \A l \in MethodKeys : \A i \in 1 .. Len(pending'[l]) :
           \/ i \in 1 .. Len(pending[l]) /\ pending'[l][i] = pending[l][i]
           \/ l = k /\ pending'[l][i] = call
      /\ \A l \in MethodKeys : \A i \in 1 .. Len(pending[l]) :
           i \in 1 .. Len(pending'[l]) /\ pending'[l][i] = pending[l][i]
      /\ Len(pending[k]) + 1 \in 1 .. Len(pending'[k])
      /\ pending'[k][Len(pending[k]) + 1] = call
  <2>1. \A l \in MethodKeys : pending[l] \in Seq(Call) /\ Len(pending[l]) \in Nat
    BY <1>1
  <2>2. \A l \in MethodKeys : pending'[l] = IF l = k THEN Append(pending[k], call) ELSE pending[l]
    BY <1>1, <1>2 DEF AppendAt
  <2> HIDE DEF call, k
  <2>3. pending'[k] = Append(pending[k], call) /\ pending[k] \in Seq(Call)
    BY <1>1, <2>1, <2>2
  <2>4. /\ Len(pending'[k]) = Len(pending[k]) + 1
        /\ pending'[k][Len(pending[k]) + 1] = call
        /\ \A i \in 1 .. Len(pending[k]) : pending'[k][i] = pending[k][i]
    BY <2>3
  <2> QED BY <1>1, <2>1, <2>2, <2>4, SMTT(40)
<1>5. Routed'
  BY <1>4 DEF CallsInv, Routed
<1>6. CorrelationUnique'
  <2>1. QueuedOnce(results') /\ QueuedOnce(pending') /\ results' = results /\ inFlight' = inFlight
    BY <1>3 DEF CallsInv, CorrelationUnique
  <2>2. inFlight[c] = NoCall /\ ~Queued(results, c)
    BY DEF Known
  <2>3. \A d \in Corr :
          /\ ~(Queued(pending', d) /\ inFlight'[d] # NoCall)
          /\ ~(Queued(pending', d) /\ Queued(results', d))
          /\ ~(Queued(results', d) /\ inFlight'[d] # NoCall)
    BY <1>3, <2>1, <2>2 DEF CallsInv, CorrelationUnique
  <2> QED BY <2>1, <2>3 DEF CorrelationUnique, QueuedOnce, Queued
<1>7. futures[c] = NoFuture
  BY DEF CallsInv, FutureBacked, Known, Queued
<1>8. \A d \in Corr, t \in Services : Waiting(d, t) => Waiting(d, t)'
  BY <1>4 DEF Waiting
<1>9. expects => Waiting(c, s)'
  BY <1>1, <1>4 DEF Waiting
<1> QED BY <1>5, <1>6, <1>7, <1>8, <1>9

LEMMA SubmitCallsInv ==
  ASSUME CallsInv, RegistryTypeOK', NEW s \in Services, NEW m \in Methods,
         NEW want \in {0} \cup Corr, NEW expects \in BOOLEAN,
         SubmitMethodCall(s, m, want, expects)
  PROVE  CallsInv'
<1>1. PICK c \in Corr : ~Known(c) /\ Enqueue(s, m, c, expects)
  BY DEF SubmitMethodCall, Assigns
<1>2. /\ Routed' /\ CorrelationUnique'
      /\ \A d \in Corr, t \in Services : Waiting(d, t) => Waiting(d, t)'
  BY <1>1, EnqueueCalls DEF SubmitMethodCall
<1>3. FutureBacked'
  <2>1. UNCHANGED <<futures, settled>>
    BY DEF SubmitMethodCall
  <2>2. \A d \in Corr : futures[d] # NoFuture => futures[d].service \in Services
    BY DEF CallsInv, RegistryTypeOK, Promised
  <2>3. \A d \in Corr : futures[d] # NoFuture => Waiting(d, futures[d].service)
    BY DEF CallsInv, FutureBacked, Waiting
  <2>4. ASSUME NEW d \in Corr, futures'[d] # NoFuture
        PROVE  Waiting(d, futures[d].service)'
    <3>1. PICK t \in Services : t = futures[d].service /\ Waiting(d, t)
      BY <2>1, <2>2, <2>3, <2>4
    <3>2. Waiting(d, t)'
      BY <1>2, <3>1
    <3>3. futures'[d].service = t
      BY <2>1, <3>1
    <3> QED BY <3>2, <3>3 DEF Waiting
  <2> QED BY <2>1, <2>4 DEF CallsInv, FutureBacked, Waiting
<1> QED BY <1>2, <1>3 DEF CallsInv

LEMMA SubmitFutureCallsInv ==
  ASSUME CallsInv, RegistryTypeOK', NEW s \in Services, NEW m \in Methods,
         NEW want \in {0} \cup Corr, NEW f \in Futures,
         SubmitMethodCallFuture(s, m, want, f)
  PROVE  CallsInv'
<1>1. PICK c \in Corr :
        /\ ~Known(c) /\ Enqueue(s, m, c, TRUE)
        /\ futures' = IF futures[c] = NoFuture
                      THEN [futures EXCEPT ![c] = [service |-> s, future |-> f]]
                      ELSE futures
  BY DEF SubmitMethodCallFuture, Assigns
<1>2. /\ Routed' /\ CorrelationUnique' /\ futures[c] = NoFuture /\ Waiting(c, s)'
      /\ \A d \in Corr, t \in Services : Waiting(d, t) => Waiting(d, t)'
  BY <1>1, EnqueueCalls DEF SubmitMethodCallFuture
<1>3. FutureBacked'
  <2> DEFINE promise == [service |-> s, future |-> f]
  <2>1. /\ futures' = [futures EXCEPT ![c] = promise]
        /\ settled' = [settled EXCEPT ![f] = "open"] /\ settled[f] = "unused"
        /\ futures \in [Corr -> Promised \cup {NoFuture}]
        /\ settled \in [Futures -> {"unused", "open", "value", "error"}]
    BY <1>1, <1>2 DEF SubmitMethodCallFuture, CallsInv, RegistryTypeOK
  <2>2. promise # NoFuture /\ promise.future = f /\ promise.service = s
    BY DEF NoFuture
  <2>3. \A d \in Corr : futures[d] # NoFuture => futures[d].future # f
    BY <2>1 DEF CallsInv, FutureBacked
  <2> HIDE DEF promise
  <2>4. \A d \in Corr : futures'[d] = IF d = c THEN promise ELSE futures[d]
    BY <2>1
  <2>5. ASSUME NEW g \in Futures
        PROVE  settled'[g] = "open" <=>
                 \E d \in Corr : futures'[d] # NoFuture /\ futures'[d].future = g
    <3>1. settled'[g] = IF g = f THEN "open" ELSE settled[g]
      BY <2>1
    <3>2. settled[g] = "open" <=>
            \E d \in Corr : futures[d] # NoFuture /\ futures[d].future = g
      BY DEF CallsInv, FutureBacked
    <3> QED BY <1>2, <2>2, <2>4, <3>1, <3>2
  <2>6. \A d, e \in Corr :
          futures'[d] # NoFuture /\ futures'[e] # NoFuture
            /\ futures'[d].future = futures'[e].future => d = e
    BY <2>2, <2>3, <2>4 DEF CallsInv, FutureBacked
  <2>7. ASSUME NEW d \in Corr, futures'[d] # NoFuture
        PROVE  Waiting(d, futures[d].service)'
    <3>1. CASE d = c
      BY <1>2, <2>2, <2>4, <3>1 DEF Waiting
    <3>2. CASE d # c
      <4>1. futures'[d] = futures[d] /\ futures[d] # NoFuture
        BY <2>4, <2>7, <3>2
      <4>2. Waiting(d, futures[d].service) /\ futures[d].service \in Services
        BY <4>1, <2>1 DEF CallsInv, FutureBacked, Waiting, Promised
      <4> QED BY <1>2, <4>1, <4>2 DEF Waiting
    <3> QED BY <3>1, <3>2
  <2> QED BY <2>5, <2>6, <2>7 DEF FutureBacked, Waiting
<1> QED BY <1>2, <1>3 DEF CallsInv

LEMMA TakeCallsInv ==
  ASSUME CallsInv, RegistryTypeOK', NEW s \in Services, NEW m \in Methods, TakeMethodCall(s, m)
  PROVE  CallsInv'
<1> DEFINE k == <<s, m>>
<1>1. /\ k \in MethodKeys /\ pending \in [MethodKeys -> Seq(Call)]
      /\ pending[k] \in Seq(Call) /\ pending[k] # <<>>
      /\ inFlight \in [Corr -> Call \cup {NoCall}]
  BY DEF CallsInv, RegistryTypeOK, TakeMethodCall, MethodKeys
<1>2. PICK call \in Call : call = pending[k][1] /\ Head(pending[k]) = call
  BY <1>1, HeadTailType
<1>3. 1 \in 1 .. Len(pending[k])
  BY <1>1, HeadTailType
<1>4. /\ pending' = WithoutPlace(pending, k, 1)
      /\ inFlight' = IF call.expects THEN [inFlight EXCEPT ![call.corr] = call] ELSE inFlight
      /\ UNCHANGED <<results, futures, settled>>
  BY <1>2 DEF TakeMethodCall
<1>5. call.corr \in Corr /\ call # NoCall /\ call.service = s /\ Queued(pending, call.corr)
  <2>1. call.corr \in Corr /\ call # NoCall
    BY DEF Call, NoCall
  <2>2. call.service = s /\ Queued(pending, call.corr)
    BY <1>1, <1>2, <1>3 DEF CallsInv, Routed, Queued
  <2> QED BY <2>1, <2>2
<1>6. /\ \A c : Queued(pending', c) <=> Queued(pending, c) /\ c # call.corr
      /\ QueuedOnce(pending')
      /\ \A l \in MethodKeys : \A i \in 1 .. Len(pending'[l]) :
           \E j \in 1 .. Len(pending[l]) : pending'[l][i] = pending[l][j]
      /\ \A l \in MethodKeys : \A i \in 1 .. Len(pending[l]) : ~(l = k /\ i = 1) =>
           \E j \in 1 .. Len(pending'[l]) : pending'[l][j] = pending[l][i]
  <2>1. QueuedOnce(pending)
    BY DEF CallsInv, CorrelationUnique
  <2> HIDE DEF k
  <2>2. IsRemoved(WithoutPlace(pending, k, 1), pending, k, 1)
    BY <1>1, <1>3, <2>1, RemovedQueued
  <2>3. WithoutPlace(pending, k, 1) = pending' /\ pending[k][1].corr = call.corr
    BY <1>2, <1>4
  <2> QED BY <2>2, <2>3 DEF IsRemoved
<1> HIDE DEF k
<1>7. Routed'
  <2>1. Routed
    BY DEF CallsInv
  <2>2. ASSUME NEW l \in MethodKeys, NEW i \in 1 .. Len(pending'[l])
        PROVE  pending'[l][i].service = l[1] /\ pending'[l][i].method = l[2]
    <3>1. PICK j \in 1 .. Len(pending[l]) : pending'[l][i] = pending[l][j]
      BY <1>6
    <3> QED BY <2>1, <3>1 DEF Routed
  <2> QED BY <2>2 DEF Routed
<1>8. CorrelationUnique'
  <2>1. QueuedOnce(results')
    BY <1>4 DEF CallsInv, CorrelationUnique
  <2>2. \A c \in Corr : inFlight'[c] # NoCall => inFlight[c] # NoCall \/ c = call.corr
    BY <1>1, <1>4, <1>5
  <2>3. ~Queued(results, call.corr)
    BY <1>5 DEF CallsInv, CorrelationUnique
  <2>4. \A c \in Corr :
          /\ ~(Queued(pending', c) /\ inFlight'[c] # NoCall)
          /\ ~(Queued(pending', c) /\ Queued(results', c))
          /\ ~(Queued(results', c) /\ inFlight'[c] # NoCall)
    BY <1>4, <1>6, <2>2, <2>3 DEF CallsInv, CorrelationUnique
  <2> QED BY <1>6, <2>1, <2>4 DEF CorrelationUnique, QueuedOnce, Queued
<1>9. FutureBacked'
  <2>1. ASSUME NEW c \in Corr, futures[c] # NoFuture
        PROVE  Waiting(c, futures[c].service)'
    <3>1. Waiting(c, futures[c].service)
      BY <2>1 DEF CallsInv, FutureBacked, Waiting
    <3>2. CASE inFlight[c] # NoCall /\ inFlight[c].service = futures[c].service
      <4>1. c # call.corr
        BY <1>5, <3>2 DEF CallsInv, CorrelationUnique
      <4>2. inFlight'[c] = inFlight[c]
        BY <1>1, <1>4, <4>1
      <4> QED BY <1>4, <3>2, <4>2 DEF Waiting
    <3>3. ASSUME NEW l \in MethodKeys, NEW i \in 1 .. Len(pending[l]),
                 l[1] = futures[c].service, pending[l][i].corr = c, pending[l][i].expects
          PROVE  Waiting(c, futures[c].service)'
      <4>1. CASE l = k /\ i = 1
        <5>1. pending[l][i] = call /\ call.expects /\ call.corr = c /\ s = futures[c].service
          BY <1>2, <1>5, <3>3, <4>1 DEF k
        <5>2. inFlight'[c] = call
          BY <1>1, <1>4, <5>1
        <5> QED BY <1>4, <1>5, <5>1, <5>2 DEF Waiting
      <4>2. CASE ~(l = k /\ i = 1)
        <5>1. PICK j \in 1 .. Len(pending'[l]) : pending'[l][j] = pending[l][i]
          BY <1>6, <4>2
        <5> QED BY <1>4, <3>3, <5>1 DEF Waiting
      <4> QED BY <4>1, <4>2
    <3> QED BY <3>1, <3>2, <3>3 DEF Waiting
  <2> QED BY <1>4, <2>1 DEF CallsInv, FutureBacked, Waiting
<1> QED BY <1>7, <1>8, <1>9 DEF CallsInv

LEMMA CompleteCallsInv ==
  ASSUME CallsInv, RegistryTypeOK', NEW s \in Services, NEW m \in Methods, NEW c \in Corr,
         CompleteMethodCall(s, m, c)
  PROVE  CallsInv'
<1> DEFINE k == <<s, m>>
<1> DEFINE result == [service |-> s, method |-> m, corr |-> c]
<1>1. /\ k \in MethodKeys /\ result \in MethodResult
      /\ results \in [MethodKeys -> Seq(MethodResult)]
      /\ inFlight \in [Corr -> Call \cup {NoCall}]
      /\ futures \in [Corr -> Promised \cup {NoFuture}]
      /\ settled \in [Futures -> {"unused", "open", "value", "error"}]
  BY DEF CallsInv, RegistryTypeOK, MethodKeys, MethodResult
<1>2. /\ results' = AppendAt(results, k, result)
      /\ inFlight[c] # NoCall /\ inFlight' = [inFlight EXCEPT ![c] = NoCall]
      /\ futures' = [futures EXCEPT ![c] = NoFuture]
      /\ settled' = IF futures[c] = NoFuture THEN settled
                    ELSE [settled EXCEPT ![futures[c].future] = "value"]
      /\ pending' = pending
  BY DEF CompleteMethodCall, MatchesInFlight
<1>3. /\ \A d : Queued(results', d) <=> Queued(results, d) \/ d = c
      /\ QueuedOnce(results')
  <2>1. QueuedOnce(results) /\ ~Queued(results, c) /\ result.corr = c
    BY <1>2 DEF CallsInv, CorrelationUnique
  <2> HIDE DEF k, result
  <2> DEFINE after == AppendAt(results, k, result)
  <2>2. /\ \A d : Queued(after, d) <=> Queued(results, d) \/ d = result.corr
        /\ QueuedOnce(after)
    BY <1>1, <2>1, AppendAtQueued
  <2> QED BY <1>2, <2>1, <2>2
<1>4. Routed'
  BY <1>2 DEF CallsInv, Routed
<1>5. CorrelationUnique'
  <2>1. QueuedOnce(pending')
    BY <1>2 DEF CallsInv, CorrelationUnique
  <2>2. \A d \in Corr : inFlight'[d] # NoCall => inFlight[d] # NoCall /\ d # c
    BY <1>1, <1>2
  <2>3. \A d \in Corr :
          /\ ~(Queued(pending', d) /\ inFlight'[d] # NoCall)
          /\ ~(Queued(pending', d) /\ Queued(results', d))
          /\ ~(Queued(results', d) /\ inFlight'[d] # NoCall)
    BY <1>2, <1>3, <2>2 DEF CallsInv, CorrelationUnique
  <2> QED BY <1>3, <2>1, <2>3 DEF CorrelationUnique, QueuedOnce, Queued
<1>6. FutureBacked'
  <2>1. \A d \in Corr : futures'[d] # NoFuture =>
          d # c /\ futures[d] # NoFuture /\ futures'[d] = futures[d]
    BY <1>1, <1>2
  <2>2. \A d \in Corr : d # c => futures'[d] = futures[d]
    BY <1>1, <1>2
  <2>3. ASSUME NEW f \in Futures
        PROVE  settled'[f] = "open" <=>
                 \E d \in Corr : futures'[d] # NoFuture /\ futures'[d].future = f
    <3>1. settled[f] = "open" <=>
            \E d \in Corr : futures[d] # NoFuture /\ futures[d].future = f
      BY DEF CallsInv, FutureBacked
    <3>2. CASE futures[c] = NoFuture
      <4>1. \A d \in Corr : futures'[d] = futures[d]
        BY <1>1, <1>2, <3>2
      <4>2. settled'[f] = settled[f]
        BY <1>2, <3>2
      <4> QED BY <3>1, <4>1, <4>2
    <3>3. CASE futures[c] # NoFuture /\ futures[c].future = f
      <4>1. settled'[f] = "value"
        BY <1>1, <1>2, <3>3
      <4>2. \A d \in Corr : ~(futures'[d] # NoFuture /\ futures'[d].future = f)
        BY <2>1, <3>3 DEF CallsInv, FutureBacked
      <4> QED BY <4>1, <4>2
    <3>4. CASE futures[c] # NoFuture /\ futures[c].future # f
      <4>1. settled'[f] = settled[f]
        BY <1>1, <1>2, <3>4
      <4> QED BY <2>1, <2>2, <3>1, <3>4, <4>1
    <3> QED BY <3>2, <3>3, <3>4
  <2>4. \A d, e \in Corr :
          futures'[d] # NoFuture /\ futures'[e] # NoFuture
            /\ futures'[d].future = futures'[e].future => d = e
    BY <2>1 DEF CallsInv, FutureBacked
  <2>5. ASSUME NEW d \in Corr, futures'[d] # NoFuture
        PROVE  Waiting(d, futures[d].service)'
    <3>1. Waiting(d, futures[d].service) /\ d # c /\ futures'[d] = futures[d]
      BY <2>1, <2>5 DEF CallsInv, FutureBacked, Waiting
    <3>2. inFlight'[d] = inFlight[d]
      BY <1>1, <1>2, <3>1
    <3> QED BY <1>2, <3>1, <3>2 DEF Waiting
  <2> QED BY <2>3, <2>4, <2>5 DEF FutureBacked, Waiting
<1> QED BY <1>4, <1>5, <1>6 DEF CallsInv

LEMMA TakeResultCallsInv ==
  ASSUME CallsInv, RegistryTypeOK', NEW s \in Services, NEW m \in Methods, NEW c \in Corr,
         TakeMethodResult(s, m, c)
  PROVE  CallsInv'
<1>1. PICK i \in 1 .. Len(results[<<s, m>>]) : results' = WithoutPlace(results, <<s, m>>, i)
  BY DEF TakeMethodResult
<1>2. UNCHANGED <<pending, inFlight, futures, settled>>
  BY DEF TakeMethodResult
<1>3. /\ \A d : Queued(results', d) => Queued(results, d)
      /\ QueuedOnce(results')
  <2>1. <<s, m>> \in MethodKeys /\ results \in [MethodKeys -> Seq(MethodResult)]
    BY DEF CallsInv, RegistryTypeOK, MethodKeys
  <2>2. QueuedOnce(results)
    BY DEF CallsInv, CorrelationUnique
  <2>3. IsRemoved(results', results, <<s, m>>, i)
    BY <1>1, <2>1, <2>2, RemovedQueued
  <2> QED BY <2>3 DEF IsRemoved
<1>4. CorrelationUnique'
  <2>1. QueuedOnce(pending')
    BY <1>2 DEF CallsInv, CorrelationUnique
  <2>2. \A d \in Corr :
          /\ ~(Queued(pending', d) /\ inFlight'[d] # NoCall)
          /\ ~(Queued(pending', d) /\ Queued(results', d))
          /\ ~(Queued(results', d) /\ inFlight'[d] # NoCall)
    BY <1>2, <1>3 DEF CallsInv, CorrelationUnique
  <2> QED BY <1>3, <2>1, <2>2 DEF CorrelationUnique, QueuedOnce, Queued
<1>5. Routed' /\ FutureBacked'
  BY <1>2 DEF CallsInv, Routed, FutureBacked
<1> QED BY <1>4, <1>5 DEF CallsInv

LEMMA NextCallsInv == CallsInv /\ RegistryTypeOK' /\ [RegistryNext]_registryVars => CallsInv'
<1> SUFFICES ASSUME CallsInv, RegistryTypeOK', [RegistryNext]_registryVars PROVE CallsInv'
  OBVIOUS
<1>1. CASE OfferNext
  <2>1. ASSUME NEW s \in Services, StopOffer(s)
        PROVE  CallsInv'
    BY <2>1, StopOfferCallsInv
  <2>2. CASE UNCHANGED methodVars
    BY <2>2, CallsUnchanged DEF methodVars
  <2> QED
    BY <1>1, <2>1, <2>2
    DEF OfferNext, InvalidateEndpoint, OfferService, StartFind, StopFind
<1>2. CASE MethodNext
  BY <1>2, SubmitCallsInv, SubmitFutureCallsInv, TakeCallsInv, CompleteCallsInv,
     TakeResultCallsInv DEF MethodNext
<1>3. CASE SampleNext \/ UNCHANGED registryVars
  <2>1. UNCHANGED methodVars
    BY <1>3 DEF SampleNext, Subscribe, SubscribeField, SubscribeTrigger, AddSubscription,
                Unsubscribe, Publish, SetField, FireTrigger, Deliver,
                Poll, PollField, PollTrigger, TakeFirst, methodVars, registryVars
  <2> QED BY <2>1, CallsUnchanged DEF methodVars
<1> QED BY <1>1, <1>2, <1>3 DEF RegistryNext

LEMMA CallsInvariant == RegistrySpec => []CallsInv
  BY InitCallsInv, NextCallsInv, TypeCorrect, PTL DEF RegistrySpec

(* No two live calls or results ever share a correlation id, and no future   *)
(* is ever left open without a call that can still settle it.                *)
THEOREM CallsCorrect == RegistrySpec => []CallsAccounted
<1>1. CallsInv => CallsAccounted
  BY DEF CallsInv, CallsAccounted
<1> QED BY CallsInvariant, <1>1, PTL

-----------------------------------------------------------------------------
(* Withdrawn services.                                                       *)

WithdrawnInv == CallsInv /\ WithdrawnServiceHoldsNothing

(* The calls of a service that is not offered do not come back.              *)
NoCallsOf(s) ==
  /\ \A m \in Methods : pending[<<s, m>>] = <<>> /\ results[<<s, m>>] = <<>>
  /\ \A c \in Corr :
       /\ inFlight[c] # NoCall => inFlight[c].service # s
       /\ futures[c] # NoFuture => futures[c].service # s

NoSamplesOf(s) ==
  /\ \A n \in Fields : fieldValues[s][n] = 0
  /\ \A i \in SubIds : subs[i] # NoSub /\ subs[i].kind # "event" => subs[i].service # s

LEMMA WithdrawnParts ==
  WithdrawnServiceHoldsNothing <=>
    \A s \in Services : ~Offered(s) => NoCallsOf(s) /\ NoSamplesOf(s)
  BY DEF WithdrawnServiceHoldsNothing, NoCallsOf, NoSamplesOf, Offered

LEMMA OfferWithdrawn ==
  ASSUME WithdrawnInv, OfferNext, NEW s \in Services, ~Offered(s)'
  PROVE  NoCallsOf(s)' /\ NoSamplesOf(s)'
<1>1. ASSUME NEW t \in Services, NEW p \in Providers, OfferService(t, p)
      PROVE  NoCallsOf(s)' /\ NoSamplesOf(s)'
  <2>1. ~Offered(s)
    BY <1>1 DEF OfferService, Offered, WithdrawnInv, CallsInv, RegistryTypeOK
  <2> QED BY <1>1, <2>1, WithdrawnParts
          DEF WithdrawnInv, OfferService, NoCallsOf, NoSamplesOf, methodVars, sampleVars
<1>2. ASSUME NEW t \in Services, StopOffer(t)
      PROVE  NoCallsOf(s)' /\ NoSamplesOf(s)'
  <2>1. CASE t = s
    <3>1. NoCallsOf(s)'
      BY <1>2, <2>1 DEF StopOffer, EraseMethodQueuesFor, EraseQueues, NoCallsOf, MethodKeys
    <3>2. NoSamplesOf(s)'
      BY <1>2, <2>1 DEF StopOffer, EraseSampleStateFor, NoSamplesOf, WithdrawnInv,
                        CallsInv, RegistryTypeOK, Subscription, Kinds
    <3> QED BY <3>1, <3>2
  <2>2. CASE t # s
    <3>1. ~Offered(s)
      BY <1>2, <2>2 DEF StopOffer, Offered, WithdrawnInv, CallsInv, RegistryTypeOK
    <3>2. NoCallsOf(s) /\ NoSamplesOf(s)
      BY <3>1, WithdrawnParts DEF WithdrawnInv
    <3>3. NoCallsOf(s)'
      BY <1>2, <2>2, <3>2 DEF StopOffer, EraseMethodQueuesFor, EraseQueues, NoCallsOf, MethodKeys
    <3>4. NoSamplesOf(s)'
      BY <1>2, <2>2, <3>2 DEF StopOffer, EraseSampleStateFor, NoSamplesOf
    <3> QED BY <3>3, <3>4
  <2> QED BY <2>1, <2>2
<1>3. CASE UNCHANGED <<offers, methodVars, sampleVars>>
  BY <1>3, WithdrawnParts
  DEF WithdrawnInv, Offered, NoCallsOf, NoSamplesOf, methodVars, sampleVars
<1> QED
  BY <1>1, <1>2, <1>3 DEF OfferNext, InvalidateEndpoint, StartFind, StopFind

LEMMA MethodWithdrawn ==
  ASSUME WithdrawnInv, MethodNext, NEW s \in Services, ~Offered(s)'
  PROVE  NoCallsOf(s)' /\ NoSamplesOf(s)'
<1>1. /\ UNCHANGED <<offerVars, sampleVars>>
      /\ \A t \in Services, m \in Methods :
           /\ \A want \in {0} \cup Corr, expects \in BOOLEAN :
                SubmitMethodCall(t, m, want, expects) => Offered(t)
           /\ \A want \in {0} \cup Corr, f \in Futures :
                SubmitMethodCallFuture(t, m, want, f) => Offered(t)
  BY ZenonT(60) DEF MethodNext, SubmitMethodCall, SubmitMethodCallFuture, TakeMethodCall,
         CompleteMethodCall, TakeMethodResult
<1>2. ~Offered(s)
  BY <1>1 DEF Offered, offerVars
<1>3. NoCallsOf(s) /\ NoSamplesOf(s)
  BY <1>2, WithdrawnParts DEF WithdrawnInv
<1>4. NoSamplesOf(s)'
  BY <1>1, <1>3 DEF NoSamplesOf, sampleVars
<1>5. ASSUME NEW t \in Services, NEW m \in Methods, NEW c \in Corr, NEW expects \in BOOLEAN,
             Offered(t), Enqueue(t, m, c, expects)
      PROVE  \A n \in Methods : pending'[<<s, n>>] = <<>>
  BY <1>2, <1>3, <1>5
  DEF Enqueue, AppendAt, NoCallsOf, WithdrawnInv, CallsInv, RegistryTypeOK, MethodKeys
<1>6. ASSUME NEW t \in Services, NEW m \in Methods, NEW want \in {0} \cup Corr,
             NEW expects \in BOOLEAN, SubmitMethodCall(t, m, want, expects)
      PROVE  NoCallsOf(s)'
  BY <1>3, <1>5, <1>6 DEF SubmitMethodCall, NoCallsOf
<1>7. ASSUME NEW t \in Services, NEW m \in Methods, NEW want \in {0} \cup Corr,
             NEW f \in Futures, SubmitMethodCallFuture(t, m, want, f)
      PROVE  NoCallsOf(s)'
  <2>1. PICK c \in Corr :
          /\ Enqueue(t, m, c, TRUE)
          /\ futures' = IF futures[c] = NoFuture
                        THEN [futures EXCEPT ![c] = [service |-> t, future |-> f]]
                        ELSE futures
    BY <1>7 DEF SubmitMethodCallFuture
  <2>2. t # s
    BY <1>1, <1>2, <1>7
  <2>3. \A d \in Corr : futures'[d] # NoFuture => futures'[d].service # s
    BY <1>3, <2>1, <2>2 DEF NoCallsOf, WithdrawnInv, CallsInv, RegistryTypeOK
  <2> QED BY <1>3, <1>5, <1>7, <2>1, <2>3 DEF SubmitMethodCallFuture, NoCallsOf
<1>8. ASSUME NEW t \in Services, NEW m \in Methods, TakeMethodCall(t, m)
      PROVE  NoCallsOf(s)'
  <2>1. t # s /\ pending[<<t, m>>] # <<>>
    BY <1>2, <1>8 DEF TakeMethodCall
  <2>2. <<t, m>> \in MethodKeys /\ pending[<<t, m>>] \in Seq(Call)
    BY DEF MethodKeys, WithdrawnInv, CallsInv, RegistryTypeOK
  <2>3. Head(pending[<<t, m>>]) = pending[<<t, m>>][1] /\ 1 \in 1 .. Len(pending[<<t, m>>])
    BY <2>1, <2>2, HeadTailType
  <2>4. Head(pending[<<t, m>>]).service = t
    BY <2>2, <2>3 DEF WithdrawnInv, CallsInv, Routed
  <2>5. \A c \in Corr : inFlight'[c] # NoCall => inFlight'[c].service # s
    BY <1>3, <1>8, <2>1, <2>4 DEF TakeMethodCall, NoCallsOf, WithdrawnInv, CallsInv, RegistryTypeOK
  <2>6. \A n \in Methods : pending'[<<s, n>>] = <<>>
    BY <1>3, <1>8, <2>1
    DEF TakeMethodCall, WithoutPlace, NoCallsOf, WithdrawnInv, CallsInv, RegistryTypeOK, MethodKeys
  <2> QED BY <1>3, <1>8, <2>5, <2>6 DEF TakeMethodCall, NoCallsOf
<1>9. ASSUME NEW t \in Services, NEW m \in Methods, NEW c \in Corr,
             CompleteMethodCall(t, m, c)
      PROVE  NoCallsOf(s)'
  <2>1. t # s
    BY <1>2, <1>9 DEF CompleteMethodCall
  <2>2. \A n \in Methods : results'[<<s, n>>] = <<>>
    BY <1>3, <1>9, <2>1
    DEF CompleteMethodCall, AppendAt, NoCallsOf, WithdrawnInv, CallsInv, RegistryTypeOK, MethodKeys
  <2>3. \A d \in Corr : /\ inFlight'[d] # NoCall => inFlight'[d].service # s
                        /\ futures'[d] # NoFuture => futures'[d].service # s
    BY <1>3, <1>9 DEF CompleteMethodCall, NoCallsOf, WithdrawnInv, CallsInv, RegistryTypeOK
  <2> QED BY <1>3, <1>9, <2>2, <2>3 DEF CompleteMethodCall, NoCallsOf
<1>10. ASSUME NEW t \in Services, NEW m \in Methods, NEW c \in Corr,
              TakeMethodResult(t, m, c)
       PROVE  NoCallsOf(s)'
  <2>1. PICK i \in 1 .. Len(results[<<t, m>>]) : results' = WithoutPlace(results, <<t, m>>, i)
    BY <1>10 DEF TakeMethodResult
  <2>2. t # s
    BY <1>3, <2>1 DEF NoCallsOf
  <2>3. \A n \in Methods : results'[<<s, n>>] = <<>>
    BY <1>3, <2>1, <2>2
    DEF WithoutPlace, NoCallsOf, WithdrawnInv, CallsInv, RegistryTypeOK, MethodKeys
  <2> QED BY <1>3, <1>10, <2>3 DEF TakeMethodResult, NoCallsOf
<1> QED BY <1>4, <1>6, <1>7, <1>8, <1>9, <1>10 DEF MethodNext

LEMMA SampleWithdrawn ==
  ASSUME WithdrawnInv, SampleNext, NEW s \in Services, ~Offered(s)'
  PROVE  NoCallsOf(s)' /\ NoSamplesOf(s)'
<1>1. UNCHANGED <<offerVars, methodVars>>
  BY DEF SampleNext, Subscribe, SubscribeField, SubscribeTrigger, AddSubscription,
         Unsubscribe, Publish, SetField, FireTrigger, Deliver,
         Poll, PollField, PollTrigger, TakeFirst
<1>2. ~Offered(s)
  BY <1>1 DEF Offered, offerVars
<1>3. NoCallsOf(s) /\ NoSamplesOf(s)
  BY <1>2, WithdrawnParts DEF WithdrawnInv
<1>4. NoCallsOf(s)'
  BY <1>1, <1>3 DEF NoCallsOf, methodVars
<1>5. subs \in [SubIds -> Subscription \cup {NoSub}] /\ NoSub \notin Subscription
  BY DEF WithdrawnInv, CallsInv, RegistryTypeOK, Subscription, NoSub
<1>6. ASSUME NEW kind \in Kinds, NEW t \in Services, NEW n \in Names(kind),
             t # s, Deliver(kind, t, n)
      PROVE  \A i \in SubIds :
               subs'[i] # NoSub /\ subs'[i].kind # "event" => subs'[i].service # s
  BY <1>3, <1>5, <1>6 DEF Deliver, NoSamplesOf, Subscription, NoSub
<1>7. ASSUME NEW kind \in Kinds, NEW t \in Services, NEW depth \in 1 .. MaxDepth,
             NEW n \in Names(kind), NEW queue, AddSubscription(kind, t, n, depth, queue)
      PROVE  NoSamplesOf(s)'
  BY <1>2, <1>3, <1>5, <1>7 DEF AddSubscription, NoSamplesOf
<1>8. ASSUME NEW i \in SubIds, Unsubscribe(i) PROVE NoSamplesOf(s)'
  BY <1>3, <1>5, <1>8 DEF Unsubscribe, NoSamplesOf
<1>9. ASSUME NEW t \in Services, NEW n \in Events, Publish(t, n) PROVE NoSamplesOf(s)'
  BY <1>2, <1>3, <1>6, <1>9 DEF Publish, NoSamplesOf, Kinds, Names
<1>10. ASSUME NEW t \in Services, NEW n \in Fields, SetField(t, n) PROVE NoSamplesOf(s)'
  <2>1. t # s
    BY <1>2, <1>10 DEF SetField
  <2>2. \A m \in Fields : fieldValues'[s][m] = 0
    BY <1>3, <1>10, <2>1 DEF SetField, NoSamplesOf, WithdrawnInv, CallsInv, RegistryTypeOK
  <2> QED BY <1>6, <1>10, <2>1, <2>2 DEF SetField, NoSamplesOf, Kinds, Names
<1>11. ASSUME NEW t \in Services, NEW n \in Triggers, FireTrigger(t, n)
       PROVE  NoSamplesOf(s)'
  BY <1>2, <1>3, <1>6, <1>11 DEF FireTrigger, NoSamplesOf, Kinds, Names
<1>12. ASSUME NEW i \in SubIds, NEW kind \in Kinds, TakeFirst(kind, i)
       PROVE  NoSamplesOf(s)'
  BY <1>3, <1>5, <1>12 DEF TakeFirst, NoSamplesOf, Subscription, NoSub
<1>13. ASSUME NEW t \in Services, NEW depth \in 1 .. MaxDepth,
              \/ \E n \in Events : Subscribe(t, n, depth)
              \/ \E n \in Fields : SubscribeField(t, n, depth)
              \/ \E n \in Triggers : SubscribeTrigger(t, n, depth)
       PROVE  NoSamplesOf(s)'
  <2>1. /\ Names("event") = Events /\ Names("field") = Fields
        /\ Names("trigger") = Triggers /\ Kinds = {"event", "field", "trigger"}
    BY DEF Names, Kinds
  <2> QED BY <1>7, <1>13, <2>1 DEF Subscribe, SubscribeField, SubscribeTrigger
<1> QED
  BY <1>4, <1>8, <1>9, <1>10, <1>11, <1>12, <1>13
  DEF SampleNext, Poll, PollField, PollTrigger, Kinds

LEMMA NextWithdrawn ==
  ASSUME WithdrawnInv, [RegistryNext]_registryVars
  PROVE  WithdrawnServiceHoldsNothing'
<1>1. ASSUME NEW s \in Services, ~Offered(s)'
      PROVE  NoCallsOf(s)' /\ NoSamplesOf(s)'
  <2>1. CASE UNCHANGED registryVars
    BY <1>1, <2>1, WithdrawnParts
    DEF WithdrawnInv, Offered, NoCallsOf, NoSamplesOf, registryVars
  <2> QED BY <1>1, <2>1, OfferWithdrawn, MethodWithdrawn, SampleWithdrawn DEF RegistryNext
<1> QED BY <1>1 DEF WithdrawnServiceHoldsNothing, NoCallsOf, NoSamplesOf, Offered

(* A provider that offers a service, or offers it again after a withdrawal,  *)
(* inherits no call, result, promise, field value or field or trigger        *)
(* subscription of the time before.                                          *)
THEOREM WithdrawnCorrect == RegistrySpec => []WithdrawnServiceHoldsNothing
<1>1. RegistryInit => WithdrawnServiceHoldsNothing
  BY DEF RegistryInit, WithdrawnServiceHoldsNothing, MethodKeys
<1>2. WithdrawnServiceHoldsNothing /\ CallsInv /\ [RegistryNext]_registryVars
        => WithdrawnServiceHoldsNothing'
  BY NextWithdrawn DEF WithdrawnInv
<1>3. RegistrySpec => []CallsInv
  BY CallsInvariant
<1> QED BY <1>1, <1>2, <1>3, PTL DEF RegistrySpec

-----------------------------------------------------------------------------
(* Samples.                                                                  *)

(* Sequence numbers between low and high, in ascending order, and the newest *)
(* of them or, if there is none, low.                                        *)
Ascending(q, low, high) ==
  /\ \A j \in 1 .. Len(q) : low < q[j] /\ q[j] < high
  /\ \A j, k \in 1 .. Len(q) : j < k => q[j] < q[k]
Newest(q, low) == IF q = <<>> THEN low ELSE q[Len(q)]

LEMMA SequenceParts ==
  ASSUME NEW S, NEW q \in Seq(S)
  PROVE  /\ Len(q) \in Nat /\ \A j \in 1 .. Len(q) : q[j] \in S
         /\ Len(q) = 0 => q = <<>>
         /\ q # <<>> => /\ Len(q) >= 1 /\ Head(q) = q[1]
                        /\ Tail(q) \in Seq(S) /\ Len(Tail(q)) = Len(q) - 1
                        /\ \A j \in 1 .. Len(q) - 1 : Tail(q)[j] = q[j + 1]
         /\ \A x \in S : /\ Append(q, x) \in Seq(S) /\ Len(Append(q, x)) = Len(q) + 1
                          /\ Append(q, x)[Len(q) + 1] = x
                          /\ \A j \in 1 .. Len(q) : Append(q, x)[j] = q[j]
  OBVIOUS

(* A queue takes one more sample and lets go of the oldest if it was full.   *)
LEMMA PushBoundedAscends ==
  ASSUME NEW q \in Seq(1 .. MaxSeq), NEW x \in 1 .. MaxSeq, NEW depth \in Nat \ {0},
         NEW low \in Nat, low < x, Len(q) <= depth, Ascending(q, low, x)
  PROVE  LET after == PushBounded(q, x, depth)
         IN  /\ Len(after) <= depth
             /\ Ascending(after, low, x + 1)
             /\ Newest(after, low) = x
<1> DEFINE longer == Append(q, x)
           off == IF Len(longer) > depth THEN Len(longer) - depth ELSE 0
           after == SubSeq(longer, 1 + off, Len(longer))
<1>1. /\ longer \in Seq(1 .. MaxSeq) /\ Len(longer) = Len(q) + 1 /\ Len(q) \in Nat
      /\ longer[Len(q) + 1] = x /\ \A j \in 1 .. Len(q) : longer[j] = q[j] /\ q[j] \in 1 .. MaxSeq
  <2> DEFINE S == 1 .. MaxSeq
  <2>1. q \in Seq(S) /\ x \in S
    OBVIOUS
  <2> HIDE DEF S
  <2>2. /\ Append(q, x) \in Seq(S) /\ Len(Append(q, x)) = Len(q) + 1 /\ Len(q) \in Nat
        /\ Append(q, x)[Len(q) + 1] = x
        /\ \A j \in 1 .. Len(q) : Append(q, x)[j] = q[j] /\ q[j] \in S
    BY <2>1
  <2> QED BY <2>2 DEF S
<1>2. depth \in Nat /\ depth # 0 /\ x \in Nat /\ MaxSeq \in Nat
  BY BoundsAssumption
<1>3. off \in Nat /\ off <= Len(q) /\ Len(longer) - off <= depth
  BY <1>1, <1>2
<1> HIDE DEF longer, off
<1>4. /\ Len(after) = Len(q) + 1 - off
      /\ \A j \in 1 .. Len(q) + 1 - off : after[j] = longer[j + off]
  <2> DEFINE S == 1 .. MaxSeq
  <2>1. longer \in Seq(S) /\ Len(longer) = Len(q) + 1 /\ Len(q) \in Nat /\ off \in Nat
    BY <1>1, <1>3
  <2> HIDE DEF S
  <2>2. \A j \in 1 .. Len(longer) - off : after[j] = longer[j + off]
    BY <2>1
  <2>3. Len(after) = Len(longer) - off
    BY <1>1, <1>3, <2>1
  <2> QED BY <2>1, <2>2, <2>3
<1> HIDE DEF after
<1>5. ASSUME NEW j \in 1 .. Len(after)
      PROVE  /\ j = Len(after) => after[j] = x
             /\ j < Len(after) => j + off \in 1 .. Len(q) /\ after[j] = q[j + off]
  BY <1>1, <1>3, <1>4
<1>6. ASSUME NEW j \in 1 .. Len(after) PROVE low < after[j] /\ after[j] < x + 1
  <2>1. CASE j = Len(after)
    BY <1>2, <1>5, <2>1
  <2>2. CASE j < Len(after)
    <3>1. low < q[j + off] /\ q[j + off] < x /\ q[j + off] \in Nat
      BY <1>1, <1>5, <2>2 DEF Ascending
    <3> QED BY <1>2, <1>5, <2>2, <3>1
  <2> QED BY <1>4, <2>1, <2>2
<1>7. ASSUME NEW j \in 1 .. Len(after), NEW k \in 1 .. Len(after), j < k
      PROVE  after[j] < after[k]
  <2>1. j < Len(after)
    BY <1>1, <1>3, <1>4, <1>7
  <2>2. CASE k = Len(after)
    BY <1>5, <2>1, <2>2 DEF Ascending
  <2>3. CASE k < Len(after)
    <3>1. j + off < k + off
      BY <1>3, <1>7
    <3> QED BY <1>5, <2>1, <2>3, <3>1 DEF Ascending
  <2> QED BY <1>4, <2>2, <2>3
<1>8. Newest(after, low) = x
  <2>1. Len(after) \in 1 .. Len(after) /\ after # <<>>
    BY <1>1, <1>3, <1>4
  <2> QED BY <1>5, <2>1 DEF Newest
<1>9. Len(after) <= depth
  BY <1>1, <1>3, <1>4
<1> QED BY <1>6, <1>7, <1>8, <1>9 DEF PushBounded, longer, off, after, Ascending

(* The oldest sample is taken.                                               *)
LEMMA TailAscends ==
  ASSUME NEW q \in Seq(1 .. MaxSeq), q # <<>>, NEW low \in Nat, NEW high \in Nat,
         Ascending(q, low, high)
  PROVE  /\ Len(Tail(q)) <= Len(q)
         /\ Head(q) < high /\ Ascending(Tail(q), Head(q), high)
         /\ Newest(Tail(q), Head(q)) = Newest(q, low)
<1>1. /\ Len(q) \in Nat /\ Len(q) >= 1 /\ Head(q) = q[1] /\ Len(Tail(q)) = Len(q) - 1
      /\ Tail(q) \in Seq(1 .. MaxSeq) /\ \A j \in 1 .. Len(q) - 1 : Tail(q)[j] = q[j + 1]
  BY SequenceParts, Zenon
<1>2. Head(q) < high
  BY <1>1 DEF Ascending
<1>3. Ascending(Tail(q), Head(q), high)
  <2>1. \A j \in 1 .. Len(q) - 1 :
          j + 1 \in 1 .. Len(q) /\ 1 \in 1 .. Len(q) /\ 1 < j + 1
    BY <1>1
  <2>2. \A j \in 1 .. Len(q) - 1 : Head(q) < q[j + 1] /\ q[j + 1] < high
    BY <1>1, <2>1 DEF Ascending
  <2>3. \A j, k \in 1 .. Len(q) - 1 : j < k => q[j + 1] < q[k + 1]
    BY <1>1, <2>1 DEF Ascending
  <2> QED BY <1>1, <2>2, <2>3 DEF Ascending
<1>4. Newest(Tail(q), Head(q)) = Newest(q, low)
  <2>1. CASE Len(q) = 1
    <3>1. Len(Tail(q)) = 0
      BY <1>1, <2>1
    <3>2. Tail(q) = <<>>
      BY <1>1, <3>1, SequenceParts, Zenon
    <3> QED BY <1>1, <2>1, <3>2 DEF Newest
  <2>2. CASE Len(q) # 1
    <3>1. Tail(q) # <<>> /\ Len(q) - 1 \in 1 .. Len(q) - 1 /\ (Len(q) - 1) + 1 = Len(q)
      BY <1>1, <2>2
    <3> QED BY <1>1, <3>1 DEF Newest
  <2> QED BY <2>1, <2>2
<1> QED BY <1>1, <1>2, <1>3, <1>4

(* What holds of a subscription that took the sample low last, when its      *)
(* field, if it is of one, has the value current and next is published next. *)
InOrder(sub, low, current, next) ==
  /\ Len(sub.queue) <= sub.depth
  /\ Ascending(sub.queue, low, next)
  /\ sub.kind = "field" => Newest(sub.queue, low) = current

Current(sub) == fieldValues[sub.service][sub.name]

SamplesInv ==
  /\ \A i \in SubIds :
       /\ lastPolled[i] < nextSeq
       /\ i >= nextSub => subs[i] = NoSub /\ lastPolled[i] = 0
       /\ subs[i] # NoSub => /\ InOrder(subs[i], lastPolled[i], Current(subs[i]), nextSeq)
                             /\ subs[i].kind = "field" => subs[i].name \in Fields
  /\ \A s \in Services, n \in Fields : fieldValues[s][n] < nextSeq

LEMMA InitSamples == RegistryInit => SamplesInv
  BY DEF RegistryInit, SamplesInv

(* What a subscription is worth to the proofs.                               *)
LEMMA SubscriptionParts ==
  ASSUME RegistryTypeOK, NEW i \in SubIds, subs[i] # NoSub
  PROVE  /\ subs[i] \in Subscription
         /\ subs[i].kind \in Kinds /\ subs[i].service \in Services
         /\ subs[i].depth \in Nat \ {0} /\ subs[i].queue \in Seq(1 .. MaxSeq)
         /\ lastPolled[i] \in Nat
<1>1. subs[i] \in Subscription /\ lastPolled[i] \in Nat
  BY BoundsAssumption DEF RegistryTypeOK
<1> QED BY <1>1, BoundsAssumption DEF Subscription

LEMMA OfferSamples ==
  ASSUME RegistryTypeOK, SamplesInv, OfferNext
  PROVE  SamplesInv'
<1>1. CASE UNCHANGED sampleVars
  BY <1>1 DEF SamplesInv, sampleVars, Current
<1>2. ASSUME NEW s \in Services, StopOffer(s) PROVE SamplesInv'
  <2>1. /\ UNCHANGED <<nextSub, nextSeq, lastPolled>>
        /\ fieldValues' = [fieldValues EXCEPT ![s] = [n \in Fields |-> 0]]
        /\ \A i \in SubIds : subs'[i] # NoSub =>
             /\ subs'[i] = subs[i] /\ subs[i] # NoSub
             /\ ~(subs[i].service = s /\ subs[i].kind \in {"field", "trigger"})
    BY <1>2 DEF StopOffer, EraseSampleStateFor
  <2>2. nextSeq \in Nat /\ 0 < nextSeq
    BY BoundsAssumption DEF RegistryTypeOK
  <2>3. \A t \in Services, n \in Fields : fieldValues'[t][n] < nextSeq
    BY <2>1, <2>2 DEF RegistryTypeOK, SamplesInv
  <2>4. ASSUME NEW i \in SubIds
        PROVE  /\ lastPolled'[i] < nextSeq'
               /\ i >= nextSub' => subs'[i] = NoSub /\ lastPolled'[i] = 0
    <3>1. i >= nextSub => subs'[i] = NoSub
      BY <2>1 DEF SamplesInv
    <3> QED BY <2>1, <3>1 DEF SamplesInv
  <2>5. ASSUME NEW i \in SubIds, subs'[i] # NoSub
        PROVE  /\ InOrder(subs'[i], lastPolled'[i], Current(subs[i])', nextSeq')
               /\ subs'[i].kind = "field" => subs'[i].name \in Fields
    <3>1. /\ subs'[i] = subs[i] /\ subs[i] # NoSub
          /\ InOrder(subs[i], lastPolled[i], Current(subs[i]), nextSeq)
          /\ subs[i].kind = "field" => subs[i].name \in Fields
      BY <2>1, <2>5 DEF SamplesInv
    <3>2. subs[i].kind = "field" => fieldValues'[subs[i].service] = fieldValues[subs[i].service]
      BY <2>1, <2>5, <3>1, SubscriptionParts DEF RegistryTypeOK
    <3>3. subs[i].kind = "field" => Current(subs[i])' = Current(subs[i])
      BY <3>1, <3>2 DEF Current
    <3> QED BY <2>1, <3>1, <3>3 DEF InOrder
  <2> QED BY <2>1, <2>3, <2>4, <2>5 DEF SamplesInv
<1> QED BY <1>1, <1>2 DEF OfferNext, InvalidateEndpoint, OfferService, StartFind, StopFind

(* A new subscription has taken nothing and starts with what is current.     *)
LEMMA AddSamples ==
  ASSUME RegistryTypeOK, SamplesInv, NEW kind \in Kinds, NEW s \in Services,
         NEW depth \in 1 .. MaxDepth, NEW n, NEW queue \in Seq(1 .. MaxSeq),
         AddSubscription(kind, s, n, depth, queue), Len(queue) <= 1,
         \A j \in 1 .. Len(queue) : queue[j] < nextSeq,
         kind = "field" => n \in Fields /\ Newest(queue, 0) = fieldValues[s][n]
  PROVE  SamplesInv'
<1> DEFINE new == [kind |-> kind, service |-> s, name |-> n, depth |-> depth, queue |-> queue]
<1>1. /\ nextSub \in SubIds /\ nextSub \in Nat /\ nextSub' = nextSub + 1
      /\ UNCHANGED <<fieldValues, nextSeq, lastPolled>>
      /\ subs' = [subs EXCEPT ![nextSub] = new]
      /\ subs \in [SubIds -> Subscription \cup {NoSub}] /\ nextSeq \in Nat
      /\ lastPolled[nextSub] = 0
  <2>1. nextSub \in SubIds /\ nextSub \in Nat /\ nextSeq \in Nat
    BY BoundsAssumption DEF AddSubscription, RegistryTypeOK, SubIds
  <2>2. nextSub >= nextSub
    BY <2>1
  <2>3. lastPolled[nextSub] = 0
    BY <2>1, <2>2 DEF SamplesInv
  <2> QED BY <2>1, <2>3 DEF AddSubscription, RegistryTypeOK
<1>2. InOrder(new, 0, fieldValues[s][n], nextSeq)
  <2>1. Len(queue) \in Nat /\ \A j \in 1 .. Len(queue) : queue[j] \in 1 .. MaxSeq
    BY SequenceParts, Zenon
  <2>2. Ascending(queue, 0, nextSeq)
    BY <2>1 DEF Ascending
  <2>3. depth \in Nat /\ 1 <= depth
    BY BoundsAssumption
  <2>4. Len(queue) <= depth
    BY <2>1, <2>3
  <2> QED BY <2>2, <2>4 DEF InOrder
<1>3. ASSUME NEW i \in SubIds
      PROVE  /\ lastPolled'[i] < nextSeq'
             /\ i >= nextSub' => subs'[i] = NoSub /\ lastPolled'[i] = 0
  <2>1. i >= nextSub + 1 => i >= nextSub /\ i # nextSub
    BY <1>1 DEF SubIds
  <2> QED BY <1>1, <2>1 DEF SamplesInv
<1>4. ASSUME NEW i \in SubIds, subs'[i] # NoSub
      PROVE  /\ InOrder(subs'[i], lastPolled'[i], Current(subs[i])', nextSeq')
             /\ subs'[i].kind = "field" => subs'[i].name \in Fields
  <2>1. CASE i = nextSub
    <3>1. subs'[i] = new
      BY <1>1, <2>1
    <3>2. Current(subs[i])' = fieldValues[s][n] /\ new.kind = kind /\ new.name = n
      BY <1>1, <3>1 DEF Current
    <3> QED BY <1>1, <1>2, <2>1, <3>1, <3>2
  <2>2. CASE i # nextSub
    <3>1. subs'[i] = subs[i]
      BY <1>1, <2>2
    <3>2. Current(subs[i])' = Current(subs[i])
      BY <1>1, <3>1 DEF Current
    <3> QED BY <1>1, <1>4, <3>1, <3>2 DEF SamplesInv
  <2> QED BY <2>1, <2>2
<1>5. \A t \in Services, m \in Fields : fieldValues'[t][m] < nextSeq'
  BY <1>1 DEF SamplesInv
<1> QED BY <1>3, <1>4, <1>5 DEF SamplesInv

(* The sample is the newest of everybody who gets it.                        *)
LEMMA DeliverSamples ==
  ASSUME RegistryTypeOK, SamplesInv, NEW kind \in Kinds, NEW s \in Services, NEW n,
         Deliver(kind, s, n),
         \/ kind # "field" /\ UNCHANGED fieldValues
         \/ /\ kind = "field" /\ n \in Fields
            /\ fieldValues' = [fieldValues EXCEPT ![s][n] = nextSeq]
  PROVE  SamplesInv'
<1>1. /\ nextSeq \in 1 .. MaxSeq /\ nextSeq \in Nat /\ nextSeq' = nextSeq + 1
      /\ UNCHANGED <<nextSub, lastPolled>>
  BY BoundsAssumption DEF Deliver, RegistryTypeOK
<1> DEFINE Gets(i) == /\ subs[i] # NoSub
                      /\ subs[i].kind = kind /\ subs[i].service = s /\ subs[i].name = n
<1>2. \A i \in SubIds :
        subs'[i] = IF Gets(i)
                   THEN [subs[i] EXCEPT !.queue = PushBounded(@, nextSeq, subs[i].depth)]
                   ELSE subs[i]
  BY DEF Deliver
<1>3. \A t \in Services, m \in Fields : fieldValues'[t][m] \in Nat /\ fieldValues'[t][m] < nextSeq'
  <2>1. ASSUME NEW t \in Services, NEW m \in Fields
        PROVE  fieldValues'[t][m] = fieldValues[t][m] \/ fieldValues'[t][m] = nextSeq
    <3>1. CASE UNCHANGED fieldValues
      BY <3>1
    <3>2. CASE n \in Fields /\ fieldValues' = [fieldValues EXCEPT ![s][n] = nextSeq]
      <4>1. CASE t = s
        BY <3>2, <4>1 DEF RegistryTypeOK
      <4>2. CASE t # s
        BY <3>2, <4>2 DEF RegistryTypeOK
      <4> QED BY <4>1, <4>2
    <3> QED BY <3>1, <3>2
  <2>2. ASSUME NEW t \in Services, NEW m \in Fields
        PROVE  fieldValues[t][m] \in Nat /\ fieldValues[t][m] < nextSeq
    BY BoundsAssumption DEF RegistryTypeOK, SamplesInv
  <2> QED BY <1>1, <2>1, <2>2
<1>4. ASSUME NEW i \in SubIds
      PROVE  /\ lastPolled'[i] < nextSeq'
             /\ i >= nextSub' => subs'[i] = NoSub /\ lastPolled'[i] = 0
  <2>1. lastPolled[i] \in Nat /\ lastPolled[i] < nextSeq
    BY BoundsAssumption DEF RegistryTypeOK, SamplesInv
  <2>2. lastPolled'[i] < nextSeq'
    BY <1>1, <2>1
  <2>3. i >= nextSub => subs'[i] = NoSub /\ lastPolled[i] = 0
    BY <1>2 DEF SamplesInv
  <2> QED BY <1>1, <2>2, <2>3
<1>5. ASSUME NEW i \in SubIds, subs'[i] # NoSub
      PROVE  /\ InOrder(subs'[i], lastPolled'[i], Current(subs[i])', nextSeq')
             /\ subs'[i].kind = "field" => subs'[i].name \in Fields
  <2>1. subs[i] # NoSub
    BY <1>2, <1>5
  <2>2. /\ subs[i] \in Subscription /\ subs[i].service \in Services
        /\ subs[i].depth \in Nat \ {0} /\ subs[i].queue \in Seq(1 .. MaxSeq)
        /\ lastPolled[i] \in Nat /\ lastPolled[i] < nextSeq
        /\ InOrder(subs[i], lastPolled[i], Current(subs[i]), nextSeq)
        /\ subs[i].kind = "field" => subs[i].name \in Fields
    BY <2>1, SubscriptionParts DEF SamplesInv
  <2>3. CASE Gets(i)
    <3> DEFINE q == PushBounded(subs[i].queue, nextSeq, subs[i].depth)
    <3>1. /\ Len(q) <= subs[i].depth /\ Ascending(q, lastPolled[i], nextSeq + 1)
          /\ Newest(q, lastPolled[i]) = nextSeq
      BY <1>1, <2>2, PushBoundedAscends DEF InOrder
    <3>2. /\ subs'[i].queue = q /\ subs'[i].depth = subs[i].depth
          /\ subs'[i].kind = kind /\ subs'[i].service = s /\ subs'[i].name = n
      BY <1>2, <2>2, <2>3 DEF Subscription
    <3>3. kind = "field" => Current(subs[i])' = nextSeq
      BY <3>2 DEF Current, RegistryTypeOK
    <3> HIDE DEF q
    <3> QED BY <1>1, <2>2, <2>3, <3>1, <3>2, <3>3 DEF InOrder
  <2>4. CASE ~Gets(i)
    <3>1. subs'[i] = subs[i]
      BY <1>2, <2>4
    <3>2. subs[i].kind = "field" => Current(subs[i])' = Current(subs[i])
      <4> SUFFICES ASSUME subs[i].kind = "field"
                   PROVE  fieldValues'[subs[i].service][subs[i].name]
                            = fieldValues[subs[i].service][subs[i].name]
        BY <3>1 DEF Current
      <4> DEFINE t == subs[i].service
                 m == subs[i].name
      <4>1. t \in Services /\ m \in Fields
        BY <2>2
      <4>2. kind = "field" => ~(t = s /\ m = n)
        BY <2>1, <2>4
      <4> HIDE DEF t, m
      <4>3. fieldValues'[t][m] = fieldValues[t][m]
        <5>1. CASE UNCHANGED fieldValues
          BY <5>1
        <5>2. CASE kind = "field" /\ fieldValues' = [fieldValues EXCEPT ![s][n] = nextSeq]
          <6>1. CASE t = s
            BY <4>1, <4>2, <5>2, <6>1 DEF RegistryTypeOK
          <6>2. CASE t # s
            BY <4>1, <5>2, <6>2 DEF RegistryTypeOK
          <6> QED BY <6>1, <6>2
        <5> QED BY <5>1, <5>2
      <4> QED BY <4>3 DEF t, m
    <3>3. Ascending(subs[i].queue, lastPolled[i], nextSeq + 1)
      <4>1. \A j \in 1 .. Len(subs[i].queue) : subs[i].queue[j] \in Nat
        BY <2>2, BoundsAssumption
      <4>2. \A j \in 1 .. Len(subs[i].queue) : subs[i].queue[j] < nextSeq + 1
        BY <1>1, <2>2, <4>1 DEF InOrder, Ascending
      <4> QED BY <2>2, <4>2 DEF InOrder, Ascending
    <3> QED BY <1>1, <2>2, <3>1, <3>2, <3>3 DEF InOrder
  <2> QED BY <2>3, <2>4
<1> QED BY <1>3, <1>4, <1>5 DEF SamplesInv

LEMMA TakeSamples ==
  ASSUME RegistryTypeOK, SamplesInv, NEW i \in SubIds, NEW kind \in Kinds, TakeFirst(kind, i)
  PROVE  SamplesInv'
<1> DEFINE q == subs[i].queue
<1>1. /\ subs[i] # NoSub /\ q # <<>> /\ UNCHANGED <<nextSub, fieldValues, nextSeq>>
      /\ lastPolled' = [lastPolled EXCEPT ![i] = Head(q)]
      /\ subs' = [subs EXCEPT ![i].queue = Tail(@)]
  BY DEF TakeFirst
<1>2. /\ subs[i] \in Subscription /\ q \in Seq(1 .. MaxSeq)
      /\ subs[i].depth \in Nat \ {0} /\ lastPolled[i] \in Nat /\ nextSeq \in Nat
      /\ InOrder(subs[i], lastPolled[i], Current(subs[i]), nextSeq)
      /\ subs[i].kind = "field" => subs[i].name \in Fields
  BY <1>1, SubscriptionParts, BoundsAssumption, SMTT(40) DEF SamplesInv, RegistryTypeOK
<1>3. /\ Len(Tail(q)) <= Len(q) /\ Head(q) < nextSeq /\ Ascending(Tail(q), Head(q), nextSeq)
      /\ Newest(Tail(q), Head(q)) = Newest(q, lastPolled[i])
  BY <1>1, <1>2, TailAscends DEF InOrder
<1>4. Len(Tail(q)) <= subs[i].depth
  <2>1. Tail(q) \in Seq(1 .. MaxSeq) /\ Len(Tail(q)) \in Nat /\ Len(q) \in Nat
    BY <1>1, <1>2, SequenceParts, ZenonT(60)
  <2>2. Len(q) <= subs[i].depth
    BY <1>2 DEF InOrder
  <2> QED BY <1>2, <1>3, <2>1, <2>2
<1>5. ASSUME NEW k \in SubIds, k # i
      PROVE  subs'[k] = subs[k] /\ lastPolled'[k] = lastPolled[k]
  BY <1>1, <1>5 DEF RegistryTypeOK
<1>6. lastPolled'[i] = Head(q)
  BY <1>1 DEF RegistryTypeOK
<1>7. /\ subs'[i].queue = Tail(q) /\ subs'[i].depth = subs[i].depth
      /\ subs'[i].kind = subs[i].kind /\ subs'[i].service = subs[i].service
      /\ subs'[i].name = subs[i].name
  BY <1>1, <1>2 DEF RegistryTypeOK, Subscription
<1> HIDE DEF q
<1>8. InOrder(subs'[i], lastPolled'[i], Current(subs[i])', nextSeq')
  <2>1. Current(subs[i])' = Current(subs[i])
    BY <1>1, <1>7 DEF Current
  <2> QED BY <1>1, <1>2, <1>3, <1>4, <1>6, <1>7, <2>1 DEF InOrder, q
<1>9. ~(i >= nextSub)
  BY <1>1 DEF SamplesInv
<1>10. ASSUME NEW k \in SubIds
       PROVE  /\ lastPolled'[k] < nextSeq'
              /\ k >= nextSub' => subs'[k] = NoSub /\ lastPolled'[k] = 0
              /\ subs'[k] # NoSub =>
                   /\ InOrder(subs'[k], lastPolled'[k], Current(subs[k])', nextSeq')
                   /\ subs'[k].kind = "field" => subs'[k].name \in Fields
  <2>1. CASE k = i
    BY <1>1, <1>2, <1>3, <1>6, <1>7, <1>8, <1>9, <2>1
  <2>2. CASE k # i
    <3>1. Current(subs[k])' = Current(subs[k])
      BY <1>1, <1>5, <2>2 DEF Current
    <3> QED BY <1>1, <1>5, <2>2, <3>1 DEF SamplesInv
  <2> QED BY <2>1, <2>2
<1>11. \A t \in Services, m \in Fields : fieldValues'[t][m] < nextSeq'
  BY <1>1 DEF SamplesInv
<1> QED BY <1>10, <1>11 DEF SamplesInv

LEMMA SampleSamples ==
  ASSUME RegistryTypeOK, SamplesInv, SampleNext
  PROVE  SamplesInv'
<1>1. ASSUME NEW s \in Services, NEW depth \in 1 .. MaxDepth,
             \/ \E n \in Events : Subscribe(s, n, depth)
             \/ \E n \in Fields : SubscribeField(s, n, depth)
             \/ \E n \in Triggers : SubscribeTrigger(s, n, depth)
      PROVE  SamplesInv'
  <2>1. <<>> \in Seq(1 .. MaxSeq) /\ Len(<<>>) <= 1 /\ 1 .. Len(<<>>) = {}
    OBVIOUS
  <2>2. "event" \in Kinds /\ "field" \in Kinds /\ "trigger" \in Kinds
    BY DEF Kinds
  <2>3. ASSUME NEW n \in Events, Subscribe(s, n, depth) PROVE SamplesInv'
    <3>1. AddSubscription("event", s, n, depth, <<>>)
      BY <2>3 DEF Subscribe
    <3> QED BY <2>1, <2>2, <3>1, AddSamples
  <2>4. ASSUME NEW n \in Triggers, SubscribeTrigger(s, n, depth) PROVE SamplesInv'
    <3>1. AddSubscription("trigger", s, n, depth, <<>>)
      BY <2>4 DEF SubscribeTrigger
    <3> QED BY <2>1, <2>2, <3>1, AddSamples
  <2>5. ASSUME NEW n \in Fields, SubscribeField(s, n, depth) PROVE SamplesInv'
    <3> DEFINE queue == InitialQueue(s, n)
               v == fieldValues[s][n]
    <3>1. AddSubscription("field", s, n, depth, queue)
      BY <2>5 DEF SubscribeField
    <3>2. v \in 0 .. MaxSeq /\ v < nextSeq
      BY DEF RegistryTypeOK, SamplesInv
    <3>3. /\ queue \in Seq(1 .. MaxSeq) /\ Len(queue) <= 1 /\ Newest(queue, 0) = v
          /\ \A j \in 1 .. Len(queue) : queue[j] < nextSeq
      <4>1. CASE v = 0
        <5>1. queue = <<>>
          BY <4>1 DEF InitialQueue
        <5> QED BY <2>1, <4>1, <5>1 DEF Newest
      <4>2. CASE v # 0
        <5>1. queue = <<v>> /\ v \in 1 .. MaxSeq
          BY <3>2, <4>2, BoundsAssumption DEF InitialQueue
        <5> HIDE DEF queue, v
        <5>2. <<v>> \in Seq(1 .. MaxSeq) /\ Len(<<v>>) = 1 /\ <<v>>[1] = v /\ <<v>> # <<>>
          BY <5>1, SingletonType
        <5> QED BY <3>2, <5>1, <5>2 DEF Newest
      <4> QED BY <4>1, <4>2
    <3> HIDE DEF queue
    <3> QED BY <2>2, <3>1, <3>3, AddSamples
  <2> QED BY <1>1, <2>3, <2>4, <2>5
<1>2. ASSUME NEW i \in SubIds, Unsubscribe(i) PROVE SamplesInv'
  <2>1. /\ UNCHANGED <<nextSub, fieldValues, nextSeq, lastPolled>>
        /\ \A k \in SubIds : subs'[k] = IF k = i THEN NoSub ELSE subs[k]
    BY <1>2 DEF Unsubscribe, RegistryTypeOK
  <2> QED BY <2>1 DEF SamplesInv, Current
<1>3. ASSUME NEW s \in Services, NEW n \in Events, Publish(s, n) PROVE SamplesInv'
  BY <1>3, DeliverSamples DEF Publish, Kinds
<1>4. ASSUME NEW s \in Services, NEW n \in Fields, SetField(s, n) PROVE SamplesInv'
  BY <1>4, DeliverSamples DEF SetField, Kinds
<1>5. ASSUME NEW s \in Services, NEW n \in Triggers, FireTrigger(s, n) PROVE SamplesInv'
  BY <1>5, DeliverSamples DEF FireTrigger, Kinds
<1> QED
  BY <1>1, <1>2, <1>3, <1>4, <1>5, TakeSamples
  DEF SampleNext, Poll, PollField, PollTrigger, Kinds

(* Whatever overflows, whoever withdraws and however often a service is      *)
(* offered again, a subscriber takes samples in the order of their           *)
(* publication, and a field subscriber ends with the current value.          *)
THEOREM SamplesCorrect == RegistrySpec => []SamplesInOrder
<1>1. RegistryTypeOK /\ SamplesInv /\ [RegistryNext]_registryVars => SamplesInv'
  <2> SUFFICES ASSUME RegistryTypeOK, SamplesInv, [RegistryNext]_registryVars PROVE SamplesInv'
    OBVIOUS
  <2>1. CASE OfferNext
    BY <2>1, OfferSamples
  <2>2. CASE MethodNext \/ UNCHANGED registryVars
    <3>1. UNCHANGED sampleVars
      BY <2>2, ZenonT(60) DEF MethodNext, SubmitMethodCall, SubmitMethodCallFuture, TakeMethodCall,
                  CompleteMethodCall, TakeMethodResult, sampleVars, registryVars
    <3> QED BY <3>1 DEF SamplesInv, sampleVars, Current
  <2>3. CASE SampleNext
    BY <2>3, SampleSamples
  <2> QED BY <2>1, <2>2, <2>3 DEF RegistryNext
<1>2. SamplesInv => SamplesInOrder
  BY DEF SamplesInv, SamplesInOrder, InOrder, Ascending, Newest, Current, FieldSubscriberSeesLatest
<1> QED BY InitSamples, <1>1, <1>2, TypeCorrect, PTL DEF RegistrySpec

-----------------------------------------------------------------------------
(* The call lifecycle: what the registry's calls are to it.                  *)

(* The calls and results in a map of queues, each with its key.              *)
EntriesOf(queues) ==
  UNION {{<<k, queues[k][i]>> : i \in 1 .. Len(queues[k])} : k \in MethodKeys}

FutureOf(promises, c) == IF promises[c] = NoFuture THEN Absent ELSE promises[c].future
LiveOf(k, c, phase, oneWay, promises) ==
  [service |-> k[1], method |-> k[2], corr |-> c, phase |-> phase, oneWay |-> oneWay,
   future |-> FutureOf(promises, c)]

LivePending(e, promises) == LiveOf(e[1], e[2].corr, "pending", ~e[2].expects, promises)
LiveTaken(c, call, promises) == LiveOf(<<call.service, call.method>>, c, "taken", FALSE, promises)
LiveAnswered(e, promises) == LiveOf(e[1], e[2].corr, "answered", FALSE, promises)

AllPending(queues, promises) == {LivePending(e, promises) : e \in EntriesOf(queues)}
AllTaken(calls, promises) ==
  {LiveTaken(c, calls[c], promises) : c \in {d \in Corr : calls[d] # NoCall}}
AllAnswered(queues, promises) == {LiveAnswered(e, promises) : e \in EntriesOf(queues)}

(* The same, by the places in the queues.                                    *)
PlacesIn(queues) == UNION {{<<k, i>> : i \in 1 .. Len(queues[k])} : k \in MethodKeys}

LEMMA LivePlaces ==
  ASSUME NEW queues, NEW promises
  PROVE  /\ AllPending(queues, promises) =
              {LivePending(<<e[1], queues[e[1]][e[2]]>>, promises) : e \in PlacesIn(queues)}
         /\ AllAnswered(queues, promises) =
              {LiveAnswered(<<e[1], queues[e[1]][e[2]]>>, promises) : e \in PlacesIn(queues)}
<1>1. \A e \in EntriesOf(queues) : \E x \in PlacesIn(queues) : e = <<x[1], queues[x[1]][x[2]]>>
  <2> SUFFICES ASSUME NEW e \in EntriesOf(queues)
               PROVE  \E x \in PlacesIn(queues) : e = <<x[1], queues[x[1]][x[2]]>>
    OBVIOUS
  <2>0. PICK k \in MethodKeys : \E i \in 1 .. Len(queues[k]) : e = <<k, queues[k][i]>>
    BY DEF EntriesOf
  <2>1. PICK i \in 1 .. Len(queues[k]) : e = <<k, queues[k][i]>>
    BY <2>0
  <2>2. <<k, i>> \in PlacesIn(queues)
    BY DEF PlacesIn
  <2> QED BY <2>1, <2>2
<1>2. \A x \in PlacesIn(queues) : <<x[1], queues[x[1]][x[2]]>> \in EntriesOf(queues)
  <2> SUFFICES ASSUME NEW x \in PlacesIn(queues)
               PROVE  <<x[1], queues[x[1]][x[2]]>> \in EntriesOf(queues)
    OBVIOUS
  <2>0. PICK k \in MethodKeys : \E i \in 1 .. Len(queues[k]) : x = <<k, i>>
    BY DEF PlacesIn
  <2>1. PICK i \in 1 .. Len(queues[k]) : x = <<k, i>>
    BY <2>0
  <2>2. <<k, queues[k][i]>> \in EntriesOf(queues)
    BY DEF EntriesOf
  <2> QED BY <2>1, <2>2
<1>3. AllPending(queues, promises) =
        {LivePending(<<e[1], queues[e[1]][e[2]]>>, promises) : e \in PlacesIn(queues)}
  BY <1>1, <1>2 DEF AllPending
<1>4. AllAnswered(queues, promises) =
        {LiveAnswered(<<e[1], queues[e[1]][e[2]]>>, promises) : e \in PlacesIn(queues)}
  BY <1>1, <1>2 DEF AllAnswered
<1> QED BY <1>3, <1>4

LEMMA LiveParts ==
  /\ LiveCalls = AllPending(pending, futures) \cup AllTaken(inFlight, futures)
                   \cup AllAnswered(results, futures)
  /\ LiveCalls' = AllPending(pending', futures') \cup AllTaken(inFlight', futures')
                    \cup AllAnswered(results', futures')
<1> DEFINE ByPlace(queues, calls, answers, promises) ==
             {LivePending(<<e[1], queues[e[1]][e[2]]>>, promises) : e \in PlacesIn(queues)}
             \cup AllTaken(calls, promises)
             \cup {LiveAnswered(<<e[1], answers[e[1]][e[2]]>>, promises) : e \in PlacesIn(answers)}
<1>1. LiveCalls = ByPlace(pending, inFlight, results, futures)
  BY DEF LiveCalls, AllTaken, LivePending, LiveTaken, LiveAnswered, LiveOf, FutureOf, PlacesIn
<1>2. LiveCalls' = ByPlace(pending', inFlight', results', futures')
  BY DEF LiveCalls, AllTaken, LivePending, LiveTaken, LiveAnswered, LiveOf, FutureOf, PlacesIn
<1>3. ASSUME NEW queues, NEW calls, NEW answers, NEW promises
      PROVE  ByPlace(queues, calls, answers, promises) =
               AllPending(queues, promises) \cup AllTaken(calls, promises)
                 \cup AllAnswered(answers, promises)
  BY LivePlaces
<1> HIDE DEF ByPlace
<1> QED BY <1>1, <1>2, <1>3

LEMMA Entry ==
  ASSUME NEW queues, NEW e \in EntriesOf(queues)
  PROVE  \E k \in MethodKeys : \E i \in 1 .. Len(queues[k]) :
           e = <<k, queues[k][i]>> /\ e[1] = k /\ e[2] = queues[k][i]
<1>1. PICK k \in MethodKeys : \E i \in 1 .. Len(queues[k]) : e = <<k, queues[k][i]>>
  BY DEF EntriesOf
<1>2. PICK i \in 1 .. Len(queues[k]) : e = <<k, queues[k][i]>>
  BY <1>1
<1>3. e[1] = k /\ e[2] = queues[k][i]
  BY <1>2
<1> QED BY <1>2, <1>3

LEMMA IsEntry ==
  ASSUME NEW queues, NEW k \in MethodKeys, NEW i \in 1 .. Len(queues[k])
  PROVE  <<k, queues[k][i]>> \in EntriesOf(queues)
BY DEF EntriesOf

LEMMA EntriesAppend ==
  ASSUME NEW S, NEW queues \in [MethodKeys -> Seq(S)], NEW k \in MethodKeys, NEW x \in S
  PROVE  EntriesOf(AppendAt(queues, k, x)) = EntriesOf(queues) \cup {<<k, x>>}
<1> DEFINE after == AppendAt(queues, k, x)
<1>1. \A l \in MethodKeys : queues[l] \in Seq(S) /\ Len(queues[l]) \in Nat
  OBVIOUS
<1>2. \A l \in MethodKeys : after[l] = IF l = k THEN Append(queues[k], x) ELSE queues[l]
  BY DEF AppendAt
<1>3. /\ Len(after[k]) = Len(queues[k]) + 1
      /\ after[k][Len(queues[k]) + 1] = x
      /\ \A i \in 1 .. Len(queues[k]) : after[k][i] = queues[k][i]
  <2>1. after[k] = Append(queues[k], x) /\ queues[k] \in Seq(S)
    BY <1>1, <1>2
  <2> HIDE DEF after
  <2> QED BY <2>1
<1>4. \A l \in MethodKeys : \A i \in 1 .. Len(queues[l]) :
        i \in 1 .. Len(after[l]) /\ after[l][i] = queues[l][i]
  BY <1>1, <1>2, <1>3
<1>5. \A l \in MethodKeys : \A i \in 1 .. Len(after[l]) :
        i \in 1 .. Len(queues[l]) \/ (l = k /\ after[l][i] = x)
  BY <1>1, <1>2, <1>3
<1>6. Len(queues[k]) + 1 \in 1 .. Len(after[k])
  BY <1>1, <1>3
<1> HIDE DEF after
<1>7. ASSUME NEW e \in EntriesOf(after) PROVE e \in EntriesOf(queues) \cup {<<k, x>>}
  <2>1. PICK l \in MethodKeys : \E i \in 1 .. Len(after[l]) :
        e = <<l, after[l][i]>> /\ e[1] = l /\ e[2] = after[l][i]
    BY Entry
  <2>2. PICK i \in 1 .. Len(after[l]) :
          e = <<l, after[l][i]>> /\ e[1] = l /\ e[2] = after[l][i]
    BY <2>1
  <2>3. CASE i \in 1 .. Len(queues[l])
    <3>1. e = <<l, queues[l][i]>>
      BY <1>4, <2>2, <2>3
    <3>2. <<l, queues[l][i]>> \in EntriesOf(queues)
      BY <2>3, IsEntry
    <3> QED BY <3>1, <3>2
  <2>4. CASE i \notin 1 .. Len(queues[l])
    BY <1>5, <2>2, <2>4
  <2> QED BY <2>3, <2>4
<1>8. ASSUME NEW e \in EntriesOf(queues) PROVE e \in EntriesOf(after)
  <2>1. PICK l \in MethodKeys : \E i \in 1 .. Len(queues[l]) :
        e = <<l, queues[l][i]>> /\ e[1] = l /\ e[2] = queues[l][i]
    BY Entry
  <2>2. PICK i \in 1 .. Len(queues[l]) :
          e = <<l, queues[l][i]>> /\ e[1] = l /\ e[2] = queues[l][i]
    BY <2>1
  <2>3. i \in 1 .. Len(after[l]) /\ after[l][i] = queues[l][i]
    BY <1>4
  <2>4. <<l, after[l][i]>> \in EntriesOf(after)
    BY <2>3, IsEntry
  <2> QED BY <2>2, <2>3, <2>4
<1>9. <<k, x>> \in EntriesOf(after)
  <2>1. <<k, after[k][Len(queues[k]) + 1]>> \in EntriesOf(after)
    BY <1>6, IsEntry
  <2> QED BY <1>3, <2>1
<1> QED BY <1>7, <1>8, <1>9 DEF after

LEMMA EntriesRemove ==
  ASSUME NEW S, NEW queues \in [MethodKeys -> Seq(S)], NEW k \in MethodKeys,
         NEW p \in 1 .. Len(queues[k]), QueuedOnce(queues)
  PROVE  EntriesOf(WithoutPlace(queues, k, p)) = EntriesOf(queues) \ {<<k, queues[k][p]>>}
<1> DEFINE after == WithoutPlace(queues, k, p)
<1>1. /\ \A c : Queued(after, c) <=> Queued(queues, c) /\ c # queues[k][p].corr
      /\ QueuedOnce(after)
      /\ \A l \in MethodKeys : \A i \in 1 .. Len(after[l]) :
           \E j \in 1 .. Len(queues[l]) : after[l][i] = queues[l][j]
      /\ \A l \in MethodKeys : \A i \in 1 .. Len(queues[l]) : ~(l = k /\ i = p) =>
           \E j \in 1 .. Len(after[l]) : after[l][j] = queues[l][i]
  <2>1. IsRemoved(after, queues, k, p)
    BY RemovedQueued
  <2> HIDE DEF after
  <2> QED BY <2>1 DEF IsRemoved
<1> HIDE DEF after
<1>2. ASSUME NEW e \in EntriesOf(after)
      PROVE  e \in EntriesOf(queues) /\ e # <<k, queues[k][p]>>
  <2>1. PICK l \in MethodKeys : \E i \in 1 .. Len(after[l]) :
        e = <<l, after[l][i]>> /\ e[1] = l /\ e[2] = after[l][i]
    BY Entry
  <2>2. PICK i \in 1 .. Len(after[l]) :
          e = <<l, after[l][i]>> /\ e[1] = l /\ e[2] = after[l][i]
    BY <2>1
  <2>3. PICK j \in 1 .. Len(queues[l]) : after[l][i] = queues[l][j]
    BY <1>1
  <2>4. <<l, queues[l][j]>> \in EntriesOf(queues)
    BY IsEntry
  <2>5. after[l][i].corr # queues[k][p].corr
    BY <1>1 DEF Queued
  <2> QED BY <2>2, <2>3, <2>4, <2>5
<1>3. ASSUME NEW e \in EntriesOf(queues), e # <<k, queues[k][p]>>
      PROVE  e \in EntriesOf(after)
  <2>1. PICK l \in MethodKeys : \E i \in 1 .. Len(queues[l]) :
        e = <<l, queues[l][i]>> /\ e[1] = l /\ e[2] = queues[l][i]
    BY Entry
  <2>2. PICK i \in 1 .. Len(queues[l]) :
          e = <<l, queues[l][i]>> /\ e[1] = l /\ e[2] = queues[l][i]
    BY <2>1
  <2>3. ~(l = k /\ i = p)
    BY <1>3, <2>2
  <2>4. PICK j \in 1 .. Len(after[l]) : after[l][j] = queues[l][i]
    BY <1>1, <2>3
  <2>5. <<l, after[l][j]>> \in EntriesOf(after)
    BY IsEntry
  <2> QED BY <2>2, <2>4, <2>5
<1> QED BY <1>2, <1>3 DEF after

LEMMA EntriesErase ==
  ASSUME NEW queues, NEW s
  PROVE  EntriesOf(EraseQueues(queues, s)) = {e \in EntriesOf(queues) : e[1][1] # s}
<1> DEFINE after == EraseQueues(queues, s)
<1>1. \A k \in MethodKeys : after[k] = IF k[1] = s THEN <<>> ELSE queues[k]
  BY DEF EraseQueues
<1>2. \A k \in MethodKeys : \A i \in 1 .. Len(after[k]) : k[1] # s /\ after[k] = queues[k]
  BY <1>1
<1> HIDE DEF after
<1>3. ASSUME NEW e \in EntriesOf(after) PROVE e \in EntriesOf(queues) /\ e[1][1] # s
  <2>1. PICK l \in MethodKeys : \E i \in 1 .. Len(after[l]) :
        e = <<l, after[l][i]>> /\ e[1] = l /\ e[2] = after[l][i]
    BY Entry
  <2>2. PICK i \in 1 .. Len(after[l]) :
          e = <<l, after[l][i]>> /\ e[1] = l /\ e[2] = after[l][i]
    BY <2>1
  <2>3. l[1] # s /\ after[l] = queues[l]
    BY <1>2
  <2>4. <<l, queues[l][i]>> \in EntriesOf(queues)
    BY <2>3, IsEntry
  <2> QED BY <2>2, <2>3, <2>4
<1>4. ASSUME NEW e \in EntriesOf(queues), e[1][1] # s PROVE e \in EntriesOf(after)
  <2>1. PICK l \in MethodKeys : \E i \in 1 .. Len(queues[l]) :
        e = <<l, queues[l][i]>> /\ e[1] = l /\ e[2] = queues[l][i]
    BY Entry
  <2>2. PICK i \in 1 .. Len(queues[l]) :
          e = <<l, queues[l][i]>> /\ e[1] = l /\ e[2] = queues[l][i]
    BY <2>1
  <2>3. after[l] = queues[l]
    BY <1>1, <1>4, <2>2
  <2>4. <<l, after[l][i]>> \in EntriesOf(after)
    BY <2>3, IsEntry
  <2> QED BY <2>2, <2>3, <2>4
<1> QED BY <1>3, <1>4 DEF after

(* Every live call has its id for itself, and a promise belongs to the call  *)
(* that waits under its id.                                                  *)
LEMMA LiveIds ==
  ASSUME CallsInv
  PROVE  /\ \A e \in EntriesOf(pending) :
              /\ e[1] \in MethodKeys /\ e[2] \in Call /\ e[2].corr \in Corr
              /\ e[2].service = e[1][1] /\ e[2].method = e[1][2]
              /\ Queued(pending, e[2].corr)
              /\ futures[e[2].corr] # NoFuture =>
                   e[2].expects /\ futures[e[2].corr].service = e[1][1]
         /\ \A e \in EntriesOf(results) :
              /\ e[1] \in MethodKeys /\ e[2].corr \in Corr /\ Queued(results, e[2].corr)
              /\ futures[e[2].corr] = NoFuture
         /\ \A c \in Corr : inFlight[c] # NoCall =>
              /\ inFlight[c].service \in Services /\ inFlight[c].method \in Methods
              /\ futures[c] # NoFuture => futures[c].service = inFlight[c].service
         /\ \A c \in Corr : futures[c] # NoFuture =>
              \/ inFlight[c] # NoCall /\ inFlight[c].service = futures[c].service
              \/ \E e \in EntriesOf(pending) :
                   e[2].corr = c /\ e[2].expects /\ e[1][1] = futures[c].service
         /\ \A d, e \in EntriesOf(pending) : d[2].corr = e[2].corr => d = e
         /\ \A d, e \in EntriesOf(results) : d[2].corr = e[2].corr => d = e
<1>1. /\ pending \in [MethodKeys -> Seq(Call)] /\ results \in [MethodKeys -> Seq(MethodResult)]
      /\ inFlight \in [Corr -> Call \cup {NoCall}]
  BY DEF CallsInv, RegistryTypeOK
<1>2. ASSUME NEW queues, QueuedOnce(queues), NEW d \in EntriesOf(queues),
             NEW e \in EntriesOf(queues), d[2].corr = e[2].corr
      PROVE  d = e
  <2>1. PICK k \in MethodKeys : \E i \in 1 .. Len(queues[k]) :
        d = <<k, queues[k][i]>> /\ d[1] = k /\ d[2] = queues[k][i]
    BY Entry
  <2>2. PICK i \in 1 .. Len(queues[k]) :
          d = <<k, queues[k][i]>> /\ d[1] = k /\ d[2] = queues[k][i]
    BY <2>1
  <2>3. PICK l \in MethodKeys : \E j \in 1 .. Len(queues[l]) :
        e = <<l, queues[l][j]>> /\ e[1] = l /\ e[2] = queues[l][j]
    BY Entry
  <2>4. PICK j \in 1 .. Len(queues[l]) :
          e = <<l, queues[l][j]>> /\ e[1] = l /\ e[2] = queues[l][j]
    BY <2>3
  <2>5. k = l /\ i = j
    BY <1>2, <2>2, <2>4 DEF QueuedOnce
  <2> QED BY <2>2, <2>4, <2>5
<1>3. \A d, e \in EntriesOf(pending) : d[2].corr = e[2].corr => d = e
  BY <1>2 DEF CallsInv, CorrelationUnique
<1>4. \A d, e \in EntriesOf(results) : d[2].corr = e[2].corr => d = e
  BY <1>2 DEF CallsInv, CorrelationUnique
<1>5. ASSUME NEW e \in EntriesOf(pending)
      PROVE  /\ e[1] \in MethodKeys /\ e[2] \in Call /\ e[2].corr \in Corr
             /\ e[2].service = e[1][1] /\ e[2].method = e[1][2]
             /\ Queued(pending, e[2].corr)
  <2>1. PICK k \in MethodKeys : \E i \in 1 .. Len(pending[k]) :
        e = <<k, pending[k][i]>> /\ e[1] = k /\ e[2] = pending[k][i]
    BY Entry
  <2>2. PICK i \in 1 .. Len(pending[k]) : e[1] = k /\ e[2] = pending[k][i]
    BY <2>1
  <2>3. pending[k][i] \in Call
    BY <1>1
  <2> QED BY <2>2, <2>3 DEF Call, Queued, CallsInv, Routed
<1>6. ASSUME NEW e \in EntriesOf(results)
      PROVE  e[1] \in MethodKeys /\ e[2].corr \in Corr /\ Queued(results, e[2].corr)
  <2>1. PICK k \in MethodKeys : \E i \in 1 .. Len(results[k]) :
        e = <<k, results[k][i]>> /\ e[1] = k /\ e[2] = results[k][i]
    BY Entry
  <2>2. PICK i \in 1 .. Len(results[k]) : e[1] = k /\ e[2] = results[k][i]
    BY <2>1
  <2>3. results[k][i] \in MethodResult
    BY <1>1
  <2> QED BY <2>2, <2>3 DEF MethodResult, Queued
<1>7. ASSUME NEW c \in Corr, futures[c] # NoFuture
      PROVE  \/ inFlight[c] # NoCall /\ inFlight[c].service = futures[c].service
             \/ \E e \in EntriesOf(pending) :
                  e[2].corr = c /\ e[2].expects /\ e[1][1] = futures[c].service
  <2>1. Waiting(c, futures[c].service)
    BY <1>7 DEF CallsInv, FutureBacked, Waiting
  <2>2. ASSUME NEW k \in MethodKeys, NEW i \in 1 .. Len(pending[k]), k[1] = futures[c].service,
               pending[k][i].corr = c, pending[k][i].expects
        PROVE  \E e \in EntriesOf(pending) :
                 e[2].corr = c /\ e[2].expects /\ e[1][1] = futures[c].service
    <3>1. <<k, pending[k][i]>> \in EntriesOf(pending)
      BY IsEntry
    <3> QED BY <2>2, <3>1
  <2> QED BY <2>1, <2>2 DEF Waiting
<1>8. ASSUME NEW e \in EntriesOf(pending), futures[e[2].corr] # NoFuture
      PROVE  e[2].expects /\ futures[e[2].corr].service = e[1][1]
  <2>1. inFlight[e[2].corr] = NoCall
    BY <1>5 DEF CallsInv, CorrelationUnique
  <2> QED BY <1>3, <1>5, <1>7, <1>8, <2>1
<1>9. ASSUME NEW e \in EntriesOf(results)
      PROVE  futures[e[2].corr] = NoFuture
  <2>1. inFlight[e[2].corr] = NoCall /\ ~Queued(pending, e[2].corr)
    BY <1>6 DEF CallsInv, CorrelationUnique
  <2> QED BY <1>5, <1>6, <1>7, <2>1
<1>10. ASSUME NEW c \in Corr, inFlight[c] # NoCall
       PROVE  /\ inFlight[c].service \in Services /\ inFlight[c].method \in Methods
              /\ futures[c] # NoFuture => futures[c].service = inFlight[c].service
  <2>1. ~Queued(pending, c)
    BY <1>10 DEF CallsInv, CorrelationUnique
  <2>2. inFlight[c].service \in Services /\ inFlight[c].method \in Methods
    BY <1>1, <1>10 DEF Call
  <2> QED BY <1>5, <1>7, <2>1, <2>2
<1> QED BY <1>3, <1>4, <1>5, <1>6, <1>7, <1>8, <1>9, <1>10

-----------------------------------------------------------------------------
(* The call lifecycle: the steps.                                            *)

LEMMA LiveFields ==
  ASSUME NEW promises
  PROVE  /\ \A e : /\ LivePending(e, promises).service = e[1][1]
                   /\ LivePending(e, promises).corr = e[2].corr
                   /\ LivePending(e, promises).phase = "pending"
                   /\ LivePending(e, promises).oneWay = ~e[2].expects
                   /\ LivePending(e, promises).future = FutureOf(promises, e[2].corr)
         /\ \A c, call : /\ LiveTaken(c, call, promises).service = call.service
                         /\ LiveTaken(c, call, promises).corr = c
                         /\ LiveTaken(c, call, promises).phase = "taken"
                         /\ LiveTaken(c, call, promises).future = FutureOf(promises, c)
         /\ \A e : /\ LiveAnswered(e, promises).service = e[1][1]
                   /\ LiveAnswered(e, promises).corr = e[2].corr
                   /\ LiveAnswered(e, promises).phase = "answered"
                   /\ LiveAnswered(e, promises).future = FutureOf(promises, e[2].corr)
BY DEF LivePending, LiveTaken, LiveAnswered, LiveOf

(* A live call is its six fields.                                            *)
LEMMA LiveCallFields ==
  ASSUME NEW r \in Lifecycle!LiveCall, NEW q \in Lifecycle!LiveCall,
         q.service = r.service, q.method = r.method, q.corr = r.corr,
         q.phase = r.phase, q.oneWay = r.oneWay, q.future = r.future
  PROVE  q = r
BY DEF Lifecycle!LiveCall

LEMMA LiveCallMoves ==
  ASSUME NEW r \in Lifecycle!LiveCall, NEW q \in Lifecycle!LiveCall,
         q.service = r.service, q.method = r.method, q.corr = r.corr, q.oneWay = r.oneWay
  PROVE  /\ q.phase = "taken" /\ q.future = r.future => q = [r EXCEPT !.phase = "taken"]
         /\ q.phase = "answered" /\ q.future = Absent =>
              q = [r EXCEPT !.phase = "answered", !.future = Absent]
<1>1. ASSUME q.phase = "taken", q.future = r.future
      PROVE  q = [r EXCEPT !.phase = "taken"]
  <2> DEFINE taken == [r EXCEPT !.phase = "taken"]
  <2>1. taken \in Lifecycle!LiveCall
    BY DEF Lifecycle!LiveCall, Lifecycle!Phases
  <2>2. /\ taken.service = r.service /\ taken.method = r.method /\ taken.corr = r.corr
        /\ taken.phase = "taken" /\ taken.oneWay = r.oneWay /\ taken.future = r.future
    BY DEF Lifecycle!LiveCall
  <2> HIDE DEF taken
  <2>3. q = taken
    BY <1>1, <2>1, <2>2, LiveCallFields
  <2> QED BY <2>3 DEF taken
<1>2. ASSUME q.phase = "answered", q.future = Absent
      PROVE  q = [r EXCEPT !.phase = "answered", !.future = Absent]
  <2> DEFINE answered == [r EXCEPT !.phase = "answered", !.future = Absent]
  <2>1. answered \in Lifecycle!LiveCall
    BY DEF Lifecycle!LiveCall, Lifecycle!Phases
  <2>2. /\ answered.service = r.service /\ answered.method = r.method /\ answered.corr = r.corr
        /\ answered.phase = "answered" /\ answered.oneWay = r.oneWay /\ answered.future = Absent
    BY DEF Lifecycle!LiveCall
  <2> HIDE DEF answered
  <2>3. q = answered
    BY <1>2, <2>1, <2>2, LiveCallFields
  <2> QED BY <2>3 DEF answered
<1> QED BY <1>1, <1>2

LEMMA LiveOfType ==
  ASSUME NEW k \in MethodKeys, NEW c \in Corr, NEW phase \in Lifecycle!Phases,
         NEW oneWay \in BOOLEAN, NEW promises \in [Corr -> Promised \cup {NoFuture}]
  PROVE  LiveOf(k, c, phase, oneWay, promises) \in Lifecycle!LiveCall
<1>1. FutureOf(promises, c) \in Futures \cup {Absent}
  BY DEF FutureOf, Promised
<1> QED BY <1>1 DEF LiveOf, Lifecycle!LiveCall, MethodKeys

(* What becomes of other promises does not show in a call.                   *)
LEMMA SameFutures ==
  ASSUME NEW before, NEW after
  PROVE  /\ \A queues : (\A e \in EntriesOf(queues) :
                           FutureOf(before, e[2].corr) = FutureOf(after, e[2].corr)) =>
              /\ AllPending(queues, before) = AllPending(queues, after)
              /\ AllAnswered(queues, before) = AllAnswered(queues, after)
         /\ \A calls : (\A c \in Corr : calls[c] # NoCall =>
                          FutureOf(before, c) = FutureOf(after, c)) =>
              AllTaken(calls, before) = AllTaken(calls, after)
<1>1. ASSUME NEW queues, \A e \in EntriesOf(queues) :
                           FutureOf(before, e[2].corr) = FutureOf(after, e[2].corr)
      PROVE  /\ AllPending(queues, before) = AllPending(queues, after)
             /\ AllAnswered(queues, before) = AllAnswered(queues, after)
  <2>1. \A e \in EntriesOf(queues) : /\ LivePending(e, before) = LivePending(e, after)
                                     /\ LiveAnswered(e, before) = LiveAnswered(e, after)
    BY <1>1 DEF LivePending, LiveAnswered, LiveOf
  <2> QED BY <2>1 DEF AllPending, AllAnswered
<1>2. ASSUME NEW calls, \A c \in Corr : calls[c] # NoCall =>
                           FutureOf(before, c) = FutureOf(after, c)
      PROVE  AllTaken(calls, before) = AllTaken(calls, after)
  <2>1. \A c \in Corr : calls[c] # NoCall =>
          LiveTaken(c, calls[c], before) = LiveTaken(c, calls[c], after)
    BY <1>2 DEF LiveTaken, LiveOf
  <2> QED BY <2>1 DEF AllTaken
<1> QED BY <1>1, <1>2

(* The live calls have known ids.                                            *)
LEMMA LiveAreKnown ==
  ASSUME CallsInv, NEW x \in LiveCalls
  PROVE  x.corr \in Corr /\ Known(x.corr)
<1>1. CASE x \in AllPending(pending, futures)
  <2>1. PICK e \in EntriesOf(pending) : x = LivePending(e, futures)
    BY <1>1 DEF AllPending
  <2> QED BY <2>1, LiveIds, LiveFields DEF Known
<1>2. CASE x \in AllTaken(inFlight, futures)
  <2>1. PICK c \in Corr : inFlight[c] # NoCall /\ x = LiveTaken(c, inFlight[c], futures)
    BY <1>2 DEF AllTaken
  <2> QED BY <2>1, LiveFields DEF Known
<1>3. CASE x \in AllAnswered(results, futures)
  <2>1. PICK e \in EntriesOf(results) : x = LiveAnswered(e, futures)
    BY <1>3 DEF AllAnswered
  <2> QED BY <2>1, LiveIds, LiveFields DEF Known
<1> QED BY <1>1, <1>2, <1>3, LiveParts

LEMMA EnqueueIsSubmit ==
  ASSUME CallsInv, NEW s \in Services, NEW m \in Methods, NEW c \in Corr,
         NEW expects \in BOOLEAN, ~Known(c), Enqueue(s, m, c, expects),
         UNCHANGED <<inFlight, results>>, \A d \in Corr : d # c => futures'[d] = futures[d],
         FutureOf(futures', c) \in Futures \cup {Absent}, ~expects => FutureOf(futures', c) = Absent
  PROVE  \E new \in Lifecycle!LiveCall :
           /\ new.phase = "pending" /\ (expects => ~new.oneWay)
           /\ new.future = FutureOf(futures', c)
           /\ new.oneWay => new.future = Absent
           /\ LiveCalls' = LiveCalls \cup {new}
           /\ \A other \in LiveCalls : other.corr # new.corr
<1> DEFINE k == <<s, m>>
           call == [service |-> s, method |-> m, corr |-> c, expects |-> expects]
           new == LiveOf(k, c, "pending", ~expects, futures')
<1>1. /\ k \in MethodKeys /\ k[1] = s /\ k[2] = m
      /\ call \in Call /\ call.corr = c /\ call.expects = expects
      /\ pending \in [MethodKeys -> Seq(Call)] /\ pending' = AppendAt(pending, k, call)
  BY DEF CallsInv, RegistryTypeOK, MethodKeys, Call, Enqueue
<1> HIDE DEF k, call
<1>2. EntriesOf(pending') = EntriesOf(pending) \cup {<<k, call>>}
  <2>1. EntriesOf(AppendAt(pending, k, call)) = EntriesOf(pending) \cup {<<k, call>>}
    BY <1>1, EntriesAppend
  <2> QED BY <1>1, <2>1
<1>3. LivePending(<<k, call>>, futures') = new
  BY <1>1 DEF LivePending
<1>4. /\ \A e \in EntriesOf(pending) : e[2].corr # c /\ e[2].corr \in Corr
      /\ \A e \in EntriesOf(results) : e[2].corr # c /\ e[2].corr \in Corr
      /\ inFlight[c] = NoCall
  BY LiveIds DEF Known
<1>5. /\ \A e \in EntriesOf(pending) : FutureOf(futures, e[2].corr) = FutureOf(futures', e[2].corr)
      /\ \A e \in EntriesOf(results) : FutureOf(futures, e[2].corr) = FutureOf(futures', e[2].corr)
      /\ \A d \in Corr : inFlight[d] # NoCall => FutureOf(futures, d) = FutureOf(futures', d)
  BY <1>4 DEF FutureOf
<1>6. /\ AllPending(pending, futures') = AllPending(pending, futures)
      /\ AllAnswered(results', futures') = AllAnswered(results, futures)
      /\ AllTaken(inFlight', futures') = AllTaken(inFlight, futures)
  BY <1>5, SameFutures
<1>7. AllPending(pending', futures') = AllPending(pending, futures') \cup {new}
  BY <1>2, <1>3 DEF AllPending
<1> HIDE DEF new
<1>8. LiveCalls' = LiveCalls \cup {new}
  BY <1>6, <1>7, LiveParts
<1>9. /\ new.service = s /\ new.method = m /\ new.corr = c /\ new.phase = "pending"
      /\ new.oneWay = ~expects /\ new.future = FutureOf(futures', c)
  BY <1>1 DEF new, LiveOf
<1>10. new \in Lifecycle!LiveCall
  BY <1>1, <1>9 DEF new, LiveOf, Lifecycle!LiveCall, Lifecycle!Phases
<1>11. \A other \in LiveCalls : other.corr # new.corr
  BY <1>9, LiveAreKnown
<1> QED BY <1>8, <1>9, <1>10, <1>11

LEMMA SubmitIsSubmit ==
  ASSUME CallsInv, NEW s \in Services, NEW m \in Methods, NEW want \in {0} \cup Corr,
         NEW expects \in BOOLEAN, SubmitMethodCall(s, m, want, expects)
  PROVE  Lifecycle!Next
<1>1. PICK c \in Corr : ~Known(c) /\ Enqueue(s, m, c, expects)
  BY DEF SubmitMethodCall, Assigns
<1>2. UNCHANGED <<inFlight, results, futures, settled>>
  BY DEF SubmitMethodCall
<1>3. futures[c] = NoFuture
  BY <1>1, <1>2, EnqueueCalls
<1>4. FutureOf(futures', c) = Absent
  BY <1>2, <1>3 DEF FutureOf
<1>5. PICK new \in Lifecycle!LiveCall :
        /\ new.phase = "pending" /\ new.future = Absent
        /\ LiveCalls' = LiveCalls \cup {new} /\ \A other \in LiveCalls : other.corr # new.corr
  BY <1>1, <1>2, <1>4, EnqueueIsSubmit
<1> QED BY <1>2, <1>5 DEF Lifecycle!Next, Lifecycle!Submit

LEMMA SubmitFutureIsSubmit ==
  ASSUME CallsInv, NEW s \in Services, NEW m \in Methods, NEW want \in {0} \cup Corr,
         NEW f \in Futures, SubmitMethodCallFuture(s, m, want, f)
  PROVE  Lifecycle!Next
<1>1. PICK c \in Corr :
        /\ ~Known(c) /\ Enqueue(s, m, c, TRUE)
        /\ futures' = IF futures[c] = NoFuture
                      THEN [futures EXCEPT ![c] = [service |-> s, future |-> f]]
                      ELSE futures
  BY DEF SubmitMethodCallFuture, Assigns
<1>2. /\ UNCHANGED <<inFlight, results>> /\ settled[f] = "unused"
      /\ settled' = [settled EXCEPT ![f] = "open"]
  BY DEF SubmitMethodCallFuture
<1>3. futures[c] = NoFuture
  BY <1>1, <1>2, EnqueueCalls
<1>4. /\ \A d \in Corr : d # c => futures'[d] = futures[d]
      /\ futures'[c] = [service |-> s, future |-> f]
  BY <1>1, <1>3 DEF CallsInv, RegistryTypeOK
<1>5. FutureOf(futures', c) = f
  BY <1>4 DEF FutureOf, NoFuture
<1>6. PICK new \in Lifecycle!LiveCall :
        /\ new.phase = "pending" /\ ~new.oneWay /\ new.future = f
        /\ LiveCalls' = LiveCalls \cup {new} /\ \A other \in LiveCalls : other.corr # new.corr
  <2>1. PICK expects \in BOOLEAN : expects = TRUE
    OBVIOUS
  <2>2. /\ Enqueue(s, m, c, expects) /\ ~Known(c) /\ UNCHANGED <<inFlight, results>>
        /\ \A d \in Corr : d # c => futures'[d] = futures[d]
        /\ FutureOf(futures', c) \in Futures \cup {Absent}
        /\ ~expects => FutureOf(futures', c) = Absent
    BY <1>1, <1>2, <1>4, <1>5, <2>1
  <2>3. \E new \in Lifecycle!LiveCall :
           /\ new.phase = "pending" /\ (expects => ~new.oneWay)
           /\ new.future = FutureOf(futures', c)
           /\ new.oneWay => new.future = Absent
           /\ LiveCalls' = LiveCalls \cup {new}
           /\ \A other \in LiveCalls : other.corr # new.corr
    BY <2>1, <2>2, EnqueueIsSubmit, ZenonT(60)
  <2> QED BY <1>5, <2>1, <2>3
<1>7. f # Absent
  BY FuturesAssumption
<1>8. Lifecycle!Submit(new)
  BY <1>2, <1>6, <1>7 DEF Lifecycle!Submit
<1> QED BY <1>6, <1>8 DEF Lifecycle!Next

LEMMA TakeIsTake ==
  ASSUME CallsInv, NEW s \in Services, NEW m \in Methods, TakeMethodCall(s, m)
  PROVE  Lifecycle!Next
<1> DEFINE k == <<s, m>>
<1>1. /\ k \in MethodKeys /\ pending \in [MethodKeys -> Seq(Call)]
      /\ pending[k] \in Seq(Call) /\ pending[k] # <<>>
      /\ inFlight \in [Corr -> Call \cup {NoCall}]
  BY DEF CallsInv, RegistryTypeOK, TakeMethodCall, MethodKeys
<1>2. PICK call \in Call : call = pending[k][1] /\ Head(pending[k]) = call
  BY <1>1, HeadTailType
<1>3. 1 \in 1 .. Len(pending[k])
  BY <1>1, HeadTailType
<1>4. /\ pending' = WithoutPlace(pending, k, 1)
      /\ inFlight' = IF call.expects THEN [inFlight EXCEPT ![call.corr] = call] ELSE inFlight
      /\ UNCHANGED <<results, futures, settled>>
  BY <1>2 DEF TakeMethodCall
<1>5. EntriesOf(pending') = EntriesOf(pending) \ {<<k, call>>}
  <2>1. QueuedOnce(pending)
    BY DEF CallsInv, CorrelationUnique
  <2> HIDE DEF k
  <2>2. EntriesOf(WithoutPlace(pending, k, 1)) = EntriesOf(pending) \ {<<k, pending[k][1]>>}
    BY <1>1, <1>3, <2>1, EntriesRemove
  <2> QED BY <1>2, <1>4, <2>2
<1> DEFINE me == <<k, call>>
           old == LivePending(me, futures)
           c == call.corr
<1>6. /\ me \in EntriesOf(pending) /\ me[1] = k /\ me[2] = call
  BY <1>1, <1>2, <1>3, IsEntry
<1>7. /\ c \in Corr /\ call.service = k[1] /\ call.method = k[2] /\ inFlight[c] = NoCall
      /\ futures[c] # NoFuture => call.expects
  BY <1>6, LiveIds DEF CallsInv, CorrelationUnique
<1>8. call.expects \in BOOLEAN /\ call # NoCall
  BY DEF Call, NoCall
<1>9. AllPending(pending', futures) = AllPending(pending, futures) \ {old}
  <2>1. \A e \in EntriesOf(pending) : LivePending(e, futures) = old => e = me
    <3>1. ASSUME NEW e \in EntriesOf(pending), LivePending(e, futures) = old PROVE e = me
      <4>1. e[2].corr = me[2].corr
        BY <3>1, LiveFields
      <4> QED BY <1>6, <4>1, LiveIds
    <3> QED BY <3>1
  <2> HIDE DEF me, old
  <2> QED BY <1>5, <1>6, <2>1 DEF AllPending, me, old
<1>10. old \in LiveCalls
  BY <1>6, LiveParts DEF AllPending
<1>11. /\ old.phase = "pending" /\ old.corr = c /\ old.oneWay = ~call.expects
       /\ old.future = FutureOf(futures, c)
  BY <1>6, LiveFields
<1>12. /\ \A x \in AllTaken(inFlight, futures) : x.phase = "taken"
       /\ \A x \in AllAnswered(results, futures) : x.phase = "answered"
  BY LiveFields DEF AllTaken, AllAnswered
<1> DEFINE new == [old EXCEPT !.phase = "taken"]
<1>13. /\ old \in Lifecycle!LiveCall /\ LiveTaken(c, call, futures) \in Lifecycle!LiveCall
       /\ old.service = s /\ old.method = m
       /\ LiveTaken(c, call, futures).service = s /\ LiveTaken(c, call, futures).method = m
       /\ LiveTaken(c, call, futures).oneWay = FALSE
  <2>1. futures \in [Corr -> Promised \cup {NoFuture}]
    BY DEF CallsInv, RegistryTypeOK
  <2>2. /\ old = LiveOf(k, c, "pending", ~call.expects, futures)
        /\ LiveTaken(c, call, futures) =
              LiveOf(<<call.service, call.method>>, c, "taken", FALSE, futures)
    BY <1>6 DEF LivePending, LiveTaken
  <2>3. /\ "pending" \in Lifecycle!Phases /\ "taken" \in Lifecycle!Phases
        /\ <<call.service, call.method>> = k /\ k[1] = s /\ k[2] = m
    BY <1>7 DEF Lifecycle!Phases
  <2>9. (~call.expects) \in BOOLEAN
    BY <1>8
  <2> HIDE DEF old, c, k
  <2>4. /\ old \in Lifecycle!LiveCall /\ LiveTaken(c, call, futures) \in Lifecycle!LiveCall
    BY <1>1, <1>7, <2>1, <2>2, <2>3, <2>9, LiveOfType, ZenonT(60)
  <2> QED BY <2>2, <2>3, <2>4 DEF LiveOf
<1>14. CASE call.expects
  <2>1. LiveTaken(c, call, futures) = new
    <3> HIDE DEF old, c
    <3>1. /\ LiveTaken(c, call, futures).corr = c /\ LiveTaken(c, call, futures).phase = "taken"
          /\ LiveTaken(c, call, futures).future = FutureOf(futures, c)
      BY LiveFields
    <3>2. old.oneWay = FALSE
      BY <1>8, <1>11, <1>14
    <3> QED BY <1>11, <1>13, <3>1, <3>2, LiveCallMoves, ZenonT(60)
  <2>2. AllTaken(inFlight', futures) =
          AllTaken(inFlight, futures) \cup {LiveTaken(c, call, futures)}
    <3>1. /\ inFlight'[c] = call /\ \A d \in Corr : d # c => inFlight'[d] = inFlight[d]
      BY <1>1, <1>4, <1>7, <1>14
    <3> HIDE DEF c
    <3> QED BY <1>7, <1>8, <3>1 DEF AllTaken, c
  <2>3. LiveCalls' = (LiveCalls \ {old}) \cup {new}
    <3> HIDE DEF old, new, c
    <3> QED BY <1>4, <1>9, <1>11, <1>12, <2>1, <2>2, LiveParts
  <2>4. ~old.oneWay
    BY <1>11, <1>14
  <2>5. Lifecycle!Take(old)
    <3> HIDE DEF old
    <3> QED BY <1>4, <1>11, <2>3, <2>4 DEF Lifecycle!Take
  <2> QED BY <1>10, <2>5 DEF Lifecycle!Next
<1>15. CASE ~call.expects
  <2>1. old.oneWay /\ inFlight' = inFlight
    BY <1>4, <1>8, <1>11, <1>15
  <2>2. LiveCalls' = LiveCalls \ {old}
    <3> HIDE DEF old, c
    <3> QED BY <1>4, <1>9, <1>11, <1>12, <2>1, LiveParts
  <2>3. Lifecycle!Take(old)
    <3> HIDE DEF old
    <3> QED BY <1>4, <1>11, <2>1, <2>2 DEF Lifecycle!Take
  <2> QED BY <1>10, <2>3 DEF Lifecycle!Next
<1> QED BY <1>8, <1>14, <1>15

LEMMA CompleteIsAnswer ==
  ASSUME CallsInv, NEW s \in Services, NEW m \in Methods, NEW c \in Corr,
         CompleteMethodCall(s, m, c)
  PROVE  Lifecycle!Next
<1> DEFINE k == <<s, m>>
           result == [service |-> s, method |-> m, corr |-> c]
           old == LiveTaken(c, inFlight[c], futures)
           new == [old EXCEPT !.phase = "answered", !.future = Absent]
<1>1. /\ k \in MethodKeys /\ result \in MethodResult /\ result.corr = c
      /\ results \in [MethodKeys -> Seq(MethodResult)]
      /\ inFlight \in [Corr -> Call \cup {NoCall}]
      /\ futures \in [Corr -> Promised \cup {NoFuture}]
      /\ settled \in [Futures -> {"unused", "open", "value", "error"}]
  BY DEF CallsInv, RegistryTypeOK, MethodKeys, MethodResult
<1>2. /\ results' = AppendAt(results, k, result)
      /\ inFlight[c] # NoCall /\ inFlight' = [inFlight EXCEPT ![c] = NoCall]
      /\ inFlight[c].service = s /\ inFlight[c].method = m
      /\ futures' = [futures EXCEPT ![c] = NoFuture]
      /\ settled' = IF futures[c] = NoFuture THEN settled
                    ELSE [settled EXCEPT ![futures[c].future] = "value"]
      /\ pending' = pending
  BY DEF CompleteMethodCall, MatchesInFlight
<1>3. EntriesOf(results') = EntriesOf(results) \cup {<<k, result>>}
  <2> HIDE DEF k, result
  <2>1. EntriesOf(AppendAt(results, k, result)) = EntriesOf(results) \cup {<<k, result>>}
    BY <1>1, EntriesAppend
  <2> QED BY <1>2, <2>1
<1>4. /\ futures'[c] = NoFuture /\ \A d \in Corr : d # c => futures'[d] = futures[d]
      /\ inFlight'[c] = NoCall /\ \A d \in Corr : d # c => inFlight'[d] = inFlight[d]
  BY <1>1, <1>2
<1>5. ~Queued(pending, c) /\ ~Queued(results, c)
  BY <1>2 DEF CallsInv, CorrelationUnique
<1>6. /\ \A e \in EntriesOf(pending) : FutureOf(futures, e[2].corr) = FutureOf(futures', e[2].corr)
      /\ \A e \in EntriesOf(results) : FutureOf(futures, e[2].corr) = FutureOf(futures', e[2].corr)
      /\ \A d \in Corr : inFlight'[d] # NoCall => FutureOf(futures, d) = FutureOf(futures', d)
  <2>1. \A e \in EntriesOf(pending) : e[2].corr # c /\ e[2].corr \in Corr
    BY <1>5, LiveIds
  <2>2. \A e \in EntriesOf(results) : e[2].corr # c /\ e[2].corr \in Corr
    BY <1>5, LiveIds
  <2> QED BY <1>4, <2>1, <2>2 DEF FutureOf
<1>7. /\ AllPending(pending', futures') = AllPending(pending, futures)
      /\ AllAnswered(results, futures') = AllAnswered(results, futures)
      /\ AllTaken(inFlight', futures') = AllTaken(inFlight', futures)
  BY <1>2, <1>6, SameFutures
<1>8. old = [service |-> s, method |-> m, corr |-> c, phase |-> "taken", oneWay |-> FALSE,
             future |-> FutureOf(futures, c)]
  <2>1. old = [service |-> inFlight[c].service, method |-> inFlight[c].method, corr |-> c,
               phase |-> "taken", oneWay |-> FALSE, future |-> FutureOf(futures, c)]
    BY DEF LiveTaken, LiveOf
  <2> HIDE DEF old
  <2> QED BY <1>2, <2>1
<1>9. LiveAnswered(<<k, result>>, futures') = new
  <2> DEFINE answered == LiveAnswered(<<k, result>>, futures')
  <2>1. answered = LiveOf(k, c, "answered", FALSE, futures') /\ FutureOf(futures', c) = Absent
    BY <1>1, <1>4 DEF LiveAnswered, FutureOf
  <2>2. old = LiveOf(<<inFlight[c].service, inFlight[c].method>>, c, "taken", FALSE, futures)
    BY DEF LiveTaken
  <2>3. old = LiveOf(k, c, "taken", FALSE, futures)
    BY <1>2, <2>2
  <2>4. /\ futures' \in [Corr -> Promised \cup {NoFuture}]
        /\ "answered" \in Lifecycle!Phases /\ "taken" \in Lifecycle!Phases
    BY <1>1, <1>2 DEF Lifecycle!Phases
  <2> HIDE DEF answered, old, k
  <2>5. answered \in Lifecycle!LiveCall /\ old \in Lifecycle!LiveCall
    BY <1>1, <2>1, <2>3, <2>4, LiveOfType
  <2>6. /\ answered.service = old.service /\ answered.method = old.method
        /\ answered.corr = old.corr /\ answered.oneWay = old.oneWay
        /\ answered.phase = "answered" /\ answered.future = Absent
    BY <2>1, <2>3 DEF LiveOf
  <2>7. answered = new
    BY <2>5, <2>6, LiveCallMoves
  <2> QED BY <2>7 DEF answered
<1>10. AllTaken(inFlight', futures) = AllTaken(inFlight, futures) \ {old}
  <2>1. ASSUME NEW d \in Corr, LiveTaken(d, inFlight[d], futures) = old PROVE d = c
    BY <2>1, LiveFields
  <2>2. ASSUME NEW x \in AllTaken(inFlight', futures)
        PROVE  x \in AllTaken(inFlight, futures) /\ x # old
    <3>1. PICK d \in Corr : inFlight'[d] # NoCall /\ x = LiveTaken(d, inFlight'[d], futures)
      BY <2>2 DEF AllTaken
    <3>2. d # c /\ inFlight'[d] = inFlight[d]
      BY <1>4, <3>1
    <3> HIDE DEF old
    <3> QED BY <2>1, <3>1, <3>2 DEF AllTaken
  <2>3. ASSUME NEW x \in AllTaken(inFlight, futures), x # old
        PROVE  x \in AllTaken(inFlight', futures)
    <3>1. PICK d \in Corr : inFlight[d] # NoCall /\ x = LiveTaken(d, inFlight[d], futures)
      BY <2>3 DEF AllTaken
    <3>2. d # c
      BY <2>3, <3>1
    <3> QED BY <1>4, <3>1, <3>2 DEF AllTaken
  <2> QED BY <2>2, <2>3
<1>11. AllAnswered(results', futures') = AllAnswered(results, futures') \cup {new}
  <2> HIDE DEF new
  <2> QED BY <1>3, <1>9 DEF AllAnswered
<1>12. /\ \A x \in AllPending(pending, futures) : x.phase = "pending"
       /\ \A x \in AllAnswered(results, futures) : x.phase = "answered"
       /\ old.phase = "taken" /\ old.future = FutureOf(futures, c)
  BY LiveFields DEF AllPending, AllAnswered
<1>13. old \in LiveCalls
  BY <1>2, LiveParts DEF AllTaken
<1>14. LiveCalls' = (LiveCalls \ {old}) \cup {new}
  <2> HIDE DEF old, new
  <2> QED BY <1>7, <1>10, <1>11, <1>12, LiveParts
<1>15. IF old.future = Absent
       THEN UNCHANGED settled
       ELSE /\ settled[old.future] = "open"
            /\ settled' = [settled EXCEPT ![old.future] = "value"]
  <2>1. CASE futures[c] = NoFuture
    BY <1>2, <1>12, <2>1 DEF FutureOf
  <2>2. CASE futures[c] # NoFuture
    <3>1. futures[c].future \in Futures /\ old.future = futures[c].future
      BY <1>1, <1>12, <2>2 DEF FutureOf, Promised
    <3>2. old.future # Absent
      BY <3>1, FuturesAssumption
    <3>3. settled[futures[c].future] = "open"
      BY <2>2, <3>1 DEF CallsInv, FutureBacked
    <3> HIDE DEF old
    <3> QED BY <1>2, <2>2, <3>1, <3>2, <3>3
  <2> QED BY <2>1, <2>2
<1>16. Lifecycle!Answer(old)
  <2> HIDE DEF old
  <2> QED BY <1>12, <1>14, <1>15 DEF Lifecycle!Answer
<1> QED BY <1>13, <1>16 DEF Lifecycle!Next

LEMMA TakeResultIsCollect ==
  ASSUME CallsInv, NEW s \in Services, NEW m \in Methods, NEW c \in Corr,
         TakeMethodResult(s, m, c)
  PROVE  Lifecycle!Next
<1> DEFINE k == <<s, m>>
<1>1. PICK i \in 1 .. Len(results[k]) : results' = WithoutPlace(results, k, i)
  BY DEF TakeMethodResult
<1>2. UNCHANGED <<pending, inFlight, futures, settled>>
  BY DEF TakeMethodResult
<1>3. k \in MethodKeys /\ results \in [MethodKeys -> Seq(MethodResult)] /\ QueuedOnce(results)
  BY DEF CallsInv, RegistryTypeOK, MethodKeys, CorrelationUnique
<1> DEFINE me == <<k, results[k][i]>>
           old == LiveAnswered(me, futures)
<1> HIDE DEF k
<1>4. EntriesOf(results') = EntriesOf(results) \ {me}
  BY <1>1, <1>3, EntriesRemove
<1>5. me \in EntriesOf(results)
  BY <1>3, IsEntry
<1> HIDE DEF me
<1>6. \A e \in EntriesOf(results) : LiveAnswered(e, futures) = old => e = me
  <2>1. ASSUME NEW e \in EntriesOf(results), LiveAnswered(e, futures) = old PROVE e = me
    <3>1. e[2].corr = me[2].corr
      BY <2>1, LiveFields
    <3> QED BY <1>5, <3>1, LiveIds
  <2> QED BY <2>1
<1>7. old.phase = "answered"
  BY LiveFields
<1> HIDE DEF old
<1>8. AllAnswered(results', futures) = AllAnswered(results, futures) \ {old}
  BY <1>4, <1>5, <1>6 DEF AllAnswered, old
<1>9. /\ \A x \in AllPending(pending, futures) : x.phase = "pending"
      /\ \A x \in AllTaken(inFlight, futures) : x.phase = "taken"
  BY LiveFields DEF AllPending, AllTaken
<1>10. old \in LiveCalls
  BY <1>5, LiveParts DEF AllAnswered, old
<1>11. LiveCalls' = LiveCalls \ {old}
  BY <1>2, <1>7, <1>8, <1>9, LiveParts
<1>12. Lifecycle!Collect(old)
  BY <1>2, <1>7, <1>11 DEF Lifecycle!Collect
<1> QED BY <1>10, <1>12 DEF Lifecycle!Next

LEMMA StopOfferIsWithdraw ==
  ASSUME CallsInv, NEW s \in Services, StopOffer(s)
  PROVE  Lifecycle!Withdraw(s)
<1> DEFINE ended == {call \in LiveCalls : call.service = s}
<1>1. /\ pending' = EraseQueues(pending, s) /\ results' = EraseQueues(results, s)
      /\ inFlight' = [c \in Corr |-> IF inFlight[c] # NoCall /\ inFlight[c].service = s
                                     THEN NoCall ELSE inFlight[c]]
      /\ futures' = [c \in Corr |-> IF futures[c] # NoFuture /\ futures[c].service = s
                                    THEN NoFuture ELSE futures[c]]
      /\ settled' = [f \in Futures |->
                      IF \E c \in Corr : futures[c] = [service |-> s, future |-> f]
                      THEN "error" ELSE settled[f]]
  BY DEF StopOffer, EraseMethodQueuesFor
<1>2. /\ EntriesOf(pending') = {e \in EntriesOf(pending) : e[1][1] # s}
      /\ EntriesOf(results') = {e \in EntriesOf(results) : e[1][1] # s}
  BY <1>1, EntriesErase
<1>3. \A c \in Corr : futures[c] = NoFuture \/ futures[c].service # s =>
        FutureOf(futures', c) = FutureOf(futures, c)
  BY <1>1 DEF FutureOf
<1>4. /\ \A c \in Corr : inFlight'[c] # NoCall =>
           inFlight[c] # NoCall /\ inFlight'[c] = inFlight[c] /\ inFlight[c].service # s
      /\ \A c \in Corr : inFlight[c] # NoCall /\ inFlight[c].service # s =>
           inFlight'[c] = inFlight[c]
  BY <1>1
<1>5. /\ AllPending(pending', futures') = AllPending(pending', futures)
      /\ AllAnswered(results', futures') = AllAnswered(results', futures)
      /\ AllTaken(inFlight', futures') = AllTaken(inFlight', futures)
  <2>1. \A e \in EntriesOf(pending') : FutureOf(futures', e[2].corr) = FutureOf(futures, e[2].corr)
    BY <1>2, <1>3, LiveIds
  <2>2. \A e \in EntriesOf(results') : FutureOf(futures', e[2].corr) = FutureOf(futures, e[2].corr)
    BY <1>2, <1>3, LiveIds
  <2>3. \A c \in Corr : inFlight'[c] # NoCall => FutureOf(futures', c) = FutureOf(futures, c)
    BY <1>3, <1>4, LiveIds
  <2> QED BY <2>1, <2>2, <2>3, SameFutures
<1>6. /\ AllPending(pending', futures) = {x \in AllPending(pending, futures) : x.service # s}
      /\ AllAnswered(results', futures) = {x \in AllAnswered(results, futures) : x.service # s}
  BY <1>2, LiveFields DEF AllPending, AllAnswered
<1>7. AllTaken(inFlight', futures) = {x \in AllTaken(inFlight, futures) : x.service # s}
  <2>1. ASSUME NEW x \in AllTaken(inFlight', futures)
        PROVE  x \in AllTaken(inFlight, futures) /\ x.service # s
    <3>1. PICK c \in Corr : inFlight'[c] # NoCall /\ x = LiveTaken(c, inFlight'[c], futures)
      BY <2>1 DEF AllTaken
    <3>2. x = LiveTaken(c, inFlight[c], futures) /\ inFlight[c] # NoCall /\ inFlight[c].service # s
      BY <1>4, <3>1
    <3> QED BY <3>2, LiveFields DEF AllTaken
  <2>2. ASSUME NEW x \in AllTaken(inFlight, futures), x.service # s
        PROVE  x \in AllTaken(inFlight', futures)
    <3>1. PICK c \in Corr : inFlight[c] # NoCall /\ x = LiveTaken(c, inFlight[c], futures)
      BY <2>2 DEF AllTaken
    <3>2. inFlight[c].service # s
      BY <2>2, <3>1, LiveFields
    <3> QED BY <1>4, <3>1, <3>2 DEF AllTaken
  <2> QED BY <2>1, <2>2
<1>8. LiveCalls' = LiveCalls \ ended
  BY <1>5, <1>6, <1>7, LiveParts
<1>9. ASSUME NEW f \in Futures
      PROVE  (\E c \in Corr : futures[c] = [service |-> s, future |-> f])
               <=> \E call \in ended : call.future = f
  <2>0. f # Absent /\ \A c \in Corr : futures[c] \in Promised \cup {NoFuture}
    BY FuturesAssumption DEF CallsInv, RegistryTypeOK
  <2>1. ASSUME NEW c \in Corr, futures[c] = [service |-> s, future |-> f]
        PROVE  \E call \in ended : call.future = f
    <3>1. futures[c] # NoFuture /\ futures[c].service = s /\ FutureOf(futures, c) = f
      BY <2>1 DEF NoFuture, FutureOf
    <3>2. CASE inFlight[c] # NoCall /\ inFlight[c].service = s
      <4>1. LiveTaken(c, inFlight[c], futures) \in LiveCalls
        BY <3>2, LiveParts DEF AllTaken
      <4> QED BY <3>1, <3>2, <4>1, LiveFields
    <3>3. ASSUME NEW e \in EntriesOf(pending), e[2].corr = c, e[1][1] = s
          PROVE  \E call \in ended : call.future = f
      <4>1. LivePending(e, futures) \in LiveCalls
        BY LiveParts DEF AllPending
      <4> QED BY <3>1, <3>3, <4>1, LiveFields
    <3> QED BY <3>1, <3>2, <3>3, LiveIds
  <2>2. ASSUME NEW c \in Corr, FutureOf(futures, c) = f,
               futures[c] # NoFuture => futures[c].service = s
        PROVE  futures[c] = [service |-> s, future |-> f]
    <3>1. futures[c] # NoFuture /\ futures[c].future = f /\ futures[c].service = s
      BY <2>0, <2>2 DEF FutureOf
    <3>2. futures[c] \in Promised
      BY <2>0, <3>1
    <3> QED BY <3>1, <3>2 DEF Promised
  <2>3. ASSUME NEW call \in LiveCalls, call.service = s, call.future = f
        PROVE  \E c \in Corr : futures[c] = [service |-> s, future |-> f]
    <3>1. CASE call \in AllPending(pending, futures)
      <4>1. PICK e \in EntriesOf(pending) : call = LivePending(e, futures)
        BY <3>1 DEF AllPending
      <4>2. e[1][1] = s /\ FutureOf(futures, e[2].corr) = f
        BY <2>3, <4>1, LiveFields
      <4>3. e[2].corr \in Corr /\ (futures[e[2].corr] # NoFuture => futures[e[2].corr].service = s)
        BY <4>2, LiveIds
      <4> QED BY <2>2, <4>2, <4>3
    <3>2. CASE call \in AllTaken(inFlight, futures)
      <4>1. PICK c \in Corr : inFlight[c] # NoCall /\ call = LiveTaken(c, inFlight[c], futures)
        BY <3>2 DEF AllTaken
      <4>2. inFlight[c].service = s /\ FutureOf(futures, c) = f
        BY <2>3, <4>1, LiveFields
      <4> QED BY <2>2, <4>1, <4>2, LiveIds
    <3>3. CASE call \in AllAnswered(results, futures)
      <4>1. PICK e \in EntriesOf(results) : call = LiveAnswered(e, futures)
        BY <3>3 DEF AllAnswered
      <4>2. FutureOf(futures, e[2].corr) = f
        BY <2>3, <4>1, LiveFields
      <4> QED BY <2>0, <4>2, LiveIds DEF FutureOf
    <3> QED BY <3>1, <3>2, <3>3, LiveParts
  <2> QED BY <2>1, <2>3
<1>10. settled' = [f \in Futures |-> IF \E call \in ended : call.future = f
                                     THEN "error" ELSE settled[f]]
  BY <1>1, <1>9
<1> QED BY <1>8, <1>10 DEF Lifecycle!Withdraw

LEMMA InitLifecycle == RegistryInit => Lifecycle!Init
<1> SUFFICES ASSUME RegistryInit PROVE Lifecycle!Init
  OBVIOUS
<1>1. EntriesOf(pending) = {} /\ EntriesOf(results) = {}
  <2>1. \A k \in MethodKeys : Len(pending[k]) = 0 /\ Len(results[k]) = 0
    BY DEF RegistryInit
  <2> QED BY <2>1, Entry
<1>2. AllTaken(inFlight, futures) = {}
  BY DEF RegistryInit, AllTaken
<1>3. LiveCalls = {}
  BY <1>1, <1>2, LiveParts DEF AllPending, AllAnswered
<1> QED BY <1>3 DEF RegistryInit, Lifecycle!Init

LEMMA StutterLifecycle ==
  ASSUME UNCHANGED methodVars
  PROVE  UNCHANGED Lifecycle!vars
<1>1. UNCHANGED <<pending, inFlight, results, futures, settled>>
  BY DEF methodVars
<1>2. LiveCalls' = LiveCalls
  BY <1>1, LiveParts
<1> QED BY <1>1, <1>2 DEF Lifecycle!vars

LEMMA NextLifecycle == CallsInv /\ [RegistryNext]_registryVars => [Lifecycle!Next]_(Lifecycle!vars)
<1> SUFFICES ASSUME CallsInv, [RegistryNext]_registryVars PROVE Lifecycle!Next \/ UNCHANGED Lifecycle!vars
  OBVIOUS
<1>1. CASE OfferNext
  <2>1. ASSUME NEW s \in Services, StopOffer(s) PROVE Lifecycle!Next
    BY <2>1, StopOfferIsWithdraw DEF Lifecycle!Next
  <2>2. CASE UNCHANGED methodVars
    BY <2>2, StutterLifecycle
  <2> QED
    BY <1>1, <2>1, <2>2
    DEF OfferNext, InvalidateEndpoint, OfferService, StartFind, StopFind
<1>2. CASE MethodNext
  BY <1>2, SubmitIsSubmit, SubmitFutureIsSubmit, TakeIsTake, CompleteIsAnswer,
     TakeResultIsCollect DEF MethodNext
<1>3. CASE SampleNext \/ UNCHANGED registryVars
  <2>1. UNCHANGED methodVars
    BY <1>3 DEF SampleNext, Subscribe, SubscribeField, SubscribeTrigger, AddSubscription,
                Unsubscribe, Publish, SetField, FireTrigger, Deliver,
                Poll, PollField, PollTrigger, TakeFirst, methodVars, registryVars
  <2> QED BY <2>1, StutterLifecycle
<1> QED BY <1>1, <1>2, <1>3 DEF RegistryNext

(* The registry implements the call lifecycle: whatever its queues, maps and *)
(* counter go through, a client sees every call submitted under an id of its *)
(* own, taken, answered at most once and collected, or ended with its        *)
(* service, and every future settled once, by its own call.                  *)
THEOREM CallsFollow == RegistrySpec => CallsFollowLifecycle
<1>1. RegistryInit => Lifecycle!Init
  BY InitLifecycle
<1>2. CallsInv /\ [RegistryNext]_registryVars => [Lifecycle!Next]_(Lifecycle!vars)
  BY NextLifecycle
<1> QED BY <1>1, <1>2, CallsInvariant, PTL DEF RegistrySpec, CallsFollowLifecycle, Lifecycle!Spec
=============================================================================
