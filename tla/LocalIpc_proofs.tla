---------------------------- MODULE LocalIpc_proofs ----------------------------
(* Proofs about a local IPC endpoint: method calls are tracked from the      *)
(* request to the response, and frames are those of the current provider,    *)
(* for any consumers, mappings, queue depths and lease.                      *)
EXTENDS LocalIpc, TLAPS

OfferedIsNumbered == offered => generation # 0

(* Calls under way, until a call from before a cleanup is answered: those    *)
(* that expect a response have different correlations.                       *)
Live == {r \in taken : ~r.lapsed}
CallsAreDistinct ==
  ~late =>
    /\ \A i, j \in DOMAIN requests :
         /\ requests[i].expects /\ requests[j].expects
         /\ requests[i].correlation = requests[j].correlation
         => i = j
    /\ \A i \in DOMAIN requests : \A r \in Live :
         requests[i].expects => requests[i].correlation # r.correlation
    /\ \A r, s \in Live : r.correlation = s.correlation => r = s

(* What is queued was made since the last cleanup, and only calls that       *)
(* expect a response wait with the provider.                                 *)
QueuedIsLive ==
  /\ \A i \in DOMAIN requests : ~requests[i].lapsed
  /\ \A r \in taken : r.expects

(* CallsAreTracked, queue by queue.                                          *)
Tracked ==
  ~late =>
    /\ \A i \in DOMAIN requests :
         requests[i].expects => peers[requests[i].correlation] = requests[i].caller
    /\ \A r \in Live : peers[r.correlation] = r.caller
    /\ \A c \in Correlations : peers[c] # None =>
         \/ \E i \in DOMAIN requests :
              requests[i].expects /\ requests[i].correlation = c
         \/ \E r \in Live : r.correlation = c
    /\ \A k \in Consumers : \A i \in DOMAIN responses[k] : responses[k][i].caller = k

CallsInv == QueuedIsLive /\ CallsAreDistinct /\ Tracked

(* FramesAreCurrent, queue by queue.                                         *)
Fresh(q) == \A i \in DOMAIN q : q[i].generation = generation
FramesInv ==
  /\ Fresh(requests) /\ Fresh(setRequests)
  /\ \A k \in Consumers : Fresh(responses[k])
  /\ \A k \in Consumers : subs[k] # None =>
       Fresh(subs[k].queue) /\ (DropOldest => NewestIs(latest, subs[k].queue))

EndpointInv == TypeOK /\ OfferedIsNumbered /\ CallsInv /\ FramesInv

(* TypeOK, part by part.                                                     *)
EndpointTyped ==
  /\ generation \in 0 .. MaxGeneration /\ age \in 0 .. Lease + 1
  /\ hook \in Hooks \cup {None}
SubsTyped ==
  /\ subs \in [Consumers -> {None} \cup [depth : 1 .. Depth, queue : Seq(Frames(Kinds))]]
  /\ \A k \in Consumers : subs[k] # None => Len(subs[k].queue) <= subs[k].depth
MethodsTyped ==
  /\ responses \in [Consumers -> Queues(Calls, Depth)]
  /\ requests \in Queues(Calls, Depth)
  /\ peers \in [Correlations -> Consumers \cup {None}]
  /\ taken \subseteq Calls
FieldTyped ==
  /\ setRequests \in Queues(Frames({"FieldSetRequest"}), Depth)
  /\ latest \in FieldValues \cup {None}

-----------------------------------------------------------------------------
(* Queues.                                                                   *)

LEMMA RemoveAtParts ==
  ASSUME NEW S, NEW q \in Seq(S), NEW i \in 1 .. Len(q)
  PROVE  /\ RemoveAt(q, i) \in Seq(S) /\ Len(RemoveAt(q, i)) = Len(q) - 1
         /\ \A j \in 1 .. Len(q) - 1 :
              RemoveAt(q, i)[j] = IF j < i THEN q[j] ELSE q[j + 1]
<1> DEFINE before == SubSeq(q, 1, i - 1)
           after == SubSeq(q, i + 1, Len(q))
<1>1. i \in 1 .. Len(q) /\ Len(q) \in Nat
  OBVIOUS
<1>2. /\ before \in Seq(S) /\ Len(before) = i - 1
      /\ \A j \in 1 .. i - 1 : before[j] = q[j]
  BY <1>1
<1>3. /\ after \in Seq(S) /\ Len(after) = Len(q) - i
      /\ \A j \in 1 .. Len(q) - i : after[j] = q[j + i]
  BY <1>1
<1> HIDE DEF before, after
<1>4. /\ before \o after \in Seq(S) /\ Len(before \o after) = Len(q) - 1
      /\ \A j \in 1 .. Len(before) : (before \o after)[j] = before[j]
      /\ \A j \in 1 .. Len(after) : (before \o after)[j + Len(before)] = after[j]
  <2>1. \A s, t \in Seq(S) : s \o t \in Seq(S) /\ Len(s \o t) = Len(s) + Len(t)
    OBVIOUS
  <2>2. ASSUME NEW j \in 1 .. Len(before) PROVE (before \o after)[j] = before[j]
    BY <1>2, <1>3
  <2>3. ASSUME NEW j \in 1 .. Len(after)
        PROVE  (before \o after)[j + Len(before)] = after[j]
    BY <1>2, <1>3
  <2>4. before \o after \in Seq(S) /\ Len(before \o after) = Len(before) + Len(after)
    BY <1>2, <1>3, <2>1
  <2> QED BY <1>1, <1>2, <1>3, <2>2, <2>3, <2>4
<1>5. ASSUME NEW j \in 1 .. Len(q) - 1
      PROVE  (before \o after)[j] = IF j < i THEN q[j] ELSE q[j + 1]
  <2>1. CASE j < i
    BY <1>1, <1>2, <1>4, <2>1
  <2>2. CASE ~(j < i)
    <3>1. j - (i - 1) \in 1 .. Len(q) - i
      BY <1>1, <2>2
    <3>2. after[j - (i - 1)] = q[j - (i - 1) + i] /\ j - (i - 1) + i = j + 1
      BY <1>1, <1>3, <3>1
    <3>3. (before \o after)[j - (i - 1) + (i - 1)] = after[j - (i - 1)]
          /\ j - (i - 1) + (i - 1) = j
      BY <1>1, <1>2, <1>3, <1>4, <3>1
    <3> QED BY <2>2, <3>2, <3>3
  <2> QED BY <2>1, <2>2
<1> QED BY <1>4, <1>5 DEF RemoveAt, before, after

(* What a queue holds after a push: the frame is added, in place of the      *)
(* oldest if the queue is full, or is not taken.                             *)
PushResult(S, q, frame, depth, after) ==
  /\ after \in Seq(S) /\ Len(after) <= depth
  /\ \/ /\ Len(q) < depth
        /\ Len(after) = Len(q) + 1 /\ after[Len(q) + 1] = frame
        /\ \A j \in 1 .. Len(q) : after[j] = q[j]
     \/ /\ Len(q) = depth /\ DropOldest
        /\ Len(after) = Len(q) /\ after[Len(q)] = frame
        /\ \A j \in 1 .. Len(q) - 1 : after[j] = q[j + 1]
     \/ Len(q) = depth /\ ~DropOldest /\ after = q

LEMMA PushParts ==
  ASSUME NEW S, NEW q \in Seq(S), NEW frame \in S, NEW depth \in Nat, depth # 0,
         Len(q) <= depth, DropOldest \in BOOLEAN
  PROVE  PushResult(S, q, frame, depth, Push(q, frame, depth))
<1> USE DEF PushResult
<1>1. CASE Len(q) < depth
  BY <1>1 DEF Push
<1>2. CASE Len(q) = depth /\ DropOldest
  <2>1. Push(q, frame, depth) = Append(Tail(q), frame)
    BY <1>2 DEF Push
  <2>2. q # <<>>
    BY <1>2
  <2>3. Tail(q) \in Seq(S) /\ Len(Tail(q)) = Len(q) - 1
        /\ \A j \in 1 .. Len(q) - 1 : Tail(q)[j] = q[j + 1]
    BY <2>2
  <2> QED BY <1>2, <2>1, <2>3
<1>3. CASE Len(q) = depth /\ ~DropOldest
  BY <1>3 DEF Push
<1> QED BY <1>1, <1>2, <1>3

(* What a push or a poll leaves in a queue was there before or is the new    *)
(* frame.                                                                    *)
LEMMA PushFresh ==
  ASSUME NEW S, NEW q \in Seq(S), NEW frame \in S, NEW depth \in Nat, depth # 0,
         Len(q) <= depth, DropOldest \in BOOLEAN,
         Fresh(q), frame.generation = generation
  PROVE  Fresh(Push(q, frame, depth))
BY PushParts DEF PushResult, Fresh

LEMMA RemoveFresh ==
  ASSUME NEW S, NEW q \in Seq(S), NEW i \in 1 .. Len(q), Fresh(q)
  PROVE  Fresh(RemoveAt(q, i))
<1>1. /\ Len(RemoveAt(q, i)) = Len(q) - 1 /\ RemoveAt(q, i) \in Seq(S)
      /\ \A j \in 1 .. Len(q) - 1 :
           RemoveAt(q, i)[j] = IF j < i THEN q[j] ELSE q[j + 1]
  BY RemoveAtParts
<1>2. ASSUME NEW j \in 1 .. Len(q) - 1 PROVE RemoveAt(q, i)[j].generation = generation
  BY <1>1 DEF Fresh
<1>3. DOMAIN RemoveAt(q, i) = 1 .. Len(q) - 1
  BY <1>1
<1> QED BY <1>2, <1>3 DEF Fresh

LEMMA PushNewest ==
  ASSUME NEW S, NEW q \in Seq(S), NEW frame \in S, NEW depth \in Nat, depth # 0,
         Len(q) <= depth, DropOldest \in BOOLEAN, DropOldest, NEW v,
         IF frame.kind = "FieldValue" THEN frame.value = v ELSE NewestIs(v, q)
  PROVE  NewestIs(v, Push(q, frame, depth))
<1> DEFINE pushed == Push(q, frame, depth)
<1> HIDE DEF pushed
<1>1. PushResult(S, q, frame, depth, pushed)
  BY PushParts DEF pushed
<1> USE DEF PushResult
<1>2. DOMAIN pushed = 1 .. Len(pushed) /\ DOMAIN q = 1 .. Len(q)
      /\ Len(q) \in Nat /\ Len(pushed) \in Nat \ {0}
      /\ pushed[Len(pushed)] = frame
  BY <1>1
<1> SUFFICES ASSUME NEW j \in 1 .. Len(pushed), pushed[j].kind = "FieldValue",
                    \A m \in j + 1 .. Len(pushed) : pushed[m].kind # "FieldValue"
             PROVE  pushed[j].value = v
  BY <1>2 DEF NewestIs, pushed
<1>3. CASE j = Len(pushed)
  BY <1>2, <1>3
<1>4. CASE j < Len(pushed)
  <2>1. frame.kind # "FieldValue" /\ NewestIs(v, q)
    BY <1>2, <1>4
  <2>2. CASE Len(pushed) = Len(q) + 1 /\ \A m \in 1 .. Len(q) : pushed[m] = q[m]
    <3>1. j \in DOMAIN q /\ pushed[j] = q[j]
      BY <1>2, <1>4, <2>2
    <3>2. \A m \in j + 1 .. Len(q) : q[m].kind # "FieldValue"
      BY <1>2, <2>2
    <3> QED BY <2>1, <3>1, <3>2 DEF NewestIs
  <2>3. CASE Len(pushed) = Len(q) /\ \A m \in 1 .. Len(q) - 1 : pushed[m] = q[m + 1]
    <3>1. j + 1 \in DOMAIN q /\ pushed[j] = q[j + 1]
      BY <1>2, <1>4, <2>3
    <3>2. ASSUME NEW m \in (j + 1) + 1 .. Len(q) PROVE q[m].kind # "FieldValue"
      <4>1. m - 1 \in j + 1 .. Len(q) - 1 /\ m - 1 \in j + 1 .. Len(pushed)
            /\ m - 1 \in 1 .. Len(q) - 1 /\ (m - 1) + 1 = m
        BY <1>2, <2>3
      <4>2. pushed[m - 1] = q[(m - 1) + 1] /\ pushed[m - 1].kind # "FieldValue"
        BY <2>3, <4>1
      <4> QED BY <4>1, <4>2
    <3>3. q[j + 1].kind = "FieldValue" /\ Len(q) = Len(pushed)
      BY <2>3, <3>1
    <3>4. q[j + 1].value = v
      BY <2>1, <3>1, <3>2, <3>3 DEF NewestIs
    <3> QED BY <3>1, <3>4
  <2> QED BY <1>1, <2>2, <2>3
<1>5. j = Len(pushed) \/ j < Len(pushed)
  <2>1. Len(pushed) \in Nat
    BY <1>2
  <2>2. j \in Nat /\ j <= Len(pushed)
    BY <2>1
  <2> QED BY <2>1, <2>2
<1> QED BY <1>3, <1>4, <1>5

(* A poll takes the first frame of a kind, so that the newest field value    *)
(* stays or was the only one.                                                *)
LEMMA RemoveNewest ==
  ASSUME NEW S, NEW q \in Seq(S), NEW i \in 1 .. Len(q), NEW v, NewestIs(v, q),
         \A j \in 1 .. i - 1 : q[j].kind # q[i].kind
  PROVE  NewestIs(v, RemoveAt(q, i))
<1> DEFINE rest == RemoveAt(q, i)
<1> HIDE DEF rest
<1>a. /\ rest \in Seq(S) /\ Len(rest) = Len(q) - 1
      /\ \A j \in 1 .. Len(q) - 1 : rest[j] = IF j < i THEN q[j] ELSE q[j + 1]
  BY RemoveAtParts DEF rest
<1>b. DOMAIN rest = 1 .. Len(q) - 1 /\ DOMAIN q = 1 .. Len(q) /\ Len(q) \in Nat
  BY <1>a
<1> SUFFICES ASSUME NEW j \in 1 .. Len(q) - 1, rest[j].kind = "FieldValue",
                    \A m \in j + 1 .. Len(q) - 1 : rest[m].kind # "FieldValue"
             PROVE  rest[j].value = v
  BY <1>a, <1>b DEF NewestIs, rest
<1> DEFINE o == IF j < i THEN j ELSE j + 1
<1>1. rest[j] = q[o] /\ o \in 1 .. Len(q) /\ o # i
  BY <1>a, <1>b
<1>2. ASSUME NEW m \in o + 1 .. Len(q) PROVE q[m].kind # "FieldValue"
  <2>1. CASE m = i
    BY <1>1, <2>1
  <2>2. CASE m < i
    <3>1. rest[m] = q[m] /\ m \in j + 1 .. Len(q) - 1
      BY <1>1, <1>a, <1>b, <2>2
    <3> QED BY <3>1
  <2>3. CASE m > i
    <3>1. m - 1 \in j + 1 .. Len(q) - 1 /\ ~(m - 1 < i) /\ m - 1 + 1 = m
      BY <1>1, <1>b, <2>3
    <3>2. rest[m - 1] = q[m]
      BY <1>a, <1>b, <3>1
    <3> QED BY <3>1, <3>2
  <2> QED BY <1>1, <1>b, <2>1, <2>2, <2>3
<1> QED BY <1>1, <1>2, <1>b DEF NewestIs

-----------------------------------------------------------------------------
(* The forms of the properties that the proofs use.                          *)

LEMMA TrackedMeans == Tracked <=> CallsAreTracked
BY DEF Tracked, CallsAreTracked, Pending, InQueue, Live

LEMMA FramesMean == FramesInv => FramesAreCurrent
<1> SUFFICES ASSUME FramesInv PROVE FramesAreCurrent
  OBVIOUS
<1>1. ASSUME NEW f \in Queued PROVE f.generation = generation
  <2>1. CASE f \in InQueue(requests)
    BY <2>1 DEF FramesInv, Fresh, InQueue
  <2>2. CASE f \in InQueue(setRequests)
    BY <2>2 DEF FramesInv, Fresh, InQueue
  <2>3. ASSUME NEW k \in Consumers, f \in InQueue(responses[k])
        PROVE  f.generation = generation
    BY <2>3 DEF FramesInv, Fresh, InQueue
  <2>4. ASSUME NEW k \in Consumers, subs[k] # None, f \in InQueue(subs[k].queue)
        PROVE  f.generation = generation
    BY <2>4 DEF FramesInv, Fresh, InQueue
  <2> QED BY <1>1, <2>1, <2>2, <2>3, <2>4 DEF Queued
<1> QED BY <1>1 DEF FramesAreCurrent, FramesInv

LEMMA MappingFacts ==
  ASSUME mapping \in Mappings
  PROVE  /\ Depth \in Nat /\ Depth # 0 /\ DropOldest \in BOOLEAN
         /\ Kinds \subseteq {"Event", "FieldValue", "Trigger"}
         /\ Hooks \subseteq {"DropNextFrame", "ForceTimeout", "MarkEndpointStale"}
         /\ Lease \in Nat /\ MaxGeneration \in Nat /\ MaxGeneration # 0
         /\ None \notin Consumers /\ None \notin FieldValues
BY EndpointAssumption DEF Depth, DropOldest, Kinds, Hooks, ValidateMapping

-----------------------------------------------------------------------------
(* The initial states.                                                       *)

LEMMA InitEndpoint == Init => EndpointInv
<1> SUFFICES ASSUME Init PROVE EndpointInv
  OBVIOUS
<1>1. mapping \in Mappings
  BY DEF Init
<1>2. TypeOK
  <2>1. Depth \in Nat /\ Lease \in Nat /\ MaxGeneration \in Nat
    BY <1>1, MappingFacts
  <2>2. \A S : <<>> \in Queues(S, Depth)
    BY <2>1 DEF Queues
  <2>3. /\ responses \in [Consumers -> Queues(Calls, Depth)]
        /\ requests \in Queues(Calls, Depth)
        /\ setRequests \in Queues(Frames({"FieldSetRequest"}), Depth)
    BY <2>2 DEF Init, NoResponses
  <2>4. /\ subs \in [Consumers -> {None} \cup [depth : 1 .. Depth, queue : Seq(Frames(Kinds))]]
        /\ \A k \in Consumers : subs[k] # None => Len(subs[k].queue) <= subs[k].depth
    BY DEF Init
  <2>5. /\ generation \in 0 .. MaxGeneration /\ offered \in BOOLEAN /\ age \in 0 .. Lease + 1
    <3>1. generation = 0 /\ age = 0
      BY DEF Init
    <3>2. offered \in BOOLEAN
      BY DEF Init
    <3>3. 0 \in 0 .. MaxGeneration /\ 0 \in 0 .. Lease + 1
      BY <2>1
    <3> QED BY <3>1, <3>2, <3>3
  <2>6. /\ peers \in [Correlations -> Consumers \cup {None}]
        /\ latest \in FieldValues \cup {None} /\ hook \in Hooks \cup {None}
        /\ taken \subseteq Calls /\ late \in BOOLEAN
    BY DEF Init, NoPeers
  <2> QED BY <1>1, <2>3, <2>4, <2>5, <2>6 DEF TypeOK
<1>3. OfferedIsNumbered
  BY DEF Init, OfferedIsNumbered
<1>4. CallsInv
  BY <1>1, MappingFacts
  DEF Init, CallsInv, QueuedIsLive, CallsAreDistinct, Tracked, Live, NoPeers, NoResponses
<1>5. FramesInv
  BY DEF Init, FramesInv, Fresh, NoResponses
<1> QED BY <1>2, <1>3, <1>4, <1>5 DEF EndpointInv

-----------------------------------------------------------------------------
(* Every step keeps the types.                                               *)

LEMMA TypeParts ==
  TypeOK <=> /\ mapping \in Mappings /\ offered \in BOOLEAN /\ late \in BOOLEAN
             /\ EndpointTyped /\ SubsTyped /\ MethodsTyped /\ FieldTyped
BY DEF TypeOK, EndpointTyped, SubsTyped, MethodsTyped, FieldTyped

LEMMA EndpointStep ==
  ASSUME EndpointInv, Next
  PROVE  EndpointTyped' /\ OfferedIsNumbered'
<1>1. /\ mapping \in Mappings /\ EndpointTyped /\ OfferedIsNumbered
      /\ mapping' = mapping
  BY TypeParts DEF EndpointInv, Next
<1>2. Lease \in Nat /\ MaxGeneration \in Nat /\ MaxGeneration # 0 /\ Hooks' = Hooks
  BY <1>1, MappingFacts DEF Hooks
<1>3. \/ OfferService \/ SimulateProviderRestart
      \/ UNCHANGED generation /\ (offered' => offered)
  BY DEF Next, EndpointNext, SubscriberNext, MethodNext, StopOffer, CleanupStaleEndpoints,
     SetTestHook, TimePasses, Subscribe, PublishEvent, PollEvent, FireTrigger, PollTrigger,
     UpdateField, SubmitFieldSetRequest, GetField, TakeFieldSetRequest, PollField,
     SubmitMethodRequest, PollMethodResponse, TakeMethodRequest, CompleteMethodResponse,
     PollFrame, ForcedTimeout, FrameDropped, Lapse, endpointVars
<1>4. generation' \in 0 .. MaxGeneration /\ OfferedIsNumbered'
  <2>1. CASE OfferService
    BY <1>1, <1>2, <2>1 DEF OfferService, EndpointTyped, OfferedIsNumbered
  <2>2. CASE SimulateProviderRestart
    BY <1>1, <1>2, <2>2 DEF SimulateProviderRestart, EndpointTyped, OfferedIsNumbered
  <2>3. CASE UNCHANGED generation /\ (offered' => offered)
    BY <1>1, <2>3 DEF EndpointTyped, OfferedIsNumbered
  <2> QED BY <1>3, <2>1, <2>2, <2>3
<1>5. age' \in {0, age, Lease + 1} \/ (age <= Lease /\ age' = age + 1)
  BY DEF Next, EndpointNext, SubscriberNext, MethodNext, OfferService, StopOffer,
     CleanupStaleEndpoints, SimulateProviderRestart,
     SetTestHook, TimePasses, Subscribe, PublishEvent, PollEvent, FireTrigger, PollTrigger,
     UpdateField, SubmitFieldSetRequest, GetField, TakeFieldSetRequest, PollField,
     SubmitMethodRequest, PollMethodResponse, TakeMethodRequest, CompleteMethodResponse,
     PollFrame, ForcedTimeout, FrameDropped, Lapse, endpointVars, Seen
<1>6. hook' \in Hooks \cup {None, hook}
  BY DEF Next, EndpointNext, SubscriberNext, MethodNext, OfferService, StopOffer,
     CleanupStaleEndpoints, SimulateProviderRestart,
     SetTestHook, TimePasses, Subscribe, PublishEvent, PollEvent, FireTrigger, PollTrigger,
     UpdateField, SubmitFieldSetRequest, GetField, TakeFieldSetRequest, PollField,
     SubmitMethodRequest, PollMethodResponse, TakeMethodRequest, CompleteMethodResponse,
     PollFrame, ForcedTimeout, FrameDropped, Lapse
<1>7. age' \in 0 .. Lease + 1
  BY <1>1, <1>2, <1>5 DEF EndpointTyped
<1>8. hook' \in Hooks \cup {None}
  BY <1>1, <1>6 DEF EndpointTyped
<1> QED BY <1>2, <1>4, <1>7, <1>8 DEF EndpointTyped

-----------------------------------------------------------------------------
(* The subscribers' queues.                                                  *)

SubsCurrent ==
  \A k \in Consumers : subs[k] # None =>
    Fresh(subs[k].queue) /\ (DropOldest => NewestIs(latest, subs[k].queue))

Publishes(kind, v) ==
  /\ PushToAll(Frame(kind, v))
  /\ IF kind = "FieldValue" THEN latest' = v ELSE UNCHANGED latest

LEMMA SubsChange ==
  ASSUME EndpointInv, Next
  PROVE  \/ UNCHANGED <<generation, latest, subs>>
         \/ OfferService
         \/ subs' = Emptied(subs)
         \/ /\ UNCHANGED <<generation, latest>>
            /\ \E k \in Consumers, depth \in 1 .. Depth :
                 subs' = [subs EXCEPT ![k] = [depth |-> depth, queue |-> <<>>]]
         \/ /\ UNCHANGED generation /\ offered
            /\ \E kind \in Kinds, v \in FieldValues \cup {None} : Publishes(kind, v)
         \/ /\ UNCHANGED <<generation, latest>>
            /\ \E k \in Consumers, kind \in Kinds : PollFrame(k, kind)
<1>1. CASE EndpointNext
  BY <1>1 DEF EndpointNext, StopOffer, CleanupStaleEndpoints, SimulateProviderRestart,
     SetTestHook, TimePasses, Forget, endpointVars, fieldVars
<1>2. CASE MethodNext
  BY <1>2 DEF MethodNext, SubmitMethodRequest, PollMethodResponse, TakeMethodRequest,
     CompleteMethodResponse, ForcedTimeout, FrameDropped, Lapse, endpointVars, fieldVars
<1>3. CASE SubscriberNext
  <2>1. ASSUME NEW k \in Consumers, NEW depth \in 1 .. Depth, Subscribe(k, depth)
        PROVE  /\ UNCHANGED <<generation, latest>>
               /\ subs' = [subs EXCEPT ![k] = [depth |-> depth, queue |-> <<>>]]
    BY <2>1 DEF Subscribe, fieldVars
  <2>2. CASE "Event" \in Kinds /\ PublishEvent
    BY <2>2 DEF PublishEvent, FrameDropped, Lapse, Publishes, endpointVars, fieldVars
  <2>3. CASE "Trigger" \in Kinds /\ FireTrigger
    BY <2>3 DEF FireTrigger, Publishes, fieldVars
  <2>4. ASSUME "FieldValue" \in Kinds, NEW v \in FieldValues, UpdateField(v)
        PROVE  \/ UNCHANGED <<generation, latest, subs>>
               \/ UNCHANGED generation /\ offered /\ Publishes("FieldValue", v)
    BY <2>4 DEF UpdateField, Lapse, Publishes, fieldVars
  <2>5. CASE \/ \E v \in FieldValues : SubmitFieldSetRequest(v)
             \/ GetField \/ TakeFieldSetRequest
    BY <2>5 DEF SubmitFieldSetRequest, GetField, TakeFieldSetRequest, Lapse, fieldVars
  <2>6. ASSUME NEW k \in Consumers,
               \/ "Event" \in Kinds /\ PollEvent(k)
               \/ "Trigger" \in Kinds /\ PollTrigger(k)
               \/ "FieldValue" \in Kinds /\ PollField(k)
        PROVE  \/ UNCHANGED <<generation, latest, subs>>
               \/ /\ UNCHANGED <<generation, latest>>
                  /\ \E kind \in Kinds : PollFrame(k, kind)
    BY <2>6 DEF PollEvent, PollTrigger, PollField, PollFrame, ForcedTimeout, Lapse,
       endpointVars, fieldVars
  <2> QED BY <1>3, <2>1, <2>2, <2>3, <2>4, <2>5, <2>6 DEF SubscriberNext
<1> QED BY <1>1, <1>2, <1>3 DEF Next

LEMMA FrameTyped ==
  ASSUME EndpointInv, offered, NEW kind \in Kinds, NEW v \in FieldValues \cup {None}
  PROVE  Frame(kind, v) \in Frames(Kinds) /\ Frame(kind, v).generation = generation
         /\ Frame(kind, v).kind = kind /\ Frame(kind, v).value = v
<1>1. generation \in 0 .. MaxGeneration /\ generation # 0 /\ MaxGeneration \in Nat
  BY TypeParts, MappingFacts DEF EndpointInv, EndpointTyped, OfferedIsNumbered
<1>2. generation \in 1 .. MaxGeneration
  BY <1>1
<1> QED BY <1>2 DEF Frame, Frames

LEMMA SubsStep ==
  ASSUME EndpointInv, Next
  PROVE  SubsTyped' /\ SubsCurrent'
<1>1. /\ mapping \in Mappings /\ SubsTyped /\ SubsCurrent /\ mapping' = mapping
      /\ generation \in 0 .. MaxGeneration
  BY TypeParts DEF EndpointInv, FramesInv, SubsCurrent, EndpointTyped, Next
<1>2. /\ Depth \in Nat /\ Depth # 0 /\ DropOldest \in BOOLEAN /\ MaxGeneration \in Nat
      /\ Depth' = Depth /\ (DropOldest' <=> DropOldest) /\ Kinds' = Kinds
  BY <1>1, MappingFacts DEF Depth, DropOldest, Kinds
<1> DEFINE Subscription == [depth : 1 .. Depth, queue : Seq(Frames(Kinds))]
           Good(s, v) == /\ s \in Subscription /\ Len(s.queue) <= s.depth
                         /\ Fresh(s.queue) /\ (DropOldest => NewestIs(v, s.queue))
<1>3. ASSUME NEW k \in Consumers, subs[k] # None PROVE Good(subs[k], latest)
  BY <1>1, <1>3 DEF SubsTyped, SubsCurrent
<1>4. ASSUME UNCHANGED generation,
             subs' \in [Consumers -> {None} \cup Subscription],
             \A k \in Consumers : subs'[k] # None => Good(subs'[k], latest')
      PROVE  SubsTyped' /\ SubsCurrent'
  <2>1. SubsTyped'
    BY <1>2, <1>4 DEF SubsTyped, Frames
  <2>2. SubsCurrent'
    BY <1>2, <1>4 DEF SubsCurrent, Fresh
  <2> QED BY <2>1, <2>2
<1>5. CASE UNCHANGED <<generation, latest, subs>>
  BY <1>1, <1>2, <1>3, <1>4, <1>5 DEF SubsTyped
<1>6. CASE OfferService
  <2>1. UNCHANGED <<latest, subs>> /\ (generation # 0 => UNCHANGED generation)
    BY <1>6 DEF OfferService, fieldVars
  <2>2. CASE generation # 0
    BY <1>5, <2>1, <2>2
  <2>3. CASE generation = 0
    <3>1. ASSUME NEW k \in Consumers, subs[k] # None PROVE DOMAIN subs[k].queue = {}
      <4>1. subs[k] \in Subscription /\ Fresh(subs[k].queue)
        BY <1>3, <3>1
      <4>2. ASSUME NEW j \in DOMAIN subs[k].queue PROVE FALSE
        <5>1. subs[k].queue[j] \in Frames(Kinds)
          BY <4>1, <4>2
        <5>2. subs[k].queue[j].generation \in 1 .. MaxGeneration
          BY <5>1 DEF Frames
        <5> QED BY <1>2, <2>3, <4>1, <5>2 DEF Fresh
      <4> QED BY <4>2
    <3>2. SubsCurrent'
      BY <1>2, <2>1, <3>1 DEF SubsCurrent, Fresh, NewestIs
    <3>3. SubsTyped'
      BY <1>1, <1>2, <2>1 DEF SubsTyped, Frames
    <3> QED BY <3>2, <3>3
  <2> QED BY <2>2, <2>3
<1>7. CASE subs' = Emptied(subs)
  <2>1. subs' \in [Consumers -> {None} \cup Subscription]
    <3>1. ASSUME NEW k \in Consumers PROVE subs'[k] \in {None} \cup Subscription
      <4>1. CASE subs[k] = None
        BY <1>7, <4>1 DEF Emptied
      <4>2. CASE subs[k] # None
        <5>1. subs'[k] = [subs[k] EXCEPT !.queue = <<>>]
          BY <1>7, <4>2 DEF Emptied
        <5>2. subs[k] \in Subscription /\ <<>> \in Seq(Frames(Kinds))
          BY <1>3, <4>2
        <5>3. [subs[k] EXCEPT !.queue = <<>>] \in Subscription
          BY <5>2
        <5> QED BY <5>1, <5>3
      <4> QED BY <4>1, <4>2
    <3> QED BY <1>7, <3>1 DEF Emptied
  <2>2. ASSUME NEW k \in Consumers, subs'[k] # None
        PROVE  subs'[k].queue = <<>> /\ subs'[k].depth \in Nat
    <3>1. subs[k] \in Subscription /\ subs'[k] = [subs[k] EXCEPT !.queue = <<>>]
      BY <1>1, <1>7, <2>2 DEF SubsTyped, Emptied
    <3> QED BY <1>2, <3>1
  <2>3. SubsTyped'
    BY <1>2, <2>1, <2>2 DEF SubsTyped, Frames
  <2>4. SubsCurrent'
    BY <2>2 DEF SubsCurrent, Fresh, NewestIs
  <2> QED BY <2>3, <2>4
<1>8. ASSUME UNCHANGED <<generation, latest>>, NEW k \in Consumers, NEW depth \in 1 .. Depth,
             subs' = [subs EXCEPT ![k] = [depth |-> depth, queue |-> <<>>]]
      PROVE  SubsTyped' /\ SubsCurrent'
  <2> DEFINE new == [depth |-> depth, queue |-> <<>>]
  <2>1. new \in Subscription /\ Len(new.queue) <= new.depth
    BY <1>2
  <2>2. Fresh(new.queue) /\ NewestIs(latest, new.queue)
    BY DEF Fresh, NewestIs
  <2>3. subs' \in [Consumers -> {None} \cup Subscription]
    BY <1>1, <1>8, <2>1 DEF SubsTyped
  <2>4. ASSUME NEW c \in Consumers, subs'[c] # None PROVE Good(subs'[c], latest')
    <3>1. CASE c = k
      BY <1>1, <1>8, <2>1, <2>2, <3>1 DEF SubsTyped
    <3>2. CASE c # k
      BY <1>1, <1>3, <1>8, <2>4, <3>2 DEF SubsTyped
    <3> QED BY <3>1, <3>2
  <2> QED BY <1>4, <1>8, <2>3, <2>4
<1>9. ASSUME UNCHANGED generation, offered, NEW kind \in Kinds, NEW v \in FieldValues \cup {None},
             Publishes(kind, v)
      PROVE  SubsTyped' /\ SubsCurrent'
  <2> DEFINE frame == Frame(kind, v)
  <2>1. frame \in Frames(Kinds) /\ frame.generation = generation
        /\ frame.kind = kind /\ frame.value = v
    BY <1>9, FrameTyped
  <2> HIDE DEF frame
  <2>2. ASSUME NEW k \in Consumers, subs[k] # None
        PROVE  /\ subs'[k] \in Subscription /\ Good(subs'[k], latest')
    <3> DEFINE q == subs[k].queue
               d == subs[k].depth
    <3>1. /\ q \in Seq(Frames(Kinds)) /\ d \in 1 .. Depth /\ Len(q) <= d
          /\ Fresh(q) /\ (DropOldest => NewestIs(latest, q))
      BY <1>3, <2>2
    <3>2. subs'[k] = [subs[k] EXCEPT !.queue = Push(q, frame, d)]
      BY <1>9, <2>2 DEF Publishes, PushToAll, frame
    <3>3. subs'[k].queue = Push(q, frame, d) /\ subs'[k].depth = d
      BY <1>3, <2>2, <3>2
    <3> HIDE DEF q, d
    <3>4. d \in Nat /\ d # 0
      BY <1>2, <3>1
    <3>5. Push(q, frame, d) \in Seq(Frames(Kinds)) /\ Len(Push(q, frame, d)) <= d
      BY <1>2, <2>1, <3>1, <3>4, PushParts DEF PushResult
    <3>6. Fresh(Push(q, frame, d))
      BY <1>2, <2>1, <3>1, <3>4, PushFresh
    <3>7. ASSUME DropOldest PROVE NewestIs(latest', Push(q, frame, d))
      <4>1. IF frame.kind = "FieldValue" THEN frame.value = latest' ELSE NewestIs(latest', q)
        BY <1>9, <2>1, <3>1, <3>7 DEF Publishes
      <4> QED BY <1>2, <2>1, <3>1, <3>4, <3>7, <4>1, PushNewest
    <3>8. subs'[k] \in Subscription
      BY <1>3, <2>2, <3>2, <3>5
    <3> QED BY <3>3, <3>5, <3>6, <3>7, <3>8
  <2>3. subs' \in [Consumers -> {None} \cup Subscription]
        /\ \A k \in Consumers : subs[k] = None => subs'[k] = None
    <3>1. subs' = [k \in Consumers |-> subs'[k]]
          /\ \A k \in Consumers : subs[k] = None => subs'[k] = None
      BY <1>9 DEF Publishes, PushToAll
    <3> QED BY <2>2, <3>1
  <2> QED BY <1>4, <1>9, <2>2, <2>3
<1>10. ASSUME UNCHANGED <<generation, latest>>, NEW k \in Consumers, NEW kind \in Kinds,
              PollFrame(k, kind)
       PROVE  SubsTyped' /\ SubsCurrent'
  <2> DEFINE q == subs[k].queue
  <2>1. PICK i \in DOMAIN q :
          /\ q[i].kind = kind /\ \A j \in 1 .. i - 1 : q[j].kind # kind
          /\ subs' = [subs EXCEPT ![k].queue = RemoveAt(@, i)]
    BY <1>10 DEF PollFrame
  <2>2. subs[k] \in Subscription /\ Good(subs[k], latest)
    BY <1>3, <1>10 DEF PollFrame
  <2>3. subs' = [subs EXCEPT ![k] = [subs[k] EXCEPT !.queue = RemoveAt(q, i)]]
    BY <2>1
  <2> DEFINE new == [subs[k] EXCEPT !.queue = RemoveAt(q, i)]
  <2>4. new.queue = RemoveAt(q, i) /\ new.depth = subs[k].depth
    BY <2>2
  <2>5. q \in Seq(Frames(Kinds)) /\ i \in 1 .. Len(q)
    BY <2>1, <2>2
  <2>6. RemoveAt(q, i) \in Seq(Frames(Kinds)) /\ Len(RemoveAt(q, i)) = Len(q) - 1
    BY <2>5, RemoveAtParts
  <2>7. Fresh(RemoveAt(q, i))
    BY <2>2, <2>5, RemoveFresh
  <2>8. ASSUME DropOldest PROVE NewestIs(latest, RemoveAt(q, i))
    BY <2>1, <2>2, <2>5, <2>8, RemoveNewest
  <2>9. new \in Subscription /\ Len(new.queue) <= new.depth
    BY <1>2, <2>2, <2>4, <2>5, <2>6
  <2> HIDE DEF new
  <2>10. subs' \in [Consumers -> {None} \cup Subscription]
    BY <1>1, <2>3, <2>9 DEF SubsTyped, new
  <2>11. ASSUME NEW c \in Consumers, subs'[c] # None PROVE Good(subs'[c], latest')
    <3>1. CASE c = k
      <4>1. subs'[c] = new
        BY <1>1, <2>3, <3>1 DEF SubsTyped, new
      <4> QED BY <1>10, <2>4, <2>7, <2>8, <2>9, <4>1
    <3>2. CASE c # k
      BY <1>1, <1>3, <1>10, <2>3, <2>11, <3>2 DEF SubsTyped
    <3> QED BY <3>1, <3>2
  <2> QED BY <1>4, <1>10, <2>10, <2>11
<1> QED BY <1>5, <1>6, <1>7, <1>8, <1>9, <1>10, SubsChange

-----------------------------------------------------------------------------
(* The field's set requests.                                                 *)

(* Before the first offer nothing is queued.                                 *)
LEMMA FreshWhenOffered ==
  ASSUME OfferService, generation \in Nat, NEW S, NEW q \in Seq(S), Fresh(q),
         \A f \in S : f.generation \in Nat \ {0}
  PROVE  \A i \in DOMAIN q : q[i].generation = generation'
<1> SUFFICES ASSUME NEW i \in DOMAIN q PROVE q[i].generation = generation'
  OBVIOUS
<1>1. q[i] \in S /\ q[i].generation = generation
  BY DEF Fresh
<1>2. generation # 0
  BY <1>1
<1> QED BY <1>1, <1>2 DEF OfferService

(* A request taken from the front.                                           *)
LEMMA TailFresh ==
  ASSUME NEW S, NEW q \in Seq(S), q # <<>>, Fresh(q)
  PROVE  /\ Tail(q) \in Seq(S) /\ Len(Tail(q)) = Len(q) - 1 /\ Fresh(Tail(q))
         /\ \A j \in 1 .. Len(q) - 1 : Tail(q)[j] = q[j + 1]
<1>1. /\ Tail(q) \in Seq(S) /\ Len(Tail(q)) = Len(q) - 1
      /\ \A j \in 1 .. Len(q) - 1 : Tail(q)[j] = q[j + 1]
  OBVIOUS
<1>2. ASSUME NEW j \in 1 .. Len(q) - 1 PROVE Tail(q)[j].generation = generation
  BY <1>1 DEF Fresh
<1>3. DOMAIN Tail(q) = 1 .. Len(q) - 1
  BY <1>1
<1> QED BY <1>1, <1>2, <1>3 DEF Fresh

LEMMA FieldChange ==
  ASSUME EndpointInv, Next
  PROVE  /\ latest' \in FieldValues \cup {None, latest}
         /\ \/ UNCHANGED <<generation, setRequests>>
            \/ OfferService /\ UNCHANGED setRequests
            \/ setRequests' = <<>>
            \/ /\ UNCHANGED generation /\ offered
               /\ \E v \in FieldValues :
                    setRequests' = Push(setRequests, Frame("FieldSetRequest", v), Depth)
            \/ UNCHANGED generation /\ setRequests # <<>> /\ setRequests' = Tail(setRequests)
<1>1. CASE EndpointNext
  BY <1>1 DEF EndpointNext, OfferService, StopOffer, CleanupStaleEndpoints,
     SimulateProviderRestart, SetTestHook, TimePasses, Forget, endpointVars, fieldVars
<1>2. CASE MethodNext
  BY <1>2 DEF MethodNext, SubmitMethodRequest, PollMethodResponse, TakeMethodRequest,
     CompleteMethodResponse, ForcedTimeout, FrameDropped, Lapse, endpointVars, fieldVars
<1>3. CASE SubscriberNext
  BY <1>3 DEF SubscriberNext, Subscribe, PublishEvent, FireTrigger, UpdateField,
     SubmitFieldSetRequest, GetField, TakeFieldSetRequest, PollEvent, PollTrigger, PollField,
     PollFrame, ForcedTimeout, FrameDropped, Lapse, endpointVars, fieldVars
<1> QED BY <1>1, <1>2, <1>3 DEF Next

LEMMA FieldStep ==
  ASSUME EndpointInv, Next
  PROVE  FieldTyped' /\ Fresh(setRequests)'
<1> DEFINE S == Frames({"FieldSetRequest"})
<1>1. /\ mapping \in Mappings /\ FieldTyped /\ Fresh(setRequests) /\ mapping' = mapping
      /\ generation \in 0 .. MaxGeneration /\ OfferedIsNumbered
  BY TypeParts DEF EndpointInv, FramesInv, EndpointTyped, Next
<1>2. /\ Depth \in Nat /\ Depth # 0 /\ DropOldest \in BOOLEAN /\ MaxGeneration \in Nat
      /\ Depth' = Depth
  BY <1>1, MappingFacts DEF Depth
<1>3. setRequests \in Seq(S) /\ Len(setRequests) <= Depth
  BY <1>1 DEF FieldTyped, Queues
<1>4. latest' \in FieldValues \cup {None}
  BY <1>1, FieldChange DEF FieldTyped
<1>5. ASSUME setRequests' \in Seq(S), Len(setRequests') <= Depth,
             \A i \in DOMAIN setRequests' : setRequests'[i].generation = generation'
      PROVE  FieldTyped' /\ Fresh(setRequests)'
  BY <1>2, <1>4, <1>5 DEF FieldTyped, Fresh, Queues, Frames
<1>6. CASE UNCHANGED <<generation, setRequests>>
  BY <1>1, <1>3, <1>5, <1>6 DEF Fresh
<1>7. CASE OfferService /\ UNCHANGED setRequests
  <2>1. \A f \in S : f.generation \in Nat \ {0}
    BY <1>2 DEF Frames
  <2>2. generation \in Nat
    BY <1>1, <1>2
  <2>3. \A i \in DOMAIN setRequests : setRequests[i].generation = generation'
    BY <1>1, <1>3, <1>7, <2>1, <2>2, FreshWhenOffered
  <2> QED BY <1>3, <1>5, <1>7, <2>3
<1>8. CASE setRequests' = <<>>
  BY <1>2, <1>5, <1>8
<1>9. ASSUME UNCHANGED generation, offered, NEW v \in FieldValues,
             setRequests' = Push(setRequests, Frame("FieldSetRequest", v), Depth)
      PROVE  FieldTyped' /\ Fresh(setRequests)'
  <2> DEFINE frame == Frame("FieldSetRequest", v)
  <2>1. generation \in 1 .. MaxGeneration
    BY <1>1, <1>2, <1>9 DEF OfferedIsNumbered
  <2>2. frame \in S /\ frame.generation = generation
    BY <2>1 DEF Frame, Frames
  <2> HIDE DEF frame, S
  <2>3. /\ Push(setRequests, frame, Depth) \in Seq(S)
        /\ Len(Push(setRequests, frame, Depth)) <= Depth
    BY <1>2, <1>3, <2>2, PushParts DEF PushResult
  <2>4. Fresh(Push(setRequests, frame, Depth))
    BY <1>1, <1>2, <1>3, <2>2, PushFresh
  <2> QED BY <1>5, <1>9, <2>3, <2>4 DEF Fresh, frame
<1>10. CASE UNCHANGED generation /\ setRequests # <<>> /\ setRequests' = Tail(setRequests)
  <2>1. /\ Tail(setRequests) \in Seq(S) /\ Len(Tail(setRequests)) = Len(setRequests) - 1
        /\ Fresh(Tail(setRequests))
    BY <1>1, <1>3, <1>10, TailFresh
  <2> QED BY <1>2, <1>3, <1>5, <1>10, <2>1 DEF Fresh
<1> QED BY <1>6, <1>7, <1>8, <1>9, <1>10, FieldChange

-----------------------------------------------------------------------------
(* Method calls.                                                             *)

Call(k, c, expects) ==
  [caller |-> k, correlation |-> c, expects |-> expects,
   generation |-> generation, lapsed |-> FALSE]

Submits(k, c, expects) ==
  /\ MayCall(c, expects)
  /\ requests' = Push(requests, Call(k, c, expects), Depth)
  /\ peers' = PeersAfter(Call(k, c, expects))
  /\ UNCHANGED <<responses, taken, late>>

Takes ==
  /\ requests # <<>>
  /\ requests' = Tail(requests)
  /\ taken' = IF Head(requests).expects THEN taken \cup {Head(requests)} ELSE taken
  /\ UNCHANGED <<peers, responses, late>>

Forgets ==
  /\ requests' = <<>> /\ peers' = NoPeers /\ responses' = NoResponses /\ late' = late
  /\ taken' = {} \/ taken' = {[r EXCEPT !.lapsed = TRUE] : r \in taken}

LEMMA MethodsChange ==
  ASSUME EndpointInv, Next
  PROVE  \/ UNCHANGED <<generation, methodVars>>
         \/ OfferService
         \/ Forgets
         \/ /\ UNCHANGED generation /\ offered
            /\ \E k \in Consumers, c \in Correlations, expects \in BOOLEAN :
                 Submits(k, c, expects)
         \/ UNCHANGED generation /\ Takes
         \/ \E call \in taken : CompleteMethodResponse(call)
         \/ \E k \in Consumers, c \in Correlations : PollMethodResponse(k, c)
<1>1. CASE EndpointNext
  BY <1>1 DEF EndpointNext, StopOffer, CleanupStaleEndpoints,
     SimulateProviderRestart, SetTestHook, TimePasses, Forget, Forgets, endpointVars, methodVars
<1>2. CASE SubscriberNext
  BY <1>2 DEF SubscriberNext, Subscribe, PublishEvent, FireTrigger, UpdateField,
     SubmitFieldSetRequest, GetField, TakeFieldSetRequest, PollEvent, PollTrigger, PollField,
     PollFrame, ForcedTimeout, FrameDropped, Lapse, endpointVars, methodVars
<1>3. CASE MethodNext
  <2>1. ASSUME NEW k \in Consumers, NEW c \in Correlations, NEW expects \in BOOLEAN,
               SubmitMethodRequest(k, c, expects)
        PROVE  \/ UNCHANGED <<generation, methodVars>>
               \/ UNCHANGED generation /\ offered /\ Submits(k, c, expects)
    BY <2>1 DEF SubmitMethodRequest, Submits, Call, FrameDropped, Lapse, endpointVars, methodVars
  <2>2. CASE TakeMethodRequest
    BY <2>2 DEF TakeMethodRequest, Takes, ForcedTimeout, Lapse, endpointVars, methodVars
  <2> QED BY <1>3, <2>1, <2>2 DEF MethodNext
<1> QED BY <1>1, <1>2, <1>3 DEF Next

MethodsInv ==
  /\ MethodsTyped /\ CallsInv
  /\ Fresh(requests) /\ \A k \in Consumers : Fresh(responses[k])

LEMMA MethodFacts ==
  ASSUME EndpointInv, Next
  PROVE  /\ MethodsInv /\ mapping' = mapping /\ late \in BOOLEAN
         /\ generation \in 0 .. MaxGeneration /\ MaxGeneration \in Nat
         /\ (offered => generation # 0)
         /\ Depth \in Nat /\ Depth # 0 /\ DropOldest \in BOOLEAN
         /\ Depth' = Depth /\ Correlations' = Correlations /\ Calls' = Calls
         /\ None \notin Consumers
         /\ requests \in Seq(Calls) /\ Len(requests) <= Depth
         /\ \A k \in Consumers : responses[k] \in Seq(Calls) /\ Len(responses[k]) <= Depth
         /\ peers \in [Correlations -> Consumers \cup {None}] /\ taken \subseteq Calls
<1>1. /\ mapping \in Mappings /\ MethodsTyped /\ mapping' = mapping /\ late \in BOOLEAN
      /\ generation \in 0 .. MaxGeneration /\ MethodsInv /\ OfferedIsNumbered
  BY TypeParts DEF EndpointInv, FramesInv, EndpointTyped, MethodsInv, Next
<1>2. /\ Depth \in Nat /\ Depth # 0 /\ DropOldest \in BOOLEAN /\ MaxGeneration \in Nat
      /\ Depth' = Depth /\ Correlations' = Correlations /\ Calls' = Calls
      /\ None \notin Consumers
  BY <1>1, MappingFacts DEF Depth, Correlations, Calls
<1>3. /\ requests \in Seq(Calls) /\ Len(requests) <= Depth
      /\ \A k \in Consumers : responses[k] \in Seq(Calls) /\ Len(responses[k]) <= Depth
      /\ peers \in [Correlations -> Consumers \cup {None}] /\ taken \subseteq Calls
  BY <1>1 DEF MethodsTyped, Queues
<1> QED BY <1>1, <1>2, <1>3 DEF OfferedIsNumbered

LEMMA MethodsKept ==
  ASSUME EndpointInv, Next, UNCHANGED <<generation, methodVars>>
  PROVE  MethodsInv'
<1>1. UNCHANGED <<generation, requests, peers, responses, taken, late>>
  BY DEF methodVars
<1>2. MethodsTyped'
  BY <1>1, MethodFacts DEF MethodsInv, MethodsTyped
<1>3. Fresh(requests)' /\ \A k \in Consumers : Fresh(responses[k])'
  BY <1>1, MethodFacts DEF MethodsInv, Fresh
<1>4. CallsInv'
  BY <1>1, MethodFacts
  DEF MethodsInv, CallsInv, QueuedIsLive, CallsAreDistinct, Tracked, Live
<1> QED BY <1>2, <1>3, <1>4 DEF MethodsInv

LEMMA MethodsOffered ==
  ASSUME EndpointInv, Next, OfferService
  PROVE  MethodsInv'
<1>1. UNCHANGED <<requests, peers, responses, taken, late>>
  BY DEF OfferService, methodVars
<1>2. MethodsTyped'
  BY <1>1, MethodFacts DEF MethodsInv, MethodsTyped
<1>3. generation \in Nat /\ \A f \in Calls : f.generation \in Nat \ {0}
  BY MethodFacts DEF Calls
<1>4. \A i \in DOMAIN requests : requests[i].generation = generation'
  BY <1>3, MethodFacts, FreshWhenOffered DEF MethodsInv
<1>5. ASSUME NEW k \in Consumers
      PROVE  \A i \in DOMAIN responses[k] : responses[k][i].generation = generation'
  BY <1>3, MethodFacts, FreshWhenOffered DEF MethodsInv
<1>6. Fresh(requests)' /\ \A k \in Consumers : Fresh(responses[k])'
  BY <1>1, <1>4, <1>5 DEF Fresh
<1>7. CallsInv'
  BY <1>1, MethodFacts
  DEF MethodsInv, CallsInv, QueuedIsLive, CallsAreDistinct, Tracked, Live
<1> QED BY <1>2, <1>6, <1>7 DEF MethodsInv

LEMMA MethodsForgotten ==
  ASSUME EndpointInv, Next, Forgets
  PROVE  MethodsInv'
<1>1. requests' = <<>> /\ peers' = NoPeers /\ responses' = NoResponses
  BY DEF Forgets
<1>2. ASSUME NEW r \in taken'
      PROVE  r \in Calls /\ r.expects /\ r.lapsed
  <2>1. PICK s \in taken : r = [s EXCEPT !.lapsed = TRUE]
    BY <1>2 DEF Forgets
  <2>2. s \in Calls /\ s.expects
    BY MethodFacts DEF MethodsInv, CallsInv, QueuedIsLive
  <2> QED BY <2>1, <2>2 DEF Calls
<1>3. MethodsTyped'
  <2>1. <<>> \in Queues(Calls, Depth)
    BY MethodFacts DEF Queues
  <2>2. responses' \in [Consumers -> Queues(Calls, Depth)]
    BY <1>1, <2>1 DEF NoResponses
  <2>3. peers' \in [Correlations -> Consumers \cup {None}]
    BY <1>1 DEF NoPeers
  <2>4. requests' \in Queues(Calls, Depth) /\ taken' \subseteq Calls
    BY <1>1, <1>2, <2>1
  <2> QED BY <2>2, <2>3, <2>4, MethodFacts DEF MethodsTyped
<1>4. Fresh(requests)' /\ \A k \in Consumers : Fresh(responses[k])'
  BY <1>1 DEF Fresh, NoResponses
<1>5. Live' = {}
  BY <1>2 DEF Live
<1>6. \A c \in Correlations : peers'[c] = None
  BY <1>1 DEF NoPeers
<1>7. \A k \in Consumers : responses'[k] = <<>>
  BY <1>1 DEF NoResponses
<1>8. QueuedIsLive'
  BY <1>1, <1>2 DEF QueuedIsLive
<1>9. CallsAreDistinct'
  BY <1>1, <1>5 DEF CallsAreDistinct
<1>10. Tracked'
  BY <1>1, <1>5, <1>6, <1>7, MethodFacts DEF Tracked
<1> QED BY <1>3, <1>4, <1>8, <1>9, <1>10 DEF MethodsInv, CallsInv

(* A request is queued: the kept ones are those behind the first o, and the  *)
(* new one is last; or it is not taken and nothing changes.                  *)
TakesIn(call, o) ==
  /\ Len(requests') = Len(requests) - o + 1
  /\ requests'[Len(requests')] = call
  /\ \A j \in 1 .. Len(requests) - o : requests'[j] = requests[j + o]
  /\ peers' = [x \in Correlations |->
       IF x = call.correlation /\ call.expects THEN call.caller
       ELSE IF o = 1 /\ requests[1].expects /\ x = requests[1].correlation THEN None
       ELSE peers[x]]

LEMMA SubmitChange ==
  ASSUME EndpointInv, Next, offered, NEW k \in Consumers, NEW c \in Correlations,
         NEW expects \in BOOLEAN, Submits(k, c, expects)
  PROVE  /\ Call(k, c, expects) \in Calls
         /\ requests' \in Seq(Calls) /\ Len(requests') <= Depth /\ Fresh(requests')
         /\ \/ TakesIn(Call(k, c, expects), 0)
            \/ Len(requests) # 0 /\ TakesIn(Call(k, c, expects), 1)
            \/ requests' = requests /\ peers' = peers
<1> DEFINE call == Call(k, c, expects)
<1>1. generation \in 1 .. MaxGeneration
  BY MethodFacts
<1>2. /\ call \in Calls /\ call.generation = generation
      /\ call.caller = k /\ call.correlation = c /\ call.expects = expects
  BY <1>1 DEF Call, Calls
<1> HIDE DEF call
<1>3. /\ requests \in Seq(Calls) /\ Len(requests) <= Depth /\ Depth \in Nat /\ Depth # 0
      /\ DropOldest \in BOOLEAN /\ Fresh(requests)
      /\ peers \in [Correlations -> Consumers \cup {None}] /\ None \notin Consumers
  BY MethodFacts DEF MethodsInv
<1>4. /\ requests' = Push(requests, call, Depth) /\ peers' = PeersAfter(call)
      /\ (expects => peers[c] = None)
  BY DEF Submits, MayCall, call
<1>5. requests' \in Seq(Calls) /\ Len(requests') <= Depth
      /\ \/ /\ Len(requests) < Depth
            /\ Len(requests') = Len(requests) + 1
            /\ requests'[Len(requests) + 1] = call
            /\ \A j \in 1 .. Len(requests) : requests'[j] = requests[j]
         \/ /\ Len(requests) = Depth /\ DropOldest
            /\ Len(requests') = Len(requests)
            /\ requests'[Len(requests)] = call
            /\ \A j \in 1 .. Len(requests) - 1 : requests'[j] = requests[j + 1]
         \/ Len(requests) = Depth /\ ~DropOldest /\ requests' = requests
  <2>1. /\ requests \in Seq(Calls) /\ call \in Calls /\ Depth \in Nat /\ Depth # 0
        /\ Len(requests) <= Depth /\ DropOldest \in BOOLEAN
    BY <1>2, <1>3
  <2>2. requests' = Push(requests, call, Depth)
    BY <1>4
  <2> QED BY <2>1, <2>2, PushParts DEF PushResult
<1>6. Fresh(requests')
  BY <1>2, <1>3, <1>4, PushFresh
<1>7. CASE /\ Len(requests) < Depth
           /\ Len(requests') = Len(requests) + 1
           /\ requests'[Len(requests) + 1] = call
           /\ \A j \in 1 .. Len(requests) : requests'[j] = requests[j]
  <2>1. ~(Len(requests) >= Depth) /\ Delivers(requests, Depth)
    BY <1>3, <1>7 DEF Delivers
  <2>2. [x \in Correlations |-> peers[x]] = peers
    BY <1>3
  <2>3. peers' = Activated(peers, call)
    BY <1>4, <2>1, <2>2 DEF PeersAfter
  <2>4. peers' = [x \in Correlations |->
                    IF x = call.correlation /\ call.expects THEN call.caller ELSE peers[x]]
    BY <1>2, <1>4, <2>1, <2>3 DEF Activated
  <2>5. /\ Len(requests') = Len(requests) - 0 + 1 /\ requests'[Len(requests')] = call
        /\ \A j \in 1 .. Len(requests) - 0 : requests'[j] = requests[j + 0]
    BY <1>3, <1>7
  <2>6. TakesIn(call, 0)
    BY <2>4, <2>5 DEF TakesIn
  <2> QED BY <1>2, <1>5, <1>6, <2>6 DEF call
<1>8. CASE /\ Len(requests) = Depth /\ DropOldest
           /\ Len(requests') = Len(requests)
           /\ requests'[Len(requests)] = call
           /\ \A j \in 1 .. Len(requests) - 1 : requests'[j] = requests[j + 1]
  <2> DEFINE rest == [x \in Correlations |->
                        IF Head(requests).expects /\ x = Head(requests).correlation
                        THEN None ELSE peers[x]]
  <2>1. Len(requests) >= Depth /\ Delivers(requests, Depth) /\ Head(requests) = requests[1]
    BY <1>3, <1>8 DEF Delivers
  <2>2. peers' = Activated(rest, call)
    BY <1>4, <1>8, <2>1 DEF PeersAfter
  <2>3. peers' = [x \in Correlations |->
           IF x = call.correlation /\ call.expects THEN call.caller
           ELSE IF requests[1].expects /\ x = requests[1].correlation THEN None
           ELSE peers[x]]
    BY <1>2, <1>4, <2>1, <2>2 DEF Activated
  <2>4. Len(requests') = Len(requests) - 1 + 1 /\ requests'[Len(requests')] = call
    BY <1>3, <1>8
  <2>5. TakesIn(call, 1)
    BY <1>8, <2>3, <2>4 DEF TakesIn
  <2> QED BY <1>2, <1>3, <1>5, <1>6, <1>8, <2>5 DEF call
<1>9. CASE Len(requests) = Depth /\ ~DropOldest /\ requests' = requests
  <2>1. ~Delivers(requests, Depth)
    BY <1>3, <1>9 DEF Delivers
  <2>2. [x \in Correlations |-> peers[x]] = peers
    BY <1>3
  <2>3. peers' = peers
    BY <1>4, <1>9, <2>1, <2>2 DEF PeersAfter, Activated
  <2> QED BY <1>2, <1>5, <1>6, <1>9, <2>3 DEF call
<1> QED BY <1>5, <1>7, <1>8, <1>9

LEMMA MethodsSubmitted ==
  ASSUME EndpointInv, Next, UNCHANGED generation, offered,
         NEW k \in Consumers, NEW c \in Correlations,
         NEW expects \in BOOLEAN, Submits(k, c, expects)
  PROVE  MethodsInv'
<1> DEFINE call == Call(k, c, expects)
<1>1. /\ call \in Calls /\ requests' \in Seq(Calls) /\ Len(requests') <= Depth
      /\ Fresh(requests')
      /\ \/ TakesIn(call, 0)
         \/ Len(requests) # 0 /\ TakesIn(call, 1)
         \/ requests' = requests /\ peers' = peers
  BY SubmitChange
<1>2. /\ call.caller = k /\ call.correlation = c /\ call.expects = expects /\ ~call.lapsed
      /\ (expects => peers[c] = None) /\ UNCHANGED <<responses, taken, late>>
  BY DEF Call, Submits, MayCall
<1> HIDE DEF call
<1>3. /\ MethodsTyped /\ QueuedIsLive /\ CallsAreDistinct /\ Tracked /\ late \in BOOLEAN
      /\ Depth' = Depth /\ Correlations' = Correlations /\ Calls' = Calls
      /\ None \notin Consumers /\ requests \in Seq(Calls)
      /\ peers \in [Correlations -> Consumers \cup {None}] /\ taken \subseteq Calls
      /\ \A r \in Calls : r.correlation \in Correlations /\ r.caller \in Consumers
      /\ \A x \in Consumers : Fresh(responses[x])
  BY MethodFacts DEF MethodsInv, CallsInv, Calls
<1>4. CASE requests' = requests /\ peers' = peers
  <2>1. MethodsTyped'
    BY <1>2, <1>3, <1>4 DEF MethodsTyped
  <2>2. CallsInv'
    BY <1>2, <1>3, <1>4 DEF CallsInv, QueuedIsLive, CallsAreDistinct, Tracked, Live
  <2>3. Fresh(requests)' /\ \A x \in Consumers : Fresh(responses[x])'
    BY <1>1, <1>2, <1>3 DEF Fresh
  <2> QED BY <2>1, <2>2, <2>3 DEF MethodsInv
<1>5. ASSUME NEW o \in {0, 1}, o = 0 \/ Len(requests) # 0, TakesIn(call, o)
      PROVE  MethodsInv'
  <2> DEFINE n == Len(requests)
             m == Len(requests')
  <2>1. /\ n \in Nat /\ m = n - o + 1 /\ m \in Nat /\ requests'[m] = call
        /\ \A j \in 1 .. n - o : requests'[j] = requests[j + o]
        /\ DOMAIN requests = 1 .. n /\ DOMAIN requests' = 1 .. m
    BY <1>1, <1>3, <1>5 DEF TakesIn
  <2>2. \A x \in Correlations :
          peers'[x] = IF x = c /\ expects THEN k
                      ELSE IF o = 1 /\ requests[1].expects /\ x = requests[1].correlation
                           THEN None
                      ELSE peers[x]
    BY <1>2, <1>5 DEF TakesIn
  <2>3. peers' \in [Correlations -> Consumers \cup {None}]
    <3>1. peers' = [x \in Correlations |-> peers'[x]]
      BY <1>5 DEF TakesIn
    <3>2. \A x \in Correlations : peers'[x] \in Consumers \cup {None}
      BY <1>3, <2>2
    <3> QED BY <3>1, <3>2
  <2> HIDE DEF m, n
  (* The kept requests and their old places.                               *)
  <2>4. ASSUME NEW i \in 1 .. m, i # m
        PROVE  i \in 1 .. n - o /\ i + o \in DOMAIN requests /\ requests'[i] = requests[i + o]
    BY <2>1, <2>4
  <2>5. ASSUME NEW i \in 1 .. m PROVE requests'[i] \in Calls
    BY <1>1, <2>1
  <2>6. ASSUME NEW i \in DOMAIN requests PROVE requests[i] \in Calls
    BY <1>3
  <2>7. MethodsTyped'
    <3>1. requests' \in Queues(Calls, Depth)
      BY <1>1 DEF Queues
    <3> QED BY <1>2, <1>3, <2>3, <3>1 DEF MethodsTyped
  <2>8. Fresh(requests)' /\ \A x \in Consumers : Fresh(responses[x])'
    BY <1>1, <1>2, <1>3 DEF Fresh
  <2>9. QueuedIsLive'
    <3>1. ASSUME NEW i \in 1 .. m PROVE ~requests'[i].lapsed
      BY <1>2, <1>3, <2>1, <2>4 DEF QueuedIsLive
    <3> QED BY <1>2, <1>3, <2>1, <3>1 DEF QueuedIsLive
  <2>10. ASSUME ~late
         PROVE  /\ \A i \in DOMAIN requests :
                     requests[i].expects => peers[requests[i].correlation] = requests[i].caller
                /\ \A r \in Live : peers[r.correlation] = r.caller
                /\ \A x \in Correlations : peers[x] # None =>
                     \/ \E i \in DOMAIN requests :
                          requests[i].expects /\ requests[i].correlation = x
                     \/ \E r \in Live : r.correlation = x
                /\ \A x \in Consumers :
                     \A i \in DOMAIN responses[x] : responses[x][i].caller = x
    BY <1>3, <2>10 DEF Tracked
  <2>11. ASSUME ~late
         PROVE  /\ \A i, j \in DOMAIN requests :
                     /\ requests[i].expects /\ requests[j].expects
                     /\ requests[i].correlation = requests[j].correlation
                     => i = j
                /\ \A i \in DOMAIN requests : \A r \in Live :
                     requests[i].expects => requests[i].correlation # r.correlation
                /\ \A r, s \in Live : r.correlation = s.correlation => r = s
    BY <1>3, <2>11 DEF CallsAreDistinct
  <2>12. Live' = Live /\ Live \subseteq Calls
    BY <1>2, <1>3 DEF Live
  (* Nothing under way has the new call's correlation.                     *)
  <2>13. ASSUME ~late, expects
         PROVE  /\ \A i \in DOMAIN requests :
                     requests[i].expects => requests[i].correlation # c
                /\ \A r \in Live : r.correlation # c
    BY <1>2, <1>3, <2>6, <2>10, <2>12, <2>13
  <2>14. CallsAreDistinct'
    <3> SUFFICES ASSUME ~late
                 PROVE  /\ \A i, j \in 1 .. m :
                             /\ requests'[i].expects /\ requests'[j].expects
                             /\ requests'[i].correlation = requests'[j].correlation
                             => i = j
                        /\ \A i \in 1 .. m : \A r \in Live :
                             requests'[i].expects => requests'[i].correlation # r.correlation
      BY <1>2, <2>1, <2>11, <2>12 DEF CallsAreDistinct
    <3>1. ASSUME NEW i \in 1 .. m, i # m, requests'[i].expects, expects
          PROVE  requests'[i].correlation # c
      BY <2>4, <2>13, <3>1
    <3>2. ASSUME NEW i \in 1 .. m, NEW j \in 1 .. m,
                 requests'[i].expects, requests'[j].expects,
                 requests'[i].correlation = requests'[j].correlation
          PROVE  i = j
      <4>1. CASE i = m \/ j = m
        BY <1>2, <2>1, <3>1, <3>2, <4>1
      <4>2. CASE i # m /\ j # m
        <5>1. i + o = j + o
          BY <2>4, <2>11, <3>2, <4>2
        <5> QED BY <2>1, <5>1
      <4> QED BY <4>1, <4>2
    <3>3. ASSUME NEW i \in 1 .. m, NEW r \in Live, requests'[i].expects
          PROVE  requests'[i].correlation # r.correlation
      <4>1. CASE i = m
        BY <1>2, <2>1, <2>13, <3>3, <4>1
      <4>2. CASE i # m
        BY <2>4, <2>11, <3>3, <4>2
      <4> QED BY <4>1, <4>2
    <3> QED BY <3>2, <3>3
  <2>15. Tracked'
    <3> SUFFICES ASSUME ~late
                 PROVE  /\ \A i \in 1 .. m : requests'[i].expects =>
                             peers'[requests'[i].correlation] = requests'[i].caller
                        /\ \A r \in Live : peers'[r.correlation] = r.caller
                        /\ \A x \in Correlations : peers'[x] # None =>
                             \/ \E i \in 1 .. m :
                                  requests'[i].expects /\ requests'[i].correlation = x
                             \/ \E r \in Live : r.correlation = x
      BY <1>2, <1>3, <2>1, <2>10, <2>12 DEF Tracked
    <3>1. ASSUME NEW i \in 1 .. m, requests'[i].expects
          PROVE  peers'[requests'[i].correlation] = requests'[i].caller
      <4>1. CASE i = m
        BY <1>2, <2>1, <2>2, <3>1, <4>1
      <4>2. CASE i # m
        <5> DEFINE r == requests[i + o]
        <5>1. /\ requests'[i] = r /\ r \in Calls /\ r.expects /\ i + o \in DOMAIN requests
              /\ r.correlation \in Correlations
          BY <1>3, <2>4, <2>6, <3>1, <4>2
        <5>2. ~(r.correlation = c /\ expects)
          BY <2>13, <5>1
        <5>3. ~(o = 1 /\ requests[1].expects /\ r.correlation = requests[1].correlation)
          <6> SUFFICES ASSUME o = 1, requests[1].expects,
                              r.correlation = requests[1].correlation
                       PROVE  FALSE
            OBVIOUS
          <6>1. 1 \in DOMAIN requests
            BY <1>5, <2>1 DEF n
          <6>2. i + o = 1
            BY <2>11, <5>1, <6>1
          <6> QED BY <2>1, <6>2
        <5>4. peers'[r.correlation] = peers[r.correlation]
          BY <2>2, <5>1, <5>2, <5>3
        <5> QED BY <2>10, <5>1, <5>4
      <4> QED BY <4>1, <4>2
    <3>2. ASSUME NEW r \in Live PROVE peers'[r.correlation] = r.caller
      <4>1. r.correlation \in Correlations /\ ~(r.correlation = c /\ expects)
        BY <1>3, <2>12, <2>13
      <4>2. ~(o = 1 /\ requests[1].expects /\ r.correlation = requests[1].correlation)
        <5> SUFFICES ASSUME o = 1, requests[1].expects,
                            r.correlation = requests[1].correlation
                     PROVE  FALSE
          OBVIOUS
        <5>1. 1 \in DOMAIN requests
          BY <1>5, <2>1 DEF n
        <5> QED BY <2>11, <5>1
      <4> QED BY <2>2, <2>10, <4>1, <4>2
    <3>3. ASSUME NEW x \in Correlations, peers'[x] # None
          PROVE  \/ \E i \in 1 .. m : requests'[i].expects /\ requests'[i].correlation = x
                 \/ \E r \in Live : r.correlation = x
      <4>1. CASE x = c /\ expects
        <5>1. m \in 1 .. m /\ requests'[m].expects /\ requests'[m].correlation = x
          <6>1. m \in 1 .. m
            BY <1>5, <2>1 DEF n
          <6> QED BY <1>2, <2>1, <4>1, <6>1
        <5> QED BY <5>1
      <4>2. CASE ~(x = c /\ expects)
        <5>1. /\ peers[x] # None
              /\ ~(o = 1 /\ requests[1].expects /\ x = requests[1].correlation)
          BY <2>2, <3>3, <4>2
        <5>2. ASSUME NEW i \in DOMAIN requests,
                     requests[i].expects, requests[i].correlation = x
              PROVE  \E j \in 1 .. m : requests'[j].expects /\ requests'[j].correlation = x
          <6>1. i - o \in 1 .. n - o
            BY <2>1, <5>1, <5>2
          <6>2. i - o \in 1 .. m /\ requests'[i - o] = requests[(i - o) + o]
                /\ (i - o) + o = i
            BY <2>1, <6>1
          <6> QED BY <5>2, <6>2
        <5> QED BY <2>10, <5>1, <5>2
      <4> QED BY <4>1, <4>2
    <3> QED BY <3>1, <3>2, <3>3
  <2> QED BY <2>7, <2>8, <2>9, <2>14, <2>15 DEF MethodsInv, CallsInv
<1> QED BY <1>1, <1>4, <1>5

LEMMA MethodsTaken ==
  ASSUME EndpointInv, Next, UNCHANGED generation, Takes
  PROVE  MethodsInv'
<1> DEFINE n == Len(requests)
           h == requests[1]
<1>1. /\ MethodsTyped /\ QueuedIsLive /\ CallsAreDistinct /\ Tracked /\ late \in BOOLEAN
      /\ Depth' = Depth /\ Correlations' = Correlations /\ Calls' = Calls /\ Depth \in Nat
      /\ requests \in Seq(Calls) /\ Len(requests) <= Depth
      /\ Fresh(requests) /\ taken \subseteq Calls
      /\ \A x \in Consumers : Fresh(responses[x])
  BY MethodFacts DEF MethodsInv, CallsInv
<1>2. /\ requests # <<>> /\ requests' = Tail(requests) /\ UNCHANGED <<peers, responses, late>>
      /\ taken' = IF h.expects THEN taken \cup {h} ELSE taken
  BY <1>1 DEF Takes
<1>3. /\ requests' \in Seq(Calls) /\ Len(requests') = n - 1 /\ Fresh(requests')
      /\ \A j \in 1 .. n - 1 : requests'[j] = requests[j + 1]
  BY <1>1, <1>2, TailFresh
<1>4. /\ n \in Nat /\ DOMAIN requests = 1 .. n /\ DOMAIN requests' = 1 .. n - 1
      /\ 1 \in DOMAIN requests /\ h \in Calls
      /\ \A j \in 1 .. n - 1 : j + 1 \in DOMAIN requests
  BY <1>1, <1>2, <1>3
<1>5. ~h.lapsed
  BY <1>1, <1>4 DEF QueuedIsLive
<1>6. Live' = IF h.expects THEN Live \cup {h} ELSE Live
  BY <1>2, <1>5 DEF Live
<1> HIDE DEF n, h
<1>7. MethodsTyped'
  <2>1. requests' \in Queues(Calls, Depth)
    <3>1. Len(requests') <= Depth
      BY <1>1, <1>3, <1>4 DEF n
    <3> QED BY <1>3, <3>1 DEF Queues
  <2>2. taken' \subseteq Calls
    BY <1>1, <1>2, <1>4
  <2> QED BY <1>1, <1>2, <2>1, <2>2 DEF MethodsTyped
<1>8. Fresh(requests)' /\ \A x \in Consumers : Fresh(responses[x])'
  BY <1>1, <1>2, <1>3 DEF Fresh, Takes
<1>9. QueuedIsLive'
  BY <1>1, <1>2, <1>3, <1>4 DEF QueuedIsLive
<1>10. ASSUME ~late
       PROVE  /\ \A i, j \in DOMAIN requests :
                   /\ requests[i].expects /\ requests[j].expects
                   /\ requests[i].correlation = requests[j].correlation
                   => i = j
              /\ \A i \in DOMAIN requests : \A r \in Live :
                   requests[i].expects => requests[i].correlation # r.correlation
              /\ \A r, s \in Live : r.correlation = s.correlation => r = s
  BY <1>1, <1>10 DEF CallsAreDistinct
<1>11. CallsAreDistinct'
  <2> SUFFICES ASSUME ~late
               PROVE  /\ \A i, j \in 1 .. n - 1 :
                           /\ requests'[i].expects /\ requests'[j].expects
                           /\ requests'[i].correlation = requests'[j].correlation
                           => i = j
                      /\ \A i \in 1 .. n - 1 : \A r \in Live' :
                           requests'[i].expects => requests'[i].correlation # r.correlation
                      /\ \A r, s \in Live' : r.correlation = s.correlation => r = s
    BY <1>2, <1>4 DEF CallsAreDistinct
  <2>1. ASSUME NEW i \in 1 .. n - 1, NEW j \in 1 .. n - 1,
               requests'[i].expects, requests'[j].expects,
               requests'[i].correlation = requests'[j].correlation
        PROVE  i = j
    <3>1. i + 1 = j + 1
      BY <1>3, <1>4, <1>10, <2>1, SMTT(40)
    <3> QED BY <1>4, <3>1
  <2>2. ASSUME NEW i \in 1 .. n - 1, NEW r \in Live', requests'[i].expects
        PROVE  requests'[i].correlation # r.correlation
    <3>1. /\ requests'[i] = requests[i + 1] /\ i + 1 \in DOMAIN requests /\ i + 1 # 1
      BY <1>3, <1>4
    <3>2. CASE r \in Live
      BY <1>10, <2>2, <3>1, <3>2
    <3>3. CASE r = h /\ h.expects
      <4> SUFFICES ASSUME requests[i + 1].correlation = requests[1].correlation
                   PROVE  FALSE
        BY <3>1, <3>3 DEF h
      <4>1. requests[1].expects
        BY <3>3 DEF h
      <4> QED BY <1>4, <1>10, <2>2, <3>1, <4>1
    <3> QED BY <1>6, <3>2, <3>3
  <2>3. ASSUME NEW r \in Live', NEW s \in Live', r.correlation = s.correlation
        PROVE  r = s
    BY <1>4, <1>6, <1>10, <2>3 DEF h
  <2> QED BY <2>1, <2>2, <2>3
<1>12. Tracked'
  <2>1. ASSUME ~late
        PROVE  /\ \A i \in DOMAIN requests :
                    requests[i].expects => peers[requests[i].correlation] = requests[i].caller
               /\ \A r \in Live : peers[r.correlation] = r.caller
               /\ \A x \in Correlations : peers[x] # None =>
                    \/ \E i \in DOMAIN requests :
                         requests[i].expects /\ requests[i].correlation = x
                    \/ \E r \in Live : r.correlation = x
               /\ \A x \in Consumers :
                    \A i \in DOMAIN responses[x] : responses[x][i].caller = x
    BY <1>1, <2>1 DEF Tracked
  <2> SUFFICES ASSUME ~late
               PROVE  /\ \A i \in 1 .. n - 1 : requests'[i].expects =>
                           peers[requests'[i].correlation] = requests'[i].caller
                      /\ \A r \in Live' : peers[r.correlation] = r.caller
                      /\ \A x \in Correlations : peers[x] # None =>
                           \/ \E i \in 1 .. n - 1 :
                                requests'[i].expects /\ requests'[i].correlation = x
                           \/ \E r \in Live' : r.correlation = x
    BY <1>1, <1>2, <1>4, <2>1 DEF Tracked
  <2>2. \A i \in 1 .. n - 1 : requests'[i].expects =>
          peers[requests'[i].correlation] = requests'[i].caller
    BY <1>3, <1>4, <2>1
  <2>3. \A r \in Live' : peers[r.correlation] = r.caller
    BY <1>4, <1>6, <2>1 DEF h
  <2>4. ASSUME NEW x \in Correlations, peers[x] # None
        PROVE  \/ \E i \in 1 .. n - 1 : requests'[i].expects /\ requests'[i].correlation = x
               \/ \E r \in Live' : r.correlation = x
    <3>1. ASSUME NEW i \in DOMAIN requests, requests[i].expects, requests[i].correlation = x
          PROVE  \/ \E j \in 1 .. n - 1 : requests'[j].expects /\ requests'[j].correlation = x
                 \/ \E r \in Live' : r.correlation = x
      <4>1. CASE i = 1
        BY <1>6, <3>1, <4>1 DEF h
      <4>2. CASE i # 1
        <5>1. i - 1 \in 1 .. n - 1 /\ (i - 1) + 1 = i
          BY <1>4, <4>2
        <5>2. requests'[i - 1] = requests[(i - 1) + 1]
          BY <1>3, <5>1
        <5> QED BY <3>1, <5>1, <5>2
      <4> QED BY <4>1, <4>2
    <3>2. ASSUME NEW r \in Live, r.correlation = x PROVE \E s \in Live' : s.correlation = x
      BY <1>6, <3>2
    <3> QED BY <2>1, <2>4, <3>1, <3>2
  <2> QED BY <2>2, <2>3, <2>4
<1> QED BY <1>7, <1>8, <1>9, <1>11, <1>12 DEF MethodsInv, CallsInv

(* A response is pushed into one consumer's queue, or polled from it.        *)
LEMMA ResponsesChanged ==
  ASSUME EndpointInv, Next, UNCHANGED generation, NEW k \in Consumers, NEW q,
         responses' = [responses EXCEPT ![k] = q],
         q \in Seq(Calls), Len(q) <= Depth, Fresh(q)
  PROVE  /\ responses' \in [Consumers -> Queues(Calls, Depth)]
         /\ \A x \in Consumers : Fresh(responses[x])'
         /\ responses'[k] = q /\ \A x \in Consumers \ {k} : responses'[x] = responses[x]
<1>1. /\ responses \in [Consumers -> Queues(Calls, Depth)]
      /\ \A x \in Consumers : Fresh(responses[x])
  BY MethodFacts DEF MethodsInv, MethodsTyped
<1>2. q \in Queues(Calls, Depth)
  BY DEF Queues
<1>3. responses'[k] = q /\ \A x \in Consumers \ {k} : responses'[x] = responses[x]
  BY <1>1
<1>4. \A x \in Consumers : Fresh(responses[x])'
  BY <1>1, <1>3 DEF Fresh
<1> QED BY <1>1, <1>2, <1>3, <1>4

LEMMA MethodsPolled ==
  ASSUME EndpointInv, Next, NEW k \in Consumers, NEW c \in Correlations,
         PollMethodResponse(k, c)
  PROVE  MethodsInv'
<1> DEFINE q == responses[k]
<1>1. /\ MethodsTyped /\ QueuedIsLive /\ CallsAreDistinct /\ Tracked /\ late \in BOOLEAN
      /\ Depth' = Depth /\ Correlations' = Correlations /\ Calls' = Calls /\ Depth \in Nat
      /\ q \in Seq(Calls) /\ Len(q) <= Depth /\ Fresh(q) /\ Fresh(requests)
  BY MethodFacts DEF MethodsInv, CallsInv
<1>2. PICK i \in DOMAIN q : responses' = [responses EXCEPT ![k] = RemoveAt(q, i)]
  BY DEF PollMethodResponse
<1>3. UNCHANGED <<generation, requests, peers, taken, late>>
  BY DEF PollMethodResponse
<1>4. i \in 1 .. Len(q)
  BY <1>1, <1>2
<1>5. /\ RemoveAt(q, i) \in Seq(Calls) /\ Len(RemoveAt(q, i)) = Len(q) - 1
      /\ \A j \in 1 .. Len(q) - 1 : RemoveAt(q, i)[j] = IF j < i THEN q[j] ELSE q[j + 1]
  BY <1>1, <1>4, RemoveAtParts
<1>6. Fresh(RemoveAt(q, i))
  BY <1>1, <1>4, RemoveFresh
<1>7. Len(RemoveAt(q, i)) <= Depth /\ DOMAIN RemoveAt(q, i) = 1 .. Len(q) - 1
  BY <1>1, <1>5
<1>8. /\ responses' \in [Consumers -> Queues(Calls, Depth)]
      /\ \A x \in Consumers : Fresh(responses[x])'
      /\ responses'[k] = RemoveAt(q, i)
      /\ \A x \in Consumers \ {k} : responses'[x] = responses[x]
  BY <1>2, <1>3, <1>5, <1>6, <1>7, ResponsesChanged
<1>9. MethodsTyped'
  BY <1>1, <1>3, <1>8 DEF MethodsTyped
<1>10. ASSUME ~late, NEW j \in 1 .. Len(q) - 1
       PROVE  RemoveAt(q, i)[j].caller = k
  <2>1. \A m \in 1 .. Len(q) : q[m].caller = k
    BY <1>1, <1>10 DEF Tracked
  <2> QED BY <1>1, <1>4, <1>5, <2>1, SMTT(40)
<1>11. Tracked'
  BY <1>1, <1>3, <1>7, <1>8, <1>10 DEF Tracked, Live
<1>12. QueuedIsLive' /\ CallsAreDistinct' /\ Fresh(requests)'
  BY <1>1, <1>3 DEF QueuedIsLive, CallsAreDistinct, Live, Fresh
<1> QED BY <1>8, <1>9, <1>11, <1>12 DEF MethodsInv, CallsInv

LEMMA MethodsCompleted ==
  ASSUME EndpointInv, Next, NEW call \in taken, CompleteMethodResponse(call)
  PROVE  MethodsInv'
<1> DEFINE peer == peers[call.correlation]
           q == responses[peer]
           response == [call EXCEPT !.generation = generation]
<1>1. /\ MethodsTyped /\ QueuedIsLive /\ CallsAreDistinct /\ Tracked /\ late \in BOOLEAN
      /\ Depth' = Depth /\ Correlations' = Correlations /\ Calls' = Calls
      /\ Depth \in Nat /\ Depth # 0 /\ DropOldest \in BOOLEAN
      /\ generation \in 0 .. MaxGeneration /\ MaxGeneration \in Nat
      /\ (offered => generation # 0) /\ None \notin Consumers
      /\ call \in Calls /\ taken \subseteq Calls /\ Fresh(requests)
      /\ peers \in [Correlations -> Consumers \cup {None}]
      /\ \A k \in Consumers :
           responses[k] \in Seq(Calls) /\ Len(responses[k]) <= Depth /\ Fresh(responses[k])
  BY MethodFacts DEF MethodsInv, CallsInv
<1>2. /\ offered /\ peer # None /\ UNCHANGED <<generation, requests>>
      /\ responses' = [responses EXCEPT ![peer] = Push(q, response, Depth)]
      /\ \/ /\ Delivers(q, Depth)
            /\ peers' = [peers EXCEPT ![call.correlation] = None]
            /\ taken' = taken \ {call}
         \/ ~Delivers(q, Depth) /\ UNCHANGED <<peers, taken>>
      /\ (~late' => ~late /\ ~call.lapsed)
  BY DEF CompleteMethodResponse
<1>3. call.correlation \in Correlations /\ call.caller \in Consumers /\ peer \in Consumers
  BY <1>1, <1>2 DEF Calls
<1>4. generation \in 1 .. MaxGeneration
  BY <1>1, <1>2
<1>5. /\ response \in Calls /\ response.generation = generation
      /\ response.caller = call.caller
  BY <1>1, <1>4 DEF Calls
<1>6. q \in Seq(Calls) /\ Len(q) <= Depth /\ Fresh(q)
  BY <1>1, <1>3
<1> HIDE DEF peer, q, response
<1>7. /\ Push(q, response, Depth) \in Seq(Calls) /\ Len(Push(q, response, Depth)) <= Depth
      /\ \/ /\ Len(q) < Depth
            /\ Len(Push(q, response, Depth)) = Len(q) + 1
            /\ Push(q, response, Depth)[Len(q) + 1] = response
            /\ \A j \in 1 .. Len(q) : Push(q, response, Depth)[j] = q[j]
         \/ /\ Len(q) = Depth /\ DropOldest
            /\ Len(Push(q, response, Depth)) = Len(q)
            /\ Push(q, response, Depth)[Len(q)] = response
            /\ \A j \in 1 .. Len(q) - 1 : Push(q, response, Depth)[j] = q[j + 1]
         \/ Len(q) = Depth /\ ~DropOldest /\ Push(q, response, Depth) = q
  BY <1>1, <1>5, <1>6, PushParts DEF PushResult
<1>8. Fresh(Push(q, response, Depth))
  BY <1>1, <1>5, <1>6, PushFresh
<1>9. /\ responses' \in [Consumers -> Queues(Calls, Depth)]
      /\ \A x \in Consumers : Fresh(responses[x])'
      /\ responses'[peer] = Push(q, response, Depth)
      /\ \A x \in Consumers \ {peer} : responses'[x] = responses[x]
  BY <1>2, <1>3, <1>7, <1>8, ResponsesChanged
<1>10. peers' \in [Correlations -> Consumers \cup {None}] /\ taken' \subseteq taken
  BY <1>1, <1>2, <1>3
<1>11. MethodsTyped'
  BY <1>1, <1>2, <1>9, <1>10 DEF MethodsTyped
<1>12. Fresh(requests)' /\ QueuedIsLive'
  BY <1>1, <1>2, <1>10 DEF Fresh, QueuedIsLive
<1>13. CallsAreDistinct'
  BY <1>1, <1>2, <1>10 DEF CallsAreDistinct, Live
<1>14. Tracked'
  <2> SUFFICES ASSUME ~late, ~call.lapsed
               PROVE  /\ \A i \in DOMAIN requests : requests[i].expects =>
                           peers'[requests[i].correlation] = requests[i].caller
                      /\ \A r \in Live' : peers'[r.correlation] = r.caller
                      /\ \A x \in Correlations : peers'[x] # None =>
                           \/ \E i \in DOMAIN requests :
                                requests[i].expects /\ requests[i].correlation = x
                           \/ \E r \in Live' : r.correlation = x
                      /\ \A x \in Consumers :
                           \A i \in DOMAIN responses'[x] : responses'[x][i].caller = x
    BY <1>1, <1>2 DEF Tracked
  <2>1. /\ \A i \in DOMAIN requests :
             requests[i].expects => peers[requests[i].correlation] = requests[i].caller
        /\ \A r \in Live : peers[r.correlation] = r.caller
        /\ \A x \in Correlations : peers[x] # None =>
             \/ \E i \in DOMAIN requests :
                  requests[i].expects /\ requests[i].correlation = x
             \/ \E r \in Live : r.correlation = x
        /\ \A x \in Consumers :
             \A i \in DOMAIN responses[x] : responses[x][i].caller = x
    BY <1>1 DEF Tracked
  <2>2. /\ \A i \in DOMAIN requests : \A r \in Live :
             requests[i].expects => requests[i].correlation # r.correlation
        /\ \A r, s \in Live : r.correlation = s.correlation => r = s
    BY <1>1 DEF CallsAreDistinct
  <2>3. call \in Live /\ peer = call.caller
    BY <2>1 DEF Live, peer
  <2>4. ASSUME NEW x \in Consumers, NEW i \in DOMAIN responses'[x]
        PROVE  responses'[x][i].caller = x
    <3>1. CASE x # peer
      BY <1>9, <2>1, <2>4, <3>1
    <3>2. CASE x = peer
      <4>1. \A j \in 1 .. Len(q) : q[j].caller = peer
        BY <1>3, <1>6, <2>1 DEF q
      <4>2. DOMAIN responses'[x] = 1 .. Len(Push(q, response, Depth))
        BY <1>7, <1>9, <3>2
      <4>3. Push(q, response, Depth)[i].caller = peer
        <5>1. i \in 1 .. Len(Push(q, response, Depth)) /\ Len(q) \in Nat
          BY <1>6, <2>4, <4>2
        <5>2. response.caller = peer
          BY <1>5, <2>3
        <5> QED BY <1>7, <4>1, <5>1, <5>2
      <4> QED BY <1>9, <3>2, <4>3
    <3> QED BY <3>1, <3>2
  <2>5. CASE ~Delivers(q, Depth) /\ UNCHANGED <<peers, taken>>
    BY <2>1, <2>4, <2>5 DEF Live
  <2>6. CASE /\ peers' = [peers EXCEPT ![call.correlation] = None]
             /\ taken' = taken \ {call}
    <3>1. Live' = Live \ {call}
      BY <2>6 DEF Live
    <3>2. \A x \in Correlations :
            peers'[x] = IF x = call.correlation THEN None ELSE peers[x]
      BY <1>1, <2>6
    <3>3. ASSUME NEW i \in DOMAIN requests, requests[i].expects
          PROVE  peers'[requests[i].correlation] = requests[i].caller
      <4>1. requests[i].correlation \in Correlations
        BY MethodFacts DEF Calls
      <4> QED BY <2>1, <2>2, <2>3, <3>2, <3>3, <4>1
    <3>4. ASSUME NEW r \in Live' PROVE peers'[r.correlation] = r.caller
      <4>1. r \in Live /\ r # call /\ r.correlation \in Correlations
        BY <1>1, <3>1 DEF Live, Calls
      <4> QED BY <2>1, <2>2, <2>3, <3>2, <4>1
    <3>5. ASSUME NEW x \in Correlations, peers'[x] # None
          PROVE  \/ \E i \in DOMAIN requests :
                      requests[i].expects /\ requests[i].correlation = x
                 \/ \E r \in Live' : r.correlation = x
      <4>1. peers[x] # None /\ x # call.correlation
        BY <3>2, <3>5
      <4> QED BY <2>1, <3>1, <4>1
    <3> QED BY <2>4, <3>3, <3>4, <3>5
  <2> QED BY <1>2, <2>5, <2>6
<1> QED BY <1>9, <1>11, <1>12, <1>13, <1>14 DEF MethodsInv, CallsInv

-----------------------------------------------------------------------------
(* The invariant and what follows from it.                                   *)

LEMMA MethodsStep ==
  ASSUME EndpointInv, Next
  PROVE  MethodsInv'
BY MethodsChange, MethodsKept, MethodsOffered, MethodsForgotten, MethodsSubmitted,
   MethodsTaken, MethodsCompleted, MethodsPolled

LEMMA FlagsStep ==
  ASSUME EndpointInv, Next
  PROVE  offered' \in BOOLEAN /\ late' \in BOOLEAN
<1>1. offered \in BOOLEAN /\ late \in BOOLEAN
  BY DEF EndpointInv, TypeOK
<1>2. offered' \in {TRUE, FALSE, offered}
  BY DEF Next, EndpointNext, SubscriberNext, MethodNext, OfferService, StopOffer,
     CleanupStaleEndpoints, SimulateProviderRestart,
     SetTestHook, TimePasses, Subscribe, PublishEvent, PollEvent, FireTrigger, PollTrigger,
     UpdateField, SubmitFieldSetRequest, GetField, TakeFieldSetRequest, PollField,
     SubmitMethodRequest, PollMethodResponse, TakeMethodRequest, CompleteMethodResponse,
     PollFrame, ForcedTimeout, FrameDropped, Lapse, endpointVars
<1>3. late' = late \/ late' \in BOOLEAN
  <2>1. ASSUME NEW call \in taken, CompleteMethodResponse(call) PROVE late' \in BOOLEAN
    BY <2>1 DEF CompleteMethodResponse
  <2>2. ASSUME NEW k \in Consumers, NEW c \in Correlations, PollMethodResponse(k, c)
        PROVE  late' = late
    BY <2>2 DEF PollMethodResponse
  <2>3. ASSUME OfferService PROVE late' = late
    BY <2>3 DEF OfferService, methodVars
  <2> QED BY <2>1, <2>2, <2>3, MethodsChange DEF methodVars, Forgets, Submits, Takes
<1> QED BY <1>1, <1>2, <1>3

LEMMA EndpointInductive == EndpointInv /\ [Next]_vars => EndpointInv'
<1> SUFFICES ASSUME EndpointInv, [Next]_vars PROVE EndpointInv'
  OBVIOUS
<1>1. CASE Next
  <2>1. /\ EndpointTyped' /\ OfferedIsNumbered' /\ SubsTyped' /\ SubsCurrent'
        /\ FieldTyped' /\ Fresh(setRequests)' /\ MethodsInv'
        /\ offered' \in BOOLEAN /\ late' \in BOOLEAN
    BY <1>1, EndpointStep, SubsStep, FieldStep, MethodsStep, FlagsStep
  <2>2. mapping' \in Mappings
    BY <1>1 DEF EndpointInv, TypeOK, Next
  <2>3. TypeOK'
    BY <2>1, <2>2 DEF TypeOK, EndpointTyped, SubsTyped, FieldTyped, MethodsInv, MethodsTyped
  <2>4. FramesInv'
    BY <2>1 DEF FramesInv, SubsCurrent, MethodsInv
  <2> QED BY <2>1, <2>3, <2>4 DEF EndpointInv, MethodsInv
<1>2. CASE UNCHANGED vars
  <2>1. UNCHANGED <<mapping, generation, offered, age, subs, requests, peers, responses,
                    taken, late, setRequests, latest, hook>>
    BY <1>2 DEF vars, endpointVars, methodVars, fieldVars
  <2>2. TypeOK'
    BY <2>1 DEF EndpointInv, TypeOK, Kinds, Depth, Hooks, Correlations, Calls
  <2>3. OfferedIsNumbered' /\ FramesInv'
    BY <2>1 DEF EndpointInv, OfferedIsNumbered, FramesInv, Fresh, DropOldest
  <2>4. CallsInv'
    BY <2>1 DEF EndpointInv, CallsInv, QueuedIsLive, CallsAreDistinct, Tracked, Live,
       Correlations
  <2> QED BY <2>2, <2>3, <2>4 DEF EndpointInv
<1> QED BY <1>1, <1>2

LEMMA EndpointInvariant == Spec => []EndpointInv
BY InitEndpoint, EndpointInductive, PTL DEF Spec

(* Every queue is typed and within its depth: what LocalIpcBinding keeps of  *)
(* an endpoint is bounded by the mapping, whatever the callers do.           *)
THEOREM EndpointTypeCorrect == Spec => []TypeOK
<1>1. EndpointInv => TypeOK
  BY DEF EndpointInv
<1> QED BY <1>1, EndpointInvariant, PTL

(* A method call that awaits its response is answered to its caller, and no  *)
(* correlation stays active without one (SubmitMethodRequest,                *)
(* CompleteMethodResponse and what clears them).                             *)
THEOREM CallsCorrect == Spec => []CallsAreTracked
<1>1. EndpointInv => CallsAreTracked
  BY TrackedMeans DEF EndpointInv, CallsInv
<1> QED BY <1>1, EndpointInvariant, PTL

(* Every queued frame is of the current provider, and the newest field value *)
(* that waits for a subscriber is the current one (PushFrameWithPolicy and   *)
(* SimulateProviderRestart).                                                 *)
THEOREM FramesCorrect == Spec => []FramesAreCurrent
<1>1. EndpointInv => FramesAreCurrent
  BY FramesMean DEF EndpointInv
<1> QED BY <1>1, EndpointInvariant, PTL
=============================================================================
