-------------------------- MODULE DdsBinding_proofs --------------------------
(***************************************************************************)
(* Theorems about the DDS binding, for any number of writers and readers,   *)
(* any profile, any participants and endpoints, any TTL and delay below it, *)
(* and any loss, delay, repetition and order of the messages.  First what a *)
(* reader delivers (DdsTransport), then the discovery cache (DdsDiscovery): *)
(* it never goes back to an announcement from before the one it took last,  *)
(* and a restart is learnt within the TTL.                                  *)
(***************************************************************************)
EXTENDS DdsTransport, DdsDiscovery, SequenceTheorems, TLAPS

Entries == [seq : Numbers, readerId : {ReaderId[r] : r \in Readers}]

(* What the writers keep.                                                   *)
WriterOK ==
  /\ qos \in Profiles
  /\ matched \subseteq Writers \X Readers
  /\ life \in [Writers -> 1 .. qos.lives]
  /\ next \in [Writers -> Nat \ {0}]
  /\ history \in [Writers -> Seq(Entries)]

(* A message that carries a sample names one that a writer may have built;  *)
(* a request comes from a reliable reader, about a life of a writer.        *)
MessageOK(m) ==
  /\ m.kind = "Data" => SampleOf(m) \in Samples
  /\ m.kind = "Heartbeat" => m.writer \in Writers /\ m.life \in 1 .. qos.lives
  /\ m.kind = "AckNack" => m.writer \in Writers /\ m.life \in 1 .. qos.lives /\ m.from \in Readers

(* What the readers keep.                                                   *)
ReaderOK ==
  /\ received \in [Readers -> SUBSET Numbers]
  /\ lastSeq \in [Readers -> [Writers -> Nat]]
  /\ taken \in [Readers -> [Samples -> 0 .. 2]]
  /\ DOMAIN lapsed = Readers

(* A sample that was taken is one the reader would refuse if it came again. *)
ReliableRefused ==
  qos.reliable =>
    \A r \in Readers, x \in Samples :
      taken[r][x] > 0 => taken[r][x] = 1 /\ x.seq \in received[r]

BestEffortRefused ==
  ~qos.reliable =>
    \A r \in Readers, x \in Samples :
      taken[r][x] > 0 /\ x.writer \notin lapsed[r] =>
        taken[r][x] = 1 /\ x.seq <= lastSeq[r][x.writer]

(* A number a reader holds is that of a sample its client got, and a request *)
(* leaves out only numbers the reader holds.                                *)
ReceivedTaken ==
  \A r \in Readers : \A s \in received[r] : \E x \in Samples : taken[r][x] > 0 /\ x.seq = s

RequestsCover ==
  \A m \in net : m.kind = "AckNack" => (m.first .. m.last) \ m.missing \subseteq received[m.from]

ReaderInv == WriterOK /\ (\A m \in net : MessageOK(m)) /\ ReaderOK
TransportInv ==
  /\ ReaderInv /\ ReliableRefused /\ BestEffortRefused /\ ReceivedTaken /\ RequestsCover

-----------------------------------------------------------------------------
(* Initial states.                                                          *)

LEMMA InitTransportInv == Init => TransportInv
<1> SUFFICES ASSUME Init PROVE TransportInv
  OBVIOUS
<1>1. qos \in Profiles /\ qos.lives \in Nat \ {0} /\ qos.samples \in Nat
  BY ProfileAssumption DEF Init
<1>2. WriterOK
  BY <1>1 DEF Init, WriterOK
<1>3. ReaderOK
  BY <1>1 DEF Init, ReaderOK
<1>4. \A r \in Readers, x \in Samples : taken[r][x] = 0
  BY DEF Init
<1>5. ReliableRefused /\ BestEffortRefused
  BY <1>4 DEF ReliableRefused, BestEffortRefused
<1>6. ReceivedTaken /\ RequestsCover /\ \A m \in net : MessageOK(m)
  BY DEF Init, ReceivedTaken, RequestsCover
<1> QED
  BY <1>2, <1>3, <1>5, <1>6 DEF TransportInv, ReaderInv

-----------------------------------------------------------------------------
(* Steps of the writers: the readers do not change, and every new message   *)
(* names a sample of the writer.                                            *)

LEMMA KeepLastType ==
  ASSUME NEW S, NEW q \in Seq(S), NEW e \in S
  PROVE  KeepLast(Append(q, e)) \in Seq(S)
<1>1. Append(q, e) \in Seq(S) /\ Append(q, e) # <<>>
  BY AppendProperties
<1>2. Tail(Append(q, e)) \in Seq(S)
  BY <1>1, HeadTailProperties
<1> QED
  BY <1>1, <1>2 DEF KeepLast

LEMMA DataOK ==
  ASSUME ReaderInv, NEW w \in Writers, NEW r, NEW id, NEW s \in Numbers
  PROVE  MessageOK(Data(w, r, id, s)) /\ Data(w, r, id, s).kind = "Data"
<1>1. life[w] \in 1 .. qos.lives
  BY DEF ReaderInv, WriterOK
<1> QED
  BY <1>1 DEF MessageOK, Data, SampleOf, Samples

(* A message's meaning does not depend on what a writer's step changes.     *)
LEMMA MessageKept ==
  ASSUME qos' = qos, NEW m
  PROVE  MessageOK(m)' <=> MessageOK(m)
  BY DEF MessageOK, SampleOf, Samples, Numbers

(* If the readers stay and the new messages are sound and no requests, the  *)
(* invariant is that of the writer.                                         *)
LEMMA WriterStep ==
  ASSUME TransportInv, UNCHANGED <<qos, readerVars>>, WriterOK',
         \A m \in net' \ net : MessageOK(m) /\ m.kind # "AckNack"
  PROVE  TransportInv'
<1>1. \A m \in net' : MessageOK(m)'
  BY MessageKept DEF TransportInv, ReaderInv
<1>2. ReaderOK' /\ ReliableRefused' /\ BestEffortRefused' /\ ReceivedTaken'
  BY DEF TransportInv, ReaderInv, ReaderOK, ReliableRefused, BestEffortRefused, ReceivedTaken,
         readerVars, Samples, Numbers
<1>3. RequestsCover'
  BY DEF TransportInv, RequestsCover, readerVars
<1> QED
  BY <1>1, <1>2, <1>3 DEF TransportInv, ReaderInv

LEMMA NumberedStep ==
  ASSUME TransportInv, NEW w \in Writers, NEW r \in Readers, Numbered(w, r),
         history' \in [Writers -> Seq(Entries)]
  PROVE  TransportInv'
<1>1. next[w] \in Numbers
  BY ProfileAssumption DEF TransportInv, ReaderInv, WriterOK, Numbered, Numbers
<1>2. next' \in [Writers -> Nat \ {0}]
  BY DEF TransportInv, ReaderInv, WriterOK, Numbered
<1>3. WriterOK'
  BY <1>2 DEF TransportInv, ReaderInv, WriterOK, Numbered, Entries, Numbers
<1>4. \A m \in net' \ net : MessageOK(m) /\ m.kind = "Data"
  BY <1>1, DataOK DEF Numbered, TransportInv
<1>5. UNCHANGED <<qos, readerVars>>
  BY DEF Numbered
<1> QED
  BY <1>3, <1>4, <1>5, WriterStep

LEMMA BuildStep ==
  ASSUME TransportInv, NEW w \in Writers, NEW r \in Readers,
         BuildBestEffortSample(w, r) \/ BuildReliableSample(w, r)
  PROVE  TransportInv'
<1>1. history \in [Writers -> Seq(Entries)]
  BY DEF TransportInv, ReaderInv, WriterOK
<1>2. CASE BuildBestEffortSample(w, r)
  BY <1>1, <1>2, NumberedStep DEF BuildBestEffortSample
<1>3. CASE BuildReliableSample(w, r)
  <2> DEFINE e == [seq |-> next[w], readerId |-> ReaderId[r]]
  <2>1. next[w] \in Numbers
    BY <1>3, ProfileAssumption
    DEF BuildReliableSample, TransportInv, ReaderInv, WriterOK, Numbered, Numbers
  <2>2. e \in Entries
    BY <2>1 DEF Entries
  <2>3. KeepLast(Append(history[w], e)) \in Seq(Entries)
    BY <1>1, <2>2, KeepLastType
  <2>4. history' \in [Writers -> Seq(Entries)]
    BY <1>1, <1>3, <2>3 DEF BuildReliableSample
  <2> QED
    BY <1>3, <2>4, NumberedStep DEF BuildReliableSample
<1> QED
  BY <1>2, <1>3

(* Every number a writer may send again is that of a sample it built.       *)
LEMMA HistoryNumbers ==
  ASSUME ReaderInv, NEW w \in Writers, NEW i \in 1 .. Len(history[w])
  PROVE  history[w][i].seq \in Numbers
<1>1. history[w] \in Seq(Entries)
  BY DEF ReaderInv, WriterOK
<1>2. history[w][i] \in Entries
  BY <1>1
<1> QED
  BY <1>2 DEF Entries

LEMMA SendAgainStep ==
  ASSUME TransportInv, NEW w \in Writers, NEW r \in Readers, NEW m,
         BuildHistoricalSamples(w, r) \/ BuildRepairSamples(w, m)
  PROVE  TransportInv'
<1>1. UNCHANGED <<qos, matched, life, next, history, readerVars>>
  BY DEF BuildHistoricalSamples, BuildRepairSamples
<1>2. WriterOK'
  BY <1>1 DEF TransportInv, ReaderInv, WriterOK, Entries, Numbers
<1>3. \A n \in net' \ net :
        \E i \in 1 .. Len(history[w]) : \E to, id : n = Data(w, to, id, history[w][i].seq)
  <2>1. CASE BuildHistoricalSamples(w, r)
    BY <2>1 DEF BuildHistoricalSamples
  <2>2. CASE BuildRepairSamples(w, m)
    BY <2>2 DEF BuildRepairSamples
  <2> QED
    BY <2>1, <2>2
<1>4. \A n \in net' \ net : MessageOK(n) /\ n.kind = "Data"
  BY <1>3, HistoryNumbers, DataOK DEF TransportInv
<1> QED
  BY <1>1, <1>2, <1>4, WriterStep

LEMMA HeartbeatStep ==
  ASSUME TransportInv, NEW w \in Writers, NEW r \in Readers, BuildHeartbeat(w, r)
  PROVE  TransportInv'
<1>1. UNCHANGED <<qos, matched, life, next, history, readerVars>>
  BY DEF BuildHeartbeat
<1>2. WriterOK'
  BY <1>1 DEF TransportInv, ReaderInv, WriterOK, Entries, Numbers
<1>3. life[w] \in 1 .. qos.lives
  BY DEF TransportInv, ReaderInv, WriterOK
<1>4. \A m \in net' \ net : m.kind = "Heartbeat" /\ m.writer = w /\ m.life = life[w]
  BY DEF BuildHeartbeat
<1>5. \A m \in net' \ net : MessageOK(m) /\ m.kind # "AckNack"
  BY <1>3, <1>4 DEF MessageOK
<1> QED
  BY <1>1, <1>2, <1>5, WriterStep

LEMMA MatchStep ==
  ASSUME TransportInv, NEW w \in Writers, NEW r \in Readers, Match(w, r)
  PROVE  TransportInv'
<1>1. WriterOK'
  BY DEF TransportInv, ReaderInv, WriterOK, Match, Entries, Numbers
<1>2. UNCHANGED <<qos, net, readerVars>>
  BY DEF Match
<1> QED
  BY <1>1, <1>2, WriterStep

LEMMA RestartStep ==
  ASSUME TransportInv, NEW w \in Writers, WriterRestart(w)
  PROVE  TransportInv'
<1>1. UNCHANGED <<qos, net, readerVars>>
  BY DEF WriterRestart
<1>2. matched' \subseteq Writers \X Readers
  BY DEF TransportInv, ReaderInv, WriterOK, WriterRestart
<1>3. qos.lives \in Nat
  BY ProfileAssumption DEF TransportInv, ReaderInv, WriterOK
<1>4. life' \in [Writers -> 1 .. qos.lives]
  BY <1>3 DEF TransportInv, ReaderInv, WriterOK, WriterRestart
<1>5. next' \in [Writers -> Nat \ {0}]
  BY DEF TransportInv, ReaderInv, WriterOK, WriterRestart
<1>6. history' \in [Writers -> Seq(Entries)]
  BY DEF TransportInv, ReaderInv, WriterOK, WriterRestart
<1>7. WriterOK'
  BY <1>1, <1>2, <1>4, <1>5, <1>6 DEF TransportInv, ReaderInv, WriterOK, Entries, Numbers
<1> QED
  BY <1>1, <1>7, WriterStep

-----------------------------------------------------------------------------
(* Steps of the readers.                                                    *)

(* A sample that reaches a client is counted once more, no other is.        *)
LEMMA TakenCount ==
  ASSUME ReaderInv, NEW r \in Readers, NEW m \in net, Takes(r, m)
  PROVE  /\ SampleOf(m) \in Samples
         /\ taken' \in [Readers -> [Samples -> 0 .. 2]]
         /\ taken'[r][SampleOf(m)] = IF taken[r][SampleOf(m)] < 2 THEN taken[r][SampleOf(m)] + 1 ELSE 2
         /\ \A q \in Readers, x \in Samples :
              q # r \/ x # SampleOf(m) => taken'[q][x] = taken[q][x]
<1> DEFINE X == SampleOf(m)
<1> DEFINE count == IF taken[r][X] < 2 THEN taken[r][X] + 1 ELSE 2
<1>1. X \in Samples
  BY DEF ReaderInv, MessageOK, Takes
<1>2. taken \in [Readers -> [Samples -> 0 .. 2]]
  BY DEF ReaderInv, ReaderOK
<1>3. taken[r] \in [Samples -> 0 .. 2] /\ taken[r][X] \in 0 .. 2
  BY <1>1, <1>2
<1>4. count \in 0 .. 2
  BY <1>3
<1>5. taken' = [taken EXCEPT ![r] = [taken[r] EXCEPT ![X] = count]]
  BY DEF Takes
<1> HIDE DEF X, count
<1>6. [taken[r] EXCEPT ![X] = count] \in [Samples -> 0 .. 2]
  BY <1>1, <1>3, <1>4
<1>7. /\ taken' \in [Readers -> [Samples -> 0 .. 2]]
      /\ taken'[r] = [taken[r] EXCEPT ![X] = count]
      /\ \A q \in Readers : q # r => taken'[q] = taken[q]
  BY <1>2, <1>5, <1>6
<1>8. taken'[r][X] = count /\ \A x \in Samples : x # X => taken'[r][x] = taken[r][x]
  BY <1>1, <1>3, <1>7
<1> QED
  BY <1>1, <1>7, <1>8 DEF X, count

(* What every sample taken leaves alone.                                    *)
LEMMA TakesKeeps ==
  ASSUME ReaderInv, NEW r \in Readers, NEW m \in net, Takes(r, m)
  PROVE  /\ WriterOK' /\ (\A n \in net' : MessageOK(n)')
         /\ UNCHANGED <<qos, net, lapsed, Samples, Numbers>>
<1>1. UNCHANGED <<qos, matched, life, next, history, net, lapsed>>
  BY DEF Takes
<1>2. UNCHANGED <<Samples, Numbers, Entries>>
  BY <1>1 DEF Samples, Numbers, Entries
<1>3. WriterOK'
  BY <1>1, <1>2 DEF ReaderInv, WriterOK
<1>4. \A n \in net' : MessageOK(n)'
  BY <1>1, MessageKept DEF ReaderInv
<1> QED
  BY <1>1, <1>2, <1>3, <1>4

LEMMA AcceptReliableStep ==
  ASSUME TransportInv, NEW r \in Readers, NEW m \in net, AcceptReliableSample(r, m)
  PROVE  TransportInv'
<1> DEFINE X == SampleOf(m)
<1>0. ReaderInv /\ Takes(r, m) /\ qos.reliable /\ m.seq \notin received[r]
  BY DEF TransportInv, AcceptReliableSample, IsDuplicate
<1>1. /\ X \in Samples /\ X.seq = m.seq /\ X.writer = m.writer
      /\ taken' \in [Readers -> [Samples -> 0 .. 2]]
      /\ taken'[r][X] = IF taken[r][X] < 2 THEN taken[r][X] + 1 ELSE 2
      /\ \A q \in Readers, x \in Samples : q # r \/ x # X => taken'[q][x] = taken[q][x]
  BY <1>0, TakenCount DEF SampleOf
<1>2. /\ WriterOK' /\ (\A n \in net' : MessageOK(n)')
      /\ UNCHANGED <<qos, net, lapsed, Samples, Numbers>>
  BY <1>0, TakesKeeps
<1>3. m.seq \in Numbers /\ m.writer \in Writers
  BY <1>1 DEF Samples
<1>4. /\ received' \in [Readers -> SUBSET Numbers]
      /\ received'[r] = received[r] \cup {m.seq}
      /\ \A q \in Readers : q # r => received'[q] = received[q]
  BY <1>3 DEF TransportInv, ReaderInv, ReaderOK, AcceptReliableSample
<1>5. lastSeq' \in [Readers -> [Writers -> Nat]]
  BY <1>3 DEF TransportInv, ReaderInv, ReaderOK, AcceptReliableSample, Numbers
<1>6. ReaderOK'
  BY <1>1, <1>2, <1>4, <1>5 DEF TransportInv, ReaderInv, ReaderOK
<1> HIDE DEF X
<1>7. taken[r][X] = 0
  <2>1. taken[r][X] \in 0 .. 2
    BY <1>1 DEF TransportInv, ReaderInv, ReaderOK
  <2>2. ~ (taken[r][X] > 0)
    BY <1>0, <1>1 DEF TransportInv, ReliableRefused
  <2> QED
    BY <2>1, <2>2
<1>8. taken'[r][X] = 1
  BY <1>1, <1>7
<1>9. ReliableRefused'
  BY <1>0, <1>1, <1>2, <1>4, <1>8 DEF TransportInv, ReliableRefused
<1>10. BestEffortRefused'
  BY <1>0, <1>2 DEF BestEffortRefused
<1>11. ReceivedTaken'
  <2> SUFFICES ASSUME NEW q \in Readers, NEW s \in received'[q]
               PROVE  \E x \in Samples : taken'[q][x] > 0 /\ x.seq = s
    BY <1>2 DEF ReceivedTaken
  <2>1. CASE q = r /\ s = m.seq
    BY <1>1, <1>8, <2>1
  <2>2. CASE ~(q = r /\ s = m.seq)
    <3>1. s \in received[q]
      BY <1>4, <2>2
    <3>2. PICK x \in Samples : taken[q][x] > 0 /\ x.seq = s
      BY <3>1 DEF TransportInv, ReceivedTaken
    <3>3. taken'[q][x] > 0
      BY <1>1, <1>7, <1>8, <3>2
    <3> QED
      BY <3>2, <3>3
  <2> QED
    BY <2>1, <2>2
<1>12. RequestsCover'
  <2> SUFFICES ASSUME NEW n \in net, n.kind = "AckNack"
               PROVE  (n.first .. n.last) \ n.missing \subseteq received'[n.from]
    BY <1>2 DEF RequestsCover
  <2>1. n.from \in Readers /\ (n.first .. n.last) \ n.missing \subseteq received[n.from]
    BY DEF TransportInv, ReaderInv, MessageOK, RequestsCover
  <2> QED
    BY <1>4, <2>1
<1> QED
  BY <1>2, <1>6, <1>9, <1>10, <1>11, <1>12 DEF TransportInv, ReaderInv

LEMMA AcceptBestEffortStep ==
  ASSUME TransportInv, NEW r \in Readers, NEW m \in net, AcceptBestEffortSample(r, m)
  PROVE  TransportInv'
<1> DEFINE X == SampleOf(m)
<1>0. ReaderInv /\ Takes(r, m) /\ ~qos.reliable
  BY DEF TransportInv, AcceptBestEffortSample
<1>1. /\ X \in Samples /\ X.seq = m.seq /\ X.writer = m.writer
      /\ taken' \in [Readers -> [Samples -> 0 .. 2]]
      /\ taken'[r][X] = IF taken[r][X] < 2 THEN taken[r][X] + 1 ELSE 2
      /\ \A q \in Readers, x \in Samples : q # r \/ x # X => taken'[q][x] = taken[q][x]
  BY <1>0, TakenCount DEF SampleOf
<1>2. /\ WriterOK' /\ (\A n \in net' : MessageOK(n)')
      /\ UNCHANGED <<qos, net, lapsed, Samples, Numbers>>
  BY <1>0, TakesKeeps
<1>3. m.seq \in Numbers /\ m.writer \in Writers
  BY <1>1 DEF Samples
<1>4. UNCHANGED received
  BY DEF AcceptBestEffortSample
<1>5. /\ lastSeq' \in [Readers -> [Writers -> Nat]]
      /\ lastSeq[r][m.writer] \in Nat /\ lastSeq[r][m.writer] < m.seq /\ lastSeq'[r][m.writer] = m.seq
      /\ \A q \in Readers, w \in Writers : q # r \/ w # m.writer => lastSeq'[q][w] = lastSeq[q][w]
  <2>1. lastSeq \in [Readers -> [Writers -> Nat]] /\ m.seq \in Nat
    BY <1>3 DEF TransportInv, ReaderInv, ReaderOK, Numbers
  <2>2. lastSeq' = [lastSeq EXCEPT ![r][m.writer] = m.seq]
    BY DEF AcceptBestEffortSample
  <2>3. lastSeq[r][m.writer] \in Nat /\ ~(m.seq <= lastSeq[r][m.writer])
    BY <1>3, <2>1 DEF AcceptBestEffortSample, IsStale
  <2> QED
    BY <1>3, <2>1, <2>2, <2>3
<1>6. ReaderOK'
  BY <1>1, <1>2, <1>4, <1>5 DEF TransportInv, ReaderInv, ReaderOK
<1> HIDE DEF X
<1>7. ReliableRefused' /\ ReceivedTaken' /\ RequestsCover'
  <2>1. ReliableRefused'
    BY <1>0, <1>2 DEF ReliableRefused
  <2>2. RequestsCover'
    BY <1>2, <1>4 DEF TransportInv, RequestsCover
  <2>3. ASSUME NEW q \in Readers, NEW x \in Samples, taken[q][x] > 0
        PROVE  taken'[q][x] > 0
    <3>1. taken[q][x] \in 0 .. 2
      BY DEF TransportInv, ReaderInv, ReaderOK
    <3> QED
      BY <1>1, <2>3, <3>1
  <2>4. ReceivedTaken'
    BY <1>2, <1>4, <2>3 DEF TransportInv, ReceivedTaken
  <2> QED
    BY <2>1, <2>2, <2>4
<1>8. BestEffortRefused'
  <2> SUFFICES ASSUME NEW q \in Readers, NEW x \in Samples,
                      taken'[q][x] > 0, x.writer \notin lapsed[q]
               PROVE  taken'[q][x] = 1 /\ x.seq <= lastSeq'[q][x.writer]
    BY <1>2 DEF BestEffortRefused
  <2>1. x.writer \in Writers /\ x.seq \in Nat /\ taken[q][x] \in 0 .. 2
    <3>1. x.writer \in Writers /\ x.seq \in Nat
      BY DEF Samples, Numbers
    <3>2. taken[q][x] \in 0 .. 2
      BY DEF TransportInv, ReaderInv, ReaderOK
    <3> QED
      BY <3>1, <3>2
  <2>2. taken[q][x] > 0 => taken[q][x] = 1 /\ x.seq <= lastSeq[q][x.writer]
    BY <1>0 DEF TransportInv, BestEffortRefused
  <2>3. CASE q = r /\ x = X
    <3>1. taken[r][X] = 0
      BY <1>1, <1>3, <1>5, <2>1, <2>2, <2>3
    <3> QED
      BY <1>1, <1>5, <2>1, <2>3, <3>1
  <2>4. CASE ~(q = r /\ x = X)
    <3>1. taken[q][x] = 1 /\ x.seq <= lastSeq[q][x.writer] /\ taken'[q][x] = 1
      BY <1>1, <2>2, <2>4
    <3>2. lastSeq[q][x.writer] \in Nat /\ lastSeq'[q][x.writer] >= lastSeq[q][x.writer]
      BY <1>3, <1>5, <2>1 DEF TransportInv, ReaderInv, ReaderOK
    <3>3. lastSeq'[q][x.writer] \in Nat
      BY <1>5, <2>1
    <3> QED
      BY <2>1, <3>1, <3>2, <3>3
  <2> QED
    BY <2>3, <2>4
<1> QED
  BY <1>2, <1>6, <1>7, <1>8 DEF TransportInv, ReaderInv

LEMMA RequestStep ==
  ASSUME TransportInv, NEW r \in Readers, NEW m \in net, BuildAckNack(r, m)
  PROVE  TransportInv'
<1>1. UNCHANGED <<qos, matched, life, next, history, received, lastSeq, taken, lapsed>>
  BY DEF BuildAckNack, readerVars
<1>2. UNCHANGED <<Samples, Numbers, Entries>>
  BY <1>1 DEF Samples, Numbers, Entries
<1>3. WriterOK' /\ ReaderOK'
  BY <1>1, <1>2 DEF TransportInv, ReaderInv, WriterOK, ReaderOK
<1>4. ReliableRefused' /\ BestEffortRefused' /\ ReceivedTaken'
  BY <1>1, <1>2 DEF TransportInv, ReliableRefused, BestEffortRefused, ReceivedTaken
<1>5. m.writer \in Writers /\ m.life \in 1 .. qos.lives
  BY DEF TransportInv, ReaderInv, MessageOK, BuildAckNack
<1>6. ASSUME NEW n \in net', n \notin net
      PROVE  /\ n.kind = "AckNack" /\ n.writer = m.writer /\ n.life = m.life /\ n.from = r
             /\ n.missing = (n.first .. n.last) \ received[r]
  BY <1>6 DEF BuildAckNack, Missing
<1>7. \A n \in net' : MessageOK(n)'
  <2> SUFFICES ASSUME NEW n \in net' PROVE MessageOK(n)
    BY <1>1, MessageKept
  <2> QED
    BY <1>5, <1>6 DEF TransportInv, ReaderInv, MessageOK
<1>8. RequestsCover'
  <2> SUFFICES ASSUME NEW n \in net', n.kind = "AckNack"
               PROVE  (n.first .. n.last) \ n.missing \subseteq received[n.from]
    BY <1>1 DEF RequestsCover
  <2> QED
    BY <1>6 DEF TransportInv, RequestsCover
<1> QED
  BY <1>3, <1>4, <1>7, <1>8 DEF TransportInv, ReaderInv

(* A writer removed is forgotten; what is known of the others stays.        *)
LEMMA ExpiryStep ==
  ASSUME TransportInv, NEW r \in Readers, RemoveExpiredWriters(r)
  PROVE  TransportInv'
<1>1. UNCHANGED <<qos, matched, life, next, history, received, net, taken>>
  BY DEF RemoveExpiredWriters
<1>2. UNCHANGED <<Samples, Numbers, Entries>>
  BY <1>1 DEF Samples, Numbers, Entries
<1>3. PICK gone :
        /\ lastSeq' = [lastSeq EXCEPT ![r] = [w \in Writers |-> IF w \in gone THEN 0 ELSE lastSeq[r][w]]]
        /\ lapsed' = [lapsed EXCEPT ![r] = lapsed[r] \cup gone]
  BY DEF RemoveExpiredWriters, RemoveExpiredWriterStates
<1>4. lastSeq \in [Readers -> [Writers -> Nat]] /\ DOMAIN lapsed = Readers
  BY DEF TransportInv, ReaderInv, ReaderOK
<1>5. lastSeq' \in [Readers -> [Writers -> Nat]] /\ DOMAIN lapsed' = Readers
  BY <1>3, <1>4
<1>6. \A q \in Readers, w \in Writers :
        w \notin lapsed'[q] => w \notin lapsed[q] /\ lastSeq'[q][w] = lastSeq[q][w]
  BY <1>3, <1>4
<1>7. ReaderOK'
  BY <1>1, <1>2, <1>5 DEF TransportInv, ReaderInv, ReaderOK
<1>8. WriterOK' /\ \A m \in net' : MessageOK(m)'
  BY <1>1, <1>2, MessageKept DEF TransportInv, ReaderInv, WriterOK
<1>9. ReliableRefused' /\ ReceivedTaken' /\ RequestsCover'
  BY <1>1, <1>2 DEF TransportInv, ReliableRefused, ReceivedTaken, RequestsCover
<1>10. BestEffortRefused'
  <2>1. \A x \in Samples : x.writer \in Writers
    BY DEF Samples
  <2> QED
    BY <1>1, <1>2, <1>6, <2>1 DEF TransportInv, BestEffortRefused
<1> QED
  BY <1>7, <1>8, <1>9, <1>10 DEF TransportInv, ReaderInv

-----------------------------------------------------------------------------
LEMMA TransportStep ==
  ASSUME TransportInv, [Next]_vars
  PROVE  TransportInv'
<1>1. CASE UNCHANGED vars
  <2>1. UNCHANGED <<qos, net, readerVars>> /\ UNCHANGED <<matched, life, next, history>>
    BY <1>1 DEF vars, readerVars
  <2>2. WriterOK'
    BY <2>1 DEF TransportInv, ReaderInv, WriterOK, Entries, Numbers
  <2> QED
    BY <2>1, <2>2, WriterStep
<1>2. ASSUME NEW w \in Writers, NEW r \in Readers,
             \/ Match(w, r) \/ BuildBestEffortSample(w, r) \/ BuildReliableSample(w, r)
             \/ BuildHeartbeat(w, r) \/ BuildHistoricalSamples(w, r)
      PROVE  TransportInv'
  BY <1>2, MatchStep, BuildStep, HeartbeatStep, SendAgainStep
<1>3. ASSUME NEW w \in Writers, WriterRestart(w)
      PROVE  TransportInv'
  BY <1>3, RestartStep
<1>4. ASSUME NEW m \in net, NEW w \in Writers, BuildRepairSamples(w, m)
      PROVE  TransportInv'
  <2>1. m.from \in Readers
    BY <1>4 DEF TransportInv, ReaderInv, MessageOK, BuildRepairSamples
  <2> QED
    BY <1>4, <2>1, SendAgainStep
<1>5. ASSUME NEW m \in net, NEW r \in Readers,
             AcceptBestEffortSample(r, m) \/ AcceptReliableSample(r, m) \/ BuildAckNack(r, m)
      PROVE  TransportInv'
  BY <1>5, AcceptBestEffortStep, AcceptReliableStep, RequestStep
<1>6. ASSUME NEW r \in Readers, RemoveExpiredWriters(r)
      PROVE  TransportInv'
  BY <1>6, ExpiryStep
<1> QED
  BY <1>1, <1>2, <1>3, <1>4, <1>5, <1>6 DEF Next

LEMMA TransportInvariant == Spec => []TransportInv
<1>1. Init => TransportInv
  BY InitTransportInv
<1>2. TransportInv /\ [Next]_vars => TransportInv'
  BY TransportStep
<1> QED
  BY <1>1, <1>2, PTL DEF Spec

(* A client gets a sample once, whatever the network does with the messages *)
(* (AcceptSample of both kinds of reader).                                  *)
THEOREM TakenOnceCorrect == Spec => []TakenOnce
<1>1. TransportInv => TakenOnce
  <2> SUFFICES ASSUME TransportInv, NEW r \in Readers, NEW x \in Samples,
                      qos.reliable \/ x.writer \notin lapsed[r]
               PROVE  taken[r][x] <= 1
    BY DEF TakenOnce
  <2>1. taken[r][x] \in 0 .. 2
    BY DEF TransportInv, ReaderInv, ReaderOK
  <2>2. taken[r][x] > 0 => taken[r][x] = 1
    BY DEF TransportInv, ReliableRefused, BestEffortRefused
  <2> QED
    BY <2>1, <2>2
<1> QED
  BY <1>1, TransportInvariant, PTL

(* A request leaves out only samples the client has (BuildAckNack), as long *)
(* as the reader takes samples of one life of one writer.                   *)
THEOREM NothingHiddenCorrect == Spec => []NothingHidden
<1>1. TransportInv => NothingHidden
  <2> SUFFICES ASSUME TransportInv, NEW m \in net, m.kind = "AckNack",
                      \A x \in Taken(m.from) : x.writer = m.writer /\ x.life = m.life,
                      NEW s \in (m.first .. m.last) \ m.missing
               PROVE  taken[m.from][[writer |-> m.writer, life |-> m.life, seq |-> s]] > 0
    BY DEF NothingHidden
  <2>1. m.from \in Readers /\ s \in received[m.from]
    BY DEF TransportInv, ReaderInv, MessageOK, RequestsCover
  <2>2. PICK x \in Samples : taken[m.from][x] > 0 /\ x.seq = s
    BY <2>1 DEF TransportInv, ReceivedTaken
  <2>3. x.writer = m.writer /\ x.life = m.life
    BY <2>2 DEF Taken
  <2>4. x = [writer |-> m.writer, life |-> m.life, seq |-> s]
    BY <2>2, <2>3 DEF Samples
  <2> QED
    BY <2>2, <2>4
<1> QED
  BY <1>1, TransportInvariant, PTL

(* A best-effort client gets the samples of a writer in the order of their  *)
(* numbers, with gaps (AcceptSample of a best-effort reader).               *)
THEOREM BestEffortInOrderCorrect == Spec => BestEffortInOrder
<1> DEFINE InOrder ==
      \A r \in Readers, x, y \in Samples :
        /\ ~qos.reliable /\ x.writer \notin lapsed[r]
        /\ taken'[r][x] # taken[r][x] /\ taken[r][y] > 0
        /\ y.writer = x.writer
        => y.seq < x.seq
<1>1. ASSUME TransportInv, Next PROVE InOrder
  <2> SUFFICES ASSUME NEW r \in Readers, NEW x \in Samples, NEW y \in Samples,
                      ~qos.reliable, x.writer \notin lapsed[r],
                      taken'[r][x] # taken[r][x], taken[r][y] > 0, y.writer = x.writer
               PROVE  y.seq < x.seq
    OBVIOUS
  <2>1. PICK m \in net, q \in Readers : AcceptBestEffortSample(q, m)
    BY <1>1, ZenonT(60)
    DEF Next, Match, BuildBestEffortSample, BuildReliableSample, Numbered, BuildHeartbeat,
                BuildHistoricalSamples, BuildRepairSamples, WriterRestart, BuildAckNack,
                RemoveExpiredWriters, AcceptReliableSample, readerVars
  <2>2. Takes(q, m) /\ ~(m.seq <= lastSeq[q][m.writer])
    BY <2>1 DEF AcceptBestEffortSample, IsStale
  <2>3. q = r /\ x = SampleOf(m)
    BY <1>1, <2>2, TakenCount DEF TransportInv
  <2>4. y.seq <= lastSeq[r][m.writer]
    BY <1>1, <2>3 DEF TransportInv, BestEffortRefused, SampleOf
  <2>5. x.seq \in Nat /\ y.seq \in Nat /\ m.seq = x.seq /\ m.writer \in Writers
    BY <2>3 DEF Samples, Numbers, SampleOf
  <2>6. lastSeq[r][m.writer] \in Nat
    BY <1>1, <2>5 DEF TransportInv, ReaderInv, ReaderOK
  <2> QED
    BY <2>2, <2>3, <2>4, <2>5, <2>6
<1>2. TransportInv /\ [Next]_vars => [InOrder]_vars
  BY <1>1
<1> QED
  BY <1>2, TransportInvariant, PTL DEF Spec, BestEffortInOrder

-----------------------------------------------------------------------------
(* What a reader may still ask for.                                         *)

(* A history holds the last numbers without a gap, up to the next one.      *)
HistoryRuns(w) ==
  /\ \A i \in 1 .. Len(history[w]) :
       history[w][i].seq = next[w] - Len(history[w]) + i - 1
  /\ ~qos.reliable => history[w] = <<>>

(* A range is of the past of its writer's life, and a reader asks for       *)
(* nothing outside it.                                                      *)
RangeOK(m) ==
  /\ m.writer \in Writers /\ m.life \in Nat /\ m.life <= life[m.writer]
  /\ m.first \in Nat /\ m.last \in Nat
  /\ m.life = life[m.writer] => m.last < next[m.writer]
  /\ m.kind = "AckNack" => m.missing \subseteq m.first .. m.last

IsRange(m) == m.kind \in {"Heartbeat", "AckNack"}

RangesInv ==
  /\ \A w \in Writers : HistoryRuns(w)
  /\ \A m \in net : IsRange(m) => RangeOK(m)

LEMMA WriterTypes ==
  ASSUME TransportInv, NEW w \in Writers
  PROVE  /\ next[w] \in Nat /\ next[w] # 0 /\ life[w] \in Nat
         /\ history[w] \in Seq(Entries) /\ Len(history[w]) \in Nat
         /\ qos.depth \in Nat /\ qos.depth # 0 /\ qos.lives \in Nat
         /\ next \in [Writers -> Nat \ {0}] /\ life \in [Writers -> 1 .. qos.lives]
         /\ history \in [Writers -> Seq(Entries)]
BY ProfileAssumption DEF TransportInv, ReaderInv, WriterOK

(* A step that leaves histories and numbers alone and sends no range.       *)
LEMMA RangesKept ==
  ASSUME TransportInv, RangesInv, UNCHANGED <<qos, life, next, history>>,
         \A m \in net' \ net : IsRange(m) => RangeOK(m)
  PROVE  RangesInv'
BY DEF RangesInv, HistoryRuns, RangeOK, IsRange

LEMMA KeepLastRuns ==
  ASSUME TransportInv, NEW w \in Writers, HistoryRuns(w), NEW e \in Entries, e.seq = next[w],
         NEW i \in 1 .. Len(KeepLast(Append(history[w], e)))
  PROVE  KeepLast(Append(history[w], e))[i].seq =
           (next[w] + 1) - Len(KeepLast(Append(history[w], e))) + i - 1
<1> DEFINE h == history[w]
           a == Append(h, e)
<1>1. /\ h \in Seq(Entries) /\ next[w] \in Nat /\ qos.depth \in Nat
      /\ \A j \in 1 .. Len(h) : h[j].seq = next[w] - Len(h) + j - 1
  BY WriterTypes DEF HistoryRuns
<1> HIDE DEF h
<1>2. /\ a \in Seq(Entries) /\ Len(a) = Len(h) + 1 /\ a[Len(h) + 1] = e
      /\ \A j \in 1 .. Len(h) : a[j] = h[j]
  BY <1>1
<1> HIDE DEF a
<1>3. ASSUME NEW j \in 1 .. Len(a) PROVE a[j].seq = (next[w] + 1) - Len(a) + j - 1
  <2>1. Len(h) \in Nat
    BY <1>1
  <2>2. CASE j = Len(h) + 1
    BY <1>1, <1>2, <2>1, <2>2
  <2>3. CASE j # Len(h) + 1
    <3>1. j \in 1 .. Len(h)
      BY <1>2, <2>1, <2>3
    <3>2. a[j].seq = next[w] - Len(h) + j - 1
      BY <1>1, <1>2, <3>1
    <3>3. (next[w] + 1) - (Len(h) + 1) + j - 1 = next[w] - Len(h) + j - 1
      BY <1>1, <2>1, <3>1
    <3> QED BY <1>2, <3>2, <3>3
  <2> QED BY <2>2, <2>3
<1>4. CASE Len(a) > qos.depth
  <2>1. KeepLast(a) = Tail(a) /\ a # <<>>
    BY <1>1, <1>2, <1>4 DEF KeepLast
  <2>2. Len(Tail(a)) = Len(a) - 1 /\ \A j \in 1 .. Len(a) - 1 : Tail(a)[j] = a[j + 1]
    BY <1>2, <2>1
  <2>3. i \in 1 .. Len(a) - 1 /\ Len(a) \in Nat
    BY <1>2, <2>1, <2>2 DEF a, h
  <2>4. Tail(a)[i] = a[i + 1] /\ i + 1 \in 1 .. Len(a)
    BY <2>2, <2>3
  <2>5. a[i + 1].seq = (next[w] + 1) - Len(a) + (i + 1) - 1
    BY <1>3, <2>4
  <2>6. Tail(a)[i].seq = (next[w] + 1) - Len(Tail(a)) + i - 1
    BY <1>1, <2>2, <2>3, <2>4, <2>5
  <2> QED BY <2>1, <2>6 DEF a, h
<1>5. CASE ~(Len(a) > qos.depth)
  <2>1. KeepLast(a) = a
    BY <1>5 DEF KeepLast
  <2> QED BY <1>3, <2>1 DEF a, h
<1> QED BY <1>4, <1>5

LEMMA RangesNumbered ==
  ASSUME TransportInv, RangesInv, NEW w \in Writers, NEW r \in Readers,
         BuildBestEffortSample(w, r) \/ BuildReliableSample(w, r)
  PROVE  RangesInv'
<1>1. /\ next' = [next EXCEPT ![w] = @ + 1] /\ UNCHANGED <<qos, life>>
      /\ net' = net \cup {Data(w, r, ReaderId[r], next[w])}
      /\ next[w] <= qos.samples
  BY DEF BuildBestEffortSample, BuildReliableSample, Numbered
<1>2. /\ next \in [Writers -> Nat \ {0}] /\ next[w] \in Nat
      /\ history \in [Writers -> Seq(Entries)]
  BY WriterTypes
<1>3. next'[w] = next[w] + 1 /\ \A v \in Writers : v # w => next'[v] = next[v]
  BY <1>1, <1>2
<1>4. ASSUME NEW m \in net', IsRange(m) PROVE RangeOK(m)'
  <2>1. Data(w, r, ReaderId[r], next[w]).kind = "Data"
    BY DEF Data
  <2>2. m \in net
    BY <1>1, <1>4, <2>1 DEF IsRange
  <2>3. RangeOK(m)
    BY <1>4, <2>2 DEF RangesInv
  <2>4. next[m.writer] \in Nat
    BY <2>3, WriterTypes DEF RangeOK
  <2>5. m.writer \in Writers
    BY <2>3 DEF RangeOK
  <2>6. next'[m.writer] = next[m.writer] + 1 \/ next'[m.writer] = next[m.writer]
    BY <1>3, <2>5
  <2>7. next'[m.writer] \in Nat /\ next'[m.writer] >= next[m.writer]
    BY <2>4, <2>6
  <2> QED BY <1>1, <2>3, <2>4, <2>7 DEF RangeOK
<1>5. ASSUME NEW v \in Writers PROVE HistoryRuns(v)'
  <2>1. CASE BuildBestEffortSample(w, r)
    <3>1. history'[v] = <<>>
      BY <2>1 DEF BuildBestEffortSample, RangesInv, HistoryRuns
    <3> QED BY <3>1 DEF HistoryRuns
  <2>2. CASE BuildReliableSample(w, r)
    <3> DEFINE e == [seq |-> next[w], readerId |-> ReaderId[r]]
    <3>1. next[w] \in Numbers
      BY <1>1, <1>2, WriterTypes, ProfileAssumption DEF TransportInv, ReaderInv, WriterOK, Numbers
    <3>2. e \in Entries /\ e.seq = next[w]
      BY <3>1 DEF Entries
    <3>3. /\ qos.reliable
          /\ history' = [history EXCEPT ![w] = KeepLast(Append(@, e))]
      BY <2>2 DEF BuildReliableSample
    <3> HIDE DEF e
    <3>4. CASE v = w
      <4>1. history'[v] = KeepLast(Append(history[w], e))
        BY <1>2, <3>3, <3>4
      <4>2. HistoryRuns(w)
        BY DEF RangesInv
      <4>3. \A i \in 1 .. Len(history'[v]) :
              history'[v][i].seq = (next[w] + 1) - Len(history'[v]) + i - 1
        BY <3>2, <4>1, <4>2, KeepLastRuns
      <4> QED BY <1>1, <1>3, <3>3, <3>4, <4>3 DEF HistoryRuns
    <3>5. CASE v # w
      <4>1. history'[v] = history[v] /\ next'[v] = next[v] /\ HistoryRuns(v)
        BY <1>2, <1>3, <3>3, <3>5 DEF RangesInv
      <4> QED BY <1>1, <4>1 DEF HistoryRuns
    <3> QED BY <3>4, <3>5
  <2> QED BY <2>1, <2>2
<1> QED BY <1>4, <1>5 DEF RangesInv, IsRange

LEMMA RangesHeartbeat ==
  ASSUME TransportInv, RangesInv, NEW w \in Writers, NEW r \in Readers, BuildHeartbeat(w, r)
  PROVE  RangesInv'
<1> DEFINE h == history[w]
           n == Len(h)
           m == [kind |-> "Heartbeat", writer |-> w, life |-> life[w], to |-> r,
                 first |-> h[1].seq, last |-> h[n].seq]
<1>1. /\ net' = net \cup {m} /\ h # <<>>
      /\ UNCHANGED <<qos, life, next, history>>
  BY DEF BuildHeartbeat
<1>2. /\ h \in Seq(Entries) /\ next[w] \in Nat /\ life[w] \in Nat
      /\ \A j \in 1 .. n : h[j].seq = next[w] - n + j - 1
  BY WriterTypes DEF RangesInv, HistoryRuns
<1>3. n \in Nat /\ 1 \in 1 .. n /\ n \in 1 .. n
  BY <1>1, <1>2
<1>4. h[1].seq \in Numbers /\ h[n].seq \in Numbers
  BY <1>3, HistoryNumbers DEF TransportInv
<1>5. h[1].seq \in Nat /\ h[n].seq \in Nat /\ h[n].seq < next[w]
  <2>1. h[1].seq \in Nat /\ h[n].seq \in Nat
    BY <1>4 DEF Numbers
  <2>2. h[n].seq = next[w] - n + n - 1
    BY <1>2, <1>3
  <2>3. next[w] - n + n - 1 = next[w] - 1
    BY <1>2, <1>3
  <2> QED BY <1>2, <2>1, <2>2, <2>3
<1>6. RangeOK(m)
  BY <1>2, <1>5 DEF RangeOK
<1> QED BY <1>1, <1>6, RangesKept

LEMMA RangesRequest ==
  ASSUME TransportInv, RangesInv, NEW r \in Readers, NEW m \in net, BuildAckNack(r, m)
  PROVE  RangesInv'
<1> DEFINE a == [kind |-> "AckNack", writer |-> m.writer, life |-> m.life, from |-> r,
                 first |-> m.first, last |-> m.last,
                 missing |-> Missing(r, m.first, m.last)]
<1>1. /\ net' = net \cup {a} /\ m.kind = "Heartbeat"
      /\ UNCHANGED <<qos, life, next, history>>
  BY DEF BuildAckNack
<1>2. RangeOK(m)
  BY <1>1 DEF RangesInv, IsRange
<1>3. RangeOK(a)
  BY <1>2 DEF RangeOK, Missing
<1> QED BY <1>1, <1>3, RangesKept

LEMMA RangesRestart ==
  ASSUME TransportInv, RangesInv, NEW w \in Writers, WriterRestart(w)
  PROVE  RangesInv'
<1>1. /\ life' = [life EXCEPT ![w] = @ + 1] /\ next' = [next EXCEPT ![w] = 1]
      /\ history' = [history EXCEPT ![w] = <<>>] /\ UNCHANGED <<qos, net>>
  BY DEF WriterRestart
<1>2. /\ next \in [Writers -> Nat \ {0}] /\ life[w] \in Nat
      /\ history \in [Writers -> Seq(Entries)] /\ life \in [Writers -> 1 .. qos.lives]
  BY WriterTypes
<1>3. /\ history'[w] = <<>> /\ life'[w] = life[w] + 1
      /\ \A v \in Writers : v # w =>
           history'[v] = history[v] /\ next'[v] = next[v] /\ life'[v] = life[v]
  BY <1>1, <1>2
<1>4. ASSUME NEW v \in Writers PROVE HistoryRuns(v)'
  <2>1. CASE v = w
    BY <1>3, <2>1 DEF HistoryRuns
  <2>2. CASE v # w
    BY <1>1, <1>3, <2>2 DEF HistoryRuns, RangesInv
  <2> QED BY <2>1, <2>2
<1>5. ASSUME NEW m \in net', IsRange(m) PROVE RangeOK(m)'
  <2>1. RangeOK(m)
    BY <1>1, <1>5 DEF RangesInv
  <2>2. CASE m.writer = w
    <3>1. m.life \in Nat /\ m.life <= life[w] /\ life'[m.writer] = life[w] + 1
      BY <1>3, <2>1, <2>2 DEF RangeOK
    <3>2. m.life <= life'[m.writer] /\ m.life # life'[m.writer]
      BY <1>2, <3>1
    <3> QED BY <2>1, <3>2 DEF RangeOK
  <2>3. CASE m.writer # w
    BY <1>3, <2>1, <2>3 DEF RangeOK
  <2> QED BY <2>2, <2>3
<1> QED BY <1>4, <1>5 DEF RangesInv, IsRange

LEMMA RangesStep == TransportInv /\ RangesInv /\ [Next]_vars => RangesInv'
<1> SUFFICES ASSUME TransportInv, RangesInv, [Next]_vars PROVE RangesInv'
  OBVIOUS
<1>1. ASSUME NEW w \in Writers, NEW r \in Readers, Match(w, r) PROVE RangesInv'
  BY <1>1, RangesKept DEF Match
<1>2. ASSUME NEW w \in Writers, NEW r \in Readers, BuildHistoricalSamples(w, r)
      PROVE  RangesInv'
  <2>1. \A m \in net' \ net : m.kind = "Data"
    BY <1>2 DEF BuildHistoricalSamples, Data
  <2> QED BY <1>2, <2>1, RangesKept DEF BuildHistoricalSamples, IsRange
<1>3. ASSUME NEW w \in Writers, NEW m \in net, BuildRepairSamples(w, m) PROVE RangesInv'
  <2>1. \A n \in net' \ net : n.kind = "Data"
    BY <1>3 DEF BuildRepairSamples, Data
  <2> QED BY <1>3, <2>1, RangesKept DEF BuildRepairSamples, IsRange
<1>4. ASSUME NEW m \in net, NEW r \in Readers,
             AcceptBestEffortSample(r, m) \/ AcceptReliableSample(r, m)
      PROVE  RangesInv'
  BY <1>4, RangesKept DEF AcceptBestEffortSample, AcceptReliableSample, Takes
<1>5. ASSUME NEW r \in Readers, RemoveExpiredWriters(r) PROVE RangesInv'
  BY <1>5, RangesKept DEF RemoveExpiredWriters
<1>6. CASE UNCHANGED vars
  BY <1>6, RangesKept DEF vars
<1> QED
  BY <1>1, <1>2, <1>3, <1>4, <1>5, <1>6,
     RangesNumbered, RangesHeartbeat, RangesRequest, RangesRestart DEF Next

LEMMA RangesInvariant == Spec => []RangesInv
<1>1. Init => RangesInv
  BY DEF Init, RangesInv, HistoryRuns
<1> QED BY <1>1, RangesStep, TransportInvariant, PTL DEF Spec

(* A reader's request about a range whose first number the writer still     *)
(* holds is repaired, not refused (BuildAckNack and BuildRepairSamples).    *)
THEOREM RequestsServedCorrect == Spec => []CurrentRequestsServed
<1>1. TransportInv /\ RangesInv => CurrentRequestsServed
  <2> SUFFICES ASSUME TransportInv, RangesInv, NEW m \in net, m.kind = "AckNack",
                      m.life = life[m.writer], InHistory(m.writer, m.first), NEW s \in m.missing
               PROVE  InHistory(m.writer, s)
    BY DEF CurrentRequestsServed
  <2> DEFINE w == m.writer
             h == history[w]
  <2>1. /\ w \in Writers /\ m.first \in Nat /\ m.last \in Nat /\ m.last < next[w]
        /\ s \in m.first .. m.last
    BY DEF RangesInv, IsRange, RangeOK
  <2>2. next[w] \in Nat /\ Len(h) \in Nat /\ HistoryRuns(w)
    BY <2>1, WriterTypes DEF RangesInv
  <2>3. PICK i \in 1 .. Len(h) : h[i].seq = m.first
    BY DEF InHistory
  <2>4. m.first = next[w] - Len(h) + i - 1
    BY <2>2, <2>3 DEF HistoryRuns
  <2> DEFINE j == s - (next[w] - Len(h)) + 1
  <2>5. j \in 1 .. Len(h) /\ s = next[w] - Len(h) + j - 1
    BY <2>1, <2>2, <2>4, SMTT(40)
  <2> HIDE DEF j
  <2>6. h[j].seq = s
    BY <2>2, <2>5 DEF HistoryRuns
  <2> QED BY <2>5, <2>6 DEF InHistory
<1> QED BY <1>1, RangesInvariant, TransportInvariant, PTL

-----------------------------------------------------------------------------
(* The type of the transport: what the queues hold and in which bounds.     *)

Distinct(q) == \A i, j \in 1 .. Len(q) : q[i] = q[j] => i = j
Among(v, q) == \E i \in 1 .. Len(q) : q[i] = v

LEMMA RemoveFirstIs ==
  ASSUME NEW S, NEW q \in Seq(S), Distinct(q), NEW i \in 1 .. Len(q)
  PROVE  RemoveFirst(q, q[i]) = SubSeq(q, 1, i - 1) \o SubSeq(q, i + 1, Len(q))
<1> DEFINE I == {j \in 1 .. Len(q) : q[j] = q[i]}
<1>1. I = {i}
  BY DEF Distinct
<1>2. Len(q) \in Nat /\ i \in Int /\ i =< i
  OBVIOUS
<1>3. Min(I) = i
  BY <1>1, <1>2 DEF Min
<1>4. SelectInSeq(q, LAMBDA v : v = q[i]) = i
  BY <1>1, <1>3 DEF SelectInSeq
<1> QED BY <1>4 DEF RemoveFirst, RemoveAt

(* A sequence of distinct elements without one of them.                     *)
LEMMA RemovedOnce ==
  ASSUME NEW S, NEW q \in Seq(S), Distinct(q), NEW e \in S
  PROVE  /\ RemoveFirst(q, e) \in Seq(S) /\ Distinct(RemoveFirst(q, e))
         /\ \A v \in S : Among(v, RemoveFirst(q, e)) <=> v # e /\ Among(v, q)
<1>1. CASE ~Among(e, q)
  <2>1. RemoveFirst(q, e) = q
    BY <1>1 DEF Among, RemoveFirst
  <2> QED BY <1>1, <2>1 DEF Among
<1>2. CASE Among(e, q)
  <2>1. PICK i \in 1 .. Len(q) : q[i] = e
    BY <1>2 DEF Among
  <2> DEFINE n == Len(q)
             a == SubSeq(q, 1, i - 1)
             b == SubSeq(q, i + 1, n)
             t == RemoveFirst(q, e)
             from(j) == IF j < i THEN j ELSE j + 1
  <2>2. t = a \o b
    BY <2>1, RemoveFirstIs
  <2>3. n \in Nat /\ i \in Nat /\ 1 <= i /\ i <= n /\ \A j \in 1 .. n : q[j] \in S
    BY ElementOfSeq
  <2>4. /\ a \in Seq(S) /\ Len(a) = i - 1
        /\ \A j \in 1 .. i - 1 : a[j] = q[j]
    <3>1. \A j \in 1 .. i - 1 : q[j] \in S /\ 1 + j - 1 = j
      BY <2>3
    <3>2. /\ a \in Seq(S) /\ Len(a) = IF 1 <= i - 1 THEN i - 1 - 1 + 1 ELSE 0
          /\ \A j \in 1 .. i - 1 - 1 + 1 : a[j] = q[1 + j - 1]
      BY <2>3, <3>1, SubSeqProperties
    <3>3. i - 1 - 1 + 1 = i - 1 /\ (~(1 <= i - 1) => i - 1 = 0)
      BY <2>3
    <3> QED BY <3>1, <3>2, <3>3
  <2>5. /\ b \in Seq(S) /\ Len(b) = n - i
        /\ \A j \in 1 .. n - i : b[j] = q[i + j]
    <3>1. \A j \in i + 1 .. n : q[j] \in S
      BY <2>3
    <3>2. \A j \in 1 .. n - i : i + 1 + j - 1 = i + j
      BY <2>3
    <3>3. /\ b \in Seq(S) /\ Len(b) = IF i + 1 <= n THEN n - (i + 1) + 1 ELSE 0
          /\ \A j \in 1 .. n - (i + 1) + 1 : b[j] = q[i + 1 + j - 1]
      BY <2>3, <3>1, SubSeqProperties
    <3>4. n - (i + 1) + 1 = n - i /\ (~(i + 1 <= n) => n - i = 0)
      BY <2>3
    <3> QED BY <3>2, <3>3, <3>4
  <2> HIDE DEF a, b, t, n
  <2>6. /\ t \in Seq(S) /\ Len(t) = n - 1
        /\ \A j \in 1 .. n - 1 : t[j] = q[from(j)]
    <3>1. /\ t \in Seq(S) /\ Len(t) = i - 1 + (n - i)
          /\ \A j \in 1 .. i - 1 + (n - i) : t[j] = IF j <= i - 1 THEN a[j] ELSE b[j - (i - 1)]
      <4>1. /\ a \o b \in Seq(S) /\ Len(a \o b) = Len(a) + Len(b)
            /\ \A j \in 1 .. Len(a) + Len(b) :
                 (a \o b)[j] = IF j <= Len(a) THEN a[j] ELSE b[j - Len(a)]
        BY <2>4, <2>5, ConcatProperties
      <4>2. Len(a) = i - 1 /\ Len(b) = n - i
        BY <2>4, <2>5
      <4>3. /\ Len(a \o b) = i - 1 + (n - i)
            /\ \A j \in 1 .. i - 1 + (n - i) :
                 (a \o b)[j] = IF j <= i - 1 THEN a[j] ELSE b[j - (i - 1)]
        BY <4>1, <4>2
      <4> QED BY <2>2, <4>1, <4>3
    <3>2. i - 1 + (n - i) = n - 1
      BY <2>3
    <3>3. ASSUME NEW j \in 1 .. n - 1 PROVE t[j] = q[from(j)]
      <4>1. CASE j <= i - 1
        <5>1. j \in 1 .. i - 1 /\ j < i
          BY <2>3, <4>1
        <5> QED BY <2>4, <3>1, <3>2, <4>1, <5>1
      <4>2. CASE ~(j <= i - 1)
        <5>1. j - (i - 1) \in 1 .. n - i /\ ~(j < i) /\ i + (j - (i - 1)) = j + 1
          BY <2>3, <4>2
        <5> QED BY <2>5, <3>1, <3>2, <4>2, <5>1
      <4> QED BY <4>1, <4>2
    <3> QED BY <3>1, <3>2, <3>3
  <2>7. \A j \in 1 .. n - 1 : from(j) \in 1 .. n /\ from(j) # i
    BY <2>3
  <2>8. \A j, k \in 1 .. n - 1 : from(j) = from(k) => j = k
    BY <2>3
  <2>9. ASSUME NEW k \in 1 .. n, k # i PROVE \E j \in 1 .. n - 1 : from(j) = k
    <3>1. CASE k < i
      <4>1. k \in 1 .. n - 1 /\ from(k) = k
        BY <2>3, <3>1
      <4> QED BY <4>1
    <3>2. CASE ~(k < i)
      <4>1. k - 1 \in 1 .. n - 1 /\ from(k - 1) = k
        BY <2>3, <2>9, <3>2
      <4> QED BY <4>1
    <3> QED BY <3>1, <3>2
  <2> HIDE DEF from
  <2>10. \A j, k \in 1 .. n : q[j] = q[k] => j = k
    BY DEF Distinct, n
  <2>11. Distinct(t)
    BY <2>6, <2>7, <2>8, <2>10 DEF Distinct
  <2>12. ASSUME NEW v \in S PROVE Among(v, t) <=> v # e /\ Among(v, q)
    <3>1. ASSUME Among(v, t) PROVE v # e /\ Among(v, q)
      <4>1. PICK j \in 1 .. n - 1 : t[j] = v
        BY <2>6, <3>1 DEF Among
      <4>2. q[from(j)] = v /\ from(j) \in 1 .. n /\ from(j) # i
        BY <2>6, <2>7, <4>1
      <4>3. v # e
        BY <2>1, <2>10, <4>2 DEF n
      <4> QED BY <4>2, <4>3 DEF Among, n
    <3>2. ASSUME v # e, Among(v, q) PROVE Among(v, t)
      <4>1. PICK k \in 1 .. n : q[k] = v
        BY <3>2 DEF Among, n
      <4>2. PICK j \in 1 .. n - 1 : from(j) = k
        BY <2>1, <2>9, <3>2, <4>1
      <4> QED BY <2>6, <4>1, <4>2 DEF Among
    <3> QED BY <3>1, <3>2
  <2> QED BY <2>6, <2>11, <2>12 DEF t
<1> QED BY <1>1, <1>2

(* The same with that one put at the end.                                   *)
LEMMA MovedToEnd ==
  ASSUME NEW S, NEW q \in Seq(S), Distinct(q), NEW e \in S
  PROVE  /\ Append(RemoveFirst(q, e), e) \in Seq(S) /\ Distinct(Append(RemoveFirst(q, e), e))
         /\ \A v \in S : Among(v, Append(RemoveFirst(q, e), e)) <=> v = e \/ Among(v, q)
<1> DEFINE t == RemoveFirst(q, e)
           u == Append(t, e)
           n == Len(t)
<1>1. t \in Seq(S) /\ Distinct(t) /\ \A v \in S : Among(v, t) <=> v # e /\ Among(v, q)
  BY RemovedOnce
<1> HIDE DEF t
<1>2. n \in Nat
  BY <1>1
<1>3. /\ u \in Seq(S) /\ Len(u) = n + 1 /\ u[n + 1] = e
      /\ \A j \in 1 .. n : u[j] = t[j]
  BY <1>1, AppendProperties
<1>4. \A j \in 1 .. n : t[j] # e
  BY <1>1 DEF Among
<1>5. \A j, k \in 1 .. n : t[j] = t[k] => j = k
  BY <1>1 DEF Distinct
<1>6. \A j \in 1 .. n + 1 : j \in 1 .. n \/ j = n + 1
  BY <1>2
<1> HIDE DEF u, n
<1>7. Distinct(u)
  BY <1>3, <1>4, <1>5, <1>6 DEF Distinct
<1>8. ASSUME NEW v \in S PROVE Among(v, u) <=> v = e \/ Among(v, q)
  <2>1. n + 1 \in 1 .. n + 1 /\ \A j \in 1 .. n : j \in 1 .. n + 1
    BY <1>2
  <2>2. Among(v, u) <=> v = e \/ Among(v, t)
    BY <1>3, <1>6, <2>1 DEF Among, n
  <2> QED BY <1>1, <2>2
<1> QED BY <1>3, <1>7, <1>8 DEF u, t

(* Without its first ones, a sequence keeps the rest.                       *)
LEMMA DroppedFirst ==
  ASSUME NEW S, NEW q \in Seq(S), Distinct(q), NEW n \in 1 .. Len(q)
  PROVE  /\ SubSeq(q, n + 1, Len(q)) \in Seq(S) /\ Distinct(SubSeq(q, n + 1, Len(q)))
         /\ \A v \in S : Among(v, SubSeq(q, n + 1, Len(q))) <=>
                           Among(v, q) /\ v \notin {q[i] : i \in 1 .. n}
<1> DEFINE m == Len(q)
           t == SubSeq(q, n + 1, m)
<1>1. m \in Nat /\ n \in Nat /\ n <= m /\ \A j \in n + 1 .. m : q[j] \in S
  BY ElementOfSeq
<1>2. t \in Seq(S) /\ Len(t) = m - n /\ \A j \in 1 .. m - n : t[j] = q[n + j]
  <2>1. /\ t \in Seq(S) /\ Len(t) = IF n + 1 <= m THEN m - (n + 1) + 1 ELSE 0
        /\ \A j \in 1 .. m - (n + 1) + 1 : t[j] = q[n + 1 + j - 1]
    BY <1>1, SubSeqProperties
  <2>2. m - (n + 1) + 1 = m - n /\ (~(n + 1 <= m) => m - n = 0)
    BY <1>1
  <2>3. \A j \in 1 .. m - n : n + 1 + j - 1 = n + j
    BY <1>1
  <2> QED BY <2>1, <2>2, <2>3
<1>3. \A j, k \in 1 .. m : q[j] = q[k] => j = k
  BY DEF Distinct
<1> HIDE DEF t
<1>4. \A j \in 1 .. m - n : n + j \in 1 .. m /\ n + j \notin 1 .. n
  BY <1>1
<1>5. Distinct(t)
  <2> SUFFICES ASSUME NEW j \in 1 .. m - n, NEW k \in 1 .. m - n, t[j] = t[k] PROVE j = k
    BY <1>2 DEF Distinct
  <2>1. q[n + j] = q[n + k]
    BY <1>2
  <2>2. n + j = n + k
    BY <1>3, <1>4, <2>1
  <2> QED BY <1>1, <2>2
<1>6. ASSUME NEW v \in S PROVE Among(v, t) <=> Among(v, q) /\ v \notin {q[i] : i \in 1 .. n}
  <2>0. \A i \in 1 .. n : i \in 1 .. m
    BY <1>1
  <2>1. ASSUME Among(v, t) PROVE Among(v, q) /\ v \notin {q[i] : i \in 1 .. n}
    <3>1. PICK j \in 1 .. m - n : q[n + j] = v
      BY <1>2, <2>1 DEF Among
    <3> QED BY <1>3, <1>4, <2>0, <3>1 DEF Among
  <2>2. ASSUME Among(v, q), v \notin {q[i] : i \in 1 .. n} PROVE Among(v, t)
    <3>1. PICK k \in 1 .. m : q[k] = v
      BY <2>2 DEF Among
    <3>2. k \notin 1 .. n
      BY <2>2, <3>1
    <3>3. k - n \in 1 .. m - n /\ n + (k - n) = k
      BY <1>1, <3>2
    <3> QED BY <1>2, <3>1, <3>3 DEF Among
  <2> QED BY <2>1, <2>2
<1> QED BY <1>2, <1>5, <1>6 DEF t

(* What a writer keeps stays within the bounds of the topic, ...            *)
WriterBounds ==
  /\ matched \subseteq qos.peers
  /\ \A w \in Writers : next[w] <= qos.samples + 1 /\ Len(history[w]) <= qos.depth

(* ... and a reader's order of writers lists exactly those it has a state   *)
(* of, each once: the numbers without state are 0.                          *)
OrderOK(r) ==
  /\ heard[r] \in Seq(Writers) /\ Distinct(heard[r])
  /\ \A w \in Writers : Known(r, w) <=> Among(w, heard[r])

ReaderBounds ==
  /\ DOMAIN heard = Readers /\ \A r \in Readers : OrderOK(r)
  /\ \A r \in Readers, w \in Writers : lastSeq[r][w] <= qos.samples
  /\ lapsed \in [Readers -> SUBSET Writers]

LEMMA InitBounds == Init => WriterBounds /\ ReaderBounds
<1> SUFFICES ASSUME Init PROVE WriterBounds /\ ReaderBounds
  OBVIOUS
<1>1. qos.depth \in Nat /\ qos.samples \in Nat
  BY ProfileAssumption DEF Init
<1>2. WriterBounds
  BY <1>1 DEF Init, WriterBounds
<1>3. \A r \in Readers : OrderOK(r)
  BY DEF Init, OrderOK, Distinct, Among, Known
<1> QED BY <1>1, <1>2, <1>3 DEF Init, ReaderBounds

LEMMA NumberedBounds ==
  ASSUME TransportInv, WriterBounds, NEW w \in Writers, NEW r \in Readers,
         BuildBestEffortSample(w, r) \/ BuildReliableSample(w, r)
  PROVE  WriterBounds'
<1>1. /\ next' = [next EXCEPT ![w] = @ + 1] /\ UNCHANGED <<qos, matched>>
      /\ next[w] <= qos.samples
  BY DEF BuildBestEffortSample, BuildReliableSample, Numbered
<1>2. qos.samples \in Nat
  BY ProfileAssumption DEF TransportInv, ReaderInv, WriterOK
<1>3. ASSUME NEW v \in Writers PROVE next'[v] <= qos.samples + 1
  <2>1. next'[v] = IF v = w THEN next[w] + 1 ELSE next[v]
    BY <1>1, WriterTypes
  <2> QED BY <1>1, <1>2, <2>1, WriterTypes DEF WriterBounds
<1>4. ASSUME NEW v \in Writers PROVE Len(history'[v]) <= qos.depth
  <2>1. CASE history'[v] = history[v]
    BY <2>1 DEF WriterBounds
  <2>2. CASE history'[v] # history[v]
    <3> DEFINE e == [seq |-> next[w], readerId |-> ReaderId[r]]
               a == Append(history[w], e)
    <3>1. history' = [history EXCEPT ![w] = KeepLast(a)]
      BY <2>2 DEF BuildBestEffortSample, BuildReliableSample
    <3>2. v = w /\ history'[v] = KeepLast(a)
      BY <2>2, <3>1, WriterTypes
    <3>3. next[w] \in Numbers
      BY <1>1, <1>2, WriterTypes DEF Numbers
    <3>4. e \in Entries
      BY <3>3 DEF Entries
    <3> HIDE DEF e
    <3>5. a \in Seq(Entries) /\ a # <<>> /\ Len(a) = Len(history[w]) + 1
      <4>1. history[w] \in Seq(Entries)
        BY WriterTypes
      <4> QED BY <3>4, <4>1, AppendProperties
    <3> HIDE DEF a
    <3>6. Len(Tail(a)) = Len(a) - 1
      BY <3>5
    <3>7. Len(history[w]) \in Nat /\ Len(history[w]) <= qos.depth /\ qos.depth \in Nat
      BY WriterTypes DEF WriterBounds
    <3> QED BY <3>2, <3>5, <3>6, <3>7 DEF KeepLast
  <2> QED BY <2>1, <2>2
<1> QED BY <1>1, <1>3, <1>4 DEF WriterBounds

LEMMA RestartBounds ==
  ASSUME TransportInv, WriterBounds, NEW w \in Writers, WriterRestart(w)
  PROVE  WriterBounds'
<1>1. /\ next' = [next EXCEPT ![w] = 1] /\ history' = [history EXCEPT ![w] = <<>>]
      /\ qos' = qos /\ matched' \subseteq matched
  BY DEF WriterRestart
<1>2. qos.samples \in Nat /\ qos.depth \in Nat
  BY ProfileAssumption DEF TransportInv, ReaderInv, WriterOK
<1>3. ASSUME NEW v \in Writers
      PROVE  next'[v] <= qos.samples + 1 /\ Len(history'[v]) <= qos.depth
  <2>1. CASE v = w
    <3>1. next'[v] = 1 /\ history'[v] = <<>>
      BY <1>1, <2>1, WriterTypes
    <3> QED BY <1>2, <3>1
  <2>2. CASE v # w
    <3>1. next'[v] = next[v] /\ history'[v] = history[v]
      BY <1>1, <2>2, WriterTypes
    <3> QED BY <3>1 DEF WriterBounds
  <2> QED BY <2>1, <2>2
<1> QED BY <1>1, <1>3 DEF WriterBounds

LEMMA WriterBoundsStep == TransportInv /\ WriterBounds /\ [Next]_vars => WriterBounds'
<1> SUFFICES ASSUME TransportInv, WriterBounds, [Next]_vars PROVE WriterBounds'
  OBVIOUS
<1>1. CASE UNCHANGED <<qos, matched, next, history>>
  BY <1>1 DEF WriterBounds
<1>2. ASSUME NEW w \in Writers, NEW r \in Readers, Match(w, r) PROVE WriterBounds'
  BY <1>2 DEF Match, WriterBounds
<1>3. ASSUME NEW w \in Writers, NEW r \in Readers,
             BuildHeartbeat(w, r) \/ BuildHistoricalSamples(w, r)
      PROVE  WriterBounds'
  BY <1>1, <1>3 DEF BuildHeartbeat, BuildHistoricalSamples
<1>4. ASSUME NEW w \in Writers, NEW m \in net, BuildRepairSamples(w, m) PROVE WriterBounds'
  BY <1>1, <1>4 DEF BuildRepairSamples
<1>5. ASSUME NEW m \in net, NEW r \in Readers,
             \/ AcceptBestEffortSample(r, m) \/ AcceptReliableSample(r, m)
             \/ BuildAckNack(r, m)
      PROVE  WriterBounds'
  BY <1>1, <1>5 DEF AcceptBestEffortSample, AcceptReliableSample, Takes, BuildAckNack
<1>6. ASSUME NEW r \in Readers, RemoveExpiredWriters(r) PROVE WriterBounds'
  BY <1>1, <1>6 DEF RemoveExpiredWriters
<1>7. CASE UNCHANGED vars
  BY <1>1, <1>7 DEF vars
<1> QED BY <1>2, <1>3, <1>4, <1>5, <1>6, <1>7, NumberedBounds, RestartBounds DEF Next

(* Taking a sample puts its writer at the end of the order and gives it a   *)
(* number, which only grows.                                                *)
LEMMA AcceptBounds ==
  ASSUME TransportInv, ReaderBounds, NEW r \in Readers, NEW m \in net,
         AcceptBestEffortSample(r, m) \/ AcceptReliableSample(r, m)
  PROVE  ReaderBounds'
<1> DEFINE v == m.writer
           old == lastSeq[r][v]
           new == lastSeq'[r][v]
<1>1. Takes(r, m)
  BY DEF AcceptBestEffortSample, AcceptReliableSample
<1>2. v \in Writers /\ m.seq \in Numbers
  BY <1>1, TakenCount DEF TransportInv, SampleOf, Samples
<1>3. /\ heard' = [heard EXCEPT ![r] = Append(RemoveFirst(@, v), v)]
      /\ UNCHANGED <<qos, lapsed>>
  BY <1>1 DEF Takes
<1>4. lastSeq \in [Readers -> [Writers -> Nat]] /\ qos.samples \in Nat
  BY ProfileAssumption DEF TransportInv, ReaderInv, ReaderOK, WriterOK
<1>5. /\ new = m.seq \/ (new = IF m.seq > old THEN m.seq ELSE old)
      /\ \A q \in Readers, w \in Writers : q # r \/ w # v => lastSeq'[q][w] = lastSeq[q][w]
  <2>1. CASE AcceptBestEffortSample(r, m)
    BY <1>2, <1>4, <2>1 DEF AcceptBestEffortSample
  <2>2. CASE AcceptReliableSample(r, m)
    BY <1>2, <1>4, <2>2 DEF AcceptReliableSample
  <2> QED BY <2>1, <2>2
<1>6. old \in Nat /\ old <= qos.samples /\ m.seq \in 1 .. qos.samples
  BY <1>2, <1>4 DEF ReaderBounds, Numbers
<1>7. new # 0 /\ new <= qos.samples
  BY <1>4, <1>5, <1>6
<1> HIDE DEF v
<1>8. OrderOK(r)'
  <2>1. heard'[r] = Append(RemoveFirst(heard[r], v), v)
    BY <1>3 DEF ReaderBounds
  <2>2. /\ heard[r] \in Seq(Writers) /\ Distinct(heard[r])
        /\ \A w \in Writers : lastSeq[r][w] # 0 <=> Among(w, heard[r])
    BY DEF ReaderBounds, OrderOK, Known
  <2>3. /\ heard'[r] \in Seq(Writers) /\ Distinct(heard'[r])
        /\ \A w \in Writers : Among(w, heard'[r]) <=> w = v \/ Among(w, heard[r])
    BY <1>2, <2>1, <2>2, MovedToEnd
  <2>4. \A w \in Writers : lastSeq'[r][w] # 0 <=> w = v \/ Among(w, heard[r])
    BY <1>5, <1>7, <2>2
  <2>5. \A w \in Writers : lastSeq'[r][w] # 0 <=> Among(w, heard'[r])
    BY <2>3, <2>4
  <2> QED BY <2>3, <2>5 DEF OrderOK, Known, Distinct, Among
<1>9. ASSUME NEW q \in Readers, q # r PROVE OrderOK(q)'
  <2>1. heard'[q] = heard[q] /\ \A w \in Writers : lastSeq'[q][w] = lastSeq[q][w]
    BY <1>3, <1>5, <1>9 DEF ReaderBounds
  <2> QED BY <2>1 DEF ReaderBounds, OrderOK, Known, Distinct, Among
<1>10. \A q \in Readers, w \in Writers : lastSeq'[q][w] <= qos.samples
  BY <1>5, <1>7 DEF ReaderBounds
<1> QED BY <1>3, <1>8, <1>9, <1>10 DEF ReaderBounds

(* Those removed are the first ones in the order.                           *)
LEMMA ExpiryBounds ==
  ASSUME TransportInv, ReaderBounds, NEW r \in Readers, RemoveExpiredWriters(r)
  PROVE  ReaderBounds'
<1>1. /\ lastSeq \in [Readers -> [Writers -> Nat]] /\ qos.samples \in Nat /\ UNCHANGED qos
      /\ heard[r] \in Seq(Writers) /\ Distinct(heard[r])
      /\ \A w \in Writers : lastSeq[r][w] # 0 <=> Among(w, heard[r])
  BY ProfileAssumption
  DEF TransportInv, ReaderInv, ReaderOK, WriterOK, ReaderBounds, OrderOK, Known,
      RemoveExpiredWriters
<1>2. PICK n \in 1 .. Len(heard[r]) : RemoveExpiredWriterStates(r, n)
  BY DEF RemoveExpiredWriters
<1> DEFINE gone == {heard[r][i] : i \in 1 .. n}
<1>3. /\ heard' = [heard EXCEPT ![r] = SubSeq(@, n + 1, Len(@))]
      /\ lastSeq' = [lastSeq EXCEPT ![r] = [w \in Writers |-> IF w \in gone THEN 0 ELSE @[w]]]
      /\ lapsed' = [lapsed EXCEPT ![r] = @ \cup gone]
  BY <1>2 DEF RemoveExpiredWriterStates
<1>4. gone \subseteq Writers
  <2>1. \A i \in 1 .. n : i \in 1 .. Len(heard[r])
    BY <1>1
  <2> QED BY <1>1, <2>1
<1>5. /\ heard'[r] \in Seq(Writers) /\ Distinct(heard'[r])
      /\ \A w \in Writers : Among(w, heard'[r]) <=> Among(w, heard[r]) /\ w \notin gone
  <2>1. heard'[r] = SubSeq(heard[r], n + 1, Len(heard[r]))
    BY <1>3 DEF ReaderBounds
  <2>2. heard[r] \in Seq(Writers) /\ Distinct(heard[r])
    BY <1>1
  <2>3. /\ SubSeq(heard[r], n + 1, Len(heard[r])) \in Seq(Writers)
        /\ Distinct(SubSeq(heard[r], n + 1, Len(heard[r])))
        /\ \A w \in Writers : Among(w, SubSeq(heard[r], n + 1, Len(heard[r]))) <=>
                                Among(w, heard[r]) /\ w \notin gone
    BY <2>2, DroppedFirst
  <2> QED BY <2>1, <2>3
<1> HIDE DEF gone
<1>6. \A q \in Readers, w \in Writers :
        lastSeq'[q][w] = IF q = r /\ w \in gone THEN 0 ELSE lastSeq[q][w]
  BY <1>1, <1>3
<1>7. OrderOK(r)'
  <2>1. \A w \in Writers : lastSeq'[r][w] # 0 <=> lastSeq[r][w] # 0 /\ w \notin gone
    BY <1>6
  <2>2. \A w \in Writers : lastSeq'[r][w] # 0 <=> Among(w, heard'[r])
    BY <1>1, <1>5, <2>1
  <2> QED BY <1>5, <2>2 DEF OrderOK, Known, Distinct, Among
<1>8. ASSUME NEW q \in Readers, q # r PROVE OrderOK(q)'
  <2>1. heard'[q] = heard[q] /\ \A w \in Writers : lastSeq'[q][w] = lastSeq[q][w]
    BY <1>3, <1>6, <1>8 DEF ReaderBounds
  <2>2. OrderOK(q)
    BY DEF ReaderBounds
  <2> QED BY <2>1, <2>2 DEF OrderOK, Known, Distinct, Among
<1>9. \A q \in Readers, w \in Writers : lastSeq'[q][w] <= qos.samples
  <2>1. \A q \in Readers, w \in Writers : lastSeq[q][w] <= qos.samples
    BY DEF ReaderBounds
  <2>2. 0 <= qos.samples
    BY <1>1
  <2> QED BY <1>6, <2>1, <2>2
<1> QED BY <1>1, <1>3, <1>4, <1>7, <1>8, <1>9 DEF ReaderBounds

LEMMA ReaderBoundsStep == TransportInv /\ ReaderBounds /\ [Next]_vars => ReaderBounds'
<1> SUFFICES ASSUME TransportInv, ReaderBounds, [Next]_vars PROVE ReaderBounds'
  OBVIOUS
<1>1. CASE UNCHANGED <<qos, heard, lastSeq, lapsed>>
  BY <1>1 DEF ReaderBounds, OrderOK, Known, Distinct, Among
<1>2. ASSUME NEW w \in Writers, NEW r \in Readers,
             \/ Match(w, r) \/ BuildBestEffortSample(w, r) \/ BuildReliableSample(w, r)
             \/ BuildHeartbeat(w, r) \/ BuildHistoricalSamples(w, r)
      PROVE  ReaderBounds'
  BY <1>1, <1>2 DEF Match, BuildBestEffortSample, BuildReliableSample, Numbered,
                    BuildHeartbeat, BuildHistoricalSamples, readerVars
<1>3. ASSUME NEW w \in Writers, WriterRestart(w) PROVE ReaderBounds'
  BY <1>1, <1>3 DEF WriterRestart, readerVars
<1>4. ASSUME NEW w \in Writers, NEW m \in net, BuildRepairSamples(w, m) PROVE ReaderBounds'
  BY <1>1, <1>4 DEF BuildRepairSamples, readerVars
<1>5. ASSUME NEW m \in net, NEW r \in Readers, BuildAckNack(r, m) PROVE ReaderBounds'
  BY <1>1, <1>5 DEF BuildAckNack, readerVars
<1>6. CASE UNCHANGED vars
  BY <1>1, <1>6 DEF vars
<1> QED BY <1>2, <1>3, <1>4, <1>5, <1>6, AcceptBounds, ExpiryBounds DEF Next

(* What writers and readers keep has its type and its bounds: a writer keeps *)
(* no more samples than the depth of its history, and a reader's order of   *)
(* writers is that of the writers it has a state of (RemoveExpiredWriters). *)
THEOREM TransportTypeCorrect == Spec => []TypeOK
<1>1. Spec => [](WriterBounds /\ ReaderBounds)
  <2>1. Spec => []WriterBounds
    BY InitBounds, WriterBoundsStep, TransportInvariant, PTL DEF Spec
  <2>2. Spec => []ReaderBounds
    BY InitBounds, ReaderBoundsStep, TransportInvariant, PTL DEF Spec
  <2> QED BY <2>1, <2>2, PTL
<1>2. TransportInv /\ RangesInv /\ WriterBounds /\ ReaderBounds => TypeOK
  <2> SUFFICES ASSUME TransportInv, RangesInv, WriterBounds, ReaderBounds PROVE TypeOK
    OBVIOUS
  <2>1. qos.samples \in Nat
    BY ProfileAssumption DEF TransportInv, ReaderInv, WriterOK
  <2>2. next \in [Writers -> 1 .. qos.samples + 1]
    BY <2>1, WriterTypes DEF TransportInv, ReaderInv, WriterOK, WriterBounds
  <2>3. lastSeq \in [Readers -> [Writers -> 0 .. qos.samples]]
    <3>1. lastSeq \in [Readers -> [Writers -> Nat]]
      BY DEF TransportInv, ReaderInv, ReaderOK
    <3>2. \A r \in Readers, w \in Writers : lastSeq[r][w] \in 0 .. qos.samples
      BY <2>1, <3>1 DEF ReaderBounds
    <3> QED BY <3>1, <3>2
  <2>4. ASSUME NEW w \in Writers, NEW s \in Numbers, InHistory(w, s) PROVE s < next[w]
    <3>1. PICK i \in 1 .. Len(history[w]) : history[w][i].seq = s
      BY <2>4 DEF InHistory
    <3>2. s = next[w] - Len(history[w]) + i - 1
      BY <3>1 DEF RangesInv, HistoryRuns
    <3>3. next[w] \in Nat /\ Len(history[w]) \in Nat
      BY WriterTypes
    <3> QED BY <3>1, <3>2, <3>3
  <2>5. ASSUME NEW r \in Readers
        PROVE  {heard[r][i] : i \in 1 .. Len(heard[r])} = {w \in Writers : Known(r, w)}
    <3>1. /\ \A i \in 1 .. Len(heard[r]) : heard[r][i] \in Writers
          /\ \A w \in Writers : Known(r, w) <=> \E i \in 1 .. Len(heard[r]) : heard[r][i] = w
      BY DEF ReaderBounds, OrderOK, Among
    <3> HIDE DEF Known
    <3> QED BY <3>1
  <2> QED BY <2>2, <2>3, <2>4, <2>5
          DEF TypeOK, TransportInv, ReaderInv, WriterOK, ReaderOK, WriterBounds, ReaderBounds
<1>3. Spec => []RangesInv
  BY RangesInvariant
<1> QED BY <1>1, <1>2, <1>3, TransportInvariant, PTL

-----------------------------------------------------------------------------
(* The discovery cache.                                                      *)

(* What is on its way is not older than Delay, and an endpoint's numbers     *)
(* grow with time within a life.                                             *)
Timed ==
  /\ \A a \in announcements :
       /\ a.sent <= discoveryClock /\ discoveryClock - a.sent <= Delay
       /\ a.number <= sedpSequence[a.endpoint]
  /\ \A a, b \in announcements :
       a.endpoint = b.endpoint /\ a.number > b.number => a.sent >= b.sent

(* What was made before the announcement taken last would be refused.        *)
OldIsRefused ==
  \A a \in announcements :
    \/ a.sent >= newestSent[a.endpoint]
    \/ cache[a.endpoint] # NoEndpoint /\ a.number <= cache[a.endpoint].number

(* An entry is refreshed by the announcement it is taken from only.          *)
SeenOnce ==
  \A e \in Announced :
    /\ newestSent[e] <= discoveryClock
    /\ cache[e] # NoEndpoint =>
         /\ newestSent[e] <= cache[e].seen /\ cache[e].seen <= discoveryClock
         /\ refusedSince[e] # 0 => cache[e].seen <= refusedSince[e]

DiscoveryInv == DiscoveryTypeOK /\ Timed /\ OldIsRefused /\ SeenOnce

LEMMA InitDiscovery == DiscoveryInit => DiscoveryInv
  BY DEF DiscoveryInit, DiscoveryInv, DiscoveryTypeOK, Timed, OldIsRefused, SeenOnce

LEMMA TickDiscovery ==
  ASSUME DiscoveryInv, DiscoveryTick
  PROVE  DiscoveryInv'
<1>1. /\ discoveryClock' = discoveryClock + 1
      /\ announcements' = {a \in announcements : discoveryClock + 1 - a.sent <= Delay}
      /\ UNCHANGED <<lives, sedpSequence, contents, cache, newestSent, refusedSince>>
  BY DEF DiscoveryTick
<1>2. DiscoveryTypeOK'
  BY <1>1 DEF DiscoveryInv, DiscoveryTypeOK
<1>3. Timed'
  BY <1>1, DiscoveryAssumption DEF DiscoveryInv, DiscoveryTypeOK, Timed
<1>4. OldIsRefused'
  BY <1>1 DEF DiscoveryInv, OldIsRefused
<1>5. SeenOnce'
  BY <1>1, NoEndpointAssumption DEF DiscoveryInv, DiscoveryTypeOK, Discovered, SeenOnce
<1> QED BY <1>2, <1>3, <1>4, <1>5 DEF DiscoveryInv

LEMMA AnnounceDiscovery ==
  ASSUME DiscoveryInv, NEW e \in Announced, Announce(e)
  PROVE  DiscoveryInv'
<1> DEFINE b == [endpoint |-> e, content |-> contents[e], number |-> sedpSequence[e] + 1,
                 life |-> lives[e.participant], sent |-> discoveryClock]
<1>1. /\ sedpSequence' = [sedpSequence EXCEPT ![e] = @ + 1]
      /\ announcements' = announcements \cup {b}
      /\ UNCHANGED <<discoveryClock, lives, contents, cache, newestSent, refusedSince>>
  BY DEF Announce, Announcement
<1>2. e.participant \in Participants
  BY DEF Participants
<1>3. /\ b \in [endpoint : Announced, content : Contents, number : Nat, life : Nat, sent : Nat]
      /\ b.endpoint = e /\ b.sent = discoveryClock /\ b.number = sedpSequence[e] + 1
  BY <1>2 DEF DiscoveryInv, DiscoveryTypeOK
<1> HIDE DEF b
<1>4. DiscoveryTypeOK'
  BY <1>1, <1>3 DEF DiscoveryInv, DiscoveryTypeOK
<1>5. Timed'
  <2>1. \A a \in announcements' :
          /\ a.sent <= discoveryClock /\ discoveryClock - a.sent <= Delay
          /\ a.number <= sedpSequence'[a.endpoint]
    BY <1>1, <1>3, DiscoveryAssumption DEF DiscoveryInv, DiscoveryTypeOK, Timed
  <2>2. \A a \in announcements : a.endpoint = e => a.number < b.number /\ a.sent <= b.sent
    BY <1>3 DEF DiscoveryInv, DiscoveryTypeOK, Timed
  <2>3. \A a \in announcements, c \in announcements :
          a.endpoint = c.endpoint /\ a.number > c.number => a.sent >= c.sent
    BY DEF DiscoveryInv, Timed
  <2>4. \A a \in announcements : a.number \in Nat /\ a.sent \in Nat
    BY DEF DiscoveryInv, DiscoveryTypeOK
  <2>5. \A a, c \in announcements' :
          a.endpoint = c.endpoint /\ a.number > c.number => a.sent >= c.sent
    BY <1>1, <1>3, <2>2, <2>3, <2>4
  <2> QED BY <1>1, <2>1, <2>5 DEF Timed
<1>6. OldIsRefused'
  BY <1>1, <1>3 DEF DiscoveryInv, OldIsRefused, SeenOnce
<1>7. SeenOnce'
  BY <1>1 DEF DiscoveryInv, SeenOnce
<1> QED BY <1>4, <1>5, <1>6, <1>7 DEF DiscoveryInv

LEMMA RestartDiscovery ==
  ASSUME DiscoveryInv, NEW p \in Participants, ParticipantRestarts(p)
  PROVE  DiscoveryInv'
<1>1. /\ lives' = [lives EXCEPT ![p] = @ + 1]
      /\ sedpSequence' = [e \in Announced |-> IF e.participant = p THEN 0 ELSE sedpSequence[e]]
      /\ contents' \in [Announced -> Contents]
      /\ announcements' = {a \in announcements : a.endpoint.participant # p}
      /\ refusedSince' = [e \in Announced |-> IF e.participant = p THEN 0 ELSE refusedSince[e]]
      /\ UNCHANGED <<discoveryClock, cache, newestSent>>
  BY DEF ParticipantRestarts
<1>2. DiscoveryTypeOK'
  BY <1>1 DEF DiscoveryInv, DiscoveryTypeOK
<1>3. Timed'
  BY <1>1 DEF DiscoveryInv, DiscoveryTypeOK, Timed
<1>4. OldIsRefused'
  BY <1>1 DEF DiscoveryInv, OldIsRefused
<1>5. SeenOnce'
  BY <1>1 DEF DiscoveryInv, SeenOnce
<1> QED BY <1>2, <1>3, <1>4, <1>5 DEF DiscoveryInv

(* A refusal changes nothing; what is taken is newer than all that was.      *)
LEMMA ObserveDiscovery ==
  ASSUME DiscoveryInv, NEW role \in Roles, NEW a \in announcements, ObserveEndpointDiscovery(role, a)
  PROVE  DiscoveryInv' /\ \A e \in Announced : newestSent'[e] >= newestSent[e]
<1>1. /\ UNCHANGED <<discoveryClock, lives, sedpSequence, contents, announcements>>
      /\ a.endpoint \in Announced /\ a.number \in Nat /\ a.sent \in Nat /\ a.life \in Nat
      /\ a.content \in Contents
      /\ discoveryClock \in Nat
  BY DEF ObserveEndpointDiscovery, DiscoveryInv, DiscoveryTypeOK
<1>2. Timed'
  BY <1>1 DEF DiscoveryInv, Timed
<1>3. CASE IsStaleAnnouncement(a)
  <2>1. /\ cache' = cache /\ newestSent' = newestSent
        /\ refusedSince' = [refusedSince EXCEPT ![a.endpoint] =
             IF @ = 0 /\ cache[a.endpoint].life # a.life THEN discoveryClock ELSE @]
    BY <1>3 DEF ObserveEndpointDiscovery, AfterRefusal
  <2>2. DiscoveryTypeOK'
    BY <1>1, <2>1 DEF DiscoveryInv, DiscoveryTypeOK
  <2>3. OldIsRefused'
    BY <1>1, <2>1 DEF DiscoveryInv, OldIsRefused
  <2>4. SeenOnce'
    BY <1>1, <2>1 DEF DiscoveryInv, DiscoveryTypeOK, SeenOnce
  <2> QED BY <1>2, <2>1, <2>2, <2>3, <2>4 DEF DiscoveryInv, DiscoveryTypeOK
<1>4. CASE ~IsStaleAnnouncement(a)
  <2> DEFINE entry == [content |-> a.content, number |-> a.number, life |-> a.life,
                       seen |-> discoveryClock]
  <2>1. /\ cache' = [cache EXCEPT ![a.endpoint] = entry]
        /\ newestSent' = [newestSent EXCEPT ![a.endpoint] = a.sent]
        /\ refusedSince' = [refusedSince EXCEPT ![a.endpoint] = 0]
    BY <1>4 DEF ObserveEndpointDiscovery
  <2>2. /\ entry \in Discovered /\ entry # NoEndpoint
        /\ entry.number = a.number /\ entry.seen = discoveryClock
    BY <1>1, NoEndpointAssumption DEF Discovered
  <2> HIDE DEF entry
  <2>3. DiscoveryTypeOK'
    BY <1>1, <2>1, <2>2 DEF DiscoveryInv, DiscoveryTypeOK
  <2>4. a.sent >= newestSent[a.endpoint] /\ a.sent <= discoveryClock
    <3>1. cache[a.endpoint] # NoEndpoint => ~(a.number <= cache[a.endpoint].number)
      BY <1>4 DEF IsStaleAnnouncement
    <3> QED BY <1>1, <3>1 DEF DiscoveryInv, OldIsRefused, Timed
  <2>5. OldIsRefused'
    <3>1. ASSUME NEW b \in announcements, b.endpoint = a.endpoint, b.sent < a.sent
          PROVE  b.number <= a.number
      BY <1>1, <3>1 DEF DiscoveryInv, DiscoveryTypeOK, Timed
    <3>2. \A b \in announcements : b.endpoint \in Announced /\ b.sent \in Nat
      BY DEF DiscoveryInv, DiscoveryTypeOK
    <3>3. ASSUME NEW b \in announcements
          PROVE  \/ b.sent >= newestSent'[b.endpoint]
                 \/ cache'[b.endpoint] # NoEndpoint /\ b.number <= cache'[b.endpoint].number
      <4>1. CASE b.endpoint = a.endpoint
        BY <1>1, <2>1, <2>2, <3>1, <3>2, <4>1 DEF DiscoveryInv, DiscoveryTypeOK
      <4>2. CASE b.endpoint # a.endpoint
        BY <1>1, <2>1, <3>2, <4>2 DEF DiscoveryInv, DiscoveryTypeOK, OldIsRefused
      <4> QED BY <4>1, <4>2
    <3> QED BY <1>1, <3>3 DEF OldIsRefused
  <2>6. SeenOnce'
    BY <1>1, <2>1, <2>2, <2>4 DEF DiscoveryInv, DiscoveryTypeOK, SeenOnce
  <2>7. \A e \in Announced : newestSent'[e] >= newestSent[e]
    BY <1>1, <2>1, <2>4 DEF DiscoveryInv, DiscoveryTypeOK
  <2> QED BY <1>2, <2>3, <2>5, <2>6, <2>7 DEF DiscoveryInv
<1> QED BY <1>3, <1>4

(* An entry that expires is older than everything on its way.                *)
LEMMA RemoveDiscovery ==
  ASSUME DiscoveryInv, RemoveStaleEndpoints
  PROVE  DiscoveryInv'
<1>1. /\ cache' = [e \in Announced |->
           IF cache[e] # NoEndpoint /\ IsExpired(e) THEN NoEndpoint ELSE cache[e]]
      /\ UNCHANGED <<discoveryClock, lives, sedpSequence, contents, announcements, newestSent,
                     refusedSince>>
  BY DEF RemoveStaleEndpoints
<1>2. DiscoveryTypeOK' /\ Timed'
  BY <1>1 DEF DiscoveryInv, DiscoveryTypeOK, Timed
<1>3. ASSUME NEW a \in announcements, cache[a.endpoint] # NoEndpoint, IsExpired(a.endpoint)
      PROVE  a.sent >= newestSent[a.endpoint]
  <2>1. /\ a.endpoint \in Announced /\ a.sent \in Nat /\ discoveryClock \in Nat
        /\ newestSent[a.endpoint] \in Nat
        /\ cache[a.endpoint].seen \in Nat
    BY <1>3 DEF DiscoveryInv, DiscoveryTypeOK, Discovered
  <2>2. discoveryClock - a.sent <= Delay /\ newestSent[a.endpoint] <= cache[a.endpoint].seen
    BY <1>3, <2>1 DEF DiscoveryInv, Timed, SeenOnce
  <2>3. discoveryClock - cache[a.endpoint].seen > EndpointTtl
    BY <1>3 DEF IsExpired
  <2> QED BY <2>1, <2>2, <2>3, DiscoveryAssumption
<1>4. \A a \in announcements : a.endpoint \in Announced
  BY DEF DiscoveryInv, DiscoveryTypeOK
<1>5. OldIsRefused'
  BY <1>1, <1>3, <1>4 DEF DiscoveryInv, OldIsRefused
<1>6. SeenOnce'
  BY <1>1 DEF DiscoveryInv, SeenOnce
<1> QED BY <1>2, <1>5, <1>6 DEF DiscoveryInv

LEMMA NextDiscovery ==
  ASSUME DiscoveryInv, [DiscoveryNext]_discoveryVars
  PROVE  DiscoveryInv' /\ \A e \in Announced : newestSent'[e] >= newestSent[e]
<1>1. ASSUME newestSent' = newestSent
      PROVE  \A e \in Announced : newestSent'[e] >= newestSent[e]
  BY <1>1 DEF DiscoveryInv, DiscoveryTypeOK
<1>2. CASE DiscoveryTick
  BY <1>1, <1>2, TickDiscovery DEF DiscoveryTick
<1>3. ASSUME NEW e \in Announced, Announce(e)
      PROVE  DiscoveryInv' /\ newestSent' = newestSent
  BY <1>3, AnnounceDiscovery DEF Announce
<1>4. ASSUME NEW p \in Participants, ParticipantRestarts(p)
      PROVE  DiscoveryInv' /\ newestSent' = newestSent
  BY <1>4, RestartDiscovery DEF ParticipantRestarts
<1>5. CASE RemoveStaleEndpoints
  BY <1>1, <1>5, RemoveDiscovery DEF RemoveStaleEndpoints
<1>6. CASE UNCHANGED discoveryVars
  BY <1>1, <1>6
  DEF discoveryVars, DiscoveryInv, DiscoveryTypeOK, Timed, OldIsRefused, SeenOnce
<1> QED BY <1>1, <1>2, <1>3, <1>4, <1>5, <1>6, ObserveDiscovery DEF DiscoveryNext

LEMMA DiscoveryInvariant == DiscoverySpec => []DiscoveryInv
  BY InitDiscovery, NextDiscovery, PTL DEF DiscoverySpec

(* Every reachable state of the cache and the announcements is well typed.   *)
THEOREM DiscoveryTypeCorrect == DiscoverySpec => []DiscoveryTypeOK
<1>1. DiscoveryInv => DiscoveryTypeOK
  BY DEF DiscoveryInv
<1> QED BY DiscoveryInvariant, <1>1, PTL

(* What is known of an endpoint never goes back, however announcements are   *)
(* lost, delayed, repeated or reordered and participants restart.            *)
THEOREM ForwardCorrect == DiscoverySpec => DiscoveryGoesForward
<1>1. DiscoveryInv /\ [DiscoveryNext]_discoveryVars =>
        [\A e \in Announced : newestSent'[e] >= newestSent[e]]_discoveryVars
  BY NextDiscovery
<1> QED BY DiscoveryInvariant, <1>1, PTL DEF DiscoverySpec, DiscoveryGoesForward

(* What an endpoint was before a restart is matched for at most the TTL from *)
(* the first announcement of what it is now.                                 *)
THEOREM RestartCorrect == DiscoverySpec => []RestartIsLearnt
<1>1. ASSUME DiscoveryInv, NEW local \in LocalTopics,
             NEW role \in Roles,
             NEW e \in MatchesFor(local, role), refusedSince[e] # 0
      PROVE  discoveryClock - refusedSince[e] <= EndpointTtl
  <2>1. e \in Announced /\ cache[e] # NoEndpoint /\ ~IsExpired(e)
    BY DEF MatchesFor
  <2>2. /\ cache[e].seen \in Nat /\ refusedSince[e] \in Nat /\ discoveryClock \in Nat
        /\ cache[e].seen <= refusedSince[e]
    BY <1>1, <2>1 DEF DiscoveryInv, DiscoveryTypeOK, Discovered, SeenOnce
  <2> QED BY <2>1, <2>2, DiscoveryAssumption DEF IsExpired
<1>2. DiscoveryInv => RestartIsLearnt
  BY <1>1 DEF RestartIsLearnt
<1> QED BY DiscoveryInvariant, <1>2, PTL
=============================================================================
