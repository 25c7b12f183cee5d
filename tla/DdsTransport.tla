---------------------------- MODULE DdsTransport ----------------------------
(***************************************************************************)
(* openautosar::dds_binding: the writers and readers of one DDS topic, best *)
(* effort or reliable.  A writer numbers its samples over all the readers   *)
(* it is matched with; a reliable one keeps the last of them and repairs    *)
(* what a reader reports missing in answer to a heartbeat.  A reader keeps  *)
(* a state per writer, and one set of the numbers it received from all.     *)
(*                                                                         *)
(* Messages travel by UDP: one that was sent stays in "net" and may arrive  *)
(* late, again, out of order or never.  A message is sent to the locator of *)
(* a reader, but is taken only if it also carries that reader's entity id.  *)
(* Rejected messages change only counters, which are left out.              *)
(***************************************************************************)
EXTENDS Integers, FiniteSets, Sequences, SequencesExt

CONSTANTS
  Writers, Readers,
  ReaderId,       \* mapping.reader_id of each reader
  Profiles,       \* QoS profiles and the bounds of the instance they stand for
  BitmapBits      \* kMaxAckNackBitmapBits

(* A profile holds the QoS that both sides of a topic share: reliable,      *)
(* transient (transient-local durability), lease (there is a liveliness     *)
(* lease), depth (history_depth_ of the writers), cached and writers        *)
(* (max_cached_samples and max_remote_writers, 0 for no limit).  Its other  *)
(* fields bound the instance: the peers that may be matched, the samples a  *)
(* writer builds in a life, and the lives of its process.                   *)
ASSUME BitmapAssumption == BitmapBits \in Nat
ASSUME ProfileAssumption ==
  \A p \in Profiles :
    /\ p.reliable \in BOOLEAN /\ p.transient \in BOOLEAN /\ p.lease \in BOOLEAN
    /\ p.depth \in Nat \ {0} /\ p.cached \in Nat /\ p.writers \in Nat
    /\ p.cached # 0 => p.depth <= p.cached
    /\ p.peers \subseteq Writers \X Readers
    /\ p.samples \in Nat /\ p.lives \in Nat \ {0}

VARIABLES
  qos,        \* the profile of the topic
  matched,    \* the readers each writer has a match of
  life,       \* how often each writer process has started
  next,       \* next_sequence_number_
  history,    \* history_ of each writer
  received,   \* received_sequence_numbers_ of each reader
  heard,      \* writer_states_ of each reader, in the order of last_seen_ms
  lastSeq,    \* last_sequence_number in them, 0 for a writer without state
  net,        \* every message sent so far
  taken,      \* observer: how often each sample reached a reader's client (two: more)
  lapsed      \* observer: the writers a reader has removed as expired

vars == <<qos, matched, life, next, history, received, heard, lastSeq, net, taken, lapsed>>

Numbers == 1 .. qos.samples
Samples == [writer : Writers, life : 1 .. qos.lives, seq : Numbers]

Data(w, r, id, s) ==
  [kind |-> "Data", writer |-> w, life |-> life[w], to |-> r, readerId |-> id, seq |-> s]
SampleOf(m) == [writer |-> m.writer, life |-> m.life, seq |-> m.seq]

Init ==
  /\ qos \in Profiles
  /\ matched = {}
  /\ life = [w \in Writers |-> 1]
  /\ next = [w \in Writers |-> 1]
  /\ history = [w \in Writers |-> <<>>]
  /\ received = [r \in Readers |-> {}]
  /\ heard = [r \in Readers |-> <<>>]
  /\ lastSeq = [r \in Readers |-> [w \in Writers |-> 0]]
  /\ net = {}
  /\ taken = [r \in Readers |-> [x \in Samples |-> 0]]
  /\ lapsed = [r \in Readers |-> {}]

readerVars == <<received, heard, lastSeq, taken, lapsed>>

-----------------------------------------------------------------------------
(* Writers.                                                                 *)

(* The writer discovers a reader, before or after its first samples.        *)
Match(w, r) ==
  /\ <<w, r>> \in qos.peers
  /\ matched' = matched \cup {<<w, r>>}
  /\ UNCHANGED <<qos, life, next, history, net, readerVars>>

KeepLast(entries) == IF Len(entries) > qos.depth THEN Tail(entries) ELSE entries

(* A sample is built for one matched reader and sent to it.                 *)
Numbered(w, r) ==
  /\ <<w, r>> \in matched
  /\ next[w] <= qos.samples
  /\ next' = [next EXCEPT ![w] = @ + 1]
  /\ net' = net \cup {Data(w, r, ReaderId[r], next[w])}
  /\ UNCHANGED <<qos, matched, life, readerVars>>

BuildBestEffortSample(w, r) == ~qos.reliable /\ Numbered(w, r) /\ UNCHANGED history

BuildReliableSample(w, r) ==
  /\ qos.reliable /\ Numbered(w, r)
  /\ history' = [history EXCEPT
       ![w] = KeepLast(Append(@, [seq |-> next[w], readerId |-> ReaderId[r]]))]

BuildHeartbeat(w, r) ==
  /\ qos.reliable /\ <<w, r>> \in matched
  /\ history[w] # <<>>
  /\ net' = net \cup {[kind |-> "Heartbeat", writer |-> w, life |-> life[w], to |-> r,
                       first |-> history[w][1].seq,
                       last |-> history[w][Len(history[w])].seq]}
  /\ UNCHANGED <<qos, matched, life, next, history, readerVars>>

InHistory(w, s) == \E i \in 1 .. Len(history[w]) : history[w][i].seq = s

(* All that is asked for is sent again as it was built, or nothing is.      *)
BuildRepairSamples(w, m) ==
  /\ qos.reliable /\ m.kind = "AckNack" /\ m.writer = w /\ <<w, m.from>> \in matched
  /\ \A s \in m.missing : InHistory(w, s)
  /\ net' = net \cup {Data(w, m.from, history[w][i].readerId, history[w][i].seq) :
                        i \in {i \in 1 .. Len(history[w]) : history[w][i].seq \in m.missing}}
  /\ UNCHANGED <<qos, matched, life, next, history, readerVars>>

(* The history is replayed to a reader that joined late.                    *)
BuildHistoricalSamples(w, r) ==
  /\ qos.reliable /\ qos.transient /\ <<w, r>> \in matched
  /\ net' = net \cup {Data(w, r, ReaderId[r], history[w][i].seq) : i \in 1 .. Len(history[w])}
  /\ UNCHANGED <<qos, matched, life, next, history, readerVars>>

(* A writer process that starts again has lost its history, its numbers and *)
(* its matches.                                                             *)
WriterRestart(w) ==
  /\ life[w] < qos.lives
  /\ life' = [life EXCEPT ![w] = @ + 1]
  /\ next' = [next EXCEPT ![w] = 1]
  /\ history' = [history EXCEPT ![w] = <<>>]
  /\ matched' = {p \in matched : p[1] # w}
  /\ UNCHANGED <<qos, net, readerVars>>

-----------------------------------------------------------------------------
(* Readers.                                                                 *)

Known(r, w) == lastSeq[r][w] # 0

Admits(r, w) == Known(r, w) \/ qos.writers = 0 \/ Len(heard[r]) < qos.writers

\* Mutated: a best-effort reader only rejects the sample it took last.
IsStaleIfLast(r, m) == m.seq = lastSeq[r][m.writer]

IsStale(r, m) == m.seq <= lastSeq[r][m.writer]

\* Mutated: a reliable reader only rejects the sample it took last.
IsDuplicateOfLast(r, m) == m.seq = lastSeq[r][m.writer]

(* ContainsSequence, whichever writer the number came from.                 *)
IsDuplicate(r, m) == m.seq \in received[r]

HasRoom(r) == qos.cached = 0 \/ Cardinality(received[r]) < qos.cached

(* The sample reaches the client, and its writer was heard of last.         *)
Takes(r, m) ==
  /\ m.kind = "Data" /\ m.to = r /\ m.readerId = ReaderId[r]
  /\ Admits(r, m.writer)
  /\ heard' = [heard EXCEPT ![r] = Append(RemoveFirst(@, m.writer), m.writer)]
  /\ taken' = [taken EXCEPT ![r][SampleOf(m)] = IF @ < 2 THEN @ + 1 ELSE 2]
  /\ UNCHANGED <<qos, matched, life, next, history, net, lapsed>>

AcceptBestEffortSample(r, m) ==
  /\ ~qos.reliable /\ Takes(r, m)
  /\ ~IsStale(r, m)
  /\ lastSeq' = [lastSeq EXCEPT ![r][m.writer] = m.seq]
  /\ UNCHANGED received

AcceptReliableSample(r, m) ==
  /\ qos.reliable /\ Takes(r, m)
  /\ ~IsDuplicate(r, m)
  /\ HasRoom(r)
  /\ received' = [received EXCEPT ![r] = @ \cup {m.seq}]
  /\ lastSeq' = [lastSeq EXCEPT ![r][m.writer] = IF m.seq > @ THEN m.seq ELSE @]

\* Mutated: the last number of the range is not looked at.
MissingBeforeLast(r, first, last) == (first .. last - 1) \ received[r]
\* Mutated: the first number asked for is the one before the range.
MissingFromBefore(r, first, last) == (first - 1 .. last) \ received[r]

Missing(r, first, last) == (first .. last) \ received[r]

BuildAckNack(r, m) ==
  /\ qos.reliable /\ m.kind = "Heartbeat" /\ m.to = r
  /\ m.last - m.first + 1 <= BitmapBits
  /\ net' = net \cup {[kind |-> "AckNack", writer |-> m.writer, life |-> m.life, from |-> r,
                       first |-> m.first, last |-> m.last,
                       missing |-> Missing(r, m.first, m.last)]}
  /\ UNCHANGED <<qos, matched, life, next, history, readerVars>>

(* Those heard of longest ago go first.                                     *)
RemoveExpiredWriterStates(r, n) ==
  LET gone == {heard[r][i] : i \in 1 .. n} IN
  /\ heard' = [heard EXCEPT ![r] = SubSeq(@, n + 1, Len(@))]
  /\ lastSeq' = [lastSeq EXCEPT ![r] = [w \in Writers |-> IF w \in gone THEN 0 ELSE @[w]]]
  /\ lapsed' = [lapsed EXCEPT ![r] = @ \cup gone]

RemoveExpiredWriters(r) ==
  /\ qos.lease
  /\ \E n \in 1 .. Len(heard[r]) : RemoveExpiredWriterStates(r, n)
  /\ UNCHANGED <<qos, matched, life, next, history, received, net, taken>>

-----------------------------------------------------------------------------
Next ==
  \/ \E w \in Writers, r \in Readers :
       \/ Match(w, r)
       \/ BuildBestEffortSample(w, r)
       \/ BuildReliableSample(w, r)
       \/ BuildHeartbeat(w, r)
       \/ BuildHistoricalSamples(w, r)
  \/ \E w \in Writers : WriterRestart(w)
  \/ \E m \in net, w \in Writers : BuildRepairSamples(w, m)
  \/ \E m \in net, r \in Readers :
       \/ AcceptBestEffortSample(r, m)
       \/ AcceptReliableSample(r, m)
       \/ BuildAckNack(r, m)
  \/ \E r \in Readers : RemoveExpiredWriters(r)

Spec == Init /\ [][Next]_vars

-----------------------------------------------------------------------------
(* Properties.                                                              *)

TypeOK ==
  /\ qos \in Profiles
  /\ matched \subseteq qos.peers
  /\ life \in [Writers -> 1 .. qos.lives]
  /\ next \in [Writers -> 1 .. qos.samples + 1]
  /\ \A w \in Writers : Len(history[w]) <= qos.depth /\ \A s \in Numbers : InHistory(w, s) => s < next[w]
  /\ received \in [Readers -> SUBSET Numbers]
  /\ lastSeq \in [Readers -> [Writers -> 0 .. qos.samples]]
  /\ \A r \in Readers : {heard[r][i] : i \in 1 .. Len(heard[r])} = {w \in Writers : Known(r, w)}
  /\ taken \in [Readers -> [Samples -> 0 .. 2]]
  /\ lapsed \in [Readers -> SUBSET Writers]

(* However messages are delayed, repeated, repaired and replayed, a client  *)
(* gets a sample once.  A best-effort reader forgets what it got of a       *)
(* writer that it removes as expired.                                       *)
TakenOnce ==
  \A r \in Readers, x \in Samples :
    qos.reliable \/ x.writer \notin lapsed[r] => taken[r][x] <= 1

(* Best effort may lose samples but does not reorder those of a writer.     *)
BestEffortInOrder ==
  [][\A r \in Readers, x, y \in Samples :
       /\ ~qos.reliable /\ x.writer \notin lapsed[r]
       /\ taken'[r][x] # taken[r][x] /\ taken[r][y] > 0
       /\ y.writer = x.writer
       => y.seq < x.seq]_vars

Taken(r) == {x \in Samples : taken[r][x] > 0}

(* What a reader does not report missing of a heartbeat's range has reached *)
(* its client, provided it takes samples from one life of one writer.       *)
NothingHidden ==
  \A m \in net :
    m.kind = "AckNack" /\ (\A x \in Taken(m.from) : x.writer = m.writer /\ x.life = m.life) =>
      \A s \in (m.first .. m.last) \ m.missing :
        taken[m.from][[writer |-> m.writer, life |-> m.life, seq |-> s]] > 0

(* The same for a reader of several writers.                                *)
NothingHiddenOfAny ==
  \A m \in net :
    m.kind = "AckNack" =>
      \A s \in (m.first .. m.last) \ m.missing :
        taken[m.from][[writer |-> m.writer, life |-> m.life, seq |-> s]] > 0

(* A reader that answers a heartbeat of a range the writer still holds asks *)
(* for nothing the writer has not: its request is repaired, not refused.    *)
CurrentRequestsServed ==
  \A m \in net :
    /\ m.kind = "AckNack" /\ m.life = life[m.writer]
    /\ InHistory(m.writer, m.first)
    => \A s \in m.missing : InHistory(m.writer, s)

(* A reader takes the samples it is sent in repair: they carry its id.      *)
RepairsReachRequester ==
  \A m \in net : m.kind = "Data" => m.readerId = ReaderId[m.to]
=============================================================================
