--------------------------- MODULE RawDataStream ---------------------------
(***************************************************************************)
(* openautosar::raw_data_stream::RawDataStreamChannel: samples arrive in    *)
(* one or more fragments; the channel refuses stale and duplicate frames,   *)
(* reassembles samples and queues them for one reader.  It has no clock:    *)
(* time is what frames are stamped with.  The network hands it the frames   *)
(* of a set in any order, each never, once or again and again, sound or     *)
(* corrupted on the way.  The channel's counters matter only in that any of *)
(* them degrades it; every fragment is one byte long.                       *)
(***************************************************************************)
EXTENDS Integers, Sequences, FiniteSets

CONSTANTS
  StreamConfigs,   \* configurations the channel may be opened with
  Frames           \* frames that may come: stamp is monotonic_ms, checked
                   \* whether payload_checksum is given

(* The configurations Open accepts.                                         *)
ValidateConfig ==
  [queue_depth : Nat \ {0}, max_fragments : Nat \ {0}, max_bytes : Nat \ {0},
   stale_timeout : Nat \ {0}, buffer_policy : {"RejectNewest", "DropOldest"},
   monotonic : BOOLEAN, reassembly : BOOLEAN]

ASSUME StreamAssumption ==
  /\ StreamConfigs \subseteq ValidateConfig
  /\ Frames \subseteq [sequence : Nat, index : Nat, count : Nat, stamp : Nat, checked : BOOLEAN]

RawSequences == {f.sequence : f \in Frames}

VARIABLES
  streamConfig,  \* config_
  queue,         \* queue_: sequence numbers of the samples
  pending,       \* pending_: sequence -> its size, 0 if not pending, and what was received
  completed,     \* completed_sequences_
  latest,        \* latest_monotonic_ms_
  degraded,      \* whether a rejected or dropped count is above zero
  arrived,       \* observer: frames that came while the channel was ready
  entered,       \* observer: sequence -> how often it was queued, 2 for more
  handed         \* observer: the samples queued last, Memory of them

rawVars == <<streamConfig, queue, pending, completed, latest, degraded, arrived, entered, handed>>

NotPending == [size |-> 0, received |-> {}]

RawInit ==
  /\ streamConfig \in StreamConfigs
  /\ queue = <<>> /\ pending = [s \in RawSequences |-> NotPending] /\ completed = <<>>
  /\ latest = 0 /\ degraded = FALSE
  /\ arrived = {} /\ entered = [s \in RawSequences |-> 0] /\ handed = <<>>

-----------------------------------------------------------------------------
In(s, q) == \E i \in 1 .. Len(q) : q[i] = s

ValidFrame(f) ==
  /\ f.sequence # 0
  /\ f.index < f.count /\ f.count <= streamConfig.max_fragments
  /\ f.count > 1 => streamConfig.reassembly

IsStaleFrame(f) ==
  streamConfig.monotonic /\ latest # 0 /\ f.stamp + streamConfig.stale_timeout < latest

IsDuplicateFrame(f) ==
  LET p == pending[f.sequence]
  IN  \/ In(f.sequence, completed) \/ In(f.sequence, queue)
      \/ p.size # 0 /\ (f.index >= p.size \/ f.index \in p.received)

Latest(f) == IF f.stamp > latest THEN f.stamp ELSE latest

\* Mutated: only as many as the queue holds are remembered.
RememberedShort(s) ==
  LET all == Append(completed, s)
  IN  IF Len(all) > streamConfig.queue_depth THEN Tail(all) ELSE all

(* RememberCompleted *)
Memory == streamConfig.queue_depth + streamConfig.max_fragments
Remembered(s) ==
  LET all == Append(completed, s)
  IN  IF Len(all) > Memory THEN Tail(all) ELSE all

Handed(s) ==
  LET all == Append(handed, s)
  IN  IF Len(all) > Memory THEN Tail(all) ELSE all

(* A sample refused because the queue is full is not remembered.            *)
Enqueue(s) ==
  LET full == Len(queue) >= streamConfig.queue_depth
  IN  IF full /\ streamConfig.buffer_policy = "RejectNewest"
      THEN degraded' = TRUE /\ UNCHANGED <<queue, completed, entered, handed>>
      ELSE /\ queue' = Append(IF full THEN Tail(queue) ELSE queue, s)
           /\ degraded' = (degraded \/ full)
           /\ completed' = Remembered(s)
           /\ entered' = [entered EXCEPT ![s] = IF @ < 2 THEN @ + 1 ELSE 2]
           /\ handed' = Handed(s)

PushUnfragmented(f) == Enqueue(f.sequence) /\ UNCHANGED pending

(* The first fragment sets the size.  A sample that outgrows the limit is   *)
(* forgotten, fragments and all; one that is complete leaves pending        *)
(* whether or not it can be queued.                                         *)
PushFragmented(f) ==
  LET s == f.sequence
      size == IF pending[s].size = 0 THEN f.count ELSE pending[s].size
      received == pending[s].received \cup {f.index}
      tooLong == Cardinality(received) > streamConfig.max_bytes
      whole == received = 0 .. size - 1
  IN  /\ pending' = [pending EXCEPT ![s] = IF tooLong \/ whole THEN NotPending
                                           ELSE [size |-> size, received |-> received]]
      /\ IF whole /\ ~tooLong THEN Enqueue(s)
         ELSE degraded' = (degraded \/ tooLong) /\ UNCHANGED <<queue, completed, entered, handed>>

Reject == degraded' = TRUE /\ UNCHANGED <<queue, pending, completed, entered, handed>>

(* A corrupted frame is noticed only by its checksum, if it carries one.    *)
Push(f, sound) ==
  /\ LET refused == ~ValidFrame(f) \/ (f.checked /\ ~sound) \/ IsStaleFrame(f)
     IN  \/ refused /\ Reject /\ UNCHANGED latest
         \/ /\ ~refused
            /\ latest' = Latest(f)
            /\ IF IsDuplicateFrame(f) THEN Reject
               ELSE IF f.count = 1 THEN PushUnfragmented(f) ELSE PushFragmented(f)
  /\ arrived' = IF degraded' THEN {} ELSE arrived \cup {f}
  /\ UNCHANGED streamConfig

Poll ==
  /\ queue # <<>>
  /\ queue' = Tail(queue)
  /\ UNCHANGED <<streamConfig, pending, completed, latest, degraded, arrived, entered, handed>>

RawNext ==
  \/ \E f \in Frames, sound \in BOOLEAN : Push(f, sound)
  \/ Poll

RawSpec == RawInit /\ [][RawNext]_rawVars

-----------------------------------------------------------------------------
(* Snapshot: a channel that rejected or dropped anything is degraded.       *)
ReportsReady == ~degraded

(* All fragments of a sample came, and none that gives it another size.     *)
AllCame(s) ==
  LET came == {f \in arrived : f.sequence = s}
  IN  came # {} /\ \A f \in came : {g.index : g \in came} = 0 .. f.count - 1

(* However its frames come, no sample is handed to the reader again before  *)
(* queue_depth + max_fragments_per_sample others were; and while the        *)
(* channel reports itself ready, every sample that came has been handed     *)
(* over.                                                                    *)
SamplesApartOrReported ==
  /\ \A i, j \in 1 .. Len(handed) : handed[i] = handed[j] => i = j
  /\ ReportsReady => \A s \in RawSequences : AllCame(s) => entered[s] > 0

(* "reject_duplicate_sequences: true": no sample is handed over twice.      *)
SamplesOnce == \A s \in RawSequences : entered[s] <= 1
=============================================================================
