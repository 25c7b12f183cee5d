--------------------------- MODULE MC_DdsTransport ---------------------------
(* Small instances of DdsTransport.  The reader ids are those of the unit    *)
(* test's transient-local readers: one per reader.                           *)
EXTENDS DdsTransport

CONSTANTS w1, w2, r1, r2

TwoWriters == {w1, w2}
TwoReaders == {r1, r2}
OwnId == [r \in TwoReaders |-> r]

Pair == {<<w1, r1>>}
OneReader == {<<w1, r1>>, <<w2, r1>>}
OneWriter == {<<w1, r1>>, <<w1, r2>>}

Profile(reliable, peers, samples, lives) ==
  [reliable |-> reliable, transient |-> FALSE, lease |-> FALSE,
   depth |-> 2, cached |-> 0, writers |-> 0,
   peers |-> peers, samples |-> samples, lives |-> lives]

(* A writer that restarts, a history that overflows, two writers, a reader  *)
(* that joins late, a reader at its limits, and best effort with writers    *)
(* that expire.                                                             *)
Restarting == [Profile(TRUE, Pair, 2, 2) EXCEPT !.depth = 1]
Overflowing == Profile(TRUE, Pair, 4, 1)
TwoSources == Profile(TRUE, OneReader, 2, 1)
LateJoiner == [Profile(TRUE, OneWriter, 2, 1) EXCEPT !.transient = TRUE]
Limited    == [Profile(TRUE, OneReader, 2, 1) EXCEPT !.cached = 2, !.writers = 1]
BestEffort == [Profile(FALSE, OneReader, 2, 1) EXCEPT !.lease = TRUE, !.writers = 1]
AllProfiles == {Restarting, Overflowing, TwoSources, LateJoiner, Limited, BestEffort}
DocumentedProfiles == {LateJoiner, TwoSources}
=============================================================================
