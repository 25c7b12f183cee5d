--------------------------- MODULE E2eProtection ---------------------------
(***************************************************************************)
(* openautosar::e2e: a sender protects the payloads of one event with a     *)
(* counter that wraps, a timestamp and a CRC; the network loses, repeats,   *)
(* delays and reorders frames; the receiver checks each frame against the   *)
(* state it keeps.  The sender protects at most one payload per millisecond *)
(* and both ends read one clock.  A payload is identified by its frame's    *)
(* place n in the sequence of counters before they wrap.                    *)
(***************************************************************************)
EXTENDS Integers, FiniteSets

CONSTANTS
  Modulus,          \* CounterModulus(counter_bits)
  MaxDelta,         \* max_delta_counter
  FrameTimeout,     \* timeout_ms
  MaxRepetitions,   \* max_repetitions
  CountLimit,       \* where repetition_count saturates
  MaxFrames,        \* bound on the frames sent
  MaxInFlight,      \* bound on the frames under way
  MaxTime           \* bound on the clock

ValidateProfileConfig ==
  Modulus \in Nat /\ MaxDelta \in 1 .. Modulus - 1 /\ FrameTimeout \in Nat \ {0}

(* What makes the counter of a profile fit its timeout: a frame still young *)
(* enough to be accepted is not so far behind that its counter looks as if  *)
(* it were ahead.                                                           *)
ASSUME E2EAssumption ==
  /\ ValidateProfileConfig
  /\ MaxRepetitions \in Nat
  /\ CountLimit \in Nat /\ MaxRepetitions < CountLimit
  /\ MaxFrames \in Nat /\ MaxInFlight \in Nat /\ MaxTime \in Nat
  /\ MaxDelta + FrameTimeout + 1 < Modulus

VARIABLES
  now,          \* the clock of both ends
  protectedUpTo,   \* how many payloads the sender has protected
  frames,       \* frames on their way
  receiver,     \* ReceiverState
  newest,       \* observer: n of the newest frame accepted, 0 if none
  times,        \* observer: how often that frame was accepted
  lastHeard,        \* observer: n of the last frame the network delivered in time
  refusals      \* observer: successive frames in a row, the last delivered
                \* included, that were all refused although young and sound

e2eVars == <<now, protectedUpTo, frames, receiver, newest, times, lastHeard, refusals>>
e2eObservers == <<newest, times, lastHeard, refusals>>

FaultModes ==
  {"None", "CorruptCrc", "WrongDataId", "RepeatCounter", "StaleTimestamp", "TruncatePayload"}
(* What a fault does to the bytes of a frame, if anything.                  *)
Damage(fault) ==
  CASE fault = "CorruptCrc" -> "crc"
    [] fault = "WrongDataId" -> "data_id"
    [] fault = "TruncatePayload" -> "length"
    [] OTHER -> "none"
Frame ==
  [n : 0 .. MaxFrames, sent : 0 .. MaxTime, damage : {"none", "crc", "data_id", "length"}]
ReceiverState ==
  [initialized : BOOLEAN, last : 0 .. Modulus - 1, repetitions : 0 .. CountLimit]

E2EInit ==
  /\ now = 0 /\ protectedUpTo = 0 /\ frames = {}
  /\ receiver = [initialized |-> FALSE, last |-> 0, repetitions |-> 0]
  /\ newest = 0 /\ times = 0 /\ lastHeard = 0 /\ refusals = 0

E2ETick ==
  /\ now < MaxTime
  /\ now' = now + 1
  /\ UNCHANGED <<protectedUpTo, frames, receiver, e2eObservers>>

(* A fault repeats the counter before, ages the timestamp past the timeout, *)
(* or damages the frame.                                                    *)
ProtectPayload(fault) ==
  /\ now < MaxTime /\ protectedUpTo < MaxFrames
  /\ Cardinality(frames) < MaxInFlight
  /\ now' = now + 1
  /\ protectedUpTo' = protectedUpTo + 1
  /\ frames' = frames \cup
       {[n |-> IF fault = "RepeatCounter" THEN protectedUpTo ELSE protectedUpTo + 1,
         sent |-> IF fault # "StaleTimestamp" THEN now + 1
                  ELSE IF now > FrameTimeout THEN now - FrameTimeout ELSE 0,
         damage |-> Damage(fault)]}
  /\ UNCHANGED <<receiver, e2eObservers>>

LoseFrame(f) ==
  /\ frames' = frames \ {f}
  /\ UNCHANGED <<now, protectedUpTo, receiver, e2eObservers>>

-----------------------------------------------------------------------------
\* Mutated: the wrap is left out.
CounterDeltaUnwrapped(previous, current) ==
  IF current >= previous THEN current - previous ELSE 0

\* Mutated: the distance has no direction.
CounterDistance(previous, current) ==
  IF current >= previous THEN current - previous ELSE previous - current

CounterDelta(previous, current) ==
  IF current >= previous THEN current - previous ELSE Modulus - previous + current

(* ParseProtectedFrame: the length must be what the header says.            *)
Parses(f) == f.damage # "length"
(* CalculateCrc32; it covers everything but itself, a data id too.          *)
CrcMatches(f) == f.damage # "crc"
Sound(f) == Parses(f) /\ f.damage # "data_id" /\ CrcMatches(f)

Counter(f) == f.n % Modulus
Young(f) == now - f.sent <= FrameTimeout
Repeats(f) == receiver.initialized /\ Counter(f) = receiver.last
OutOfSequence(f) ==
  /\ receiver.initialized /\ ~Repeats(f)
  /\ CounterDelta(receiver.last, Counter(f)) \notin 1 .. MaxDelta

(* What CheckPayload returns, in the order it looks.                        *)
Status(f) ==
  CASE ~Parses(f) -> "Malformed"
    [] Parses(f) /\ f.damage = "data_id" -> "WrongDataId"
    [] Parses(f) /\ f.damage # "data_id" /\ ~CrcMatches(f) -> "CrcMismatch"
    [] Sound(f) /\ ~Young(f) -> "Timeout"
    [] Sound(f) /\ Young(f) /\ Repeats(f) -> "Repeated"
    [] Sound(f) /\ Young(f) /\ OutOfSequence(f) -> "WrongSequence"
    [] OTHER -> "Ok"
Accepts(f) ==
  \/ Status(f) = "Ok"
  \/ Status(f) = "Repeated" /\ receiver.repetitions < MaxRepetitions

(* The frame may be delivered again.  Only an accepted new counter and a    *)
(* repetition change the receiver: after a gap wider than MaxDelta it stays *)
(* where it is until the counter has come round.                            *)
CheckPayload(f) ==
  /\ receiver' = CASE Status(f) = "Ok" ->
                        [initialized |-> TRUE, last |-> Counter(f), repetitions |-> 0]
                   [] Status(f) = "Repeated" ->
                        [receiver EXCEPT !.repetitions = IF @ = CountLimit THEN @ ELSE @ + 1]
                   [] OTHER -> receiver
  /\ \/ Accepts(f) /\ newest' = f.n /\ times' = IF f.n = newest THEN times + 1 ELSE 1
     \/ ~Accepts(f) /\ UNCHANGED <<newest, times>>
  /\ lastHeard' = IF Sound(f) /\ Young(f) THEN f.n ELSE lastHeard
  /\ refusals' = IF ~(Sound(f) /\ Young(f)) THEN refusals
                 ELSE IF Accepts(f) THEN 0
                 ELSE IF f.n = lastHeard + 1 THEN refusals + 1 ELSE 1
  /\ UNCHANGED <<now, protectedUpTo, frames>>

(* A receiver that starts again has no state and no history.                *)
ReceiverRestarts ==
  /\ receiver' = [initialized |-> FALSE, last |-> 0, repetitions |-> 0]
  /\ newest' = 0 /\ times' = 0 /\ lastHeard' = 0 /\ refusals' = 0
  /\ UNCHANGED <<now, protectedUpTo, frames>>

E2ENext ==
  \/ E2ETick
  \/ \E fault \in FaultModes : ProtectPayload(fault)
  \/ \E f \in frames : LoseFrame(f) \/ CheckPayload(f)
  \/ ReceiverRestarts

E2ESpec == E2EInit /\ [][E2ENext]_e2eVars

-----------------------------------------------------------------------------
E2ETypeOK ==
  /\ now \in 0 .. MaxTime /\ protectedUpTo \in 0 .. MaxFrames
  /\ frames \subseteq Frame
  /\ receiver \in ReceiverState
  /\ newest \in 0 .. MaxFrames /\ times \in Nat
  /\ lastHeard \in 0 .. MaxFrames /\ refusals \in Nat

(* Whatever the network does, the receiver accepts payloads in the order    *)
(* they were protected in, over the wrap of the counter too, and none more  *)
(* often than the profile's repetitions allow.                              *)
AcceptedInOrder ==
  [][receiver.initialized /\ receiver'.initialized =>
       newest' >= newest /\ times' <= MaxRepetitions + 1]_e2eVars

(* A gap too wide to accept does not silence the event for good: successive *)
(* frames that arrive young and sound are refused for at most one round of  *)
(* the counter, less what MaxDelta covers.                                  *)
SilenceEnds == refusals <= Modulus - MaxDelta
=============================================================================
