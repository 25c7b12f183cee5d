---------------------------- MODULE Network_proofs ----------------------------
(***************************************************************************)
(* Proofs about what meets the network.  End-to-end protection: payloads are *)
(* accepted in order, and a gap silences an event for less than one round of *)
(* the counter.  SOME/IP calls: an answer is the one to the very call it is  *)
(* given for, and a call is given up only for cause, although session ids    *)
(* come round.  Raw data streams: a sample is not handed over again before   *)
(* as many others were as the channel remembers.  The API gateway: no        *)
(* stretch of time sees more requests of a client pass than its windows      *)
(* allow.                                                                    *)
(***************************************************************************)
EXTENDS E2eProtection, SomeIpCalls, RawDataStream, ApiGateway, FiniteSetTheorems, TLAPS

USE DEF ValidateProfileConfig, Damage, Parses, CrcMatches, Sound

-----------------------------------------------------------------------------
(* Counters that wrap.                                                       *)

LEMMA Division ==
  ASSUME NEW m \in Nat, m # 0, NEW a \in Nat
  PROVE  a % m \in 0 .. m - 1 /\ \E q \in Nat : a = m * q + (a % m)
<1>1. /\ a \div m \in Nat /\ a % m \in 0 .. m - 1
      /\ a = m * (a \div m) + (a % m)
  OBVIOUS
<1> QED BY <1>1

LEMMA Remainder ==
  ASSUME NEW a \in Nat
  PROVE  a % Modulus \in 0 .. Modulus - 1 /\ \E q \in Nat : a = Modulus * q + (a % Modulus)
<1>1. Modulus \in Nat /\ Modulus # 0
  BY E2EAssumption
<1> QED BY <1>1, Division

(* What lies between the multiples of m next to 0 is 0 or m.                *)
LEMMA Multiple ==
  ASSUME NEW m \in Nat, m # 0, NEW k \in Int, - m < m * k, m * k < 2 * m
  PROVE  k \in {0, 1}
<1>1. k >= 2 => m * k >= 2 * m
  OBVIOUS
<1>2. k <= -1 => m * k <= - m
  OBVIOUS
<1>3. m * k \in Int
  OBVIOUS
<1> QED BY <1>1, <1>2, <1>3

LEMMA Lag ==
  ASSUME NEW a \in Nat, NEW b \in Nat, b < a, a - b < Modulus
  PROVE  /\ a % Modulus # b % Modulus
         /\ CounterDelta(a % Modulus, b % Modulus) = Modulus - (a - b)
<1> DEFINE ra == a % Modulus
           rb == b % Modulus
<1>1. PICK p \in Nat : a = Modulus * p + ra
  BY Remainder
<1>2. PICK q \in Nat : b = Modulus * q + rb
  BY Remainder
<1>3. ra \in 0 .. Modulus - 1 /\ rb \in 0 .. Modulus - 1
  BY Remainder
<1> HIDE DEF ra, rb
<1> DEFINE k == p - q
<1>4. k \in Int /\ a - b = Modulus * k + (ra - rb)
  BY <1>1, <1>2, <1>3, E2EAssumption
<1> HIDE DEF k
<1>5. k \in {0, 1}
  BY <1>3, <1>4, Multiple, E2EAssumption
<1>6. ra # rb /\ CounterDelta(ra, rb) = Modulus - (a - b)
  <2>1. CASE k = 0
    BY <1>3, <1>4, <2>1, E2EAssumption DEF CounterDelta
  <2>2. CASE k = 1
    BY <1>3, <1>4, <2>2, E2EAssumption DEF CounterDelta
  <2> QED BY <1>5, <2>1, <2>2
<1> QED BY <1>6 DEF ra, rb

LEMMA Following ==
  ASSUME NEW m \in Nat, m # 0, NEW a \in Nat
  PROVE  (a + 1) % m = IF a % m = m - 1 THEN 0 ELSE (a % m) + 1
<1> DEFINE ra == a % m
           rb == (a + 1) % m
<1>1. PICK p \in Nat : a = m * p + ra
  BY Division
<1>2. a + 1 \in Nat
  OBVIOUS
<1>3. PICK q \in Nat : a + 1 = m * q + rb
  BY <1>2, Division
<1>4. ra \in 0 .. m - 1 /\ rb \in 0 .. m - 1
  BY <1>2, Division
<1> HIDE DEF ra, rb
<1> DEFINE k == q - p
<1>5. k \in Int /\ 1 = m * k + (rb - ra)
  BY <1>1, <1>3, <1>4
<1> HIDE DEF k
<1>6. k \in {0, 1}
  BY <1>4, <1>5, Multiple
<1>7. rb = IF ra = m - 1 THEN 0 ELSE ra + 1
  <2>1. CASE k = 0
    BY <1>4, <1>5, <2>1
  <2>2. CASE k = 1
    BY <1>4, <1>5, <2>2
  <2> QED BY <1>6, <2>1, <2>2
<1> QED BY <1>7 DEF ra, rb

LEMMA Successor ==
  ASSUME NEW a \in Nat
  PROVE  (a + 1) % Modulus = IF a % Modulus = Modulus - 1 THEN 0 ELSE (a % Modulus) + 1
<1>1. Modulus \in Nat /\ Modulus # 0
  BY E2EAssumption
<1> QED BY <1>1, Following

(* How far a counter is ahead, when nothing wraps twice.                     *)
LEMMA DeltaRange ==
  ASSUME NEW p \in 0 .. Modulus - 1, NEW c \in 0 .. Modulus - 1
  PROVE  /\ CounterDelta(p, c) \in 0 .. Modulus - 1
         /\ CounterDelta(p, c) = 0 <=> c = p
  BY E2EAssumption DEF CounterDelta

(* The counter after it is one further ahead, or there again.                *)
LEMMA DeltaNext ==
  ASSUME NEW p \in 0 .. Modulus - 1, NEW a \in Nat
  PROVE  CounterDelta(p, (a + 1) % Modulus) =
           IF CounterDelta(p, a % Modulus) = Modulus - 1 THEN 0
           ELSE CounterDelta(p, a % Modulus) + 1
<1> DEFINE c == a % Modulus
           d == (a + 1) % Modulus
<1>1. c \in 0 .. Modulus - 1 /\ d = IF c = Modulus - 1 THEN 0 ELSE c + 1
  BY Remainder, Successor
<1> HIDE DEF c, d
<1>2. CounterDelta(p, d) =
        IF CounterDelta(p, c) = Modulus - 1 THEN 0 ELSE CounterDelta(p, c) + 1
  BY <1>1, E2EAssumption DEF CounterDelta
<1> QED BY <1>2 DEF c, d

-----------------------------------------------------------------------------
(* The invariant.                                                            *)

(* A frame is behind the sender by no more than the time it is old, but for  *)
(* the one counter that a fault repeats.                                     *)
Timely ==
  \A f \in frames :
    f.n <= protectedUpTo /\ protectedUpTo <= f.n + 1 + (now - f.sent)

(* The receiver holds the counter of the newest frame accepted, and has      *)
(* counted its repetitions.                                                  *)
InStep ==
  /\ newest <= protectedUpTo
  /\ receiver.initialized =>
       /\ receiver.last = newest % Modulus
       /\ times <= receiver.repetitions + 1 /\ times <= MaxRepetitions + 1
  /\ ~receiver.initialized => newest = 0 /\ times = 0 /\ refusals = 0

(* The frames refused in a row are the counters from the end of the window   *)
(* up to the last one heard.                                                 *)
Ahead == CounterDelta(receiver.last, lastHeard % Modulus)
GapCounted ==
  refusals > 0 =>
    \/ Ahead = 0 /\ refusals <= Modulus - MaxDelta
    \/ Ahead \in MaxDelta + 1 .. Modulus - 1 /\ refusals <= Ahead - MaxDelta

E2EInv == E2ETypeOK /\ Timely /\ InStep /\ GapCounted

LEMMA InitE2E == E2EInit => E2EInv
  BY E2EAssumption
  DEF E2EInit, E2EInv, E2ETypeOK, Timely, InStep, GapCounted, Frame, ReceiverState

LEMMA ProtectE2E ==
  ASSUME E2EInv, NEW fault \in FaultModes, ProtectPayload(fault)
  PROVE  E2EInv'
<1> DEFINE g == [n |-> IF fault = "RepeatCounter" THEN protectedUpTo ELSE protectedUpTo + 1,
                 sent |-> IF fault # "StaleTimestamp" THEN now + 1
                          ELSE IF now > FrameTimeout THEN now - FrameTimeout ELSE 0,
                 damage |-> Damage(fault)]
<1>1. /\ now < MaxTime /\ protectedUpTo < MaxFrames
      /\ now' = now + 1 /\ protectedUpTo' = protectedUpTo + 1
      /\ frames' = frames \cup {g}
      /\ UNCHANGED <<receiver, newest, times, lastHeard, refusals>>
  BY DEF ProtectPayload, e2eObservers
<1>2. now \in 0 .. MaxTime /\ protectedUpTo \in 0 .. MaxFrames /\ frames \subseteq Frame
  BY DEF E2EInv, E2ETypeOK
<1>3. /\ g.n \in protectedUpTo .. protectedUpTo + 1
      /\ g.sent \in 0 .. now + 1 /\ g.damage \in {"none", "crc", "data_id", "length"}
  BY <1>2, E2EAssumption
<1>4. g \in Frame
  BY <1>1, <1>2, <1>3, E2EAssumption DEF Frame
<1> HIDE DEF g
<1>5. E2ETypeOK'
  BY <1>1, <1>2, <1>4, E2EAssumption DEF E2EInv, E2ETypeOK
<1>6. Timely'
  BY <1>1, <1>2, <1>3 DEF E2EInv, Timely, Frame
<1>7. InStep' /\ GapCounted'
  BY <1>1, <1>2 DEF E2EInv, InStep, GapCounted, Ahead, E2ETypeOK
<1> QED BY <1>5, <1>6, <1>7 DEF E2EInv

-----------------------------------------------------------------------------
(* What the check of a frame comes to.                                       *)

LEMMA Statuses ==
  ASSUME NEW f
  PROVE  /\ Status(f) = "Ok" => Sound(f) /\ Young(f) /\ ~Repeats(f) /\ ~OutOfSequence(f)
         /\ Status(f) = "Repeated" => Sound(f) /\ Young(f) /\ Repeats(f)
         /\ Sound(f) /\ Young(f) => Status(f) \in {"Ok", "Repeated", "WrongSequence"}
         /\ Sound(f) /\ Young(f) /\ Status(f) = "WrongSequence" => OutOfSequence(f)
  BY DEF Status

(* A frame that is accepted is not older than the newest one.                *)
LEMMA AcceptedNewer ==
  ASSUME E2EInv, NEW f \in frames, Accepts(f)
  PROVE  /\ f.n >= newest
         /\ Status(f) = "Ok" /\ receiver.initialized => f.n # newest
<1>1. /\ f.n \in Nat /\ f.sent \in Nat /\ now \in Nat /\ newest \in Nat /\ protectedUpTo \in Nat
      /\ f.n <= protectedUpTo /\ protectedUpTo <= f.n + 1 + (now - f.sent)
      /\ newest <= protectedUpTo
  BY E2EAssumption DEF E2EInv, E2ETypeOK, Timely, InStep, Frame
<1>2. Young(f) /\ (~Repeats(f) => ~OutOfSequence(f))
  BY Statuses DEF Accepts
<1>3. CASE ~receiver.initialized
  BY <1>1, <1>3 DEF E2EInv, InStep
<1>4. CASE receiver.initialized
  <2>1. receiver.last = newest % Modulus /\ Counter(f) = f.n % Modulus
    BY <1>4 DEF E2EInv, InStep, Counter
  <2>2. Status(f) = "Ok" => f.n # newest
    BY <1>4, <2>1, Statuses DEF Repeats
  <2>3. ASSUME f.n < newest PROVE FALSE
    <3>1. newest - f.n <= 1 + FrameTimeout /\ newest - f.n < Modulus
      BY <1>1, <1>2, <2>3, E2EAssumption DEF Young
    <3>2. /\ newest % Modulus # f.n % Modulus
          /\ CounterDelta(newest % Modulus, f.n % Modulus) = Modulus - (newest - f.n)
      BY <1>1, <2>3, <3>1, Lag
    <3>3. CounterDelta(newest % Modulus, f.n % Modulus) \in 1 .. MaxDelta
      BY <1>2, <1>4, <2>1, <3>2 DEF Repeats, OutOfSequence
    <3> QED BY <1>1, <3>1, <3>2, <3>3, E2EAssumption
  <2> QED BY <1>1, <2>2, <2>3
<1> QED BY <1>3, <1>4

LEMMA CheckE2E ==
  ASSUME E2EInv, NEW f \in frames, CheckPayload(f)
  PROVE  /\ E2EInv'
         /\ receiver.initialized /\ receiver'.initialized =>
              newest' >= newest /\ times' <= MaxRepetitions + 1
<1>1. /\ UNCHANGED <<now, protectedUpTo, frames>>
      /\ now \in 0 .. MaxTime /\ protectedUpTo \in 0 .. MaxFrames /\ frames \subseteq Frame
      /\ f.n \in 0 .. MaxFrames /\ f.n \in Nat /\ f.n <= protectedUpTo
      /\ receiver \in ReceiverState
      /\ newest \in 0 .. MaxFrames /\ newest \in Nat /\ times \in Nat
      /\ lastHeard \in 0 .. MaxFrames /\ lastHeard \in Nat /\ refusals \in Nat
  BY E2EAssumption DEF CheckPayload, E2EInv, E2ETypeOK, Timely, Frame
<1>2. Counter(f) = f.n % Modulus /\ Counter(f) \in 0 .. Modulus - 1
  BY <1>1, Remainder DEF Counter
<1>3. Timely'
  BY <1>1 DEF E2EInv, Timely
<1>4. CASE Status(f) = "Ok"
  <2>1. /\ Accepts(f) /\ Sound(f) /\ Young(f)
        /\ receiver' = [initialized |-> TRUE, last |-> Counter(f), repetitions |-> 0]
    BY <1>4, Statuses DEF CheckPayload, Accepts
  <2>2. /\ newest' = f.n /\ times' = IF f.n = newest THEN times + 1 ELSE 1
        /\ lastHeard' = f.n /\ refusals' = 0
    BY <2>1 DEF CheckPayload
  <2>3. f.n >= newest /\ (receiver.initialized => f.n # newest)
    BY <1>4, <2>1, AcceptedNewer
  <2>4. times' <= 1
    BY <1>1, <2>2, <2>3 DEF E2EInv, InStep
  <2>5. E2ETypeOK'
    BY <1>1, <1>2, <2>1, <2>2, E2EAssumption DEF E2ETypeOK, ReceiverState
  <2>6. InStep'
    BY <1>1, <1>2, <2>1, <2>2, <2>4, E2EAssumption DEF InStep
  <2>7. GapCounted'
    BY <2>2 DEF GapCounted
  <2> QED BY <1>1, <1>3, <2>2, <2>3, <2>4, <2>5, <2>6, <2>7, E2EAssumption DEF E2EInv
<1>5. CASE Status(f) = "Repeated"
  <2>1. /\ Sound(f) /\ Young(f) /\ Repeats(f)
        /\ receiver' = [receiver EXCEPT !.repetitions = IF @ = CountLimit THEN @ ELSE @ + 1]
    BY <1>5, Statuses DEF CheckPayload
  <2>2. /\ receiver.initialized /\ receiver'.initialized /\ receiver' \in ReceiverState
        /\ receiver'.last = receiver.last /\ receiver.last = Counter(f)
        /\ receiver'.repetitions = IF receiver.repetitions = CountLimit
                                   THEN receiver.repetitions ELSE receiver.repetitions + 1
    BY <1>1, <2>1, E2EAssumption DEF ReceiverState, Repeats
  <2>3. CASE Accepts(f)
    <3>1. /\ newest' = f.n /\ times' = IF f.n = newest THEN times + 1 ELSE 1
          /\ lastHeard' = f.n /\ refusals' = 0
      BY <2>1, <2>3 DEF CheckPayload
    <3>2. f.n >= newest /\ receiver.repetitions < MaxRepetitions
      BY <1>5, <2>3, AcceptedNewer DEF Accepts
    <3>3. /\ receiver.repetitions \in Nat
          /\ receiver'.repetitions = receiver.repetitions + 1
      BY <1>1, <2>2, <3>2, E2EAssumption DEF ReceiverState
    <3>4. times <= receiver.repetitions + 1
      BY <2>2 DEF E2EInv, InStep
    <3>5. times' <= receiver'.repetitions + 1 /\ times' <= MaxRepetitions + 1 /\ times' \in Nat
      BY <1>1, <3>1, <3>2, <3>3, <3>4, E2EAssumption
    <3>6. E2ETypeOK'
      BY <1>1, <2>2, <3>1, <3>5 DEF E2ETypeOK
    <3>7. InStep' /\ GapCounted'
      BY <1>1, <1>2, <2>2, <3>1, <3>5 DEF InStep, GapCounted
    <3> QED BY <1>3, <3>1, <3>2, <3>5, <3>6, <3>7 DEF E2EInv
  <2>4. CASE ~Accepts(f)
    <3>1. newest' = newest /\ times' = times /\ lastHeard' = f.n
      BY <2>1, <2>4 DEF CheckPayload
    <3>2. /\ receiver.repetitions \in Nat /\ receiver'.repetitions >= receiver.repetitions
          /\ times <= receiver.repetitions + 1 /\ times <= MaxRepetitions + 1
          /\ receiver.last = newest % Modulus
      BY <1>1, <2>2, E2EAssumption DEF ReceiverState, E2EInv, InStep
    <3>3. refusals' = IF f.n = lastHeard + 1 THEN refusals + 1 ELSE 1
      BY <2>1, <2>4 DEF CheckPayload
    <3>4. Ahead' = 0
      BY <1>1, <1>2, <2>2, <3>1, DeltaRange DEF Ahead, ReceiverState
    <3>5. f.n = lastHeard + 1 => refusals <= Modulus - 1 - MaxDelta
      <4>1. ASSUME f.n = lastHeard + 1 PROVE Ahead = Modulus - 1
        <5>1. receiver.last \in 0 .. Modulus - 1 /\ lastHeard % Modulus \in 0 .. Modulus - 1
          BY <1>1, Remainder DEF ReceiverState
        <5>2. CounterDelta(receiver.last, f.n % Modulus) = 0
          BY <1>2, <2>2, <5>1, DeltaRange
        <5>3. Ahead \in 0 .. Modulus - 1
          BY <5>1, DeltaRange DEF Ahead
        <5>4. CounterDelta(receiver.last, (lastHeard + 1) % Modulus)
                = IF Ahead = Modulus - 1 THEN 0 ELSE Ahead + 1
          BY <1>1, <5>1, DeltaNext DEF Ahead
        <5>5. f.n % Modulus = (lastHeard + 1) % Modulus
          BY <4>1
        <5> HIDE DEF Ahead
        <5> QED BY <5>2, <5>3, <5>4, <5>5, E2EAssumption
      <4>2. ASSUME f.n = lastHeard + 1, refusals > 0 PROVE refusals <= Modulus - 1 - MaxDelta
        BY <4>1, <4>2, E2EAssumption DEF E2EInv, GapCounted
      <4> QED BY <1>1, <4>2, E2EAssumption
    <3>6. refusals' \in Nat /\ refusals' <= Modulus - MaxDelta
      BY <1>1, <3>3, <3>5, E2EAssumption
    <3>7. E2ETypeOK'
      BY <1>1, <2>2, <3>1, <3>6 DEF E2ETypeOK
    <3>8. InStep' /\ GapCounted'
      BY <1>1, <2>2, <3>1, <3>2, <3>4, <3>6 DEF E2EInv, InStep, GapCounted, ReceiverState
    <3> QED BY <1>1, <1>3, <3>1, <3>2, <3>7, <3>8 DEF E2EInv
  <2> QED BY <2>3, <2>4
<1>6. CASE Status(f) \notin {"Ok", "Repeated"}
  <2>1. /\ ~Accepts(f) /\ receiver' = receiver /\ newest' = newest /\ times' = times
    BY <1>6 DEF Accepts, CheckPayload
  <2>2. InStep /\ MaxRepetitions + 1 \in Nat
    BY E2EAssumption DEF E2EInv
  <2>3. CASE Sound(f) /\ Young(f)
    <3>1. /\ OutOfSequence(f)
          /\ lastHeard' = f.n /\ refusals' = IF f.n = lastHeard + 1 THEN refusals + 1 ELSE 1
      BY <1>6, <2>1, <2>3, Statuses DEF CheckPayload
    <3>2. /\ receiver.initialized /\ receiver.last \in 0 .. Modulus - 1
          /\ Counter(f) # receiver.last
          /\ CounterDelta(receiver.last, f.n % Modulus) \notin 1 .. MaxDelta
          /\ CounterDelta(receiver.last, f.n % Modulus) \in 1 .. Modulus - 1
      BY <1>1, <1>2, <3>1, DeltaRange, E2EAssumption DEF OutOfSequence, Repeats, ReceiverState
    <3>3. Ahead' = CounterDelta(receiver.last, f.n % Modulus) /\ Ahead' \in MaxDelta + 1 .. Modulus - 1
      BY <2>1, <3>1, <3>2, E2EAssumption DEF Ahead
    <3>4. ASSUME f.n = lastHeard + 1, refusals > 0 PROVE refusals + 1 <= Ahead' - MaxDelta
      <4>1. lastHeard % Modulus \in 0 .. Modulus - 1
        BY <1>1, Remainder
      <4>2. Ahead \in 0 .. Modulus - 1
        BY <3>2, <4>1, DeltaRange DEF Ahead
      <4>3. Ahead' = IF Ahead = Modulus - 1 THEN 0 ELSE Ahead + 1
        BY <1>1, <3>2, <3>3, <3>4, DeltaNext DEF Ahead
      <4>4. Ahead # 0
        BY <3>3, <4>2, <4>3, E2EAssumption
      <4>5. refusals <= Ahead - MaxDelta
        BY <3>4, <4>4 DEF E2EInv, GapCounted
      <4> QED BY <1>1, <3>3, <4>2, <4>3, <4>5, E2EAssumption
    <3>5. refusals' \in Nat /\ refusals' <= Ahead' - MaxDelta
      BY <1>1, <3>1, <3>3, <3>4, E2EAssumption
    <3>6. E2ETypeOK'
      BY <1>1, <2>1, <3>1, <3>5 DEF E2ETypeOK
    <3>7. InStep' /\ GapCounted'
      BY <1>1, <2>1, <2>2, <3>2, <3>3, <3>5 DEF InStep, GapCounted
    <3> QED BY <1>1, <1>3, <2>1, <2>2, <3>6, <3>7 DEF E2EInv, InStep
  <2>4. CASE ~(Sound(f) /\ Young(f))
    <3>1. lastHeard' = lastHeard /\ refusals' = refusals
      BY <2>4 DEF CheckPayload
    <3>2. E2ETypeOK' /\ InStep' /\ GapCounted'
      BY <1>1, <2>1, <3>1 DEF E2EInv, E2ETypeOK, InStep, GapCounted, Ahead
    <3> QED BY <1>1, <1>3, <2>1, <2>2, <3>2 DEF E2EInv, InStep
  <2> QED BY <2>3, <2>4
<1> QED BY <1>4, <1>5, <1>6

-----------------------------------------------------------------------------
(* Theorems.                                                                 *)

LEMMA NextE2E ==
  ASSUME E2EInv, [E2ENext]_e2eVars
  PROVE  /\ E2EInv'
         /\ receiver.initialized /\ receiver'.initialized /\ e2eVars' # e2eVars =>
              newest' >= newest /\ times' <= MaxRepetitions + 1
<1> USE DEF E2EInv, E2ETypeOK, Timely, InStep, GapCounted, Ahead
<1>1. CASE E2ETick
  BY <1>1, E2EAssumption DEF E2ETick, e2eObservers, Frame
<1>2. ASSUME NEW fault \in FaultModes, ProtectPayload(fault)
      PROVE  E2EInv' /\ newest' >= newest
                     /\ (receiver.initialized => times' <= MaxRepetitions + 1)
  <2>1. UNCHANGED <<newest, times>>
    BY <1>2 DEF ProtectPayload, e2eObservers
  <2> QED BY <1>2, <2>1, ProtectE2E
<1>3. ASSUME NEW f \in frames, LoseFrame(f)
      PROVE  E2EInv' /\ newest' >= newest
                     /\ (receiver.initialized => times' <= MaxRepetitions + 1)
  BY <1>3 DEF LoseFrame, e2eObservers
<1>4. CASE ReceiverRestarts
  BY <1>4, E2EAssumption DEF ReceiverRestarts, ReceiverState
<1>5. CASE UNCHANGED e2eVars
  BY <1>5 DEF e2eVars
<1> QED BY <1>1, <1>2, <1>3, <1>4, <1>5, CheckE2E DEF E2ENext

LEMMA E2EInvariant == E2ESpec => []E2EInv
  BY InitE2E, NextE2E, PTL DEF E2ESpec

(* Every reachable state of sender, network and receiver is well typed.      *)
THEOREM E2ETypeCorrect == E2ESpec => []E2ETypeOK
<1>1. E2EInv => E2ETypeOK
  BY DEF E2EInv
<1> QED BY E2EInvariant, <1>1, PTL

(* The receiver accepts payloads in the order they were protected in, and    *)
(* none more often than its profile allows.                                  *)
THEOREM AcceptedInOrderCorrect == E2ESpec => AcceptedInOrder
<1>1. E2EInv /\ [E2ENext]_e2eVars =>
        [receiver.initialized /\ receiver'.initialized =>
           newest' >= newest /\ times' <= MaxRepetitions + 1]_e2eVars
  BY NextE2E
<1> QED BY E2EInvariant, <1>1, PTL DEF E2ESpec, AcceptedInOrder

(* Successive frames are refused for at most one round of the counter less   *)
(* the window.                                                               *)
THEOREM SilenceEndsCorrect == E2ESpec => []SilenceEnds
<1>1. E2EInv => SilenceEnds
  BY E2EAssumption DEF E2EInv, E2ETypeOK, GapCounted, SilenceEnds
<1> QED BY E2EInvariant, <1>1, PTL

-----------------------------------------------------------------------------
(* SOME/IP calls: the session id tells how many calls were made.             *)

SessionOf(k) == ((k - 1) % MaxSession) + 1

LEMMA SipParameters ==
  /\ MaxSession \in Nat /\ MaxSession # 0 /\ MaxSession >= 1
  /\ RequestTimeout \in Nat /\ Life \in Nat /\ MaxCalls \in Nat
  /\ 2 * Life < MaxSession /\ RequestTimeout < MaxSession
<1>1. /\ MaxSession \in Nat \ {0} /\ RequestTimeout \in Nat \ {0}
      /\ Life \in Nat /\ MaxCalls \in Nat
      /\ 2 * Life < MaxSession /\ RequestTimeout < MaxSession
  BY SomeIpAssumption, Zenon
<1> QED BY <1>1

LEMMA SameSession ==
  ASSUME NEW a \in Nat, NEW b \in Nat, 1 <= a, a < b, SessionOf(a) = SessionOf(b)
  PROVE  b - a >= MaxSession
<1> DEFINE x == a - 1
           y == b - 1
           r == x % MaxSession
<1>1. MaxSession \in Nat /\ MaxSession # 0 /\ x \in Nat /\ y \in Nat /\ r = y % MaxSession
  <2>1. x \in Nat /\ y \in Nat /\ MaxSession \in Nat /\ MaxSession # 0
    BY SipParameters
  <2>2. x % MaxSession \in Int /\ y % MaxSession \in Int
    BY <2>1, Division
  <2> QED BY <2>1, <2>2 DEF SessionOf
<1>2. PICK p \in Nat : x = MaxSession * p + r
  BY <1>1, Division
<1>3. PICK q \in Nat : y = MaxSession * q + r
  BY <1>1, Division
<1>4. r \in Nat
  BY <1>1, Division
<1> HIDE DEF r
<1> DEFINE k == q - p
<1>5. k \in Int /\ b - a = MaxSession * k
  BY <1>1, <1>2, <1>3, <1>4
<1> HIDE DEF k
<1>6. k >= 1
  BY <1>1, <1>5
<1> QED BY <1>1, <1>5, <1>6

LEMMA SessionAfter ==
  ASSUME NEW k \in Nat, 1 <= k
  PROVE  /\ SessionOf(k) \in 1 .. MaxSession
         /\ SessionOf(k + 1) = IF SessionOf(k) = MaxSession THEN 1 ELSE SessionOf(k) + 1
<1> DEFINE x == k - 1
<1>1. x \in Nat /\ MaxSession \in Nat /\ MaxSession # 0 /\ k = x + 1
  BY SipParameters
<1>2. x % MaxSession \in 0 .. MaxSession - 1
  BY <1>1, Division
<1>3. (x + 1) % MaxSession = IF x % MaxSession = MaxSession - 1 THEN 0 ELSE (x % MaxSession) + 1
  BY <1>1, Following
<1>4. SessionOf(k) = (x % MaxSession) + 1 /\ SessionOf(k + 1) = ((x + 1) % MaxSession) + 1
  BY <1>1 DEF SessionOf
<1> HIDE DEF x
<1> QED BY <1>1, <1>2, <1>3, <1>4

-----------------------------------------------------------------------------
(* The invariant.                                                            *)

MessageFields == {"message", "version", "type", "code", "id", "payload", "sent", "truth"}

OutcomeOK(r) ==
  /\ r = Outcome(r.error, r.domain, r.code, r.payload) /\ r.error \in BOOLEAN
  /\ ~r.error => r.domain = "" /\ r.code = 0

(* A response carries the outcome the server answered with.                  *)
Carries(m, r) ==
  /\ OutcomeOK(r) /\ Encodable(r)
  /\ m.code = (IF r.error THEN "NotOk" ELSE "Ok") /\ m.payload = EncodeMethodErrorPayload(r)

(* A message is about a call made so lately that its session id has not come *)
(* round, and no call since then has its request id.                         *)
OnItsWay(m) ==
  /\ DOMAIN m = MessageFields /\ DOMAIN m.truth = 1 .. 2
  /\ m.id \in RequestIds /\ m.truth[1] \in 1 .. calls /\ m.id[2] = SessionOf(m.truth[1])
  /\ m.sent \in 0 .. sipClock /\ sipClock - m.sent <= Life
  /\ m.type # "Response" => m.sent + (calls - m.truth[1]) <= sipClock
  /\ m.type = "Response" =>
       m.sent + (calls - m.truth[1]) <= sipClock + Life /\ Carries(m, m.truth[2])
  /\ requests[m.id] # NoRequest => m.truth[1] <= requests[m.id].call

(* A pending request belongs to the latest call with its id, was made as     *)
(* long ago as there are later calls, and has not been answered.             *)
Waits(id) ==
  /\ requests[id].op \in Operations
  /\ requests[id].call \in 1 .. calls /\ id[2] = SessionOf(requests[id].call)
  /\ requests[id].deadline \in Int
  /\ requests[id].deadline - RequestTimeout + (calls - requests[id].call) <= sipClock
  /\ answered[requests[id].call] = {}

Faithful(o, r) == r = o \/ (r.error /\ r.domain = "" /\ r.payload = "lookalike")
GivenFor(a, k) == a.truth[1] = k /\ Faithful(a.given, a.truth[2])

SipTypes ==
  /\ sipClock \in Nat /\ calls \in 0 .. MaxCalls /\ nextSession = SessionOf(calls + 1)
  /\ deployed \in Deployments
  /\ requests = [id \in RequestIds |-> requests[id]]
  /\ answered = [k \in 1 .. MaxCalls |-> answered[k]]

GivenOnce(k) ==
  /\ answered[k] = {} \/ \E a \in answered[k] : answered[k] = {a} /\ GivenFor(a, k)
  /\ k > calls => answered[k] = {}

MessagesInv == \A m \in wire : OnItsWay(m)
WaitingInv == \A id \in Pending : Waits(id)
DistinctInv == \A i, j \in Pending : requests[i].call = requests[j].call => i = j
GivenInv == \A k \in 1 .. MaxCalls : GivenOnce(k)

SipInv == SipTypes /\ MessagesInv /\ WaitingInv /\ DistinctInv /\ GivenInv

LEMMA GivenStays ==
  ASSUME NEW k, GivenOnce(k), answered'[k] = answered[k], k > calls' => k > calls
  PROVE  GivenOnce(k)'
  BY Zenon DEF GivenOnce, GivenFor

LEMMA OnePair ==
  ASSUME NEW o, NEW t
  PROVE  [given : {o}, truth : {t}] = {[given |-> o, truth |-> t]}
<1>1. ASSUME NEW b \in [given : {o}, truth : {t}] PROVE b = [given |-> o, truth |-> t]
  <2>1. b = [given |-> b.given, truth |-> b.truth] /\ b.given = o /\ b.truth = t
    OBVIOUS
  <2> QED BY <2>1
<1>2. [given |-> o, truth |-> t] \in [given : {o}, truth : {t}]
  OBVIOUS
<1> QED BY <1>1, <1>2, Zenon

LEMMA InitSip == SipInit => SipInv
<1>1. SessionOf(1) = 1
  <2>1. 0 % MaxSession \in 0 .. MaxSession - 1
        /\ \E q \in Nat : 0 = MaxSession * q + (0 % MaxSession)
    BY SipParameters, Division
  <2>2. 0 % MaxSession = 0
    BY <2>1, SipParameters
  <2> QED BY <2>2 DEF SessionOf
<1>2. 0 \in 0 .. MaxCalls /\ 0 + 1 = 1
  BY SipParameters
<1> QED BY <1>1, <1>2 DEF SipInit, SipInv, SipTypes, Pending, MessagesInv, WaitingInv, DistinctInv,
                          GivenInv, GivenOnce

LEMMA DeploymentOK ==
  ASSUME SipInv
  PROVE  /\ deployed.clients \subseteq Clients /\ deployed.operations \subseteq Operations
         /\ \A r \in deployed.outcomes : OutcomeOK(r)
<1>1. deployed \in Deployments
  BY DEF SipInv, SipTypes
<1> QED BY <1>1, SomeIpAssumption, Zenon DEF OutcomeOK

-----------------------------------------------------------------------------
(* What messages are built and decoded.                                      *)

LEMMA RequestBuilt ==
  ASSUME NEW m, NEW op \in Operations, NEW payload, NEW id, NEW k, NEW at,
         NEW request, request = BuildRequest(m, op, payload, id, k, at)
  PROVE  /\ DOMAIN request = MessageFields /\ DOMAIN request.truth = 1 .. 2
         /\ request.id = id /\ request.truth[1] = k /\ request.sent = at
         /\ request.type # "Response"
<1> DEFINE Built(x) ==
      /\ DOMAIN x = MessageFields /\ DOMAIN x.truth = 1 .. 2
      /\ x.id = id /\ x.truth[1] = k /\ x.sent = at /\ x.type # "Response"
<1>1. ASSUME NEW p PROVE Built(BuildMethodRequest(m, p, id, k, at))
  BY DEF BuildMethodRequest, MessageFields
<1>2. ASSUME NEW x, Built(x), NEW y
      PROVE  Built([x EXCEPT !.message = y]) /\ Built([x EXCEPT !.type = "RequestNoReturn"])
  BY <1>2 DEF MessageFields
<1> HIDE DEF Built
<1>3. Built(request)
  <2>1. CASE op = "method"
    BY <1>1, <2>1 DEF BuildRequest
  <2>2. CASE op = "oneway"
    BY <1>1, <1>2, <2>2 DEF BuildRequest, BuildFireAndForgetMethodRequest
  <2>3. CASE op = "getter"
    BY <1>1, <1>2, <2>3 DEF BuildRequest, BuildFieldGetterRequest, BuildFieldMessage
  <2>4. CASE op = "setter"
    BY <1>1, <1>2, <2>4 DEF BuildRequest, BuildFieldSetterRequest, BuildFieldMessage
  <2> QED BY <2>1, <2>2, <2>3, <2>4 DEF Operations
<1> QED BY <1>3 DEF Built

LEMMA RequestDecoded ==
  ASSUME NEW m, NEW op \in Operations, NEW request, DecodeRequest(m, op, request)
  PROVE  request.type # "Response"
  BY DEF Operations, DecodeRequest, DecodeMethodRequest, DecodeFireAndForgetMethodRequest,
         DecodeFieldGetterRequest, DecodeFieldSetterRequest, DecodeFieldValue,
         ValidateFieldMessageHeader, HeaderFits

LEMMA ResponseBuilt ==
  ASSUME NEW op \in Operations, NEW r, OutcomeOK(r),
         NEW request, DOMAIN request = MessageFields, DOMAIN request.truth = 1 .. 2,
         NEW response \in BuildResponse(op, request, r)
  PROVE  /\ DOMAIN response = MessageFields /\ DOMAIN response.truth = 1 .. 2
         /\ response.type = "Response" /\ response.sent = sipClock
         /\ response.id = request.id /\ response.truth[1] = request.truth[1]
         /\ Carries(response, response.truth[2])
<1>1. PICK payload : /\ response = Response(request, r, payload)
                     /\ Encodable(r) /\ payload = EncodeMethodErrorPayload(r)
  BY DEF Operations, BuildResponse, BuildMethodResponse, BuildFieldSetterResponse,
         BuildFieldGetterResponse, ValidFieldValue, Encodable, EncodeMethodErrorPayload
<1>2. /\ DOMAIN response = MessageFields
      /\ response.truth = [request.truth EXCEPT ![2] = r]
      /\ response.type = "Response" /\ response.sent = sipClock /\ response.id = request.id
      /\ response.payload = payload /\ response.code = IF r.error THEN "NotOk" ELSE "Ok"
  BY <1>1 DEF Response, MessageFields
<1>3. DOMAIN response.truth = 1 .. 2 /\ response.truth[2] = r /\ response.truth[1] = request.truth[1]
  BY <1>2
<1> QED BY <1>1, <1>2, <1>3 DEF Carries

LEMMA BareParts ==
  ASSUME NEW v
  PROVE  ~Bare(v).wrapped /\ Bare(v).value = v
<1>1. Bare(v).wrapped = FALSE
  BY Zenon DEF Bare
<1>2. Bare(v).value = v
  BY Zenon DEF Bare
<1> QED BY <1>1, <1>2

(* Decoding gives back what was encoded, but for bytes that look like an     *)
(* envelope.                                                                 *)
LEMMA ResponseDecoded ==
  ASSUME NEW m, NEW op \in Operations, NEW response, NEW r, Carries(response, r),
         NEW o \in DecodeResponse(m, op, response)
  PROVE  DecodeResponse(m, op, response) = {o} /\ Faithful(o, r)
<1>1. CASE ~r.error
  <2>1. response.code = "Ok" /\ response.payload = Bare(r.payload) /\ r = Outcome(FALSE, "", 0, r.payload)
    BY <1>1 DEF Carries, OutcomeOK, EncodeMethodErrorPayload, Outcome
  <2>2. response.payload.value = r.payload
    BY <2>1, BareParts
  <2>3. DecodeResponse(m, op, response) = {Outcome(FALSE, "", 0, r.payload)}
    BY <2>1, <2>2 DEF Operations, DecodeResponse, DecodeMethodResponse, DecodeFieldGetterResponse,
                      DecodeFieldSetterResponse
  <2> QED BY <2>1, <2>3 DEF Faithful
<1>2. CASE r.error
  <2>1. /\ response.code = "NotOk" /\ r = Outcome(TRUE, r.domain, r.code, r.payload)
        /\ response.payload = EncodeMethodErrorPayload(r)
        /\ r.code # 0 => r.domain # ""
    BY <1>2 DEF Carries, OutcomeOK, Encodable, Outcome
  <2>2. DecodeResponse(m, op, response) = {DecodeMethodErrorPayload(response.payload)}
    BY <2>1 DEF Operations, DecodeResponse, DecodeMethodResponse, DecodeFieldGetterResponse,
                DecodeFieldSetterResponse, DecodeFieldValue, ValidateFieldMessageHeader
  <2>3. CASE r.domain # ""
    <3>1. DecodeMethodErrorPayload(response.payload) = Outcome(TRUE, r.domain, r.code, r.payload)
      <4> DEFINE p == [wrapped |-> TRUE, domain |-> r.domain, code |-> r.code, value |-> r.payload]
      <4>1. response.payload = p
        BY <1>2, <2>1, <2>3 DEF EncodeMethodErrorPayload
      <4>2. p.wrapped = TRUE
        BY Zenon
      <4>3. p.domain = r.domain /\ p.code = r.code /\ p.value = r.payload
        BY Zenon
      <4> HIDE DEF p
      <4>4. DecodeMethodErrorPayload(p) = Outcome(TRUE, p.domain, p.code, p.value)
        BY <4>2, Zenon DEF DecodeMethodErrorPayload
      <4> QED BY <4>1, <4>3, <4>4
    <3> QED BY <2>1, <2>2, <3>1 DEF Faithful
  <2>4. CASE r.domain = "" /\ r.payload # "lookalike"
    <3>1. response.payload = Bare(r.payload) /\ r.code = 0
      BY <2>1, <2>4 DEF EncodeMethodErrorPayload
    <3>2. DecodeMethodErrorPayload(response.payload) = Outcome(TRUE, "", 0, r.payload)
      <4>1. ~Bare(r.payload).wrapped /\ Bare(r.payload).value = r.payload
        BY BareParts
      <4>2. DecodeMethodErrorPayload(Bare(r.payload)) = Outcome(TRUE, "", 0, Bare(r.payload).value)
        BY <2>4, <4>1 DEF DecodeMethodErrorPayload
      <4> QED BY <3>1, <4>1, <4>2
    <3> QED BY <2>1, <2>2, <2>4, <3>1, <3>2 DEF Faithful
  <2>5. CASE r.domain = "" /\ r.payload = "lookalike"
    BY <1>2, <2>2, <2>5 DEF Faithful
  <2> QED BY <2>3, <2>4, <2>5
<1> QED BY <1>1, <1>2 DEF Carries, OutcomeOK

-----------------------------------------------------------------------------
(* The steps.                                                                *)

(* A response to a pending request is the one to the call it was made for.   *)
LEMMA ResponseIsCurrent ==
  ASSUME SipInv, NEW m \in wire, m.type = "Response", requests[m.id] # NoRequest
  PROVE  m.truth[1] = requests[m.id].call
<1> DEFINE c == requests[m.id].call
           t == m.truth[1]
<1>1. /\ m.id \in RequestIds /\ t \in 1 .. calls /\ m.id[2] = SessionOf(t) /\ t <= c
      /\ m.sent \in 0 .. sipClock /\ sipClock - m.sent <= Life
      /\ m.sent + (calls - t) <= sipClock + Life
  BY DEF SipInv, MessagesInv, OnItsWay
<1>2. c \in 1 .. calls /\ m.id[2] = SessionOf(c)
  BY <1>1 DEF SipInv, WaitingInv, Waits, Pending
<1>3. calls \in Nat /\ sipClock \in Nat
  BY SipParameters DEF SipInv, SipTypes
<1> HIDE DEF c, t
<1>4. t \in Nat /\ c \in Nat /\ 1 <= t /\ SessionOf(t) = SessionOf(c)
  BY <1>1, <1>2, <1>3
<1>5. c - t < MaxSession
  BY <1>1, <1>2, <1>3, SipParameters
<1>6. ~(t < c)
  <2>1. ASSUME t < c PROVE c - t >= MaxSession
    BY <1>4, <2>1, SameSession
  <2> QED BY <1>4, <1>5, <2>1, SipParameters
<1>7. t = c
  BY <1>1, <1>4, <1>6
<1> QED BY <1>7 DEF c, t

LEMMA CallSip ==
  ASSUME SipInv, NEW client \in deployed.clients, NEW op \in deployed.operations, NEW v,
         Call(client, op, v)
  PROVE  /\ SipInv'
         /\ \A i \in Pending : requests'[i] # requests[i] => sipClock' > requests[i].deadline
<1> DEFINE id == <<client, nextSession>>
           k == calls + 1
           at == sipClock + 1
           q == [message |-> MessageId(deployed.client, op), op |-> op,
                 deadline |-> at + RequestTimeout, call |-> k]
           request == BuildRequest(deployed.client, op, v, id, k, at)
<1>1. /\ calls < MaxCalls /\ calls' = k /\ sipClock' = at /\ nextSession' = NextSession
      /\ requests' = [requests EXCEPT ![id] = q]
      /\ \A m \in wire' : m = request \/ (m \in wire /\ at - m.sent <= Life)
      /\ deployed' = deployed /\ answered' = answered
  BY DEF Call, Allocate, StillThere
<1>2. SipTypes /\ op \in Operations /\ client \in Clients
  BY DeploymentOK DEF SipInv
<1>3. /\ sipClock \in Nat /\ calls \in Nat /\ nextSession = SessionOf(k)
      /\ at \in Nat /\ k \in Nat /\ 1 <= k /\ k <= MaxCalls /\ k \in 1 .. MaxCalls
  BY <1>1, <1>2, SipParameters DEF SipTypes
<1>4. /\ nextSession \in 1 .. MaxSession /\ nextSession' = SessionOf(k + 1)
  BY <1>1, <1>3, SessionAfter DEF NextSession
<1>5. id \in RequestIds /\ id[2] = SessionOf(k)
  BY <1>2, <1>3, <1>4 DEF RequestIds
<1>6. /\ DOMAIN request = MessageFields /\ DOMAIN request.truth = 1 .. 2
      /\ request.id = id /\ request.truth[1] = k /\ request.sent = at
      /\ request.type # "Response"
  BY <1>2, RequestBuilt
<1>7. q.op = op /\ q.deadline = at + RequestTimeout /\ q.call = k
  OBVIOUS
<1> HIDE DEF id, k, at, q, request
<1>8. /\ requests' = [i \in RequestIds |-> requests'[i]]
      /\ \A i \in RequestIds : requests'[i] = IF i = id THEN q ELSE requests[i]
      /\ requests'[id] = q
  BY <1>1, <1>2, <1>5 DEF SipTypes
<1>9. SipTypes'
  <2>1. k \in 0 .. MaxCalls
    BY <1>3
  <2> QED BY <1>1, <1>2, <1>3, <1>4, <1>8, <2>1 DEF SipTypes
<1>10. ASSUME NEW m \in wire' PROVE OnItsWay(m)'
  <2>1. CASE m \in wire /\ at - m.sent <= Life
    <3>1. OnItsWay(m)
      BY <2>1 DEF SipInv, MessagesInv
    <3> DEFINE t == m.truth[1]
               sent == m.sent
               c == requests[m.id].call
    <3>2. /\ t \in 1 .. calls /\ sent \in 0 .. sipClock
          /\ m.type # "Response" => sent + (calls - t) <= sipClock
          /\ m.type = "Response" => sent + (calls - t) <= sipClock + Life
          /\ m.id \in RequestIds
          /\ requests[m.id] # NoRequest => t <= c
      BY <3>1 DEF OnItsWay
    <3>3. at - sent <= Life
      BY <2>1
    <3> HIDE DEF t, sent, c
    <3>4. /\ t \in 1 .. k /\ t <= k /\ sent \in 0 .. at
          /\ m.type # "Response" => sent + (k - t) <= at
          /\ m.type = "Response" => sent + (k - t) <= at + Life
      BY <1>3, <3>2, SipParameters DEF k, at
    <3>5. requests'[m.id] # NoRequest => t <= requests'[m.id].call
      BY <1>7, <1>8, <3>2, <3>4 DEF c
    <3> QED BY <1>1, <3>1, <3>3, <3>4, <3>5 DEF OnItsWay, t, sent
  <2>2. CASE m = request
    <3>1. k \in 1 .. k /\ at \in 0 .. at /\ at - at <= Life /\ at + (k - k) <= at /\ k <= k
      BY <1>3, SipParameters
    <3> QED BY <1>1, <1>5, <1>6, <1>7, <1>8, <2>2, <3>1 DEF OnItsWay
  <2> QED BY <1>1, <2>1, <2>2
<1>11. ASSUME NEW i \in Pending'
       PROVE  Waits(i)' /\ (i # id => i \in Pending /\ requests'[i] = requests[i])
  <2>1. i \in RequestIds
    BY DEF Pending
  <2>2. CASE i = id
    <3>1. k \in 1 .. k /\ at + RequestTimeout \in Int
          /\ at + RequestTimeout - RequestTimeout + (k - k) <= at
      BY <1>3, SipParameters
    <3>2. answered[k] = {}
      <4>1. k > calls
        BY <1>3 DEF k
      <4> QED BY <1>3, <4>1 DEF SipInv, GivenInv, GivenOnce
    <3>3. requests'[i].op = op /\ requests'[i].call = k /\ requests'[i].deadline = at + RequestTimeout
      BY <1>7, <1>8, <2>2
    <3> DEFINE d == at + RequestTimeout
    <3> HIDE DEF d
    <3>4. requests'[i].deadline = d
      BY <3>3 DEF d
    <3>5. d \in Int /\ d - RequestTimeout + (k - k) <= at
      BY <1>3, SipParameters DEF d
    <3> QED BY <1>1, <1>2, <1>5, <2>2, <3>1, <3>2, <3>3, <3>4, <3>5 DEF Waits
  <2>3. CASE i # id
    <3>1. requests'[i] = requests[i] /\ i \in Pending
      BY <1>8, <2>1, <2>3 DEF Pending
    <3>2. Waits(i)
      BY <3>1 DEF SipInv, WaitingInv
    <3> DEFINE d == requests[i].deadline
               c == requests[i].call
    <3>3. c \in 1 .. calls /\ d \in Int /\ d - RequestTimeout + (calls - c) <= sipClock
      BY <3>2 DEF Waits
    <3> HIDE DEF d, c
    <3>4. c \in 1 .. k /\ d - RequestTimeout + (k - c) <= at
      BY <1>3, <3>3, SipParameters DEF k, at
    <3> QED BY <1>1, <2>3, <3>1, <3>2, <3>3, <3>4 DEF Waits, d, c
  <2> QED BY <2>2, <2>3
<1>12. ASSUME NEW i \in Pending', NEW j \in Pending', requests'[i].call = requests'[j].call
       PROVE  i = j
  <2>1. \A x \in Pending : requests[x].call # k
    <3>1. \A x \in Pending : requests[x].call \in 1 .. calls
      BY DEF SipInv, WaitingInv, Waits
    <3> QED BY <1>3, <3>1 DEF k
  <2>2. CASE i = id \/ j = id
    BY <1>7, <1>8, <1>11, <1>12, <2>1, <2>2
  <2>3. CASE i # id /\ j # id
    BY <1>11, <1>12, <2>3 DEF SipInv, DistinctInv
  <2> QED BY <2>2, <2>3
<1>13. ASSUME NEW x \in 1 .. MaxCalls PROVE GivenOnce(x)'
  <2>1. x > k => x > calls
    BY <1>3 DEF k
  <2>2. x > calls' => x > calls
    BY <1>1, <2>1
  <2> QED BY <1>1, <2>2, GivenStays DEF SipInv, GivenInv
<1>14. SipInv'
  BY <1>9, <1>10, <1>11, <1>12, <1>13 DEF SipInv, MessagesInv, WaitingInv, DistinctInv, GivenInv
<1>15. ASSUME NEW i \in Pending, requests'[i] # requests[i] PROVE sipClock' > requests[i].deadline
  <2>1. i \in RequestIds /\ Waits(i)
    BY DEF Pending, SipInv, WaitingInv
  <2>2. i = id
    BY <1>8, <1>15, <2>1
  <2> DEFINE d == requests[i].deadline
             c == requests[i].call
  <2>3. /\ c \in 1 .. calls /\ d \in Int /\ d - RequestTimeout + (calls - c) <= sipClock
        /\ SessionOf(c) = SessionOf(k)
    BY <1>5, <2>1, <2>2 DEF Waits
  <2> HIDE DEF d, c
  <2>4. c \in Nat /\ 1 <= c /\ c < k
    BY <1>3, <2>3 DEF k
  <2>5. k - c >= MaxSession
    BY <1>3, <2>3, <2>4, SameSession
  <2>6. at > d
    BY <1>3, <2>3, <2>4, <2>5, SipParameters DEF k, at
  <2> QED BY <1>1, <2>6 DEF d
<1> QED BY <1>14, <1>15

LEMMA ServeSip ==
  ASSUME SipInv, NEW request \in wire, NEW op \in Operations, NEW r \in deployed.outcomes,
         Serve(request, op, r)
  PROVE  SipInv'
<1>1. /\ \A m \in wire' : m \in wire \/ m \in BuildResponse(op, request, r)
      /\ UNCHANGED <<sipClock, nextSession, requests, deployed, calls, answered>>
      /\ request.type # "Response"
  BY RequestDecoded DEF Serve
<1>2. OnItsWay(request) /\ OutcomeOK(r)
  BY DeploymentOK DEF SipInv, MessagesInv
<1>3. ASSUME NEW m \in BuildResponse(op, request, r) PROVE OnItsWay(m)
  <2>1. /\ DOMAIN m = MessageFields /\ DOMAIN m.truth = 1 .. 2
        /\ m.type = "Response" /\ m.sent = sipClock
        /\ m.id = request.id /\ m.truth[1] = request.truth[1] /\ Carries(m, m.truth[2])
    BY <1>2, ResponseBuilt DEF OnItsWay
  <2> DEFINE t == request.truth[1]
             s == request.sent
  <2>2. /\ t \in 1 .. calls /\ s \in 0 .. sipClock /\ sipClock - s <= Life
        /\ s + (calls - t) <= sipClock
    BY <1>1, <1>2 DEF OnItsWay
  <2>3. sipClock \in Nat /\ calls \in Nat
    BY SipParameters DEF SipInv, SipTypes
  <2> HIDE DEF t, s
  <2>4. /\ sipClock \in 0 .. sipClock /\ sipClock - sipClock <= Life
        /\ sipClock + (calls - t) <= sipClock + Life
    BY <2>2, <2>3, SipParameters
  <2> QED BY <1>2, <2>1, <2>4 DEF OnItsWay, t
<1>4. ASSUME NEW m \in wire' PROVE OnItsWay(m)'
  <2>1. OnItsWay(m)
    BY <1>1, <1>3 DEF SipInv, MessagesInv
  <2> QED BY <1>1, <2>1 DEF OnItsWay
<1>5. SipTypes' /\ MessagesInv'
  BY <1>1, <1>4 DEF SipInv, SipTypes, MessagesInv
<1>6. WaitingInv' /\ DistinctInv'
  BY <1>1 DEF SipInv, WaitingInv, DistinctInv, Waits, Pending
<1>7. GivenInv'
  BY <1>1, GivenStays DEF SipInv, GivenInv
<1> QED BY <1>5, <1>6, <1>7 DEF SipInv

LEMMA ReceiveSip ==
  ASSUME SipInv, NEW response \in wire, Receive(response)
  PROVE  /\ SipInv'
         /\ \A i \in Pending : requests'[i] # requests[i] =>
              response.type = "Response" /\ response.id = i /\ response.message = requests[i].message
<1> DEFINE id == response.id
           q == requests[id]
           Given(p) == [given : DecodeResponse(deployed.client, p.op, response), truth : {response.truth}]
           Taken(k) == UNION {Given(p) : p \in {p \in Completed(id, response.message) : p.call = k}}
<1>1. /\ response.type = "Response" /\ Complete(id, response.message)
      /\ answered' = [k \in 1 .. MaxCalls |-> answered[k] \cup Taken(k)]
      /\ UNCHANGED <<sipClock, nextSession, deployed, wire, calls>>
  BY DEF Receive
<1>2. OnItsWay(response) /\ id \in RequestIds
  BY DEF SipInv, MessagesInv, OnItsWay
<1>3. SipTypes /\ (q # NoRequest => id \in Pending)
  BY <1>2 DEF SipInv, Pending
<1>4. CASE q = NoRequest \/ q.message # response.message
  <2>1. requests' = requests /\ Completed(id, response.message) = {}
    BY <1>1, <1>4 DEF Complete, Completed
  <2>2. \A k : Taken(k) = {}
    BY <2>1
  <2>3. answered' = answered
    <3>1. answered' = [k \in 1 .. MaxCalls |-> answered[k]]
      <4> HIDE DEF Taken
      <4> QED BY <1>1, <2>2
    <3> QED BY <1>3, <3>1 DEF SipTypes
  <2>4. SipTypes' /\ DistinctInv'
    BY <1>1, <2>1, <2>3 DEF SipInv, SipTypes, DistinctInv, Pending
  <2>5. MessagesInv'
    BY <1>1, <2>1 DEF SipInv, MessagesInv, OnItsWay
  <2>6. WaitingInv'
    BY <1>1, <2>1, <2>3 DEF SipInv, WaitingInv, Waits, Pending
  <2>7. GivenInv'
    BY <1>1, <2>3, GivenStays DEF SipInv, GivenInv
  <2> QED BY <2>1, <2>4, <2>5, <2>6, <2>7 DEF SipInv
<1>5. CASE q # NoRequest /\ q.message = response.message
  <2>1. requests' = [requests EXCEPT ![id] = NoRequest]
    BY <1>1, <1>5 DEF Complete
  <2>2. /\ requests' = [i \in RequestIds |-> requests'[i]]
        /\ \A i \in RequestIds : requests'[i] = IF i = id THEN NoRequest ELSE requests[i]
    BY <1>2, <1>3, <2>1 DEF SipTypes
  <2>3. \A i \in Pending' : i \in Pending /\ i # id /\ requests'[i] = requests[i]
    BY <2>2 DEF Pending
  <2>4. Waits(id) /\ q.call \in 1 .. MaxCalls
    <3>1. Waits(id)
      BY <1>3, <1>5 DEF SipInv, WaitingInv
    <3>2. q.call \in 1 .. calls /\ calls \in 0 .. MaxCalls
      BY <1>3, <3>1 DEF Waits, SipTypes
    <3> HIDE DEF q
    <3>3. q.call \in 1 .. MaxCalls
      BY <3>2, SipParameters
    <3> QED BY <3>1, <3>3
  <2>5. response.truth[1] = q.call
    BY <1>1, <1>5, ResponseIsCurrent
  <2>6. \A p \in Completed(id, response.message) : p = q
    BY DEF Completed
  <2>7. ASSUME NEW k \in 1 .. MaxCalls, k # q.call PROVE answered'[k] = answered[k]
    <3>1. Taken(k) = {}
      BY <2>6, <2>7
    <3> QED BY <1>1, <3>1
  <2>8. \/ answered'[q.call] = {}
        \/ \E a \in answered'[q.call] : answered'[q.call] = {a} /\ GivenFor(a, q.call)
    <3>1. answered'[q.call] = Taken(q.call) /\ Taken(q.call) \subseteq Given(q)
      BY <1>1, <2>4, <2>6 DEF Waits
    <3>2. CASE Taken(q.call) = {}
      BY <3>1, <3>2
    <3>3. CASE Taken(q.call) # {}
      <4>1. PICK a : a \in Taken(q.call)
        BY <3>3
      <4>2. PICK o \in DecodeResponse(deployed.client, q.op, response) :
              a = [given |-> o, truth |-> response.truth]
        BY <3>1, <4>1
      <4>3. /\ DecodeResponse(deployed.client, q.op, response) = {o}
            /\ Faithful(o, response.truth[2])
        <5>1. Carries(response, response.truth[2]) /\ q.op \in Operations
          BY <1>1, <1>2, <2>4 DEF OnItsWay, Waits
        <5> HIDE DEF q
        <5> DEFINE r == response.truth[2]
                   op == q.op
                   m == deployed.client
        <5>2. Carries(response, r) /\ op \in Operations /\ o \in DecodeResponse(m, op, response)
          BY <4>2, <5>1
        <5> HIDE DEF r, op, m
        <5>3. DecodeResponse(m, op, response) = {o} /\ Faithful(o, r)
          BY <5>2, ResponseDecoded
        <5> QED BY <5>3 DEF r, op, m
      <4>4. Given(q) = {a}
        <5>1. Given(q) = [given : {o}, truth : {response.truth}]
          BY <4>3
        <5> QED BY <4>2, <5>1, OnePair
      <4>5. a.given = o /\ a.truth = response.truth
        BY <4>2
      <4>6. GivenFor(a, q.call)
        BY <2>5, <4>3, <4>5 DEF GivenFor
      <4>7. answered'[q.call] = {a}
        BY <3>1, <4>1, <4>4
      <4> QED BY <4>6, <4>7
    <3> QED BY <3>2, <3>3
  <2>9. SipTypes'
    <3>1. answered' = [k \in 1 .. MaxCalls |-> answered'[k]]
      BY <1>1
    <3> QED BY <1>1, <1>3, <2>2, <3>1 DEF SipTypes
  <2>10. ASSUME NEW m \in wire' PROVE OnItsWay(m)'
    <3>1. OnItsWay(m)
      BY <1>1 DEF SipInv, MessagesInv
    <3>2. requests'[m.id] # NoRequest => requests'[m.id] = requests[m.id]
      BY <2>2, <3>1 DEF OnItsWay
    <3> QED BY <1>1, <3>1, <3>2 DEF OnItsWay
  <2>11. ASSUME NEW i \in Pending' PROVE Waits(i)'
    <3>1. Waits(i) /\ requests[i].call # q.call
      BY <1>3, <1>5, <2>3 DEF SipInv, WaitingInv, DistinctInv
    <3>2. answered'[requests[i].call] = {}
      <4>1. requests[i].call \in 1 .. MaxCalls
        BY <1>3, <3>1, SipParameters DEF Waits, SipTypes
      <4> QED BY <2>7, <3>1, <4>1 DEF Waits
    <3> QED BY <1>1, <2>3, <3>1, <3>2 DEF Waits
  <2>12. \A i, j \in Pending' : requests'[i].call = requests'[j].call => i = j
    BY <2>3 DEF SipInv, DistinctInv
  <2>13. ASSUME NEW k \in 1 .. MaxCalls PROVE GivenOnce(k)'
    <3>1. CASE k = q.call
      <4>1. ~(k > calls)
        BY <1>3, <2>4, <3>1, SipParameters DEF Waits, SipTypes
      <4> QED BY <1>1, <2>8, <3>1, <4>1 DEF GivenOnce, GivenFor
    <3>2. CASE k # q.call
      BY <1>1, <2>7, <3>2, GivenStays DEF SipInv, GivenInv
    <3> QED BY <3>1, <3>2
  <2>14. SipInv'
    BY <2>9, <2>10, <2>11, <2>12, <2>13 DEF SipInv, MessagesInv, WaitingInv, DistinctInv, GivenInv
  <2>15. \A i \in Pending : requests'[i] # requests[i] => i = id
    BY <2>2 DEF Pending
  <2> QED BY <1>1, <1>5, <2>14, <2>15
<1> QED BY <1>4, <1>5

LEMMA TimeSip ==
  ASSUME SipInv, SipTick \/ Expire
  PROVE  /\ SipInv'
         /\ \A i \in Pending : requests'[i] # requests[i] => sipClock' > requests[i].deadline
<1>1. CASE SipTick
  <2> DEFINE at == sipClock + 1
  <2>1. /\ sipClock' = at /\ wire' = StillThere(at)
        /\ UNCHANGED <<nextSession, requests, deployed, calls, answered>>
    BY <1>1 DEF SipTick
  <2>2. /\ SipTypes /\ sipClock \in Nat /\ calls \in Nat /\ at \in Nat
        /\ at = sipClock + 1
    BY SipParameters DEF SipInv, SipTypes
  <2> HIDE DEF at
  <2>3. SipTypes'
    BY <2>1, <2>2 DEF SipTypes
  <2>4. ASSUME NEW m \in wire' PROVE OnItsWay(m)'
    <3> DEFINE t == m.truth[1]
               s == m.sent
    <3>1. OnItsWay(m) /\ at - m.sent <= Life
      BY <2>1 DEF SipInv, MessagesInv, StillThere
    <3>2. /\ t \in 1 .. calls /\ s \in 0 .. sipClock
          /\ m.type # "Response" => s + (calls - t) <= sipClock
          /\ m.type = "Response" => s + (calls - t) <= sipClock + Life
      BY <3>1 DEF OnItsWay
    <3> HIDE DEF t, s
    <3>3. /\ s \in 0 .. at
          /\ m.type # "Response" => s + (calls - t) <= at
          /\ m.type = "Response" => s + (calls - t) <= at + Life
      BY <2>2, <3>2, SipParameters
    <3> QED BY <2>1, <3>1, <3>3 DEF OnItsWay, t, s
  <2>5. ASSUME NEW i \in Pending' PROVE Waits(i)'
    <3> DEFINE d == requests[i].deadline
               c == requests[i].call
    <3>1. Waits(i)
      BY <2>1 DEF SipInv, WaitingInv, Pending
    <3>2. c \in 1 .. calls /\ d \in Int /\ d - RequestTimeout + (calls - c) <= sipClock
      BY <3>1 DEF Waits
    <3> HIDE DEF d, c
    <3>3. d - RequestTimeout + (calls - c) <= at
      BY <2>2, <3>2, SipParameters
    <3> QED BY <2>1, <3>1, <3>3 DEF Waits, d, c
  <2>6. DistinctInv' /\ GivenInv'
    BY <2>1, GivenStays DEF SipInv, DistinctInv, GivenInv, Pending
  <2>7. SipInv'
    BY <2>3, <2>4, <2>5, <2>6 DEF SipInv, MessagesInv, WaitingInv
  <2> QED BY <2>1, <2>7
<1>2. CASE Expire
  <2>1. UNCHANGED <<sipClock, nextSession, deployed, wire, calls, answered>>
    BY <1>2 DEF Expire
  <2>2. /\ requests' = [i \in RequestIds |-> requests'[i]]
        /\ \A i \in RequestIds :
             \/ requests'[i] = requests[i]
             \/ requests'[i] = NoRequest /\ Overdue(i, sipClock)
    BY <1>2 DEF Expire
  <2>3. SipTypes'
    BY <2>1, <2>2 DEF SipInv, SipTypes
  <2>4. \A m \in wire' : OnItsWay(m)'
    BY <2>1, <2>2 DEF SipInv, MessagesInv, OnItsWay
  <2>5. \A i \in Pending' : i \in Pending /\ requests'[i] = requests[i]
    BY <2>2 DEF Pending
  <2>6. \A i \in Pending' : Waits(i)'
    BY <2>1, <2>5 DEF SipInv, WaitingInv, Waits
  <2>7. SipInv'
    <3>1. DistinctInv' /\ GivenInv'
      BY <2>1, <2>5, GivenStays DEF SipInv, DistinctInv, GivenInv
    <3> QED BY <2>3, <2>4, <2>6, <3>1 DEF SipInv, MessagesInv, WaitingInv
  <2>8. \A i \in Pending : requests'[i] # requests[i] => sipClock' > requests[i].deadline
    BY <2>1, <2>2 DEF Pending, Overdue
  <2> QED BY <2>7, <2>8
<1> QED BY <1>1, <1>2

-----------------------------------------------------------------------------
(* Theorems.                                                                 *)

LEMMA NextSip ==
  ASSUME SipInv, [SipNext]_sipVars
  PROVE  /\ SipInv'
         /\ sipVars' # sipVars =>
              \A id \in Pending : requests'[id] # requests[id] =>
                \/ sipClock' > requests[id].deadline
                \/ /\ calls' = calls
                   /\ \E m \in wire : m.type = "Response" /\ m.id = id /\ m.message = requests[id].message
<1>1. CASE SipTick \/ Expire
  BY <1>1, TimeSip
<1>2. ASSUME NEW client \in deployed.clients, NEW op \in deployed.operations, NEW v \in Sent,
             Call(client, op, v)
      PROVE  /\ SipInv'
             /\ \A i \in Pending : requests'[i] # requests[i] => sipClock' > requests[i].deadline
  BY <1>2, CallSip
<1>3. ASSUME NEW m \in wire, NEW op \in Operations, NEW r \in deployed.outcomes, Serve(m, op, r)
      PROVE  SipInv' /\ requests' = requests
  BY <1>3, ServeSip DEF Serve
<1>4. ASSUME NEW m \in wire, Receive(m)
      PROVE  /\ SipInv' /\ calls' = calls
             /\ \A i \in Pending : requests'[i] # requests[i] =>
                  m.type = "Response" /\ m.id = i /\ m.message = requests[i].message
  BY <1>4, ReceiveSip DEF Receive
<1>5. CASE UNCHANGED sipVars
  <2>1. SipTypes' /\ DistinctInv'
    BY <1>5 DEF sipVars, SipInv, SipTypes, DistinctInv, Pending
  <2>2. MessagesInv'
    BY <1>5 DEF sipVars, SipInv, MessagesInv, OnItsWay
  <2>3. WaitingInv'
    BY <1>5 DEF sipVars, SipInv, WaitingInv, Waits, Pending
  <2>4. GivenInv'
    BY <1>5, GivenStays DEF sipVars, SipInv, GivenInv
  <2> QED BY <1>5, <2>1, <2>2, <2>3, <2>4 DEF SipInv
<1> QED BY <1>1, <1>2, <1>3, <1>4, <1>5 DEF SipNext

LEMMA SipInvariant == SipSpec => []SipInv
<1>1. SipInv /\ [SipNext]_sipVars => SipInv'
  BY NextSip
<1> QED BY InitSip, <1>1, PTL DEF SipSpec

(* Whatever the network loses, delays, repeats and reorders, and however     *)
(* often the session ids come round, a call is given at most one answer, and *)
(* it is the one the server gave to that very call (Complete, Receive, the   *)
(* Build and Decode functions).                                              *)
THEOREM AnswersCorrect == SipSpec => []AnswersAreOwn
<1>1. SipInv => AnswersAreOwn
  <2> SUFFICES ASSUME SipInv, NEW k \in 1 .. MaxCalls
               PROVE  /\ Cardinality(answered[k]) <= 1
                      /\ \A a \in answered[k] : GivenFor(a, k)
    BY DEF AnswersAreOwn, GivenFor, Faithful
  <2>1. CASE answered[k] = {}
    BY <2>1, FS_EmptySet
  <2>2. CASE answered[k] # {}
    <3>1. PICK a \in answered[k] : answered[k] = {a} /\ GivenFor(a, k)
      BY <2>2 DEF SipInv, GivenInv, GivenOnce
    <3>2. Cardinality({a}) = 1
      BY FS_Singleton
    <3> QED BY <3>1, <3>2
  <2> QED BY <2>1, <2>2
<1> QED BY SipInvariant, <1>1, PTL

(* A pending request is given up only for a response to its message or after *)
(* its deadline, also when its session id is allocated again (Allocate,      *)
(* Expire, Complete).                                                        *)
THEOREM RequestsEndCorrect == SipSpec => RequestsEndForCause
<1>1. SipInv /\ [SipNext]_sipVars =>
        [\A id \in Pending : requests'[id] # requests[id] =>
           \/ sipClock' > requests[id].deadline
           \/ /\ calls' = calls
              /\ \E m \in wire : m.type = "Response" /\ m.id = id /\ m.message = requests[id].message]_sipVars
  BY NextSip
<1> QED BY SipInvariant, <1>1, PTL DEF SipSpec, RequestsEndForCause

-----------------------------------------------------------------------------
(* Raw data streams: the invariant.                                          *)

RawTypes ==
  /\ streamConfig \in ValidateConfig
  /\ latest \in Nat /\ degraded \in BOOLEAN
  /\ queue \in Seq(RawSequences) /\ handed \in Seq(RawSequences)
  /\ pending \in [RawSequences -> [size : Nat, received : SUBSET Nat]]
  /\ entered \in [RawSequences -> 0 .. 2] /\ arrived \subseteq Frames

(* The channel remembers exactly the samples that were handed over last, and *)
(* they differ.                                                              *)
HandedInv ==
  /\ completed = handed /\ Len(handed) <= Memory
  /\ \A i, j \in 1 .. Len(handed) : handed[i] = handed[j] => i = j

(* A sample that is complete is not pending.                                 *)
PendingInv ==
  \A s \in RawSequences :
    LET p == pending[s]
    IN  p.received \subseteq 0 .. p.size - 1 /\ (p.size # 0 => p.received # 0 .. p.size - 1)

(* Unless the channel is degraded, a frame that came is pending or its       *)
(* sample was queued, and a frame that came gave what is pending its size.   *)
ArrivedInv ==
  ~degraded =>
    /\ \A f \in arrived : \/ entered[f.sequence] > 0
                          \/ pending[f.sequence].size # 0 /\ f.index \in pending[f.sequence].received
    /\ \A s \in RawSequences : pending[s].size # 0 =>
         \E f \in arrived : f.sequence = s /\ f.count = pending[s].size

RawInv == RawTypes /\ HandedInv /\ PendingInv /\ ArrivedInv

LEMMA RawParameters ==
  /\ StreamConfigs \subseteq ValidateConfig
  /\ \A f \in Frames : /\ f.sequence \in RawSequences /\ f.index \in Nat /\ f.count \in Nat
                       /\ f.stamp \in Nat /\ f.checked \in BOOLEAN
<1>1. /\ StreamConfigs \subseteq ValidateConfig
      /\ Frames \subseteq [sequence : Nat, index : Nat, count : Nat, stamp : Nat, checked : BOOLEAN]
  BY StreamAssumption, Zenon DEF StreamAssumption
<1> QED BY <1>1 DEF RawSequences

LEMMA MemoryIsPositive ==
  ASSUME streamConfig \in ValidateConfig
  PROVE  /\ Memory \in Nat /\ Memory >= 2
         /\ streamConfig.queue_depth \in Nat /\ streamConfig.queue_depth >= 1
         /\ streamConfig.stale_timeout \in Nat
BY DEF ValidateConfig, Memory

LEMMA InitRaw == RawInit => RawInv
<1> SUFFICES ASSUME RawInit PROVE RawInv
  OBVIOUS
<1>1. streamConfig \in ValidateConfig
  BY RawParameters DEF RawInit
<1>2. <<>> \in Seq(RawSequences) /\ Len(<<>>) = 0
  OBVIOUS
<1>3. RawTypes
  <2>1. /\ pending \in [RawSequences -> [size : Nat, received : SUBSET Nat]]
        /\ entered \in [RawSequences -> 0 .. 2] /\ arrived \subseteq Frames
    BY DEF RawInit, NotPending
  <2>2. latest \in Nat /\ degraded \in BOOLEAN
    BY DEF RawInit
  <2>3. queue \in Seq(RawSequences) /\ handed \in Seq(RawSequences)
    BY <1>2 DEF RawInit
  <2> QED BY <1>1, <2>1, <2>2, <2>3 DEF RawTypes
<1>4. HandedInv
  BY <1>1, <1>2, MemoryIsPositive DEF RawInit, HandedInv
<1>5. PendingInv /\ ArrivedInv
  BY DEF RawInit, PendingInv, ArrivedInv, NotPending
<1> QED BY <1>3, <1>4, <1>5 DEF RawInv

-----------------------------------------------------------------------------
(* Raw data streams: the steps.                                              *)

(* One more sample is remembered, and the oldest forgotten when there is no  *)
(* room.                                                                     *)
LEMMA HandedOver ==
  ASSUME RawTypes, HandedInv, NEW s \in RawSequences, ~In(s, completed)
  PROVE  /\ Remembered(s) = Handed(s) /\ Handed(s) \in Seq(RawSequences)
         /\ Len(Handed(s)) <= Memory
         /\ \A i, j \in 1 .. Len(Handed(s)) : Handed(s)[i] = Handed(s)[j] => i = j
<1> DEFINE all == Append(handed, s)
<1>1. /\ handed \in Seq(RawSequences) /\ completed = handed
      /\ Memory \in Nat /\ Memory >= 2 /\ Len(handed) <= Memory /\ Len(handed) \in Nat
      /\ \A i, j \in 1 .. Len(handed) : handed[i] = handed[j] => i = j
      /\ \A i \in 1 .. Len(handed) : handed[i] # s
  BY MemoryIsPositive DEF RawTypes, HandedInv, In
<1>2. /\ all \in Seq(RawSequences) /\ Len(all) = Len(handed) + 1
      /\ all[Len(handed) + 1] = s
      /\ \A i \in 1 .. Len(handed) : all[i] = handed[i]
  BY <1>1
<1>3. /\ Handed(s) = IF Len(all) > Memory THEN Tail(all) ELSE all
      /\ Remembered(s) = Handed(s)
  BY <1>1 DEF Handed, Remembered
<1> HIDE DEF all
<1>4. ASSUME NEW i \in 1 .. Len(all), NEW j \in 1 .. Len(all), all[i] = all[j] PROVE i = j
  <2>1. CASE i \in 1 .. Len(handed) /\ j \in 1 .. Len(handed)
    BY <1>1, <1>2, <1>4, <2>1
  <2>2. CASE i = Len(handed) + 1 /\ j \in 1 .. Len(handed)
    BY <1>1, <1>2, <1>4, <2>2
  <2>3. CASE i \in 1 .. Len(handed) /\ j = Len(handed) + 1
    BY <1>1, <1>2, <1>4, <2>3
  <2>4. CASE i = Len(handed) + 1 /\ j = Len(handed) + 1
    BY <2>4
  <2> QED BY <1>1, <1>2, <2>1, <2>2, <2>3, <2>4
<1>5. CASE Len(all) > Memory
  <2>1. Handed(s) = Tail(all) /\ all # <<>>
    BY <1>1, <1>2, <1>3, <1>5
  <2>2. /\ Tail(all) \in Seq(RawSequences) /\ Len(Tail(all)) = Len(handed)
        /\ \A i \in 1 .. Len(handed) : Tail(all)[i] = all[i + 1]
    BY <1>1, <1>2, <2>1
  <2>3. ASSUME NEW i \in 1 .. Len(handed), NEW j \in 1 .. Len(handed),
               Tail(all)[i] = Tail(all)[j]
        PROVE  i = j
    <3>1. i + 1 \in 1 .. Len(all) /\ j + 1 \in 1 .. Len(all) /\ all[i + 1] = all[j + 1]
      BY <1>1, <1>2, <2>2, <2>3
    <3>2. i + 1 = j + 1
      BY <1>4, <3>1
    <3> QED BY <3>2
  <2> QED BY <1>1, <1>3, <2>1, <2>2, <2>3
<1>6. CASE ~(Len(all) > Memory)
  BY <1>1, <1>2, <1>3, <1>4, <1>6
<1> QED BY <1>5, <1>6

LEMMA EnqueueRaw ==
  ASSUME RawInv, NEW s \in RawSequences, ~In(s, completed), Enqueue(s), UNCHANGED streamConfig
  PROVE  /\ queue' \in Seq(RawSequences) /\ handed' \in Seq(RawSequences)
         /\ entered' \in [RawSequences -> 0 .. 2] /\ degraded' \in BOOLEAN
         /\ HandedInv'
         /\ \A x \in RawSequences : entered[x] > 0 => entered'[x] > 0
         /\ ~degraded' => ~degraded /\ entered'[s] > 0
<1> DEFINE full == Len(queue) >= streamConfig.queue_depth
<1>1. /\ RawTypes /\ HandedInv /\ queue \in Seq(RawSequences) /\ handed \in Seq(RawSequences)
      /\ entered \in [RawSequences -> 0 .. 2] /\ degraded \in BOOLEAN
      /\ streamConfig.queue_depth \in Nat /\ streamConfig.queue_depth >= 1
      /\ Memory' = Memory
  BY MemoryIsPositive DEF RawInv, RawTypes, Memory
<1>2. CASE full /\ streamConfig.buffer_policy = "RejectNewest"
  <2>1. degraded' = TRUE /\ UNCHANGED <<queue, completed, entered, handed>>
    BY <1>2 DEF Enqueue
  <2>2. HandedInv'
    BY <1>1, <2>1 DEF HandedInv
  <2> QED BY <1>1, <2>1, <2>2
<1>3. CASE ~(full /\ streamConfig.buffer_policy = "RejectNewest")
  <2>1. /\ queue' = Append(IF full THEN Tail(queue) ELSE queue, s)
        /\ degraded' = (degraded \/ full)
        /\ completed' = Remembered(s) /\ handed' = Handed(s)
        /\ entered' = [entered EXCEPT ![s] = IF @ < 2 THEN @ + 1 ELSE 2]
    BY <1>3 DEF Enqueue
  <2>2. queue' \in Seq(RawSequences)
    <3>1. full => Tail(queue) \in Seq(RawSequences)
      <4>1. full => queue # <<>>
        BY <1>1
      <4> QED BY <1>1, <4>1
    <3> QED BY <1>1, <2>1, <3>1
  <2>3. /\ entered' \in [RawSequences -> 0 .. 2] /\ entered'[s] > 0
        /\ \A x \in RawSequences : x # s => entered'[x] = entered[x]
    BY <1>1, <2>1
  <2>4. HandedInv' /\ handed' \in Seq(RawSequences)
    BY <1>1, <2>1, HandedOver DEF HandedInv
  <2> HIDE DEF full
  <2>5. degraded' \in BOOLEAN /\ (~degraded' => ~degraded)
    BY <1>1, <2>1 DEF full
  <2>6. \A x \in RawSequences : entered[x] > 0 => entered'[x] > 0
    BY <2>3
  <2> QED BY <2>2, <2>3, <2>4, <2>5, <2>6
<1> QED BY <1>2, <1>3

LEMMA PushRaw ==
  ASSUME RawInv, NEW f \in Frames, NEW sound \in BOOLEAN, Push(f, sound)
  PROVE  RawInv'
<1> DEFINE s == f.sequence
<1>1. s \in RawSequences /\ f.index \in Nat /\ f.count \in Nat /\ f.stamp \in Nat
  BY RawParameters
<1>2. /\ RawTypes /\ HandedInv /\ PendingInv /\ ArrivedInv
      /\ latest \in Nat /\ degraded \in BOOLEAN
      /\ pending \in [RawSequences -> [size : Nat, received : SUBSET Nat]]
      /\ pending[s].size \in Nat /\ pending[s].received \subseteq Nat
  BY <1>1 DEF RawInv, RawTypes
<1>3. /\ streamConfig' = streamConfig /\ Memory' = Memory
      /\ degraded' => arrived' = {}
      /\ ~degraded' => arrived' = arrived \cup {f}
      /\ arrived' \subseteq Frames
  BY <1>2 DEF Push, Memory, RawTypes
<1>4. ASSUME Reject, latest' \in Nat PROVE RawInv'
  <2>1. degraded' = TRUE /\ UNCHANGED <<queue, pending, completed, entered, handed>>
    BY <1>4 DEF Reject
  <2> QED BY <1>2, <1>3, <1>4, <2>1 DEF RawInv, RawTypes, HandedInv, PendingInv, ArrivedInv
<1>5. Latest(f) \in Nat
  BY <1>1, <1>2 DEF Latest
<1>6. CASE Reject /\ latest' \in {latest, Latest(f)}
  BY <1>2, <1>4, <1>5, <1>6
<1>7. CASE /\ ValidFrame(f) /\ latest' = Latest(f) /\ ~IsDuplicateFrame(f)
           /\ PushUnfragmented(f) \/ PushFragmented(f)
  <2>1. /\ latest' \in Nat /\ ~In(s, completed) /\ f.index < f.count
        /\ pending[s].size # 0 => f.index < pending[s].size
    BY <1>1, <1>2, <1>5, <1>7 DEF IsDuplicateFrame, ValidFrame
  <2>2. ASSUME Enqueue(s), PendingInv',
               pending' \in [RawSequences -> [size : Nat, received : SUBSET Nat]],
               \A x \in RawSequences : x # s => pending'[x] = pending[x],
               pending'[s] = pending[s] \/ pending'[s].size = 0
        PROVE  RawInv'
    <3>1. /\ queue' \in Seq(RawSequences) /\ handed' \in Seq(RawSequences)
          /\ entered' \in [RawSequences -> 0 .. 2] /\ degraded' \in BOOLEAN
          /\ HandedInv'
          /\ \A x \in RawSequences : entered[x] > 0 => entered'[x] > 0
          /\ ~degraded' => ~degraded /\ entered'[s] > 0
      BY <1>1, <1>3, <2>1, <2>2, EnqueueRaw
    <3>2. RawTypes'
      BY <1>2, <1>3, <2>1, <2>2, <3>1 DEF RawTypes
    <3>3. ASSUME ~degraded', NEW g \in arrived'
          PROVE  \/ entered'[g.sequence] > 0
                 \/ pending'[g.sequence].size # 0 /\ g.index \in pending'[g.sequence].received
      <4>1. g \in Frames /\ g.sequence \in RawSequences /\ ~degraded /\ (g # f => g \in arrived)
        BY <1>3, <3>1, <3>3, RawParameters
      <4>2. CASE g.sequence = s
        BY <3>1, <3>3, <4>2
      <4>3. CASE g.sequence # s
        BY <1>2, <2>2, <3>1, <4>1, <4>3 DEF ArrivedInv
      <4> QED BY <4>2, <4>3
    <3>4. ASSUME ~degraded', NEW x \in RawSequences, pending'[x].size # 0
          PROVE  \E g \in arrived' : g.sequence = x /\ g.count = pending'[x].size
      <4>1. pending[x] = pending'[x] /\ pending[x].size # 0
        BY <2>2, <3>4
      <4>2. ~degraded /\ arrived' = arrived \cup {f}
        BY <1>3, <3>1, <3>4
      <4>3. \E g \in arrived : g.sequence = x /\ g.count = pending[x].size
        BY <1>2, <4>1, <4>2 DEF ArrivedInv
      <4> QED BY <4>1, <4>2, <4>3
    <3> QED BY <2>2, <3>1, <3>2, <3>3, <3>4 DEF RawInv, ArrivedInv
  <2>3. CASE PushUnfragmented(f)
    <3>1. Enqueue(s) /\ pending' = pending
      BY <2>3 DEF PushUnfragmented
    <3>2. PendingInv'
      BY <1>2, <3>1 DEF PendingInv
    <3> QED BY <1>2, <2>2, <3>1, <3>2
  <2>4. CASE PushFragmented(f)
    <3> DEFINE size == IF pending[s].size = 0 THEN f.count ELSE pending[s].size
               received == pending[s].received \cup {f.index}
               tooLong == Cardinality(received) > streamConfig.max_bytes
               whole == received = 0 .. size - 1
               next0 == IF tooLong \/ whole THEN NotPending ELSE [size |-> size, received |-> received]
    <3>1. /\ pending' = [pending EXCEPT ![s] = next0]
          /\ whole /\ ~tooLong => Enqueue(s)
          /\ ~(whole /\ ~tooLong) =>
               degraded' = (degraded \/ tooLong) /\ UNCHANGED <<queue, completed, entered, handed>>
      BY <2>4 DEF PushFragmented
    <3>2. /\ size \in Nat /\ size # 0 /\ received \subseteq 0 .. size - 1 /\ received \in SUBSET Nat
          /\ f.index \in received /\ pending[s].received \subseteq received
      BY <1>1, <1>2, <2>1 DEF PendingInv
    <3>3. tooLong \in BOOLEAN /\ (whole <=> received = 0 .. size - 1)
      OBVIOUS
    <3>4. pending[s].size = 0 => size = f.count
      OBVIOUS
    <3>5. pending[s].size # 0 => size = pending[s].size
      OBVIOUS
    <3> HIDE DEF size, received, tooLong, whole
    <3>6. /\ next0 \in [size : Nat, received : SUBSET Nat]
          /\ tooLong \/ whole => next0.size = 0 /\ next0.received = {}
          /\ ~(tooLong \/ whole) => next0.size = size /\ next0.received = received
      BY <3>2 DEF NotPending
    <3> HIDE DEF next0
    <3>7. /\ pending' \in [RawSequences -> [size : Nat, received : SUBSET Nat]]
          /\ pending'[s] = next0 /\ \A x \in RawSequences : x # s => pending'[x] = pending[x]
      BY <1>1, <1>2, <3>1, <3>6
    <3>8. PendingInv'
      <4> SUFFICES ASSUME NEW x \in RawSequences
                   PROVE  /\ pending'[x].received \subseteq 0 .. pending'[x].size - 1
                          /\ pending'[x].size # 0 =>
                               pending'[x].received # 0 .. pending'[x].size - 1
        BY DEF PendingInv
      <4>1. CASE x # s
        BY <1>2, <3>7, <4>1 DEF PendingInv
      <4>2. CASE x = s /\ (tooLong \/ whole)
        BY <3>6, <3>7, <4>2
      <4>3. CASE x = s /\ ~(tooLong \/ whole)
        BY <3>2, <3>3, <3>6, <3>7, <4>3
      <4> QED BY <4>1, <4>2, <4>3
    <3>9. CASE whole /\ ~tooLong
      BY <2>2, <3>1, <3>6, <3>7, <3>8, <3>9
    <3>10. CASE ~(whole /\ ~tooLong)
      <4>1. UNCHANGED <<queue, completed, entered, handed>> /\ degraded' = (degraded \/ tooLong)
        BY <3>1, <3>10
      <4>2. degraded' \in BOOLEAN /\ (~degraded' => ~degraded /\ ~tooLong /\ ~whole)
        BY <1>2, <3>3, <3>10, <4>1
      <4>3. RawTypes'
        BY <1>2, <1>3, <2>1, <3>7, <4>1, <4>2 DEF RawTypes
      <4>4. HandedInv'
        BY <1>2, <1>3, <4>1 DEF HandedInv
      <4>5. ASSUME ~degraded', NEW g \in arrived'
            PROVE  \/ entered'[g.sequence] > 0
                   \/ pending'[g.sequence].size # 0 /\ g.index \in pending'[g.sequence].received
        <5>1. /\ g \in Frames /\ g.sequence \in RawSequences /\ (g # f => g \in arrived)
              /\ pending'[s].size = size /\ pending'[s].received = received
          BY <1>3, <3>6, <3>7, <4>2, <4>5, RawParameters
        <5>2. CASE g = f
          BY <3>2, <5>1, <5>2
        <5>3. CASE g # f
          <6>1. \/ entered[g.sequence] > 0
                \/ pending[g.sequence].size # 0 /\ g.index \in pending[g.sequence].received
            BY <1>2, <4>2, <4>5, <5>1, <5>3 DEF ArrivedInv
          <6>2. CASE g.sequence = s
            BY <3>2, <4>1, <5>1, <6>1, <6>2
          <6>3. CASE g.sequence # s
            BY <3>7, <4>1, <5>1, <6>1, <6>3
          <6> QED BY <6>2, <6>3
        <5> QED BY <5>2, <5>3
      <4>6. ASSUME ~degraded', NEW x \in RawSequences, pending'[x].size # 0
            PROVE  \E g \in arrived' : g.sequence = x /\ g.count = pending'[x].size
        <5>1. pending'[s].size = size /\ arrived' = arrived \cup {f}
          BY <1>3, <3>6, <3>7, <4>2, <4>6
        <5>2. CASE x = s /\ pending[s].size = 0
          BY <3>4, <5>1, <5>2
        <5>3. CASE x = s /\ pending[s].size # 0
          BY <1>1, <1>2, <3>5, <4>2, <4>6, <5>1, <5>3 DEF ArrivedInv
        <5>4. CASE x # s
          BY <1>2, <3>7, <4>2, <4>6, <5>1, <5>4 DEF ArrivedInv
        <5> QED BY <5>2, <5>3, <5>4
      <4> QED BY <3>8, <4>3, <4>4, <4>5, <4>6 DEF RawInv, ArrivedInv
    <3> QED BY <3>9, <3>10
  <2> QED BY <1>7, <2>3, <2>4
<1> QED BY <1>6, <1>7 DEF Push

-----------------------------------------------------------------------------
(* Theorems.                                                                 *)

LEMMA NextRaw ==
  ASSUME RawInv, [RawNext]_rawVars
  PROVE  RawInv'
<1>1. CASE Poll
  <2>1. /\ queue # <<>> /\ queue' = Tail(queue)
        /\ UNCHANGED <<streamConfig, pending, completed, latest, degraded, arrived, entered, handed>>
    BY <1>1 DEF Poll
  <2>2. queue' \in Seq(RawSequences)
    BY <2>1 DEF RawInv, RawTypes
  <2> QED BY <2>1, <2>2 DEF RawInv, RawTypes, HandedInv, PendingInv, ArrivedInv, Memory
<1>2. CASE UNCHANGED rawVars
  BY <1>2 DEF rawVars, RawInv, RawTypes, HandedInv, PendingInv, ArrivedInv, Memory
<1> QED BY <1>1, <1>2, PushRaw DEF RawNext

(* Whatever frames come, in whatever order and however often, a sample is    *)
(* not handed to the reader again before as many others were as the channel  *)
(* remembers; and a channel that reports itself ready has handed over every  *)
(* sample whose fragments all came: for any configuration that Open accepts  *)
(* and any frames (Push, Enqueue, RememberCompleted, Snapshot).              *)
THEOREM SamplesApartCorrect == RawSpec => []SamplesApartOrReported
<1>1. RawInv /\ [RawNext]_rawVars => RawInv'
  BY NextRaw
<1>2. RawInv => SamplesApartOrReported
  <2> SUFFICES ASSUME RawInv, ~degraded, NEW s \in RawSequences, AllCame(s)
               PROVE  entered[s] > 0
    BY DEF RawInv, HandedInv, SamplesApartOrReported, ReportsReady
  <2> DEFINE came == {f \in arrived : f.sequence = s}
  <2>1. came # {} /\ \A f \in came : {g.index : g \in came} = 0 .. f.count - 1
    BY DEF AllCame
  <2>2. ASSUME entered[s] = 0 PROVE FALSE
    <3>1. \A g \in came : pending[s].size # 0 /\ g.index \in pending[s].received
      BY <2>2 DEF RawInv, ArrivedInv
    <3>2. PICK f \in came : f.count = pending[s].size
      BY <2>1, <3>1 DEF RawInv, ArrivedInv
    <3>3. 0 .. pending[s].size - 1 \subseteq pending[s].received
      BY <2>1, <3>1, <3>2
    <3> QED BY <2>1, <3>1, <3>3 DEF RawInv, PendingInv
  <2>3. entered[s] \in 0 .. 2
    BY DEF RawInv, RawTypes
  <2> QED BY <2>2, <2>3
<1> QED BY InitRaw, <1>1, <1>2, PTL DEF RawSpec

-----------------------------------------------------------------------------
(* The API gateway's rate limit: the invariant.                              *)

Askers == {Asker(client, r) : client \in Callers, r \in Routes}
Logs == Seq([by : Askers, at : Nat])

(* What p got past the gateway between two times, and since a time.          *)
Passes(log, p, from, to) == {j \in DOMAIN log : log[j].by = p /\ log[j].at \in from .. to}
Since(log, p, from) == {j \in DOMAIN log : log[j].by = p /\ log[j].at >= from}

(* A window starts with a request that passed, counts those since, and no    *)
(* stretch that reaches into it has a limit's worth of requests before it.   *)
Counts(window, log, p) ==
  LET start == window.start
  IN  /\ window \in [start : Nat, count : Nat]
      /\ 1 <= window.count /\ window.count <= RateLimit
      /\ Cardinality(Since(log, p, start)) = window.count
      /\ \E j \in DOMAIN log : log[j].by = p /\ log[j].at = start
      /\ \A j \in DOMAIN log : log[j].by = p => log[j].at < start + RateWindow
      /\ \A t \in Nat : start < t + RateWindow =>
           Cardinality(Passes(log, p, t, start - 1)) < RateLimit

StretchesHold(log) ==
  \A i \in DOMAIN log :
    Cardinality(Passes(log, log[i].by, log[i].at, log[i].at + RateWindow - 1)) < 2 * RateLimit

GatewayTypes ==
  /\ gatewayClock \in Nat /\ passed \in Logs
  /\ \A j \in DOMAIN passed : passed[j].at <= gatewayClock /\ passed[j].by \in DOMAIN windows

WindowsCount ==
  \A p \in DOMAIN windows : Counts(windows[p], passed, p) /\ windows[p].start <= gatewayClock

GatewayInv == GatewayTypes /\ WindowsCount /\ StretchesHold(passed)

LEMMA GatewayParameters ==
  RateWindow \in Nat /\ RateWindow >= 1 /\ RateLimit \in Nat /\ RateLimit >= 1
<1>1. RateWindow \in Nat \ {0} /\ RateLimit \in Nat \ {0}
  BY GatewayAssumption, Zenon DEF GatewayAssumption
<1> QED BY <1>1

LEMMA InitGateway == GatewayInit => GatewayInv
<1> SUFFICES ASSUME GatewayInit PROVE GatewayInv
  OBVIOUS
<1>1. <<>> \in Logs /\ DOMAIN <<>> = {}
  BY DEF Logs
<1>2. gatewayClock = 1 /\ passed = <<>> /\ DOMAIN windows = {}
  BY DEF GatewayInit
<1>3. DOMAIN passed = {}
  BY <1>1, <1>2
<1> QED BY <1>1, <1>2, <1>3 DEF GatewayInv, GatewayTypes, WindowsCount, StretchesHold

LEMMA LogEntries ==
  ASSUME NEW log \in Logs, NEW j \in DOMAIN log
  PROVE  log[j].by \in Askers /\ log[j].at \in Nat
<1> DEFINE Entry == [by : Askers, at : Nat]
<1>1. log[j] \in Entry
  <2>1. log \in Seq(Entry)
    BY DEF Logs
  <2> HIDE DEF Entry
  <2> QED BY <2>1
<1> QED BY <1>1

LEMMA FiniteLogs ==
  ASSUME NEW log \in Logs, NEW A, A \subseteq DOMAIN log
  PROVE  IsFiniteSet(A) /\ Cardinality(A) \in Nat
<1>1. DOMAIN log = 1 .. Len(log) /\ 1 \in Int /\ Len(log) \in Int
  BY DEF Logs
<1>2. IsFiniteSet(DOMAIN log)
  BY <1>1, FS_Interval
<1> QED BY <1>2, FS_Subset, FS_CardinalityType

LEMMA FewerPasses ==
  ASSUME NEW log \in Logs, NEW A, NEW B, A \subseteq B, B \subseteq DOMAIN log
  PROVE  Cardinality(A) <= Cardinality(B)
BY FiniteLogs, FS_Subset

-----------------------------------------------------------------------------
(* The API gateway's rate limit: one more request passes.                    *)

(* The log with one more request of p at time t, at place m.                 *)
OneMore(log, new, m, p, t) ==
  /\ log \in Logs /\ new \in Logs /\ t \in Nat
  /\ m \notin DOMAIN log /\ DOMAIN new = DOMAIN log \cup {m}
  /\ \A j \in DOMAIN log : new[j] = log[j] /\ log[j].at <= t
  /\ new[m].by = p /\ new[m].at = t

LEMMA Appended ==
  ASSUME NEW log \in Logs, NEW p \in Askers, NEW t \in Nat,
         \A j \in DOMAIN log : log[j].at <= t
  PROVE  OneMore(log, Append(log, [by |-> p, at |-> t]), Len(log) + 1, p, t)
<1> DEFINE e == [by |-> p, at |-> t]
<1>1. e.by = p /\ e.at = t /\ e \in [by : Askers, at : Nat]
  OBVIOUS
<1> HIDE DEF e
<1>2. /\ Append(log, e) \in Logs /\ Append(log, e)[Len(log) + 1] = e
      /\ DOMAIN log = 1 .. Len(log) /\ DOMAIN Append(log, e) = 1 .. Len(log) + 1
      /\ Len(log) \in Nat
      /\ \A j \in DOMAIN log : Append(log, e)[j] = log[j]
  BY <1>1 DEF Logs
<1>3. /\ Len(log) + 1 \notin DOMAIN log
      /\ DOMAIN Append(log, e) = DOMAIN log \cup {Len(log) + 1}
  BY <1>2
<1>4. OneMore(log, Append(log, e), Len(log) + 1, p, t)
  BY <1>1, <1>2, <1>3 DEF OneMore
<1> QED BY <1>4 DEF e

(* The request is seen by the stretches of its sender that it is in.         *)
LEMMA NotSeen ==
  ASSUME NEW log, NEW new, NEW m, NEW p, NEW t, OneMore(log, new, m, p, t),
         NEW q, NEW from \in Int, NEW to \in Int, q # p \/ t \notin from .. to
  PROVE  Passes(new, q, from, to) = Passes(log, q, from, to)
BY DEF OneMore, Passes

LEMMA SeenSince ==
  ASSUME NEW log, NEW new, NEW m, NEW p, NEW t, OneMore(log, new, m, p, t),
         NEW q, NEW from \in Int
  PROVE  /\ q # p => Since(new, q, from) = Since(log, q, from)
         /\ q = p /\ from <= t => Since(new, q, from) = Since(log, q, from) \cup {m}
BY DEF OneMore, Since

(* Nobody else's window is touched.                                          *)
LEMMA OthersCount ==
  ASSUME NEW log, NEW new, NEW m, NEW p, NEW t, OneMore(log, new, m, p, t),
         NEW q, q # p, NEW w, Counts(w, log, q)
  PROVE  Counts(w, new, q)
<1>1. w.start \in Nat /\ w.start \in Int /\ w.start - 1 \in Int
  BY DEF Counts
<1>2. Since(new, q, w.start) = Since(log, q, w.start)
  BY <1>1, SeenSince
<1>3. ASSUME NEW s \in Nat PROVE Passes(new, q, s, w.start - 1) = Passes(log, q, s, w.start - 1)
  BY <1>1, NotSeen
<1>4. \E j \in DOMAIN new : new[j].by = q /\ new[j].at = w.start
  BY DEF OneMore, Counts
<1>5. \A j \in DOMAIN new : new[j].by = q => new[j].at < w.start + RateWindow
  BY DEF OneMore, Counts
<1> QED BY <1>2, <1>3, <1>4, <1>5 DEF Counts

(* A window that still runs takes one more, if it is not full.               *)
LEMMA WindowFills ==
  ASSUME NEW log, NEW new, NEW m, NEW p, NEW t, OneMore(log, new, m, p, t),
         NEW w, Counts(w, log, p), w.start <= t, t < w.start + RateWindow, w.count < RateLimit
  PROVE  Counts([w EXCEPT !.count = @ + 1], new, p)
<1> DEFINE v == [w EXCEPT !.count = @ + 1]
           S == w.start
           n == w.count
<1>1. /\ w \in [start : Nat, count : Nat] /\ S \in Nat /\ n \in Nat /\ 1 <= n
      /\ Cardinality(Since(log, p, S)) = n /\ S <= t /\ t < S + RateWindow /\ n < RateLimit
  BY DEF Counts
<1>2. v \in [start : Nat, count : Nat] /\ v.start = S /\ v.count = n + 1
  BY <1>1
<1>3. PICK j \in DOMAIN log : log[j].by = p /\ log[j].at = S
  BY DEF Counts
<1>4. /\ \A i \in DOMAIN log : log[i].by = p => log[i].at < S + RateWindow
      /\ \A u \in Nat : S < u + RateWindow => Cardinality(Passes(log, p, u, S - 1)) < RateLimit
  BY DEF Counts
<1> HIDE DEF v, S, n
<1>5. Cardinality(Since(new, p, S)) = n + 1
  <2>1. Since(new, p, S) = Since(log, p, S) \cup {m}
    BY <1>1, SeenSince
  <2>2. m \notin Since(log, p, S) /\ Since(log, p, S) \subseteq DOMAIN log /\ log \in Logs
    BY DEF OneMore, Since
  <2>3. IsFiniteSet(Since(log, p, S))
    BY <2>2, FiniteLogs
  <2> QED BY <1>1, <2>1, <2>2, <2>3, FS_AddElement
<1>6. \A i \in DOMAIN new : new[i].by = p => new[i].at < S + RateWindow
  BY <1>1, <1>4 DEF OneMore
<1>7. ASSUME NEW u \in Nat, S < u + RateWindow
      PROVE  Cardinality(Passes(new, p, u, S - 1)) < RateLimit
  <2>1. S - 1 \in Int /\ u \in Int /\ t \notin u .. S - 1
    BY <1>1 DEF OneMore
  <2>2. Passes(new, p, u, S - 1) = Passes(log, p, u, S - 1)
    BY <2>1, NotSeen
  <2> QED BY <1>4, <1>7, <2>2
<1>8. 1 <= n + 1 /\ n + 1 <= RateLimit
  BY <1>1, GatewayParameters
<1>9. j \in DOMAIN new /\ new[j].by = p /\ new[j].at = S
  BY <1>3 DEF OneMore
<1>10. Counts(v, new, p)
  BY <1>2, <1>5, <1>6, <1>7, <1>8, <1>9 DEF Counts
<1> QED BY <1>10 DEF v

(* A new window starts with the request.  What came before it is of the      *)
(* window before, if it is within reach at all, and that one's first         *)
(* request is not.                                                           *)
LEMMA WindowRestarts ==
  ASSUME NEW log, NEW new, NEW m, NEW p, NEW t, OneMore(log, new, m, p, t), NEW w,
         \/ \A j \in DOMAIN log : log[j].by # p
         \/ Counts(w, log, p) /\ w.start <= t /\ t - w.start >= RateWindow
  PROVE  Counts([start |-> t, count |-> 1], new, p)
<1> DEFINE v == [start |-> t, count |-> 1]
<1>1. /\ t \in Nat /\ log \in Logs /\ m \in DOMAIN new /\ new[m].by = p /\ new[m].at = t
      /\ \A j \in DOMAIN log : log[j].at \in Nat /\ log[j].at <= t
  BY LogEntries DEF OneMore
<1>2. v \in [start : Nat, count : Nat] /\ v.start = t /\ v.count = 1
  BY <1>1
<1>3. ASSUME NEW j \in DOMAIN log, log[j].by = p PROVE log[j].at < t
  <2>1. Counts(w, log, p) /\ w.start <= t /\ t - w.start >= RateWindow
    BY <1>3
  <2>2. w.start \in Nat /\ log[j].at < w.start + RateWindow
    BY <1>3, <2>1 DEF Counts
  <2> QED BY <1>1, <2>1, <2>2, GatewayParameters
<1>4. Cardinality(Since(new, p, t)) = 1
  <2>1. Since(log, p, t) = {}
    BY <1>1, <1>3 DEF Since
  <2>2. Since(new, p, t) = {m}
    <3>1. Since(new, p, t) = Since(log, p, t) \cup {m}
      BY <1>1, SeenSince
    <3> QED BY <2>1, <3>1
  <2> QED BY <2>2, FS_Singleton
<1>5. \A j \in DOMAIN new : new[j].by = p => new[j].at < t + RateWindow
  BY <1>1, <1>3, GatewayParameters DEF OneMore
<1>6. ASSUME NEW u \in Nat, t < u + RateWindow
      PROVE  Cardinality(Passes(new, p, u, t - 1)) < RateLimit
  <2>1. t - 1 \in Int /\ u \in Int /\ t \notin u .. t - 1
    BY <1>1
  <2>2. Passes(new, p, u, t - 1) = Passes(log, p, u, t - 1)
    BY <2>1, NotSeen
  <2>3. CASE \A j \in DOMAIN log : log[j].by # p
    <3>1. Passes(log, p, u, t - 1) = {}
      BY <2>3 DEF Passes
    <3> QED BY <2>2, <3>1, FS_EmptySet, GatewayParameters
  <2>4. CASE Counts(w, log, p) /\ w.start <= t /\ t - w.start >= RateWindow
    <3> DEFINE S == w.start
               n == w.count
               all == Since(log, p, S)
               late == Passes(log, p, u, t - 1)
    <3>1. /\ S \in Nat /\ n \in Nat /\ n <= RateLimit /\ Cardinality(all) = n
          /\ S <= t /\ t - S >= RateWindow
      BY <2>4 DEF Counts
    <3>2. PICK j \in DOMAIN log : log[j].by = p /\ log[j].at = S
      BY <2>4 DEF Counts
    <3> HIDE DEF S, n
    <3>3. S < u
      BY <1>1, <1>6, <3>1, GatewayParameters
    <3>4. late \subseteq all \ {j} /\ j \in all /\ all \subseteq DOMAIN log
      BY <1>1, <3>1, <3>2, <3>3 DEF Passes, Since
    <3> HIDE DEF all, late
    <3>5. IsFiniteSet(all)
      BY <1>1, <3>4, FiniteLogs
    <3>6. Cardinality(all \ {j}) = n - 1
      BY <3>1, <3>4, <3>5, FS_RemoveElement
    <3>7. Cardinality(late) <= n - 1 /\ Cardinality(late) \in Nat
      <4>1. all \ {j} \subseteq DOMAIN log /\ late \subseteq DOMAIN log
        BY <3>4
      <4> QED BY <1>1, <3>4, <3>6, <4>1, FewerPasses, FiniteLogs
    <3>8. Cardinality(late) < RateLimit
      BY <3>1, <3>7, GatewayParameters
    <3> QED BY <2>2, <3>8 DEF late
  <2> QED BY <2>3, <2>4
<1>7. Counts(v, new, p)
  BY <1>1, <1>2, <1>4, <1>5, <1>6, GatewayParameters DEF Counts
<1> QED BY <1>7 DEF v

(* A stretch that the request is in has less than the limit before the       *)
(* window the request is in, and no more than the limit in it.               *)
LEMMA StretchesStillHold ==
  ASSUME NEW log, NEW new, NEW m, NEW p, NEW t, OneMore(log, new, m, p, t), StretchesHold(log),
         NEW w, Counts(w, new, p), w.start <= t
  PROVE  StretchesHold(new)
<1> SUFFICES ASSUME NEW i \in DOMAIN new
             PROVE  Cardinality(Passes(new, new[i].by, new[i].at, new[i].at + RateWindow - 1))
                      < 2 * RateLimit
  BY DEF StretchesHold
<1> DEFINE q == new[i].by
           u == new[i].at
           end == u + RateWindow - 1
<1>1. /\ new \in Logs /\ t \in Nat
      /\ \A j \in DOMAIN new : new[j].at \in Nat /\ new[j].at <= t
  BY LogEntries DEF OneMore
<1>2. u \in Nat /\ u <= t
  BY <1>1
<1> HIDE DEF u
<1>3. u \in Int /\ end \in Int /\ end = u + RateWindow - 1
  BY <1>2, GatewayParameters
<1> HIDE DEF q, end
<1>4. CASE q # p \/ t \notin u .. end
  <2>1. i \in DOMAIN log /\ new[i] = log[i]
    <3>1. i # m
      <4> SUFFICES ASSUME i = m PROVE FALSE
        OBVIOUS
      <4>1. q = p /\ u = t
        BY DEF OneMore, q, u
      <4> QED BY <1>2, <1>3, <1>4, <4>1, GatewayParameters
    <3> QED BY <3>1 DEF OneMore
  <2>2. Cardinality(Passes(log, q, u, end)) < 2 * RateLimit
    BY <2>1 DEF StretchesHold, q, u, end
  <2>3. Passes(new, q, u, end) = Passes(log, q, u, end)
    BY <1>3, <1>4, NotSeen
  <2> QED BY <2>2, <2>3 DEF q, u, end
<1>5. CASE q = p /\ t \in u .. end
  <2> DEFINE S == w.start
             all == Passes(new, p, u, end)
             late == Since(new, p, S)
             early == Passes(new, p, u, S - 1)
  <2>1. /\ S \in Nat /\ S <= t /\ w.count \in Nat /\ w.count <= RateLimit
        /\ Cardinality(late) = w.count
        /\ S < u + RateWindow => Cardinality(early) < RateLimit
    BY <1>2 DEF Counts
  <2> HIDE DEF S
  <2>2. S < u + RateWindow
    BY <1>1, <1>2, <1>3, <1>5, <2>1, GatewayParameters
  <2>3. all \subseteq early \cup late /\ early \subseteq DOMAIN new /\ late \subseteq DOMAIN new
    BY <1>1, <1>2, <1>3, <2>1 DEF Passes, Since
  <2> HIDE DEF all, early, late
  <2>4. /\ IsFiniteSet(early) /\ IsFiniteSet(late) /\ IsFiniteSet(early \cap late)
        /\ Cardinality(early) \in Nat /\ Cardinality(late) \in Nat
        /\ Cardinality(early \cap late) \in Nat /\ Cardinality(all) \in Nat
    <3>1. early \cap late \subseteq DOMAIN new /\ all \subseteq DOMAIN new
      BY <2>3
    <3> QED BY <1>1, <2>3, <3>1, FiniteLogs
  <2>5. Cardinality(early \cup late) = Cardinality(early) + Cardinality(late) - Cardinality(early \cap late)
    BY <2>4, FS_Union
  <2>6. Cardinality(all) <= Cardinality(early \cup late)
    <3>1. early \cup late \subseteq DOMAIN new
      BY <2>3
    <3> QED BY <1>1, <2>3, <3>1, FewerPasses
  <2>7. Cardinality(all) < 2 * RateLimit
    BY <2>1, <2>2, <2>4, <2>5, <2>6, GatewayParameters
  <2> QED BY <1>5, <2>7 DEF all, q, u, end
<1> QED BY <1>4, <1>5

-----------------------------------------------------------------------------
(* The API gateway's rate limit: the steps.                                  *)

(* What keeps the windows and what was let through keeps the invariant.      *)
LEMMA NothingPasses ==
  ASSUME GatewayInv, UNCHANGED <<windows, passed>>, gatewayClock' \in Nat,
         gatewayClock <= gatewayClock'
  PROVE  GatewayInv'
<1>1. gatewayClock \in Nat /\ windows' = windows /\ passed' = passed
  BY DEF GatewayInv, GatewayTypes
<1>2. \A j \in DOMAIN passed : passed[j].at <= gatewayClock'
  <2>1. \A j \in DOMAIN passed : passed[j].at \in Nat /\ passed[j].at <= gatewayClock
    BY LogEntries DEF GatewayInv, GatewayTypes
  <2> QED BY <1>1, <2>1
<1>3. \A p \in DOMAIN windows : windows[p].start <= gatewayClock'
  <2>1. \A p \in DOMAIN windows : windows[p].start \in Nat /\ windows[p].start <= gatewayClock
    BY DEF GatewayInv, WindowsCount, Counts
  <2> QED BY <1>1, <2>1
<1> QED BY <1>1, <1>2, <1>3 DEF GatewayInv, GatewayTypes, WindowsCount

(* A client's request is let through now.                                    *)
LEMMA OnePasses ==
  ASSUME GatewayInv, NEW client \in Callers, NEW r \in Routes, ~OverLimit(client, r),
         windows' = Used(client, r), gatewayClock' = gatewayClock,
         passed' = Append(passed, [by |-> Asker(client, r), at |-> gatewayClock])
  PROVE  GatewayInv'
<1> DEFINE me == Asker(client, r)
           m == Len(passed) + 1
<1>1. /\ gatewayClock \in Nat /\ me \in Askers /\ passed \in Logs
      /\ \A j \in DOMAIN passed : passed[j].at <= gatewayClock /\ passed[j].by \in DOMAIN windows
  BY DEF GatewayInv, GatewayTypes, Askers
<1>2. /\ DOMAIN windows' = DOMAIN windows \cup {me}
      /\ \A p \in DOMAIN windows : p # me => windows'[p] = windows[p]
      /\ windows'[me] = IF NewWindow(client, r) THEN [start |-> gatewayClock, count |-> 1]
                        ELSE [windows[me] EXCEPT !.count = @ + 1]
  BY DEF Used
<1>3. me \in DOMAIN windows => Counts(windows[me], passed, me) /\ windows[me].start <= gatewayClock
  BY DEF GatewayInv, WindowsCount
<1>4. ~NewWindow(client, r) =>
        /\ me \in DOMAIN windows /\ windows[me].count < RateLimit
        /\ gatewayClock < windows[me].start + RateWindow
  <2> SUFFICES ASSUME ~NewWindow(client, r)
               PROVE  /\ me \in DOMAIN windows /\ windows[me].count < RateLimit
                      /\ gatewayClock < windows[me].start + RateWindow
    OBVIOUS
  <2>1. me \in DOMAIN windows /\ ~(gatewayClock - windows[me].start >= RateWindow)
    BY DEF NewWindow
  <2>2. ~(windows[me].count >= RateLimit)
    BY DEF OverLimit
  <2>3. windows[me].start \in Nat /\ windows[me].count \in Nat
    BY <1>3, <2>1 DEF Counts
  <2> HIDE DEF me
  <2> QED BY <1>1, <2>1, <2>2, <2>3, GatewayParameters
<1>5. me \in DOMAIN windows /\ NewWindow(client, r) => gatewayClock - windows[me].start >= RateWindow
  <2> SUFFICES ASSUME me \in DOMAIN windows, NewWindow(client, r)
               PROVE  gatewayClock - windows[me].start >= RateWindow
    OBVIOUS
  <2>1. gatewayClock < windows[me].start \/ gatewayClock - windows[me].start >= RateWindow
    BY DEF NewWindow
  <2>2. windows[me].start \in Nat /\ windows[me].start <= gatewayClock
    BY <1>3 DEF Counts
  <2> QED BY <1>1, <2>1, <2>2
<1> HIDE DEF me, m
<1>6. OneMore(passed, passed', m, me, gatewayClock)
  BY <1>1, Appended DEF me, m
<1>7. Counts(windows'[me], passed', me) /\ windows'[me].start <= gatewayClock
  <2>1. CASE NewWindow(client, r)
    <3>1. windows'[me] = [start |-> gatewayClock, count |-> 1]
      BY <1>2, <2>1
    <3>2. \/ \A j \in DOMAIN passed : passed[j].by # me
          \/ /\ Counts(windows[me], passed, me) /\ windows[me].start <= gatewayClock
             /\ gatewayClock - windows[me].start >= RateWindow
      BY <1>1, <1>3, <1>5, <2>1
    <3>3. Counts([start |-> gatewayClock, count |-> 1], passed', me)
      BY <1>6, <3>2, WindowRestarts
    <3>4. windows'[me].start = gatewayClock
      BY <3>1
    <3> QED BY <1>1, <3>1, <3>3, <3>4
  <2>2. CASE ~NewWindow(client, r)
    <3>1. windows'[me] = [windows[me] EXCEPT !.count = @ + 1]
      BY <1>2, <2>2
    <3>2. windows[me] \in [start : Nat, count : Nat]
      BY <1>3, <1>4, <2>2 DEF Counts
    <3>3. windows'[me].start = windows[me].start
      BY <3>1, <3>2
    <3> QED BY <1>3, <1>4, <1>6, <2>2, <3>1, <3>3, WindowFills
  <2> QED BY <2>1, <2>2
<1>8. GatewayTypes'
  <2>1. /\ passed' \in Logs /\ DOMAIN passed' = DOMAIN passed \cup {m}
        /\ \A j \in DOMAIN passed : passed'[j] = passed[j]
        /\ passed'[m].by = me /\ passed'[m].at = gatewayClock
    BY <1>6 DEF OneMore
  <2>2. \A j \in DOMAIN passed' : passed'[j].at <= gatewayClock /\ passed'[j].by \in DOMAIN windows'
    BY <1>1, <1>2, <2>1
  <2> QED BY <1>1, <2>1, <2>2 DEF GatewayTypes
<1>9. WindowsCount'
  <2>1. ASSUME NEW p \in DOMAIN windows, p # me
        PROVE  Counts(windows'[p], passed', p) /\ windows'[p].start <= gatewayClock
    <3>1. Counts(windows[p], passed, p) /\ windows[p].start <= gatewayClock
      BY DEF GatewayInv, WindowsCount
    <3> QED BY <1>2, <1>6, <2>1, <3>1, OthersCount
  <2> QED BY <1>2, <1>7, <2>1 DEF WindowsCount
<1>10. StretchesHold(passed')
  BY <1>6, <1>7, StretchesStillHold DEF GatewayInv
<1> QED BY <1>8, <1>9, <1>10 DEF GatewayInv

LEMMA NextGateway ==
  ASSUME GatewayInv, [GatewayNext]_gatewayVars
  PROVE  GatewayInv'
<1>1. gatewayClock \in Nat
  BY DEF GatewayInv, GatewayTypes
<1>2. ASSUME NEW r \in Routes, NEW client \in Callers, NEW payload \in 0 .. 2,
             Dispatch(client, r, payload)
      PROVE  GatewayInv'
  <2>1. CASE UNCHANGED <<windows, passed, gatewayClock>>
    BY <1>1, <2>1, NothingPasses
  <2>2. CASE DispatchStatus(client, r, payload) \in {"Accepted", "ServiceUnavailable"}
    <3>1. ~OverLimit(client, r)
      BY <2>2 DEF DispatchStatus
    <3>2. /\ windows' = Used(client, r) /\ gatewayClock' = gatewayClock
          /\ passed' = Append(passed, [by |-> Asker(client, r), at |-> gatewayClock])
      BY <1>2, <2>2 DEF Dispatch
    <3> QED BY <3>1, <3>2, OnePasses
  <2> QED BY <1>2, <2>1, <2>2 DEF Dispatch
<1>3. CASE GatewayTick
  BY <1>1, <1>3, NothingPasses DEF GatewayTick
<1>4. CASE UNCHANGED <<windows, passed, gatewayClock>>
  BY <1>1, <1>4, NothingPasses
<1> QED
  BY <1>2, <1>3, <1>4 DEF GatewayNext, gatewayVars, RegisterRoute, RemoveRoute, WindowsAfterRemoval,
                          DispatchUnknown, AddRule, OfferOrStopOffer

(* Over any stretch as long as a route's window, wherever it starts and      *)
(* however routes come and go, a client gets less than twice the limit past  *)
(* the gateway (IsRateLimited, Dispatch, RemoveRoute).                       *)
THEOREM RateCorrect == GatewaySpec => []RateHolds
<1>1. GatewayInv /\ [GatewayNext]_gatewayVars => GatewayInv'
  BY NextGateway
<1>2. GatewayInv => RateHolds
  BY DEF GatewayInv, StretchesHold, Passes, RateHolds
<1> QED BY InitGateway, <1>1, <1>2, PTL DEF GatewaySpec
=============================================================================
