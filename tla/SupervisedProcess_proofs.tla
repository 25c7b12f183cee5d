----------------------- MODULE SupervisedProcess_proofs -----------------------
(***************************************************************************)
(* Theorems about platform health management, alone and with the processes  *)
(* it supervises, for every policy of every entity: silence is judged at    *)
(* the boundary of the allowed windows, restarts in a row escalate, and a   *)
(* process is blamed for its order only after a crash, and not for long.    *)
(***************************************************************************)
EXTENDS SupervisedProcess, TLAPS

LEMMA PolicyParameters ==
  ASSUME NEW e \in Entities
  PROVE  /\ Policy[e].sequence \in Seq(Checkpoints) /\ Len(Policy[e].sequence) \in Nat
         /\ Policy[e].alive \in Nat /\ Policy[e].alive >= 1
         /\ Policy[e].failedAfter \in Nat /\ Policy[e].degradedAfter \in Nat
         /\ Policy[e].degradedAfter >= 1 /\ Policy[e].failedAfter >= 1
         /\ Policy[e].maxRestarts \in Nat
         /\ {Policy[e].onSequenceError, Policy[e].onDeadlineMiss, Policy[e].onDegraded,
             Policy[e].onFailed, Policy[e].onTermination, Policy[e].onExhaustion,
             Policy[e].onUnavailable} \subseteq Actions
         /\ MaxSilence \in Nat
<1>1. Policy[e] \in Policies /\ MaxSilence \in Nat
  BY PolicyAssumption
<1>2. /\ Policy[e] \in [sequence : Seq(Checkpoints), alive : Nat \ {0}, deadline : Nat \ {0},
                        degradedAfter : Nat \ {0}, failedAfter : Nat, maxRestarts : Nat,
                        onSequenceError : Actions, onDeadlineMiss : Actions,
                        onDegraded : Actions, onFailed : Actions, onTermination : Actions,
                        onExhaustion : Actions, onUnavailable : Actions]
      /\ Policy[e].failedAfter >= Policy[e].degradedAfter
  BY <1>1 DEF Policies
<1>3. /\ Policy[e].alive \in Nat /\ Policy[e].alive # 0
      /\ Policy[e].failedAfter \in Nat /\ Policy[e].degradedAfter \in Nat
      /\ Policy[e].degradedAfter # 0
  BY <1>2
<1>4. Policy[e].alive >= 1 /\ Policy[e].degradedAfter >= 1 /\ Policy[e].failedAfter >= 1
  BY <1>2, <1>3
<1>5. Policy[e].sequence \in Seq(Checkpoints)
  BY <1>2
<1> QED BY <1>1, <1>2, <1>3, <1>4, <1>5

(* Stepping round a cycle of n places.                                       *)
LEMMA Wrap ==
  ASSUME NEW n \in Nat, n # 0, NEW x \in 0 .. n
  PROVE  x % n = IF x = n THEN 0 ELSE x
<1>1. n % n = 0
  OBVIOUS
<1>2. x < n => x % n = x
  OBVIOUS
<1> QED BY <1>1, <1>2

-----------------------------------------------------------------------------
(* Platform health management.                                               *)

(* The report's restart count is that of the restarts in a row, and a spent  *)
(* limit is on report.                                                       *)
CountsRestarts(e) ==
  /\ ~Registered(e) => inARow[e] = 0
  /\ Registered(e) =>
       /\ report[e].restarts = inARow[e]
       /\ inARow[e] > Policy[e].maxRestarts =>
            report[e].status = "RestartLimitExceeded" /\ report[e].action = Policy[e].onFailed

(* A report other than a restart starts the count anew.                      *)
Plain(r) == r \in Reports /\ r.restarts = 0

LEMMA MadeReport ==
  ASSUME NEW health \in {"Healthy", "Degraded", "Failed"}, NEW status \in Statuses,
         NEW action \in Actions
  PROVE  /\ Plain(MakeReport(health, status, action))
         /\ MakeReport(health, status, action).health = health
         /\ MakeReport(health, status, action).status = status
BY DEF Plain, Reports, MakeReport

LEMMA AcceptedReport == Plain(Accepted) /\ Accepted.status = "Ok"
<1>1. "Healthy" \in {"Healthy", "Degraded", "Failed"} /\ "Ok" \in Statuses /\ "Ignore" \in Actions
  BY DEF Statuses, Actions
<1> QED BY <1>1, MadeReport DEF Accepted

LEMMA Windows ==
  ASSUME NEW a \in Nat, a >= 1, NEW s \in Nat
  PROVE  /\ s \div a \in Nat
         /\ \A n \in Nat : s \div a >= n <=> s >= n * a
<1> DEFINE q == s \div a
<1>1. q \in Nat /\ q * a <= s /\ s < (q + 1) * a
  OBVIOUS
<1> HIDE DEF q
<1>2. ASSUME NEW n \in Nat PROVE q >= n <=> s >= n * a
  <2>1. CASE q >= n
    <3>1. n * a <= q * a
      BY <1>1, <2>1
    <3>2. n * a \in Nat /\ q * a \in Nat
      BY <1>1
    <3> QED BY <1>1, <2>1, <3>1, <3>2
  <2>2. CASE q < n
    <3>1. (q + 1) * a <= n * a
      BY <1>1, <2>2
    <3>2. n * a \in Nat /\ (q + 1) * a \in Nat
      BY <1>1
    <3> QED BY <1>1, <2>2, <3>1, <3>2
  <2> QED BY <1>1, <2>1, <2>2
<1> QED BY <1>1, <1>2 DEF q

(* The windows missed are those that ended without a checkpoint.             *)
LEMMA MissedWindows ==
  ASSUME NEW e \in Entities, silence[e] \in Nat
  PROVE  /\ MissedAliveWindows(e) \in Nat
         /\ \A n \in Nat \ {0} :
              /\ silence[e] > n * Policy[e].alive => MissedAliveWindows(e) >= n
              /\ MissedAliveWindows(e) >= n => silence[e] >= n * Policy[e].alive
<1> DEFINE s == silence[e]
           a == Policy[e].alive
           m == MissedAliveWindows(e)
<1>1. s \in Nat /\ a \in Nat /\ a >= 1
  BY PolicyParameters
<1>2. m = IF s <= a THEN 0 ELSE ((s - a) \div a) + 1
  BY DEF MissedAliveWindows
<1> HIDE DEF s, a, m
<1>3. CASE s <= a
  <2>1. m = 0
    BY <1>2, <1>3
  <2>2. ASSUME NEW n \in Nat, n # 0 PROVE ~(s > n * a)
    <3>1. n * a >= a /\ n * a \in Nat
      BY <1>1, <2>2
    <3> QED BY <1>1, <1>3, <3>1
  <2>3. \A n \in Nat \ {0} : (s > n * a => m >= n) /\ (m >= n => s >= n * a)
    BY <2>1, <2>2
  <2> QED BY <2>1, <2>3 DEF s, a, m
<1>4. CASE s > a
  <2> DEFINE x == s - a
  <2>1. x \in Nat /\ m = (x \div a) + 1
    BY <1>1, <1>2, <1>4
  <2>2. /\ x \div a \in Nat
        /\ \A n \in Nat : x \div a >= n <=> x >= n * a
    BY <1>1, <2>1, Windows
  <2>3. ASSUME NEW n \in Nat, n # 0
        PROVE  m >= n <=> s >= n * a
    <3>1. n - 1 \in Nat /\ (n - 1) * a = n * a - a /\ n * a \in Nat
      BY <1>1, <2>3
    <3>2. x \div a >= n - 1 <=> x >= n * a - a
      BY <2>2, <3>1
    <3> QED BY <1>1, <2>1, <2>2, <3>1, <3>2
  <2>4. m \in Nat
    BY <2>1, <2>2
  <2>5. \A n \in Nat \ {0} : (s > n * a => m >= n) /\ (m >= n => s >= n * a)
    <3>1. \A n \in Nat : n * a \in Nat
      BY <1>1
    <3> QED BY <1>1, <2>3, <3>1
  <2> QED BY <2>4, <2>5 DEF s, a, m
<1> QED BY <1>1, <1>3, <1>4

LEMMA JudgedReport ==
  ASSUME NEW e \in Entities, silence[e] \in Nat
  PROVE  /\ Plain(Judged(e))
         /\ Judged(e).health = "Failed" <=> MissedAliveWindows(e) >= Policy[e].failedAfter
         /\ Judged(e).status # "LogicalSequenceError"
<1> DEFINE missed == MissedAliveWindows(e)
           health == CASE missed >= Policy[e].failedAfter -> "Failed"
                       [] missed \in Policy[e].degradedAfter .. Policy[e].failedAfter - 1
                            -> "Degraded"
                       [] OTHER -> "Healthy"
           action == CASE health = "Failed" -> Policy[e].onFailed
                       [] health = "Degraded" -> Policy[e].onDegraded
                       [] health = "Healthy" -> "Ignore"
           status == IF missed = 0 THEN "Ok" ELSE "MissingCheckpoint"
           r == MakeReport(health, status, action)
<1>1. missed \in Nat
  BY MissedWindows
<1> HIDE DEF missed
<1>2. /\ health \in {"Healthy", "Degraded", "Failed"}
      /\ health = "Failed" <=> missed >= Policy[e].failedAfter
  BY <1>1, PolicyParameters
<1> HIDE DEF health
<1>3. action \in Actions
  BY <1>2, PolicyParameters DEF Actions
<1>4. status \in Statuses /\ status # "LogicalSequenceError"
  BY DEF Statuses
<1> HIDE DEF action, status
<1>5. Plain(r) /\ r.health = health /\ r.status = status
  BY <1>2, <1>3, <1>4, MadeReport
<1>6. Judged(e) = [r EXCEPT !.missed = missed]
  BY DEF Judged, missed, health, action, status
<1> HIDE DEF r
<1>7. Plain(Judged(e)) /\ Judged(e).health = health /\ Judged(e).status = status
  BY <1>1, <1>5, <1>6 DEF Plain, Reports
<1> QED BY <1>2, <1>4, <1>7 DEF missed

-----------------------------------------------------------------------------
(* What a step may do with the reports, and with the times.                  *)
ReportsOK ==
  /\ report \in [Entities -> Reports \cup {None}]
  /\ inARow \in [Entities -> Nat]
  /\ \A e \in Entities : inARow[e] <= Policy[e].maxRestarts + 1 /\ CountsRestarts(e)

TimesOK ==
  /\ next \in [Entities -> Nat]
  /\ heard \in [Entities -> BOOLEAN]
  /\ silence \in [Entities -> 0 .. MaxSilence]
  /\ \A e \in Entities : next[e] = 0 \/ next[e] < Len(Policy[e].sequence)

IdleOK == \A e \in Entities : ~Registered(e) => next[e] = 0

HealthInv == ReportsOK /\ TimesOK /\ IdleOK

LEMMA HealthTypes == HealthInv => TypeOK
<1> SUFFICES ASSUME HealthInv PROVE TypeOK
  OBVIOUS
<1>1. ASSUME NEW e \in Entities
      PROVE  /\ Registered(e) => report[e].restarts <= Policy[e].maxRestarts + 1
             /\ next[e] \in 0 .. Len(Policy[e].sequence)
             /\ next[e] = 0 \/ next[e] < Len(Policy[e].sequence)
             /\ inARow[e] \in 0 .. Policy[e].maxRestarts + 1
  <2>1. /\ next[e] \in Nat /\ inARow[e] \in Nat
        /\ inARow[e] <= Policy[e].maxRestarts + 1
        /\ Registered(e) => report[e].restarts = inARow[e]
        /\ next[e] = 0 \/ next[e] < Len(Policy[e].sequence)
    BY DEF HealthInv, ReportsOK, TimesOK, CountsRestarts
  <2>2. Len(Policy[e].sequence) \in Nat /\ Policy[e].maxRestarts \in Nat
    BY PolicyParameters
  <2> QED BY <2>1, <2>2
<1> QED BY <1>1 DEF HealthInv, ReportsOK, TimesOK, TypeOK

LEMMA InitHealthInv == Init => HealthInv
<1> SUFFICES ASSUME Init PROVE HealthInv
  OBVIOUS
<1>1. TimesOK /\ IdleOK
  <2>1. \A e \in Entities : MaxSilence \in Nat
    BY PolicyParameters
  <2> QED BY <2>1 DEF Init, TimesOK, IdleOK
<1>2. ReportsOK
  <2>1. \A e \in Entities : Policy[e].maxRestarts \in Nat
    BY PolicyParameters
  <2>2. \A e \in Entities : report[e] = None /\ inARow[e] = 0
    BY DEF Init
  <2>3. ASSUME NEW e \in Entities PROVE inARow[e] <= Policy[e].maxRestarts + 1
    <3>1. inARow[e] = 0 /\ Policy[e].maxRestarts \in Nat
      BY <2>1, <2>2
    <3> QED BY <3>1
  <2>5. \A e \in Entities : CountsRestarts(e)
    BY <2>2 DEF CountsRestarts, Registered
  <2>4. report \in [Entities -> Reports \cup {None}] /\ inARow \in [Entities -> Nat]
    BY DEF Init
  <2> QED BY <2>3, <2>4, <2>5 DEF ReportsOK
<1> QED BY <1>1, <1>2 DEF HealthInv

(* Any report but a restart.                                                 *)
LEMMA ReportedKeeps ==
  ASSUME ReportsOK, NEW e \in Entities, NEW r, Plain(r), Reported(e, r)
  PROVE  /\ ReportsOK' /\ Registered(e)' /\ report'[e] = r
         /\ \A f \in Entities : f # e => report'[f] = report[f]
<1>1. /\ report'[e] = r /\ inARow'[e] = 0
      /\ \A f \in Entities : f # e => report'[f] = report[f] /\ inARow'[f] = inARow[f]
      /\ report' \in [Entities -> Reports \cup {None}]
      /\ inARow' \in [Entities -> Nat]
  BY DEF ReportsOK, Reported, Plain
<1>2. ASSUME NEW f \in Entities
      PROVE  inARow'[f] <= Policy[f].maxRestarts + 1 /\ CountsRestarts(f)'
  <2>1. CASE f = e
    BY <1>1, <2>1, PolicyParameters DEF CountsRestarts, Registered, Plain
  <2>2. CASE f # e
    BY <1>1, <2>2 DEF ReportsOK, CountsRestarts, Registered
  <2> QED BY <2>1, <2>2
<1>3. Registered(e)'
  BY <1>1, PolicyAssumption DEF Registered, Plain
<1> QED BY <1>1, <1>2, <1>3 DEF ReportsOK

LEMMA RestartKeeps ==
  ASSUME ReportsOK, NEW e \in Entities, ReportRestart(e)
  PROVE  /\ ReportsOK' /\ Registered(e)'
         /\ report'[e].status \in {report[e].status, "RestartLimitExceeded"}
         /\ \A f \in Entities : f # e => report'[f] = report[f]
<1> DEFINE old == report[e]
           most == Policy[e].maxRestarts
           r == IF IsOverLimit(e) THEN OverLimit(e) ELSE OneMore(e)
<1>1. /\ old \in Reports /\ old.restarts = inARow[e] /\ inARow[e] \in Nat
      /\ inARow[e] <= most + 1 /\ most \in Nat
  BY PolicyParameters DEF ReportsOK, ReportRestart, CountsRestarts, Registered
<1>2. /\ IsOverLimit(e) <=> inARow[e] + 1 > most
  BY <1>1 DEF IsOverLimit
<1>3. /\ OverLimit(e) \in Reports
      /\ OverLimit(e).status = "RestartLimitExceeded"
      /\ OverLimit(e).action = Policy[e].onFailed
      /\ OverLimit(e).restarts = most + 1
  <2>1. Policy[e].onFailed \in Actions /\ "RestartLimitExceeded" \in Statuses
    BY PolicyParameters DEF Statuses
  <2> QED BY <1>1, <2>1 DEF OverLimit, MakeReport, Reports
<1>4. /\ OneMore(e) \in Reports
      /\ OneMore(e).restarts = inARow[e] + 1
      /\ OneMore(e).status = old.status
  BY <1>1 DEF Reports, OneMore
<1>5. /\ report' = [report EXCEPT ![e] = r] /\ report'[e] = r
      /\ inARow'[e] = IF inARow[e] > most THEN inARow[e] ELSE inARow[e] + 1
      /\ \A f \in Entities : f # e => report'[f] = report[f] /\ inARow'[f] = inARow[f]
  <2>1. report' = [report EXCEPT ![e] = r]
    BY DEF ReportRestart
  <2>2. inARow' = [inARow EXCEPT ![e] = IF inARow[e] > most THEN inARow[e] ELSE inARow[e] + 1]
    BY DEF ReportRestart
  <2>3. report \in [Entities -> Reports \cup {None}] /\ inARow \in [Entities -> Nat]
    BY DEF ReportsOK
  <2> HIDE DEF r
  <2> QED BY <2>1, <2>2, <2>3
<1>6. /\ r \in Reports /\ r.status \in {old.status, "RestartLimitExceeded"}
      /\ r.restarts = inARow'[e]
      /\ inARow'[e] > most => r.status = "RestartLimitExceeded" /\ r.action = Policy[e].onFailed
      /\ inARow'[e] \in Nat /\ inARow'[e] <= most + 1
  <2>1. CASE IsOverLimit(e)
    BY <1>1, <1>2, <1>3, <1>5, <2>1
  <2>2. CASE ~IsOverLimit(e)
    BY <1>1, <1>2, <1>4, <1>5, <2>2
  <2> QED BY <2>1, <2>2
<1> HIDE DEF r
<1>7. Registered(e)'
  BY <1>5, <1>6, PolicyAssumption DEF Registered
<1>8. /\ report' \in [Entities -> Reports \cup {None}]
      /\ inARow' \in [Entities -> Nat]
  <2>2. DOMAIN inARow' = Entities /\ inARow' = [f \in Entities |-> inARow'[f]]
    BY DEF ReportRestart, ReportsOK
  <2>3. \A f \in Entities : inARow'[f] \in Nat
    BY <1>5, <1>6 DEF ReportsOK
  <2> QED BY <1>5, <1>6, <2>2, <2>3 DEF ReportsOK
<1>9. ASSUME NEW f \in Entities
      PROVE  inARow'[f] <= Policy[f].maxRestarts + 1 /\ CountsRestarts(f)'
  <2>1. CASE f = e
    BY <1>5, <1>6, <1>7, <2>1 DEF CountsRestarts
  <2>2. CASE f # e
    BY <1>5, <2>2 DEF ReportsOK, CountsRestarts, Registered
  <2> QED BY <2>1, <2>2
<1> QED BY <1>5, <1>6, <1>7, <1>8, <1>9 DEF ReportsOK

(* A checkpoint is awaited or it is not; the place it leaves is in the       *)
(* sequence.                                                                 *)
LEMMA AdvanceKeeps ==
  ASSUME TimesOK, NEW e \in Entities, NEW inOrder \in BOOLEAN, Advance(e, inOrder)
  PROVE  /\ next' \in [Entities -> Nat]
         /\ \A f \in Entities : next'[f] = 0 \/ next'[f] < Len(Policy[f].sequence)
         /\ \A f \in Entities : f # e => next'[f] = next[f]
<1> DEFINE n == Len(Policy[e].sequence)
           following == IF Policy[e].sequence = <<>> \/ ~inOrder THEN next[e]
                        ELSE (next[e] + 1) % n
<1>1. /\ n \in Nat /\ Policy[e].sequence \in Seq(Checkpoints)
      /\ next[e] \in Nat /\ (next[e] = 0 \/ next[e] < n)
  BY PolicyParameters DEF TimesOK
<1>2. next' = [next EXCEPT ![e] = following]
  BY DEF Advance
<1>3. following \in Nat /\ (following = 0 \/ following < n)
  <2>1. CASE Policy[e].sequence = <<>> \/ ~inOrder
    BY <1>1, <2>1
  <2>2. CASE ~(Policy[e].sequence = <<>> \/ ~inOrder)
    <3>1. n # 0
      BY <1>1, <2>2
    <3>2. (next[e] + 1) \in 0 .. n
      BY <1>1, <3>1
    <3>3. (next[e] + 1) % n = IF next[e] + 1 = n THEN 0 ELSE next[e] + 1
      BY <1>1, <3>1, <3>2, Wrap
    <3> QED BY <1>1, <2>2, <3>1, <3>2, <3>3
  <2> QED BY <2>1, <2>2
<1> HIDE DEF following
<1> QED BY <1>2, <1>3 DEF TimesOK

(* A report that leaves the times of an entity alone.                        *)
LEMMA ReportAlone ==
  ASSUME HealthInv, NEW e \in Entities, NEW r, Plain(r), Reported(e, r), UNCHANGED timeVars,
         Registered(e)
  PROVE  HealthInv'
<1>1. ReportsOK' /\ \A f \in Entities : Registered(f)' <=> Registered(f)
  BY ReportedKeeps DEF HealthInv, Registered
<1>2. TimesOK' /\ IdleOK'
  BY <1>1 DEF HealthInv, TimesOK, IdleOK, timeVars
<1> QED BY <1>1, <1>2 DEF HealthInv

LEMMA RegisterKeeps ==
  ASSUME HealthInv, NEW e \in Entities, RegisterEntity(e)
  PROVE  HealthInv'
<1>1. Reported(e, Accepted) /\ next' = next /\ heard' = heard
      /\ silence' = [silence EXCEPT ![e] = 0]
  BY DEF RegisterEntity
<1>2. ReportsOK' /\ \A f \in Entities : ~Registered(f)' => ~Registered(f)
  BY <1>1, ReportedKeeps, AcceptedReport DEF HealthInv, Registered
<1>3. TimesOK' /\ IdleOK'
  <2>1. 0 \in 0 .. MaxSilence
    BY PolicyParameters
  <2> QED BY <1>1, <1>2, <2>1 DEF HealthInv, TimesOK, IdleOK
<1> QED BY <1>2, <1>3 DEF HealthInv

(* What a reached checkpoint has reported, and when it is blamed.            *)
InOrder(e, checkpoint) ==
  Policy[e].sequence # <<>> => checkpoint = Policy[e].sequence[next[e] + 1]

LEMMA CheckpointReport ==
  ASSUME HealthInv, NEW e \in Entities, NEW checkpoint, ReportCheckpoint(e, checkpoint)
  PROVE  \E r : /\ Plain(r) /\ Reported(e, r) /\ Registered(e)
                /\ Advance(e, InOrder(e, checkpoint))
                /\ r.status = "LogicalSequenceError" <=> ~InOrder(e, checkpoint)
                /\ heard' \in [Entities -> BOOLEAN]
                /\ silence' \in [Entities -> 0 .. MaxSilence]
<1> DEFINE wrong == MakeReport("Failed", "LogicalSequenceError", Policy[e].onSequenceError)
           late == MakeReport("Degraded", "DeadlineMissed", Policy[e].onDeadlineMiss)
<1>1. /\ Registered(e) /\ Advance(e, InOrder(e, checkpoint))
      /\ \/ /\ ~InOrder(e, checkpoint)
            /\ Reported(e, wrong)
            /\ heard' = heard /\ silence' = silence
         \/ /\ InOrder(e, checkpoint)
            /\ heard' = [heard EXCEPT ![e] = TRUE]
            /\ silence' = [silence EXCEPT ![e] = 0]
            /\ Reported(e, IF Late(e) THEN late ELSE Accepted)
  BY DEF ReportCheckpoint, InOrder
<1>2. /\ Plain(wrong) /\ wrong.status = "LogicalSequenceError"
      /\ Plain(late) /\ late.status = "DeadlineMissed"
  <2>1. /\ Policy[e].onSequenceError \in Actions /\ Policy[e].onDeadlineMiss \in Actions
        /\ {"LogicalSequenceError", "DeadlineMissed"} \subseteq Statuses
    BY PolicyParameters DEF Statuses
  <2> QED BY <2>1, MadeReport
<1>3. Plain(Accepted) /\ Accepted.status = "Ok"
  BY AcceptedReport
<1> HIDE DEF wrong, late
<1>4. CASE ~InOrder(e, checkpoint)
  <2>1. heard' \in [Entities -> BOOLEAN] /\ silence' \in [Entities -> 0 .. MaxSilence]
    BY <1>1, <1>4 DEF HealthInv, TimesOK
  <2> QED BY <1>1, <1>2, <1>4, <2>1
<1>5. CASE InOrder(e, checkpoint)
  <2>1. 0 \in 0 .. MaxSilence
    BY PolicyParameters
  <2>2. heard' \in [Entities -> BOOLEAN] /\ silence' \in [Entities -> 0 .. MaxSilence]
    BY <1>1, <1>5, <2>1 DEF HealthInv, TimesOK
  <2>3. CASE Late(e)
    BY <1>1, <1>2, <1>5, <2>2, <2>3
  <2>4. CASE ~Late(e)
    BY <1>1, <1>3, <1>5, <2>2, <2>4
  <2> QED BY <2>3, <2>4
<1> QED BY <1>4, <1>5

LEMMA CheckpointKeeps ==
  ASSUME HealthInv, NEW e \in Entities, NEW checkpoint, ReportCheckpoint(e, checkpoint)
  PROVE  HealthInv'
<1>1. PICK r : /\ Plain(r) /\ Reported(e, r) /\ Registered(e)
               /\ Advance(e, InOrder(e, checkpoint))
               /\ heard' \in [Entities -> BOOLEAN]
               /\ silence' \in [Entities -> 0 .. MaxSilence]
  BY CheckpointReport
<1>2. InOrder(e, checkpoint) \in BOOLEAN
  BY DEF InOrder
<1>3. /\ next' \in [Entities -> Nat]
      /\ \A f \in Entities : next'[f] = 0 \/ next'[f] < Len(Policy[f].sequence)
      /\ \A f \in Entities : f # e => next'[f] = next[f]
  BY <1>1, <1>2, AdvanceKeeps DEF HealthInv
<1>4. /\ ReportsOK' /\ Registered(e)'
      /\ \A f \in Entities : f # e => report'[f] = report[f]
  BY <1>1, ReportedKeeps DEF HealthInv
<1>5. TimesOK'
  BY <1>1, <1>3 DEF TimesOK
<1>6. IdleOK'
  BY <1>3, <1>4 DEF HealthInv, IdleOK, Registered
<1> QED BY <1>4, <1>5, <1>6 DEF HealthInv

LEMMA EvaluateAllKeeps ==
  ASSUME HealthInv, EvaluateAll
  PROVE  HealthInv' /\ \A f \in Entities :
           report'[f] = IF Registered(f) THEN Judged(f) ELSE None
<1>1. /\ report' = [f \in Entities |-> IF Registered(f) THEN Judged(f) ELSE None]
      /\ inARow' = [f \in Entities |-> 0] /\ UNCHANGED timeVars
  BY DEF EvaluateAll
<1>2. ASSUME NEW f \in Entities
      PROVE  Plain(Judged(f)) /\ Judged(f) # None
  <2>1. silence[f] \in Nat
    BY PolicyParameters DEF HealthInv, TimesOK
  <2> QED BY <2>1, JudgedReport, PolicyAssumption DEF Plain
<1>3. \A f \in Entities : report'[f] = IF Registered(f) THEN Judged(f) ELSE None
  BY <1>1
<1>4. ASSUME NEW f \in Entities
      PROVE  /\ inARow'[f] <= Policy[f].maxRestarts + 1 /\ CountsRestarts(f)'
             /\ Registered(f)' <=> Registered(f)
  <2>1. Policy[f].maxRestarts \in Nat /\ inARow'[f] = 0
    BY <1>1, PolicyParameters
  <2>2. Registered(f)' <=> Registered(f)
    BY <1>2, <1>3 DEF Registered
  <2>3. inARow'[f] <= Policy[f].maxRestarts + 1
    BY <2>1
  <2>4. CountsRestarts(f)'
    BY <1>2, <1>3, <2>1, <2>2 DEF CountsRestarts, Plain
  <2> QED BY <2>2, <2>3, <2>4
<1>5. ReportsOK'
  <2>1. report' \in [Entities -> Reports \cup {None}]
    BY <1>1, <1>2 DEF Plain
  <2>2. inARow' \in [Entities -> Nat]
    BY <1>1
  <2> QED BY <1>4, <2>1, <2>2 DEF ReportsOK
<1>6. TimesOK' /\ IdleOK'
  BY <1>1, <1>4 DEF HealthInv, TimesOK, IdleOK, timeVars
<1> QED BY <1>3, <1>5, <1>6 DEF HealthInv

LEMMA LapseKeeps ==
  ASSUME HealthInv, Lapse
  PROVE  HealthInv'
<1>1. /\ report' = report /\ next' = next /\ heard' = heard /\ inARow' = inARow
      /\ silence' = [f \in Entities |-> IF silence[f] < MaxSilence THEN silence[f] + 1
                                         ELSE MaxSilence]
  BY DEF Lapse
<1>2. \A f \in Entities : silence[f] \in 0 .. MaxSilence /\ MaxSilence \in Nat
  BY PolicyParameters DEF HealthInv, TimesOK
<1>3. silence' \in [Entities -> 0 .. MaxSilence]
  BY <1>1, <1>2
<1> QED BY <1>1, <1>3 DEF HealthInv, ReportsOK, CountsRestarts, Registered, TimesOK, IdleOK

(* The reports that leave the times alone.                                   *)
LEMMA EvaluationKeeps ==
  ASSUME HealthInv, NEW e \in Entities, EvaluateAlive(e)
  PROVE  HealthInv' /\ report'[e] = Judged(e)
<1>1. Registered(e) /\ Reported(e, Judged(e)) /\ UNCHANGED timeVars
  BY DEF EvaluateAlive
<1>2. Plain(Judged(e))
  <2>1. silence[e] \in Nat
    BY PolicyParameters DEF HealthInv, TimesOK
  <2> QED BY <2>1, JudgedReport
<1>3. HealthInv'
  BY <1>1, <1>2, ReportAlone
<1>4. report'[e] = Judged(e)
  BY <1>1, <1>2, ReportedKeeps DEF HealthInv
<1> QED BY <1>3, <1>4

LEMMA TerminationKeeps ==
  ASSUME HealthInv, NEW e \in Entities, ReportProcessTermination(e)
  PROVE  HealthInv' /\ report'[e].status = "ProcessTerminated"
<1> DEFINE r == MakeReport("Failed", "ProcessTerminated", Policy[e].onTermination)
<1>1. Registered(e) /\ Reported(e, r) /\ UNCHANGED timeVars
  BY DEF ReportProcessTermination
<1>2. Plain(r) /\ r.status = "ProcessTerminated"
  <2>1. "ProcessTerminated" \in Statuses /\ Policy[e].onTermination \in Actions
    BY PolicyParameters DEF Statuses
  <2> QED BY <2>1, MadeReport
<1> HIDE DEF r
<1> QED BY <1>1, <1>2, ReportAlone, ReportedKeeps DEF HealthInv

LEMMA ExhaustionKeeps ==
  ASSUME HealthInv, NEW e \in Entities, ReportResourceExhaustion(e)
  PROVE  HealthInv' /\ report'[e].status = "ResourceExhausted"
<1> DEFINE r == MakeReport("Degraded", "ResourceExhausted", Policy[e].onExhaustion)
<1>1. Registered(e) /\ Reported(e, r) /\ UNCHANGED timeVars
  BY DEF ReportResourceExhaustion
<1>2. Plain(r) /\ r.status = "ResourceExhausted"
  <2>1. "ResourceExhausted" \in Statuses /\ Policy[e].onExhaustion \in Actions
    BY PolicyParameters DEF Statuses
  <2> QED BY <2>1, MadeReport
<1> HIDE DEF r
<1> QED BY <1>1, <1>2, ReportAlone, ReportedKeeps DEF HealthInv

LEMMA AvailabilityKeeps ==
  ASSUME HealthInv, NEW e \in Entities, NEW available \in BOOLEAN,
         ReportServiceAvailability(e, available)
  PROVE  HealthInv' /\ report'[e].status \in {"Ok", "ServiceUnavailable"}
<1> DEFINE down == MakeReport("Degraded", "ServiceUnavailable", Policy[e].onUnavailable)
           r == IF available THEN Accepted ELSE down
<1>1. Registered(e) /\ Reported(e, r) /\ UNCHANGED timeVars
  BY DEF ReportServiceAvailability
<1>2. Plain(down) /\ down.status = "ServiceUnavailable"
  <2>1. "ServiceUnavailable" \in Statuses /\ Policy[e].onUnavailable \in Actions
    BY PolicyParameters DEF Statuses
  <2> QED BY <2>1, MadeReport
<1>3. Plain(r) /\ r.status \in {"Ok", "ServiceUnavailable"}
  BY <1>2, AcceptedReport
<1> HIDE DEF r
<1> QED BY <1>1, <1>3, ReportAlone, ReportedKeeps DEF HealthInv

LEMMA RestartInv ==
  ASSUME HealthInv, NEW e \in Entities, ReportRestart(e)
  PROVE  HealthInv'
<1>1. ReportsOK' /\ \A f \in Entities : Registered(f)' <=> Registered(f)
  <2>1. Registered(e)
    BY DEF ReportRestart
  <2> QED BY <2>1, RestartKeeps DEF HealthInv, Registered
<1>2. UNCHANGED timeVars
  BY DEF ReportRestart
<1> QED BY <1>1, <1>2 DEF HealthInv, TimesOK, IdleOK, timeVars

LEMMA NextHealthInv == HealthInv /\ [Next]_vars => HealthInv'
<1> SUFFICES ASSUME HealthInv, [Next]_vars PROVE HealthInv'
  OBVIOUS
<1>1. CASE UNCHANGED vars
  BY <1>1 DEF vars, HealthInv, ReportsOK, CountsRestarts, Registered, TimesOK, IdleOK
<1>2. CASE EvaluateAll
  BY <1>2, EvaluateAllKeeps
<1>3. CASE Lapse
  BY <1>3, LapseKeeps
<1>4. ASSUME NEW e \in Entities, AnyReport(e) PROVE HealthInv'
  <2>1. CASE RegisterEntity(e)
    BY <2>1, RegisterKeeps
  <2>2. CASE \E checkpoint \in Checkpoints : ReportCheckpoint(e, checkpoint)
    BY <2>2, CheckpointKeeps
  <2>3. CASE EvaluateAlive(e)
    BY <2>3, EvaluationKeeps
  <2>4. CASE ReportProcessTermination(e)
    BY <2>4, TerminationKeeps
  <2>5. CASE ReportResourceExhaustion(e)
    BY <2>5, ExhaustionKeeps
  <2>6. CASE \E available \in BOOLEAN : ReportServiceAvailability(e, available)
    BY <2>6, AvailabilityKeeps
  <2>7. CASE ReportRestart(e)
    BY <2>7, RestartInv
  <2> QED BY <1>4, <2>1, <2>2, <2>3, <2>4, <2>5, <2>6, <2>7 DEF AnyReport
<1> QED BY <1>1, <1>2, <1>3, <1>4 DEF Next

LEMMA HealthInvHolds == Spec => []HealthInv
<1> QED BY InitHealthInv, NextHealthInv, PTL DEF Spec

(* Reports, counts and times have their types, and a restart count does not  *)
(* pass its limit by more than one.                                          *)
THEOREM HealthTypeCorrect == Spec => []TypeOK
<1> QED BY HealthInvHolds, HealthTypes, PTL

(* Restarts that follow one another more often than allowed are answered     *)
(* with the action for a failed entity.                                      *)
THEOREM EscalateCorrect == Spec => []RestartsInARowEscalate
<1>1. HealthInv => RestartsInARowEscalate
  <2> SUFFICES ASSUME HealthInv, NEW e \in Entities, inARow[e] > Policy[e].maxRestarts
               PROVE  /\ report[e].status = "RestartLimitExceeded"
                      /\ report[e].action = Policy[e].onFailed
    BY DEF RestartsInARowEscalate
  <2>1. CountsRestarts(e) /\ Policy[e].maxRestarts \in Nat
    BY PolicyParameters DEF HealthInv, ReportsOK
  <2>2. Registered(e)
    BY <2>1 DEF CountsRestarts
  <2> QED BY <2>1, <2>2 DEF CountsRestarts
<1> QED BY <1>1, HealthInvHolds, PTL

LEMMA Judgement ==
  ASSUME HealthInv, NEW e \in Entities, report'[e] = Judged(e)
  PROVE  LET allowed == Policy[e].failedAfter * Policy[e].alive
         IN  /\ silence[e] > allowed => report'[e].health = "Failed"
             /\ report'[e].health = "Failed" => silence[e] >= allowed
<1>1. silence[e] \in Nat
  BY PolicyParameters DEF HealthInv, TimesOK
<1>2. Policy[e].failedAfter \in Nat /\ Policy[e].failedAfter >= 1
  BY PolicyParameters
<1>3. Policy[e].failedAfter \in Nat \ {0}
  BY <1>2
<1>4. Judged(e).health = "Failed" <=> MissedAliveWindows(e) >= Policy[e].failedAfter
  BY <1>1, JudgedReport
<1>5. /\ silence[e] > Policy[e].failedAfter * Policy[e].alive =>
           MissedAliveWindows(e) >= Policy[e].failedAfter
      /\ MissedAliveWindows(e) >= Policy[e].failedAfter =>
           silence[e] >= Policy[e].failedAfter * Policy[e].alive
  BY <1>1, <1>3, MissedWindows
<1> QED BY <1>4, <1>5

(* An entity is failed by an evaluation when it was silent for its allowed   *)
(* windows, and only then.                                                   *)
THEOREM JudgedCorrect == Spec => SilenceIsJudged
<1> DEFINE A == \A e \in Entities :
                  LET allowed == Policy[e].failedAfter * Policy[e].alive
                  IN  EvaluateAlive(e) \/ (EvaluateAll /\ Registered(e)) =>
                        /\ silence[e] > allowed => report'[e].health = "Failed"
                        /\ report'[e].health = "Failed" => silence[e] >= allowed
<1>1. HealthInv /\ [Next]_vars => [A]_vars
  <2> SUFFICES ASSUME HealthInv, NEW e \in Entities,
                      EvaluateAlive(e) \/ (EvaluateAll /\ Registered(e))
               PROVE  LET allowed == Policy[e].failedAfter * Policy[e].alive
                      IN  /\ silence[e] > allowed => report'[e].health = "Failed"
                          /\ report'[e].health = "Failed" => silence[e] >= allowed
    OBVIOUS
  <2>1. report'[e] = Judged(e)
    BY EvaluationKeeps, EvaluateAllKeeps
  <2> QED BY <2>1, Judgement
<1> HIDE DEF A
<1>2. Spec => [][A]_vars
  BY <1>1, HealthInvHolds, PTL DEF Spec
<1> QED BY <1>2 DEF SilenceIsJudged, A

-----------------------------------------------------------------------------
(* The processes.                                                            *)
PlaceOK ==
  /\ place \in [Processes -> Nat]
  /\ \A e \in Processes : place[e] <= Len(Policy[e].sequence)

LEMMA SequenceLength ==
  ASSUME NEW e \in Processes
  PROVE  /\ e \in Entities /\ Policy[e].sequence # <<>>
         /\ Len(Policy[e].sequence) \in Nat /\ Len(Policy[e].sequence) # 0
         /\ \A p \in 1 .. Len(Policy[e].sequence) : Policy[e].sequence[p] \in Checkpoints
<1>1. e \in Entities /\ Policy[e].sequence # <<>>
  BY ProcessAssumption
<1> DEFINE s == Policy[e].sequence
<1>2. s \in Seq(Checkpoints) /\ s # <<>>
  BY <1>1, PolicyParameters
<1> HIDE DEF s
<1>3. /\ Len(s) \in Nat /\ Len(s) # 0
      /\ \A p \in 1 .. Len(s) : s[p] \in Checkpoints
  BY <1>2
<1> QED BY <1>1, <1>3 DEF s

(* How far the awaited place x is ahead of the place p a process reaches     *)
(* next, in a cycle of n.                                                    *)
LagOf(x, p, n) == IF x >= p - 1 THEN x - (p - 1) ELSE x - (p - 1) + n

LEMMA LagSteps ==
  ASSUME NEW n \in Nat, n # 0, NEW x \in Nat, x < n, NEW p \in Nat, p # 0, p <= n
  PROVE  /\ (p % n) + 1 \in Nat /\ (p % n) + 1 # 0 /\ (p % n) + 1 <= n
         /\ (x + 1) % n \in Nat /\ (x + 1) % n < n
         /\ LagOf(x, p, n) \in Nat /\ LagOf(x, p, n) <= n - 1
         /\ LagOf(x, p, n) = 0 <=> p = x + 1
         /\ LagOf((x + 1) % n, (p % n) + 1, n) = LagOf(x, p, n)
         /\ p # x + 1 => LagOf(x, (p % n) + 1, n) = LagOf(x, p, n) - 1
<1> DEFINE y == (x + 1) % n
           q == p % n
<1>1. y = IF x + 1 = n THEN 0 ELSE x + 1
  <2>1. x + 1 \in 0 .. n
    OBVIOUS
  <2> QED BY <2>1, Wrap
<1>2. q = IF p = n THEN 0 ELSE p
  <2>1. p \in 0 .. n
    OBVIOUS
  <2> QED BY <2>1, Wrap
<1> HIDE DEF y, q
<1>3. /\ q + 1 \in Nat /\ q + 1 # 0 /\ q + 1 <= n
      /\ y \in Nat /\ y < n
      /\ LagOf(x, p, n) \in Nat /\ LagOf(x, p, n) <= n - 1
      /\ LagOf(x, p, n) = 0 <=> p = x + 1
  BY <1>1, <1>2 DEF LagOf
<1>4. LagOf(y, q + 1, n) = LagOf(x, p, n)
  BY <1>1, <1>2 DEF LagOf
<1>5. p # x + 1 => LagOf(x, q + 1, n) = LagOf(x, p, n) - 1
  BY <1>2 DEF LagOf
<1> QED BY <1>3, <1>4, <1>5 DEF y, q

LEMMA PlaceKeeps == PlaceOK /\ [ProcessNext]_supervisedVars => PlaceOK'
<1> SUFFICES ASSUME PlaceOK, [ProcessNext]_supervisedVars PROVE PlaceOK'
  OBVIOUS
<1>1. ASSUME NEW e \in Processes, NEW p \in Nat, p <= Len(Policy[e].sequence),
             place' = [place EXCEPT ![e] = p]
      PROVE  PlaceOK'
  BY <1>1 DEF PlaceOK
<1>2. CASE place' = place
  BY <1>2 DEF PlaceOK
<1>3. ASSUME NEW e \in Processes,
             Starts(e) \/ Reaches(e) \/ Terminates(e) \/ StartsAgain(e) \/ OthersReport(e)
      PROVE  PlaceOK'
  <2>1. CASE Starts(e) \/ StartsAgain(e)
    <3>1. place' = [place EXCEPT ![e] = 1]
      BY <2>1 DEF Starts, StartsAgain
    <3>2. 1 <= Len(Policy[e].sequence)
      BY SequenceLength
    <3> QED BY <1>1, <3>1, <3>2
  <2>2. CASE Reaches(e)
    <3> DEFINE n == Len(Policy[e].sequence)
    <3>1. /\ place' = [place EXCEPT ![e] = (place[e] % n) + 1]
          /\ place[e] # 0
      BY <2>2 DEF Reaches
    <3>2. n \in Nat /\ n # 0 /\ place[e] \in 0 .. n
      BY SequenceLength DEF PlaceOK
    <3> HIDE DEF n
    <3>3. place[e] % n = IF place[e] = n THEN 0 ELSE place[e]
      BY <3>2, Wrap
    <3>4. (place[e] % n) + 1 \in Nat /\ (place[e] % n) + 1 <= n
      BY <3>2, <3>3
    <3> QED BY <1>1, <3>1, <3>4 DEF n
  <2>3. CASE Terminates(e)
    <3>1. place' = [place EXCEPT ![e] = 0]
      BY <2>3 DEF Terminates
    <3>2. 0 <= Len(Policy[e].sequence)
      BY SequenceLength
    <3> QED BY <1>1, <3>1, <3>2
  <2>4. CASE OthersReport(e)
    BY <1>2, <2>4 DEF OthersReport, processVars
  <2> QED BY <1>3, <2>1, <2>2, <2>3, <2>4
<1>4. CASE Unrelated \/ UNCHANGED supervisedVars
  BY <1>2, <1>4 DEF Unrelated, supervisedVars, processVars
<1> QED BY <1>3, <1>4 DEF ProcessNext

LEMMA ProcessSteps == PlaceOK /\ [ProcessNext]_supervisedVars => [Next]_vars
<1> SUFFICES ASSUME PlaceOK, [ProcessNext]_supervisedVars PROVE [Next]_vars
  OBVIOUS
<1>1. ASSUME NEW e \in Processes, Reaches(e) PROVE Next
  <2>1. /\ place[e] # 0
        /\ ReportCheckpoint(e, Policy[e].sequence[place[e]])
    BY <1>1 DEF Reaches
  <2>2. place[e] \in 1 .. Len(Policy[e].sequence)
    BY <2>1, SequenceLength DEF PlaceOK
  <2>3. e \in Entities /\ Policy[e].sequence[place[e]] \in Checkpoints
    BY <2>2, SequenceLength
  <2> QED BY <2>1, <2>3 DEF Next, AnyReport
<1>2. ASSUME NEW e \in Processes,
             Starts(e) \/ Terminates(e) \/ StartsAgain(e) \/ OthersReport(e)
      PROVE  Next
  <2>1. e \in Entities
    BY SequenceLength
  <2> QED BY <1>2, <2>1 DEF Starts, Terminates, StartsAgain, OthersReport, Next, AnyReport
<1>3. CASE Unrelated
  BY <1>3 DEF Unrelated, Next
<1>4. CASE UNCHANGED supervisedVars
  BY <1>4 DEF supervisedVars
<1> QED BY <1>1, <1>2, <1>3, <1>4 DEF ProcessNext

(* What processes do, and what is reported of them, is what the manager      *)
(* takes: all that holds of it alone holds of it with its processes.         *)
THEOREM ProcessesReport == SupervisedSpec => Spec
<1>1. ProcessInit => PlaceOK
  <2> SUFFICES ASSUME ProcessInit PROVE PlaceOK
    OBVIOUS
  <2>1. \A e \in Processes : Len(Policy[e].sequence) \in Nat
    BY SequenceLength
  <2> QED BY <2>1 DEF ProcessInit, PlaceOK
<1>2. ProcessInit => Init
  BY DEF ProcessInit
<1> QED BY <1>1, <1>2, PlaceKeeps, ProcessSteps, PTL DEF SupervisedSpec, Spec

-----------------------------------------------------------------------------
(* Blame.  The manager awaits a place ahead of the one the process reaches   *)
(* next only after a restart; each blame brings the process one place        *)
(* nearer, so it is blamed less often than the sequence is long.             *)
Lag(e) == LagOf(next[e], place[e], Len(Policy[e].sequence))

Follows(e) ==
  /\ blamed[e] <= Len(Policy[e].sequence) - 1
  /\ place[e] # 0 =>
       Registered(e) /\ blamed[e] + Lag(e) <= Len(Policy[e].sequence) - 1
  /\ Registered(e) /\ ~crashed[e] =>
       /\ place[e] # 0 /\ Lag(e) = 0
       /\ report[e].status # "LogicalSequenceError"

BlameInv ==
  /\ PlaceOK
  /\ blamed \in [Processes -> Nat]
  /\ crashed \in [Processes -> BOOLEAN]
  /\ \A e \in Processes : Follows(e)

LEMMA InitBlameInv == ProcessInit => BlameInv
<1> SUFFICES ASSUME ProcessInit PROVE BlameInv
  OBVIOUS
<1>1. ASSUME NEW e \in Processes
      PROVE  place[e] <= Len(Policy[e].sequence) /\ Follows(e)
  <2>1. /\ e \in Entities /\ Len(Policy[e].sequence) \in Nat
        /\ Len(Policy[e].sequence) # 0
    BY SequenceLength
  <2>2. place[e] = 0 /\ blamed[e] = 0 /\ ~Registered(e)
    BY <2>1 DEF ProcessInit, Init, Registered
  <2>3. 0 <= Len(Policy[e].sequence) - 1
    BY <2>1
  <2> QED BY <2>1, <2>2, <2>3 DEF Follows
<1> QED BY <1>1 DEF ProcessInit, BlameInv, PlaceOK

(* Where its process stands does not depend on what else is reported.        *)
LEMMA FollowsStill ==
  ASSUME NEW e \in Processes, Follows(e), next'[e] = next[e],
         place'[e] = place[e], blamed'[e] = blamed[e], crashed'[e] = crashed[e],
         Registered(e)' <=> Registered(e),
         report'[e] = report[e] \/ report'[e].status # "LogicalSequenceError"
  PROVE  Follows(e)'
<1>1. Lag(e)' = Lag(e)
  BY DEF Lag
<1>2. Registered(e) /\ ~crashed[e] => report'[e].status # "LogicalSequenceError"
  BY DEF Follows
<1> QED BY <1>1, <1>2 DEF Follows

(* A report is about one entity.                                             *)
OneEntity(e) ==
  \A f \in Entities : f # e => next'[f] = next[f] /\ report'[f] = report[f]

LEMMA AboutOne ==
  ASSUME HealthInv, NEW e \in Entities, AnyReport(e)
  PROVE  OneEntity(e)
<1>1. ASSUME NEW r, Reported(e, r) PROVE \A f \in Entities : f # e => report'[f] = report[f]
  BY <1>1 DEF Reported, HealthInv, ReportsOK
<1>2. CASE RegisterEntity(e)
  BY <1>1, <1>2 DEF RegisterEntity, OneEntity
<1>3. ASSUME NEW checkpoint \in Checkpoints, ReportCheckpoint(e, checkpoint)
      PROVE  OneEntity(e)
  <2>1. PICK r : Reported(e, r) /\ Advance(e, InOrder(e, checkpoint))
    BY <1>3, CheckpointReport
  <2>2. InOrder(e, checkpoint) \in BOOLEAN
    BY DEF InOrder
  <2> QED BY <1>1, <2>1, <2>2, AdvanceKeeps DEF OneEntity, HealthInv
<1>4. CASE ReportRestart(e)
  <2>1. \A f \in Entities : f # e => report'[f] = report[f]
    BY <1>4, RestartKeeps DEF HealthInv
  <2>2. next' = next
    BY <1>4 DEF ReportRestart, timeVars
  <2> QED BY <2>1, <2>2 DEF OneEntity
<1>5. CASE EvaluateAlive(e)
  BY <1>1, <1>5 DEF EvaluateAlive, timeVars, OneEntity
<1>6. CASE ReportProcessTermination(e)
  BY <1>1, <1>6 DEF ReportProcessTermination, timeVars, OneEntity
<1>7. CASE ReportResourceExhaustion(e)
  BY <1>1, <1>7 DEF ReportResourceExhaustion, timeVars, OneEntity
<1>8. ASSUME NEW available \in BOOLEAN, ReportServiceAvailability(e, available)
      PROVE  OneEntity(e)
  BY <1>1, <1>8 DEF ReportServiceAvailability, timeVars, OneEntity
<1> QED BY <1>2, <1>3, <1>4, <1>5, <1>6, <1>7, <1>8 DEF AnyReport

(* So only the reports about a process can change where it stands.           *)
LEMMA OthersFollow ==
  ASSUME HealthInv, BlameInv, NEW e \in Entities, AnyReport(e), PlaceOK',
         blamed' \in [Processes -> Nat], crashed' \in [Processes -> BOOLEAN],
         \A f \in Processes : f # e =>
           place'[f] = place[f] /\ blamed'[f] = blamed[f] /\ crashed'[f] = crashed[f],
         e \in Processes => Follows(e)'
  PROVE  BlameInv'
<1>1. OneEntity(e)
  BY AboutOne
<1>2. ASSUME NEW f \in Processes, f # e PROVE Follows(f)'
  <2>1. f \in Entities
    BY SequenceLength
  <2>2. next'[f] = next[f] /\ report'[f] = report[f]
    BY <1>1, <1>2, <2>1 DEF OneEntity
  <2>3. Follows(f)
    BY DEF BlameInv
  <2> QED BY <1>2, <2>2, <2>3, FollowsStill DEF Registered
<1> QED BY <1>2 DEF BlameInv

LEMMA StartsFollow ==
  ASSUME HealthInv, BlameInv, NEW e \in Processes, Starts(e)
  PROVE  Follows(e)'
<1> DEFINE n == Len(Policy[e].sequence)
<1>1. e \in Entities /\ n \in Nat /\ n # 0
  BY SequenceLength
<1>2. /\ RegisterEntity(e) /\ place'[e] = 1
      /\ blamed' = blamed /\ crashed' = crashed
  BY DEF Starts, BlameInv, PlaceOK
<1>3. next'[e] = 0
  BY <1>1, <1>2 DEF RegisterEntity, HealthInv, IdleOK
<1>4. Registered(e)' /\ report'[e] = Accepted
  BY <1>1, <1>2, ReportedKeeps, AcceptedReport DEF RegisterEntity, HealthInv
<1>5. blamed[e] \in Nat /\ blamed[e] <= n - 1
  BY DEF BlameInv, Follows
<1>6. Lag(e)' = 0
  BY <1>2, <1>3 DEF Lag, LagOf
<1>7. report'[e].status # "LogicalSequenceError"
  BY <1>4, AcceptedReport
<1> HIDE DEF n
<1>8. blamed'[e] <= n - 1 /\ blamed'[e] + Lag(e)' <= n - 1
  BY <1>1, <1>2, <1>5, <1>6
<1> QED BY <1>2, <1>4, <1>6, <1>7, <1>8 DEF Follows, n

LEMMA TerminatesFollow ==
  ASSUME HealthInv, BlameInv, NEW e \in Processes, Terminates(e)
  PROVE  Follows(e)'
<1>1. place'[e] = 0 /\ crashed'[e] = TRUE /\ blamed' = blamed
  BY DEF Terminates, BlameInv, PlaceOK
<1>2. blamed[e] <= Len(Policy[e].sequence) - 1
  BY DEF BlameInv, Follows
<1> QED BY <1>1, <1>2 DEF Follows

LEMMA StartsAgainFollow ==
  ASSUME HealthInv, BlameInv, NEW e \in Processes, StartsAgain(e)
  PROVE  Follows(e)'
<1> DEFINE n == Len(Policy[e].sequence)
<1>1. e \in Entities /\ n \in Nat /\ n # 0
  BY SequenceLength
<1>2. /\ ReportRestart(e) /\ place[e] = 0 /\ place'[e] = 1
      /\ blamed'[e] = 0 /\ crashed' = crashed
  BY DEF StartsAgain, BlameInv, PlaceOK
<1>3. next'[e] = next[e] /\ Registered(e)
  BY <1>2 DEF ReportRestart, timeVars
<1>4. Registered(e)'
  BY <1>1, <1>2, RestartKeeps DEF HealthInv
<1>5. next[e] \in Nat /\ next[e] <= n - 1
  BY <1>1 DEF HealthInv, TimesOK
<1>6. crashed[e]
  BY <1>2, <1>3 DEF BlameInv, Follows
<1>7. Lag(e)' = next[e]
  BY <1>2, <1>3, <1>5 DEF Lag, LagOf
<1> HIDE DEF n
<1>8. blamed'[e] <= n - 1 /\ blamed'[e] + Lag(e)' <= n - 1
  BY <1>1, <1>2, <1>5, <1>7
<1>9. crashed'[e] = TRUE
  BY <1>2, <1>6 DEF BlameInv
<1> QED BY <1>4, <1>8, <1>9 DEF Follows, n

LEMMA OthersReportFollow ==
  ASSUME HealthInv, BlameInv, NEW e \in Processes, OthersReport(e)
  PROVE  Follows(e)'
<1>1. /\ e \in Entities /\ Follows(e)
      /\ place' = place /\ blamed' = blamed /\ crashed' = crashed
  BY SequenceLength DEF OthersReport, processVars, BlameInv
<1>2. /\ Registered(e) /\ next' = next
      /\ \E r : Reported(e, r)
  BY DEF OthersReport, EvaluateAlive, ReportResourceExhaustion, ReportServiceAvailability,
         timeVars
<1>3. report'[e].status # "LogicalSequenceError" /\ report'[e] # None
  <2>1. CASE EvaluateAlive(e)
    <3>1. report'[e] = Judged(e) /\ silence[e] \in Nat
      BY <1>1, <2>1, EvaluationKeeps, PolicyParameters DEF HealthInv, TimesOK
    <3> QED BY <1>1, <3>1, JudgedReport, PolicyAssumption DEF Plain
  <2>2. CASE ReportResourceExhaustion(e)
    <3>1. report'[e].status = "ResourceExhausted" /\ HealthInv'
      BY <1>1, <2>2, ExhaustionKeeps
    <3>2. Registered(e)'
      <4>1. Policy[e].onExhaustion \in Actions /\ "ResourceExhausted" \in Statuses
        BY <1>1, PolicyParameters DEF Statuses
      <4>2. Plain(MakeReport("Degraded", "ResourceExhausted", Policy[e].onExhaustion))
        BY <4>1, MadeReport
      <4> QED BY <1>1, <2>2, <4>2, ReportedKeeps DEF ReportResourceExhaustion, HealthInv
    <3> QED BY <3>1, <3>2 DEF Registered
  <2>3. ASSUME NEW available \in BOOLEAN, ReportServiceAvailability(e, available)
        PROVE  report'[e].status # "LogicalSequenceError" /\ report'[e] # None
    <3>1. report'[e].status \in {"Ok", "ServiceUnavailable"}
      BY <1>1, <2>3, AvailabilityKeeps
    <3>2. Registered(e)'
      <4>1. Policy[e].onUnavailable \in Actions /\ "ServiceUnavailable" \in Statuses
        BY <1>1, PolicyParameters DEF Statuses
      <4>2. Plain(MakeReport("Degraded", "ServiceUnavailable", Policy[e].onUnavailable))
        BY <4>1, MadeReport
      <4>3. Plain(IF available THEN Accepted
                  ELSE MakeReport("Degraded", "ServiceUnavailable", Policy[e].onUnavailable))
        BY <4>2, AcceptedReport
      <4> QED BY <1>1, <2>3, <4>3, ReportedKeeps DEF ReportServiceAvailability, HealthInv
    <3> QED BY <3>1, <3>2 DEF Registered
  <2> QED BY <2>1, <2>2, <2>3 DEF OthersReport
<1>4. Registered(e)' <=> Registered(e)
  BY <1>2, <1>3 DEF Registered
<1> QED BY <1>1, <1>2, <1>3, <1>4, FollowsStill

LEMMA ReachesFollow ==
  ASSUME HealthInv, BlameInv, NEW e \in Processes, Reaches(e)
  PROVE  Follows(e)'
<1> DEFINE s == Policy[e].sequence
           n == Len(s)
           p == place[e]
           x == next[e]
<1>1. e \in Entities /\ s # <<>> /\ n \in Nat /\ n # 0
  BY SequenceLength
<1>2. /\ p # 0 /\ ReportCheckpoint(e, s[p])
      /\ place'[e] = (p % n) + 1
      /\ blamed'[e] = IF report'[e].status = "LogicalSequenceError" /\ blamed[e] < n
                      THEN blamed[e] + 1 ELSE blamed[e]
      /\ crashed' = crashed
  BY DEF Reaches, BlameInv, PlaceOK
<1>3. PICK r : /\ Plain(r) /\ Reported(e, r) /\ Registered(e)
               /\ Advance(e, InOrder(e, s[p]))
               /\ r.status = "LogicalSequenceError" <=> ~InOrder(e, s[p])
  BY <1>1, <1>2, CheckpointReport
<1>4. Registered(e)' /\ report'[e] = r
  BY <1>1, <1>3, ReportedKeeps DEF HealthInv
<1>5. InOrder(e, s[p]) <=> s[p] = s[x + 1]
  BY <1>1 DEF InOrder
<1>6. next'[e] = IF InOrder(e, s[p]) THEN (x + 1) % n ELSE x
  BY <1>1, <1>3 DEF Advance, HealthInv, TimesOK
<1>7. p \in Nat /\ p <= n /\ x \in Nat /\ x < n
  BY <1>1 DEF BlameInv, PlaceOK, HealthInv, TimesOK
<1>8. /\ blamed[e] \in Nat /\ blamed[e] <= n - 1
      /\ blamed[e] + LagOf(x, p, n) <= n - 1
      /\ ~crashed[e] => LagOf(x, p, n) = 0
  BY <1>2, <1>3 DEF BlameInv, Follows, Lag
<1>9. Lag(e)' = LagOf(next'[e], place'[e], n)
  BY DEF Lag
<1> HIDE DEF s, n, p, x
<1>10. /\ (p % n) + 1 # 0
       /\ LagOf(x, p, n) \in Nat
       /\ LagOf(x, p, n) = 0 <=> p = x + 1
       /\ LagOf((x + 1) % n, (p % n) + 1, n) = LagOf(x, p, n)
       /\ p # x + 1 => LagOf(x, (p % n) + 1, n) = LagOf(x, p, n) - 1
  BY <1>1, <1>2, <1>7, LagSteps, ZenonT(60)
<1>11. CASE InOrder(e, s[p])
  <2>1. Lag(e)' = LagOf(x, p, n) /\ blamed'[e] = blamed[e]
    BY <1>2, <1>3, <1>4, <1>6, <1>9, <1>10, <1>11
  <2>2. report'[e].status # "LogicalSequenceError"
    BY <1>3, <1>4, <1>11
  <2> QED BY <1>2, <1>4, <1>8, <1>10, <2>1, <2>2 DEF Follows, n, s
<1>12. CASE ~InOrder(e, s[p])
  <2>1. p # x + 1
    BY <1>5, <1>12
  <2>2. Lag(e)' = LagOf(x, p, n) - 1
    BY <1>2, <1>6, <1>9, <1>10, <1>12, <2>1
  <2>3. crashed[e] /\ LagOf(x, p, n) # 0
    BY <1>8, <1>10, <2>1
  <2>4. blamed'[e] = blamed[e] + 1
    BY <1>1, <1>2, <1>3, <1>4, <1>8, <1>12
  <2>5. blamed'[e] <= n - 1 /\ blamed'[e] + Lag(e)' <= n - 1
    BY <1>1, <1>8, <1>10, <2>2, <2>3, <2>4
  <2> QED BY <1>2, <1>4, <2>3, <2>5 DEF Follows, n, s
<1> QED BY <1>11, <1>12

LEMMA NextBlameInv ==
  HealthInv /\ BlameInv /\ [ProcessNext]_supervisedVars => BlameInv'
<1> SUFFICES ASSUME HealthInv, BlameInv, [ProcessNext]_supervisedVars PROVE BlameInv'
  OBVIOUS
<1>1. PlaceOK'
  BY PlaceKeeps DEF BlameInv
<1>2. /\ blamed \in [Processes -> Nat] /\ crashed \in [Processes -> BOOLEAN]
      /\ place \in [Processes -> Nat]
      /\ \A e \in Processes : Follows(e)
  BY DEF BlameInv, PlaceOK
<1>3. ASSUME NEW e \in Processes,
             Starts(e) \/ Reaches(e) \/ Terminates(e) \/ StartsAgain(e) \/ OthersReport(e)
      PROVE  BlameInv'
  <2>1. e \in Entities
    BY SequenceLength
  <2>2. /\ \A f \in Processes : f # e =>
              place'[f] = place[f] /\ blamed'[f] = blamed[f] /\ crashed'[f] = crashed[f]
        /\ blamed' \in [Processes -> Nat] /\ crashed' \in [Processes -> BOOLEAN]
    <3>1. CASE Starts(e)
      BY <1>2, <3>1 DEF Starts
    <3>2. CASE Terminates(e)
      BY <1>2, <3>2 DEF Terminates
    <3>3. CASE StartsAgain(e)
      BY <1>2, <3>3 DEF StartsAgain
    <3>4. CASE OthersReport(e)
      BY <1>2, <3>4 DEF OthersReport, processVars
    <3>5. CASE Reaches(e)
      <4> DEFINE p == (place[e] % Len(Policy[e].sequence)) + 1
                 b == IF /\ report'[e].status = "LogicalSequenceError"
                         /\ blamed[e] < Len(Policy[e].sequence)
                      THEN blamed[e] + 1 ELSE blamed[e]
      <4>1. /\ place' = [place EXCEPT ![e] = p]
            /\ blamed' = [blamed EXCEPT ![e] = b] /\ crashed' = crashed
        BY <3>5 DEF Reaches
      <4>2. b \in Nat
        BY <1>2
      <4> HIDE DEF p, b
      <4> QED BY <1>2, <4>1, <4>2
    <3> QED BY <1>3, <3>1, <3>2, <3>3, <3>4, <3>5
  <2>3. AnyReport(e)
    <3>1. CASE Reaches(e)
      <4>1. place[e] \in 1 .. Len(Policy[e].sequence)
        BY <3>1, SequenceLength DEF Reaches, BlameInv, PlaceOK
      <4>2. Policy[e].sequence[place[e]] \in Checkpoints
        BY <4>1, SequenceLength
      <4> QED BY <3>1, <4>2 DEF Reaches, AnyReport
    <3> QED BY <1>3, <3>1 DEF Starts, Terminates, StartsAgain, OthersReport, AnyReport
  <2>4. Follows(e)'
    BY <1>3, StartsFollow, ReachesFollow, TerminatesFollow, StartsAgainFollow,
       OthersReportFollow
  <2> QED BY <1>1, <2>1, <2>2, <2>3, <2>4, OthersFollow
<1>4. CASE Unrelated
  <2>1. place' = place /\ blamed' = blamed /\ crashed' = crashed
    BY <1>4 DEF Unrelated, processVars
  <2>2. ASSUME NEW e \in Entities \ Processes, AnyReport(e) PROVE BlameInv'
    BY <1>1, <1>2, <2>1, <2>2, OthersFollow
  <2>3. CASE EvaluateAll
    <3>1. ASSUME NEW f \in Processes PROVE Follows(f)'
      <4>1. f \in Entities /\ Follows(f) /\ next' = next
        BY <1>2, <2>3, SequenceLength DEF EvaluateAll, timeVars
      <4>2. report'[f] = IF Registered(f) THEN Judged(f) ELSE None
        BY <2>3, <4>1, EvaluateAllKeeps
      <4>3. Judged(f).status # "LogicalSequenceError" /\ Judged(f) # None
        <5>1. silence[f] \in Nat
          BY <4>1, PolicyParameters DEF HealthInv, TimesOK
        <5> QED BY <4>1, <5>1, JudgedReport, PolicyAssumption DEF Plain
      <4>4. /\ Registered(f)' <=> Registered(f)
            /\ report'[f] = report[f] \/ report'[f].status # "LogicalSequenceError"
        BY <4>2, <4>3 DEF Registered
      <4> QED BY <2>1, <4>1, <4>4, FollowsStill
    <3> QED BY <1>1, <1>2, <2>1, <3>1 DEF BlameInv
  <2>4. CASE Lapse
    <3>1. report' = report /\ next' = next
      BY <2>4 DEF Lapse
    <3>2. \A f \in Processes : Follows(f)'
      BY <1>2, <2>1, <3>1, FollowsStill DEF Registered
    <3> QED BY <1>1, <1>2, <2>1, <3>2 DEF BlameInv
  <2> QED BY <1>4, <2>2, <2>3, <2>4 DEF Unrelated
<1>5. CASE UNCHANGED supervisedVars
  <2>1. /\ place' = place /\ blamed' = blamed /\ crashed' = crashed
        /\ report' = report /\ next' = next
    BY <1>5 DEF supervisedVars, processVars, vars
  <2>2. \A f \in Processes : Follows(f)'
    BY <1>2, <2>1, FollowsStill DEF Registered
  <2> QED BY <1>1, <1>2, <2>1, <2>2 DEF BlameInv
<1> QED BY <1>3, <1>4, <1>5 DEF ProcessNext

(* A process that never terminated is not accused of a wrong order, and one  *)
(* that starts again is accused less often than its sequence is long.        *)
THEOREM BlameCorrect == SupervisedSpec => []BlameIsDeserved
<1>1. BlameInv => BlameIsDeserved
  <2> SUFFICES ASSUME BlameInv, NEW e \in Processes
               PROVE  /\ Registered(e) /\ ~crashed[e] =>
                           report[e].status # "LogicalSequenceError"
                      /\ blamed[e] < Len(Policy[e].sequence)
    BY DEF BlameIsDeserved
  <2>1. Follows(e) /\ blamed[e] \in Nat /\ Len(Policy[e].sequence) \in Nat
    BY SequenceLength DEF BlameInv
  <2>2. blamed[e] <= Len(Policy[e].sequence) - 1
    BY <2>1 DEF Follows
  <2> QED BY <2>1, <2>2 DEF Follows
<1>2. SupervisedSpec => []HealthInv
  BY ProcessesReport, HealthInvHolds, PTL
<1> QED BY <1>1, <1>2, InitBlameInv, NextBlameInv, PTL DEF SupervisedSpec
=============================================================================
