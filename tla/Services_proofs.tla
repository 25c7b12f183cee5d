--------------------------- MODULE Services_proofs ---------------------------
(***************************************************************************)
(* Theorems about the services of one machine, for every policy, budget,    *)
(* threshold and timeout.  The execution manager: the launcher runs exactly *)
(* what the manager believes runs, and no process outlives its restart      *)
(* budget.  The state manager: however long a transition's list of actions, *)
(* and wherever it is cut off, groups move with the machine along their     *)
(* policy, what is reported of a move is so, and a group alone on the       *)
(* machine has quiet windows.  The update manager: its slots are what it    *)
(* reports, and they implement the A/B update.  The time manager: a clock   *)
(* domain that rejects jumps drifts by no more than a threshold for each    *)
(* sample.  The network manager: what it allows, its firewall plan lets     *)
(* through.  The diagnostic manager: protected services need a key earned   *)
(* in the session.                                                          *)
(***************************************************************************)
EXTENDS MC_StateManagement, UpdateManager, TimeSync, NetworkPolicies, Diagnostics,
        FiniteSetTheorems, WellFoundedInduction, TLAPS

-----------------------------------------------------------------------------
(* The execution manager.                                                    *)

(* What every operation keeps of one process record.                         *)
Sound(r, p) ==
  /\ r \in Process
  /\ r.state = "Running" <=> r.active
  /\ r.instances = IF r.active THEN 1 ELSE 0
  /\ r.active => r.launched
  /\ r.restarts <= MaxRestarts[p] + 1
  /\ r.instances <= r.restarts

SoundInv ==
  /\ procs \in [Processes -> Process]
  /\ functionGroup \in FunctionGroupStates
  /\ \A p \in Processes : Sound(procs[p], p)

LEMMA DeclaredSound ==
  ASSUME NEW p \in Processes, NEW r \in Process, Sound(r, p)
  PROVE  Sound(Declared(r), p)
  BY DEF Sound, Declared, Process

LEMMA LaunchedFields ==
  ASSUME NEW r \in Process
  PROVE  /\ Launched(r) \in Process
         /\ Launched(r).active = TRUE
         /\ Launched(r).instances = r.instances + 1
         /\ Launched(r).restarts = r.restarts
<1>1. r.instances + 1 \in Nat
  BY DEF Process
<1>2. Launched(r) \in Process
  BY <1>1 DEF Launched, Process
<1>3. Launched(r).active = TRUE
  BY DEF Launched, Process
<1>4. Launched(r).instances = r.instances + 1 /\ Launched(r).restarts = r.restarts
  BY DEF Launched, Process
<1> QED BY <1>2, <1>3, <1>4

LEMMA StartedSound ==
  ASSUME NEW p \in Processes, NEW r \in Process, Sound(r, p)
  PROVE  Sound(Started(r, p), p)
<1>1. MaxRestarts[p] \in Nat
  BY RestartsAssumption
<1>2. CASE r.state \in {"Unregistered", "Running"}
  BY <1>2 DEF Started
<1>3. CASE r.state \notin {"Unregistered", "Running"} /\ Exhausted(r, p)
  BY <1>3 DEF Started, Sound, Process
<1>4. CASE r.state \notin {"Unregistered", "Running"} /\ ~Exhausted(r, p)
  <2>1. ~r.active /\ r.instances = 0 /\ r.restarts \in Nat /\ r.restarts <= MaxRestarts[p]
    BY <1>1, <1>4 DEF Sound, Exhausted, Process
  <2> DEFINE counted == [r EXCEPT !.restarts = @ + 1]
  <2>2. /\ counted \in Process
        /\ counted.restarts = r.restarts + 1 /\ counted.instances = 0
        /\ counted.active = FALSE
    BY <2>1 DEF Process
  <2>3. Started(r, p) =
          IF p \in Launchable
          THEN [Launched(counted) EXCEPT !.state = "Running", !.launched = TRUE]
          ELSE [counted EXCEPT !.state = "Failed"]
    BY <1>4 DEF Started
  <2> HIDE DEF counted
  <2>4. CASE p \in Launchable
    <3> DEFINE l == Launched(counted)
    <3>1. /\ l \in Process /\ l.active = TRUE /\ l.instances = 1
          /\ l.restarts = r.restarts + 1
      <4>1. /\ Launched(counted) \in Process /\ Launched(counted).active = TRUE
            /\ Launched(counted).instances = counted.instances + 1
            /\ Launched(counted).restarts = counted.restarts
        BY <2>2, LaunchedFields
      <4> QED BY <2>2, <4>1
    <3> HIDE DEF l
    <3>2. Started(r, p) = [l EXCEPT !.state = "Running", !.launched = TRUE]
      BY <2>3, <2>4 DEF l
    <3>3. /\ Started(r, p) \in Process
          /\ Started(r, p).state = "Running" /\ Started(r, p).launched = TRUE
          /\ Started(r, p).active = TRUE /\ Started(r, p).instances = 1
          /\ Started(r, p).restarts = r.restarts + 1
      <4>1. Started(r, p) \in Process
        BY <3>1, <3>2 DEF Process
      <4>2. Started(r, p).state = "Running" /\ Started(r, p).launched = TRUE
        BY <3>1, <3>2 DEF Process
      <4>3. Started(r, p).active = TRUE /\ Started(r, p).instances = 1
            /\ Started(r, p).restarts = r.restarts + 1
        BY <3>1, <3>2 DEF Process
      <4> QED BY <4>1, <4>2, <4>3
    <3> QED BY <1>1, <2>1, <3>3 DEF Sound
  <2>5. CASE p \notin Launchable
    <3>1. /\ Started(r, p) \in Process /\ Started(r, p).state = "Failed"
          /\ Started(r, p).active = FALSE /\ Started(r, p).instances = 0
          /\ Started(r, p).restarts = r.restarts + 1
      BY <2>2, <2>3, <2>5 DEF Process
    <3> QED BY <1>1, <2>1, <3>1 DEF Sound
  <2> QED BY <2>4, <2>5
<1> QED BY <1>2, <1>3, <1>4

LEMMA StoppedSound ==
  ASSUME NEW p \in Processes, NEW r \in Process, Sound(r, p)
  PROVE  Sound(Stopped(r), p)
<1>1. MaxRestarts[p] \in Nat
  BY RestartsAssumption
<1>2. CASE r.state = "Unregistered"
  BY <1>2 DEF Stopped
<1>3. CASE r.state \in {"Declared", "Stopped"}
  BY <1>3 DEF Stopped, Sound, Process
<1>4. CASE r.state \in {"Running", "Failed"} /\ r.launched /\ ~r.active
  BY <1>4 DEF Stopped, Sound, Process
<1>5. CASE r.state \in {"Running", "Failed"} /\ r.launched /\ r.active
  <2>1. Stopped(r) = [r EXCEPT !.state = "Stopped", !.active = FALSE, !.instances = @ - 1]
    BY <1>5 DEF Stopped
  <2>2. r.instances = 1
    BY <1>5 DEF Sound
  <2>3. /\ Stopped(r) \in Process
        /\ Stopped(r).state = "Stopped" /\ Stopped(r).active = FALSE
        /\ Stopped(r).instances = 0 /\ Stopped(r).restarts = r.restarts
    <3>1. r.instances - 1 = 0
      BY <2>2
    <3>2. Stopped(r) = [r EXCEPT !.state = "Stopped", !.active = FALSE, !.instances = 0]
      BY <2>1, <3>1
    <3>3. Stopped(r) \in Process
      <4> DEFINE half == [r EXCEPT !.state = "Stopped", !.active = FALSE]
      <4>1. half \in Process
        BY DEF Process
      <4>2. Stopped(r) = [half EXCEPT !.instances = 0]
        BY <3>2
      <4> HIDE DEF half
      <4> QED BY <4>1, <4>2 DEF Process
    <3>4. Stopped(r).state = "Stopped" /\ Stopped(r).active = FALSE
      BY <3>2 DEF Process
    <3>5. Stopped(r).instances = 0 /\ Stopped(r).restarts = r.restarts
      BY <3>2 DEF Process
    <3> QED BY <3>3, <3>4, <3>5
  <2>4. r.restarts \in Nat /\ r.restarts <= MaxRestarts[p] + 1
    BY DEF Sound, Process
  <2> QED BY <2>3, <2>4 DEF Sound
<1>6. CASE r.state \in {"Running", "Failed"} /\ ~r.launched
  BY <1>6 DEF Stopped, Sound, Process
<1> QED BY <1>2, <1>3, <1>4, <1>5, <1>6 DEF Process

LEMMA NextSound == SoundInv /\ [EMNext]_emVars => SoundInv'
<1> SUFFICES ASSUME SoundInv, [EMNext]_emVars PROVE SoundInv'
  OBVIOUS
<1>1. ASSUME NEW p \in Processes, NEW s, Sound(s, p), procs' = [procs EXCEPT ![p] = s],
             UNCHANGED functionGroup
      PROVE  SoundInv'
  <2>1. s \in Process
    BY <1>1 DEF Sound
  <2>2. \A q \in Processes : procs'[q] = IF q = p THEN s ELSE procs[q]
    BY <1>1 DEF SoundInv
  <2>3. procs' \in [Processes -> Process]
    BY <1>1, <2>1 DEF SoundInv
  <2>4. \A q \in Processes : Sound(procs'[q], q)
    BY <1>1, <2>2 DEF SoundInv
  <2> QED BY <1>1, <2>3, <2>4 DEF SoundInv
<1>2. ASSUME NEW p \in Processes PROVE procs[p] \in Process /\ Sound(procs[p], p)
  BY DEF SoundInv
<1>3. ASSUME NEW p \in Processes, RegisterProcess(p) PROVE SoundInv'
  BY <1>1, <1>2, <1>3, DeclaredSound DEF RegisterProcess
<1>4. ASSUME NEW p \in Processes, StartProcess(p) PROVE SoundInv'
  BY <1>1, <1>2, <1>4, StartedSound DEF StartProcess
<1>5. ASSUME NEW p \in Processes, StopProcess(p) PROVE SoundInv'
  BY <1>1, <1>2, <1>5, StoppedSound DEF StopProcess
<1>6. ASSUME NEW next \in FunctionGroupStates, TransitionFunctionGroup(next)
      PROVE  SoundInv'
  BY <1>6 DEF TransitionFunctionGroup, SoundInv
<1>7. CASE UNCHANGED emVars
  BY <1>7 DEF emVars, SoundInv
<1> QED BY <1>3, <1>4, <1>5, <1>6, <1>7 DEF EMNext

LEMMA InitSound == EMInit => SoundInv
  BY RestartsAssumption
  DEF EMInit, SoundInv, Sound, Unregistered, Process, FunctionGroupStates

LEMMA SoundInvariant == EMSpec => []SoundInv
  BY InitSound, NextSound, PTL DEF EMSpec

(* Every reachable state of the Execution Manager is well typed.             *)
THEOREM EMTypeCorrect == EMSpec => []EMTypeOK
<1>1. SoundInv => EMTypeOK
  BY DEF SoundInv, EMTypeOK
<1> QED BY SoundInvariant, <1>1, PTL

(* A process is Running exactly while the launcher runs one instance of it.  *)
THEOREM LauncherCorrect == EMSpec => []LauncherAgrees
<1>1. SoundInv => LauncherAgrees
  BY DEF SoundInv, Sound, LauncherAgrees
<1> QED BY SoundInvariant, <1>1, PTL

(* No process is launched more often than its budget and the first start.    *)
THEOREM BudgetCorrect == EMSpec => []BudgetRespected
<1>1. SoundInv => BudgetRespected
  BY DEF SoundInv, Sound, BudgetRespected
<1> QED BY SoundInvariant, <1>1, PTL

(* A process whose budget is spent is never started again once it is down.   *)
THEOREM BudgetFinal == EMSpec => BudgetIsFinal
<1> DEFINE Down(p) == procs[p].restarts > MaxRestarts[p] /\ ~procs[p].active
<1>1. ASSUME SoundInv, [EMNext]_emVars, NEW p \in Processes, Down(p)
      PROVE  ~procs'[p].active
  <2>1. procs[p] \in Process /\ procs[p].state # "Running" /\ Exhausted(procs[p], p)
    BY <1>1 DEF SoundInv, Sound, Exhausted
  <2>2. /\ ~Declared(procs[p]).active
        /\ ~Started(procs[p], p).active
        /\ ~Stopped(procs[p]).active
    BY <1>1, <2>1 DEF Declared, Started, Stopped, Process
  <2>3. \/ procs'[p] = procs[p]
        \/ procs'[p] \in {Declared(procs[p]), Started(procs[p], p), Stopped(procs[p])}
    BY <1>1 DEF SoundInv, EMNext, RegisterProcess, StartProcess, StopProcess,
                TransitionFunctionGroup, emVars
  <2> QED BY <1>1, <2>2, <2>3
<1>2. SoundInv /\ [EMNext]_emVars =>
        [\A p \in Processes :
           procs[p].restarts > MaxRestarts[p] /\ ~procs[p].active
             => ~procs'[p].active]_emVars
  BY <1>1
<1> QED BY SoundInvariant, <1>2, PTL DEF EMSpec, BudgetIsFinal

-----------------------------------------------------------------------------
(* Induction over the natural numbers.                                       *)

(* Every set of natural numbers has a least one.                             *)
LEMMA LeastNumber ==
  ASSUME NEW T \in SUBSET Nat, T # {}
  PROVE  \E n \in T : \A m \in T : n <= m
<1> DEFINE R == OpToRel(<, Nat)
<1>1. IsWellFoundedOn(R, Nat)
  BY NatLessThanWellFounded
<1>2. \A m, n \in Nat : m < n => <<m, n>> \in R
  BY DEF OpToRel
<1> HIDE DEF R
<1>3. \E x \in T : \A y \in T : ~ (<<y, x>> \in R)
  BY <1>1, WFMin
<1>4. PICK x \in T : \A y \in T : ~ (<<y, x>> \in R)
  BY <1>3
<1>5. \A y \in T : ~ (y < x)
  BY <1>2, <1>4
<1> QED BY <1>5

LEMMA MinOfNumbers ==
  ASSUME NEW T \in SUBSET Nat, T # {}
  PROVE  Min(T) \in T /\ \A m \in T : Min(T) <= m
<1>1. \E n \in T : \A m \in T : n <= m
  BY LeastNumber
<1> QED BY <1>1 DEF Min

(* A set that 0 starts and that goes on from each number holds them all.     *)
LEMMA NumbersAreReached ==
  ASSUME NEW S \in SUBSET Nat, 0 \in S, \A n \in S : n + 1 \in S
  PROVE  S = Nat
<1> DEFINE T == Nat \ S
<1>1. ASSUME T # {} PROVE FALSE
  <2>1. PICK n \in T : \A m \in T : n <= m
    BY <1>1, LeastNumber
  <2>2. n # 0 /\ n - 1 \in Nat /\ n - 1 \notin T
    BY <2>1
  <2>3. (n - 1) + 1 \in S
    BY <2>2
  <2> QED BY <2>1, <2>3
<1> QED BY <1>1

-----------------------------------------------------------------------------
(* The state manager: what a list of actions does.                           *)

Step(before, a) == [before EXCEPT ![a.process] = Acted(@, a)]

(* After is the function its recursion describes.                            *)
LEMMA AfterActions ==
  ASSUME NEW actions \in Seq(Action)
  PROVE  /\ After(actions)[0] = procs
         /\ \A i \in 1 .. Len(actions) :
              After(actions)[i] = Step(After(actions)[i - 1], actions[i])
<1> DEFINE Rec(f, n) ==
      f = [i \in 0 .. n |-> IF i = 0 THEN procs ELSE Step(f[i - 1], actions[i])]
    N == {n \in Nat : \E f : Rec(f, n)}
<1>1. 0 \in N
  <2>1. Rec([i \in 0 .. 0 |-> procs], 0)
    OBVIOUS
  <2> QED BY <2>1
<1>2. ASSUME NEW n \in N PROVE n + 1 \in N
  <2>1. PICK f : Rec(f, n)
    OBVIOUS
  <2> DEFINE g == [i \in 0 .. n + 1 |-> IF i = n + 1 THEN Step(f[n], actions[i]) ELSE f[i]]
  <2>2. n \in Nat
    OBVIOUS
  <2>3. \A i \in 0 .. n : g[i] = f[i]
    BY <2>2
  <2>4. \A i \in 0 .. n : f[i] = IF i = 0 THEN procs ELSE Step(f[i - 1], actions[i])
    BY <2>1
  <2>5. \A i \in 0 .. n + 1 :
          g[i] = IF i = 0 THEN procs ELSE Step(g[i - 1], actions[i])
    <3> SUFFICES ASSUME NEW i \in 0 .. n + 1
                 PROVE  g[i] = IF i = 0 THEN procs ELSE Step(g[i - 1], actions[i])
      OBVIOUS
    <3>1. CASE i = n + 1
      <4>1. g[i] = Step(f[n], actions[i]) /\ i # 0 /\ i - 1 = n /\ n \in 0 .. n
        BY <2>2, <3>1
      <4>2. g[i - 1] = f[n]
        BY <2>3, <4>1
      <4> QED BY <4>1, <4>2
    <3>2. CASE i = 0
      BY <2>2, <2>3, <2>4, <3>2
    <3>3. CASE i \in 1 .. n
      <4>1. i - 1 \in 0 .. n /\ i \in 0 .. n /\ i # 0
        BY <2>2, <3>3
      <4> QED BY <2>3, <2>4, <4>1
    <3> QED BY <2>2, <3>1, <3>2, <3>3
  <2>6. g = [i \in 0 .. n + 1 |-> g[i]]
    OBVIOUS
  <2> HIDE DEF g
  <2>7. Rec(g, n + 1)
    BY <2>5, <2>6
  <2> QED BY <2>2, <2>7
<1> HIDE DEF N
<1>3. N = Nat
  <2>1. N \in SUBSET Nat
    BY DEF N
  <2> QED BY <1>1, <1>2, <2>1, NumbersAreReached
<1>4. Len(actions) \in N
  BY <1>3
<1>5. \E f : Rec(f, Len(actions))
  BY <1>4 DEF N
<1>6. After(actions) = CHOOSE f : Rec(f, Len(actions))
  BY DEF After, Step
<1> HIDE DEF Rec
<1>7. Rec(After(actions), Len(actions))
  BY <1>5, <1>6
<1>8. After(actions) =
        [i \in 0 .. Len(actions) |->
           IF i = 0 THEN procs ELSE Step(After(actions)[i - 1], actions[i])]
  BY <1>7 DEF Rec
<1>9. 0 \in 0 .. Len(actions) /\ \A i \in 1 .. Len(actions) : i \in 0 .. Len(actions) /\ i # 0
  OBVIOUS
<1> QED BY <1>8, <1>9

(* What an action comes to: a process that is right to run or be stopped, or *)
(* one that failed or is not there.                                          *)
LEMMA ActedOutcome ==
  ASSUME NEW a \in Action, NEW r \in Process, Sound(r, a.process)
  PROVE  /\ Acted(r, a) \in Process /\ Sound(Acted(r, a), a.process)
         /\ Succeeded(Acted(r, a), a) => Acted(r, a).active = (a.kind # "Stop")
         /\ ~Succeeded(Acted(r, a), a) => Acted(r, a).state \in {"Failed", "Unregistered"}
<1> DEFINE p == a.process
<1>1. p \in Processes /\ a.kind \in {"Start", "Stop", "Restart"}
  BY DEF Action
<1>2. ASSUME NEW s \in Process, Sound(s, p)
      PROVE  /\ Started(s, p) \in Process /\ Sound(Started(s, p), p)
             /\ Started(s, p).state \in {"Running", "Failed", "Unregistered"}
  <2>1. Sound(Started(s, p), p)
    BY <1>1, <1>2, StartedSound
  <2>2. Started(s, p) \in Process
    BY <2>1 DEF Sound
  <2>3. Started(s, p).state \in {"Running", "Failed", "Unregistered"}
    <3>1. CASE s.state \in {"Unregistered", "Running"}
      BY <3>1 DEF Started
    <3>2. CASE s.state \notin {"Unregistered", "Running"} /\ Exhausted(s, p)
      BY <3>2 DEF Started, Process
    <3>3. CASE s.state \notin {"Unregistered", "Running"} /\ ~Exhausted(s, p)
      <4> DEFINE counted == [s EXCEPT !.restarts = @ + 1]
      <4>1. counted \in Process
        BY DEF Process
      <4>2. Started(s, p) =
              IF p \in Launchable
              THEN [Launched(counted) EXCEPT !.state = "Running", !.launched = TRUE]
              ELSE [counted EXCEPT !.state = "Failed"]
        BY <3>3 DEF Started
      <4> HIDE DEF counted
      <4>3. Launched(counted) \in Process
        BY <4>1, LaunchedFields
      <4> HIDE DEF Launched
      <4>4. CASE p \in Launchable
        BY <4>2, <4>3, <4>4 DEF Process
      <4>5. CASE p \notin Launchable
        BY <4>1, <4>2, <4>5 DEF Process
      <4> QED BY <4>4, <4>5
    <3> QED BY <3>1, <3>2, <3>3
  <2> QED BY <2>1, <2>2, <2>3
<1>3. /\ Stopped(r) \in Process /\ Sound(Stopped(r), p)
      /\ Stopped(r).state \in {"Stopped", "Failed", "Unregistered"}
  <2>1. Sound(Stopped(r), p)
    BY <1>1, StoppedSound
  <2>2. Stopped(r).state \in {"Stopped", "Failed", "Unregistered"}
    BY DEF Stopped, Process
  <2> QED BY <2>1, <2>2 DEF Sound
<1>4. ASSUME NEW s \in Process, Sound(s, p), Acted(r, a) = s, a.kind # "Stop",
             s.state \in {"Running", "Failed", "Unregistered", "Stopped"},
             s.state = "Stopped" => FALSE
      PROVE  /\ Acted(r, a) \in Process /\ Sound(Acted(r, a), p)
             /\ Succeeded(Acted(r, a), a) => Acted(r, a).active = (a.kind # "Stop")
             /\ ~Succeeded(Acted(r, a), a) => Acted(r, a).state \in {"Failed", "Unregistered"}
  BY <1>4 DEF Succeeded, Sound, Process
<1>5. CASE a.kind = "Start"
  <2>1. Acted(r, a) = Started(r, p)
    BY <1>5 DEF Acted
  <2> QED BY <1>2, <1>4, <1>5, <2>1
<1>6. CASE a.kind = "Stop"
  <2>1. Acted(r, a) = Stopped(r)
    BY <1>6 DEF Acted
  <2> QED BY <1>3, <1>6, <2>1 DEF Succeeded, Sound, Process
<1>7. CASE a.kind = "Restart" /\ Stopped(r).state = "Stopped"
  <2>1. Acted(r, a) = Started(Stopped(r), p)
    BY <1>7 DEF Acted
  <2> QED BY <1>2, <1>3, <1>4, <1>7, <2>1
<1>8. CASE a.kind = "Restart" /\ Stopped(r).state # "Stopped"
  <2>1. Acted(r, a) = Stopped(r)
    BY <1>8 DEF Acted
  <2> QED BY <1>3, <1>4, <1>8, <2>1
<1> QED BY <1>1, <1>5, <1>6, <1>7, <1>8

(* The processes stay sound from action to action.                           *)
SoundAll(f) == f \in [Processes -> Process] /\ \A p \in Processes : Sound(f[p], p)

LEMMA StepSound ==
  ASSUME NEW f, SoundAll(f), NEW a \in Action
  PROVE  /\ SoundAll(Step(f, a))
         /\ Step(f, a)[a.process] = Acted(f[a.process], a)
         /\ \A p \in Processes \ {a.process} : Step(f, a)[p] = f[p]
<1> DEFINE s == Acted(f[a.process], a)
<1>1. a.process \in Processes
  BY DEF Action
<1>2. s \in Process /\ Sound(s, a.process)
  BY <1>1, ActedOutcome DEF SoundAll
<1>3. Step(f, a) = [f EXCEPT ![a.process] = s]
  BY DEF Step
<1> HIDE DEF s
<1>4. /\ Step(f, a) \in [Processes -> Process]
      /\ \A p \in Processes : Step(f, a)[p] = IF p = a.process THEN s ELSE f[p]
  BY <1>1, <1>2, <1>3 DEF SoundAll
<1>5. SoundAll(Step(f, a))
  BY <1>2, <1>4 DEF SoundAll
<1> QED BY <1>1, <1>4, <1>5 DEF s

LEMMA AfterSound ==
  ASSUME SoundInv, NEW actions \in Seq(Action)
  PROVE  \A i \in 0 .. Len(actions) : SoundAll(After(actions)[i])
<1> DEFINE N == {n \in Nat : n <= Len(actions) => SoundAll(After(actions)[n])}
<1>1. 0 \in N
  BY AfterActions DEF SoundInv, SoundAll
<1>2. ASSUME NEW n \in N PROVE n + 1 \in N
  <2> SUFFICES ASSUME n + 1 <= Len(actions) PROVE SoundAll(After(actions)[n + 1])
    OBVIOUS
  <2>1. n \in Nat /\ SoundAll(After(actions)[n]) /\ n + 1 \in 1 .. Len(actions)
        /\ (n + 1) - 1 = n
    OBVIOUS
  <2>2. After(actions)[n + 1] = Step(After(actions)[n], actions[n + 1])
    BY <2>1, AfterActions
  <2>3. actions[n + 1] \in Action
    BY <2>1
  <2> QED BY <2>1, <2>2, <2>3, StepSound
<1> HIDE DEF N
<1>3. N = Nat
  <2>1. N \in SUBSET Nat
    BY DEF N
  <2> QED BY <1>1, <1>2, <2>1, NumbersAreReached
<1> QED BY <1>3 DEF N

(* A process keeps its record until the next action on it.                   *)
LEMMA Untouched ==
  ASSUME SoundInv, NEW actions \in Seq(Action), NEW p \in Processes,
         NEW i \in 0 .. Len(actions), NEW k \in i .. Len(actions),
         \A j \in i + 1 .. k : actions[j].process # p
  PROVE  After(actions)[k][p] = After(actions)[i][p]
<1> DEFINE N == {n \in Nat : i + n <= k => After(actions)[i + n][p] = After(actions)[i][p]}
<1>1. 0 \in N
  OBVIOUS
<1>2. ASSUME NEW n \in N PROVE n + 1 \in N
  <2> SUFFICES ASSUME i + (n + 1) <= k
               PROVE  After(actions)[i + (n + 1)][p] = After(actions)[i][p]
    OBVIOUS
  <2> DEFINE m == i + n
  <2>1. n \in Nat /\ m \in 0 .. Len(actions) /\ i + (n + 1) = m + 1
        /\ m + 1 \in 1 .. Len(actions) /\ m + 1 \in i + 1 .. k /\ (m + 1) - 1 = m
    OBVIOUS
  <2>2. After(actions)[m][p] = After(actions)[i][p]
    BY <2>1
  <2> HIDE DEF m
  <2>3. SoundAll(After(actions)[m])
    BY <2>1, AfterSound
  <2>4. After(actions)[m + 1] = Step(After(actions)[m], actions[m + 1])
    BY <2>1, AfterActions
  <2>5. actions[m + 1] \in Action /\ actions[m + 1].process # p
    BY <2>1
  <2>6. After(actions)[m + 1][p] = After(actions)[m][p]
    <3>1. \A q \in Processes \ {actions[m + 1].process} :
            Step(After(actions)[m], actions[m + 1])[q] = After(actions)[m][q]
      BY <2>3, <2>5, StepSound
    <3>2. p \in Processes \ {actions[m + 1].process}
      BY <2>5
    <3> QED BY <2>4, <3>1, <3>2
  <2> QED BY <2>1, <2>2, <2>6
<1> HIDE DEF N
<1>3. N = Nat
  <2>1. N \in SUBSET Nat
    BY DEF N
  <2> QED BY <1>1, <1>2, <2>1, NumbersAreReached
<1>4. k - i \in Nat /\ i + (k - i) = k
  OBVIOUS
<1>5. k - i \in N
  BY <1>3, <1>4
<1> QED BY <1>4, <1>5 DEF N

-----------------------------------------------------------------------------
(* The state manager: what a request comes to.                               *)

SMInv == SoundInv /\ SMTypeOK

(* The transition that is taken is one of the group's, from where it is.     *)
LEMMA TransitionFound ==
  ASSUME SMInv, NEW g \in Groups, NEW want, Leading(g, want) # {}
  PROVE  /\ Min(Leading(g, want)) \in 1 .. Len(Policy[g].transitions)
         /\ FindTransition(g, want) \in Transition
         /\ FindTransition(g, want).from = groupState[g]
         /\ FindTransition(g, want).to = want
<1>1. Policy[g].transitions \in Seq(Transition)
  BY GroupsAssumption
<1>2. Leading(g, want) \in SUBSET Nat /\ Leading(g, want) \subseteq 1 .. Len(Policy[g].transitions)
  BY <1>1 DEF Leading
<1>3. Min(Leading(g, want)) \in Leading(g, want)
  BY <1>2, MinOfNumbers
<1>4. /\ Policy[g].transitions[Min(Leading(g, want))].from = groupState[g]
      /\ Policy[g].transitions[Min(Leading(g, want))].to = want
  BY <1>3 DEF Leading
<1> QED BY <1>1, <1>2, <1>3, <1>4 DEF FindTransition

(* A transition ends after all its actions or at the first that stops it.    *)
Moved(g, t) ==
  /\ \A i \in 1 .. Len(t.actions) : ~StopsAt(After(t.actions)[i], t.actions[i])
  /\ procs' = After(t.actions)[Len(t.actions)]
  /\ IsAllowedTransition(functionGroup, t.to)
  /\ functionGroup' = t.to
  /\ groupState' = [groupState EXCEPT ![g] = t.to]
  /\ last' = TransitionRecord(g, t.to, TRUE, TRUE)

HeldBack(g, t) ==
  /\ \/ /\ ~IsAllowedTransition(functionGroup, t.to)
        /\ procs' = After(t.actions)[Len(t.actions)]
     \/ \E i \in 1 .. Len(t.actions) :
          StopsAt(After(t.actions)[i], t.actions[i]) /\ procs' = After(t.actions)[i]
  /\ EnterFailureState(g, t)
  /\ last' = TransitionRecord(g, t.to, TRUE, FALSE)

LEMMA TransitOutcome ==
  ASSUME NEW g, NEW t \in Transition, Transit(g, t)
  PROVE  Moved(g, t) \/ HeldBack(g, t)
<1> DEFINE actions == t.actions
           after == After(actions)
           stops == {i \in 1 .. Len(actions) : StopsAt(after[i], actions[i])}
           reached == IF stops = {} THEN Len(actions) ELSE Min(stops)
           moves == stops = {} /\ IsAllowedTransition(functionGroup, t.to)
<1>1. actions \in Seq(Action)
  BY DEF Transition
<1>2. /\ procs' = after[reached]
      /\ IF moves
         THEN functionGroup' = t.to /\ groupState' = [groupState EXCEPT ![g] = t.to]
         ELSE EnterFailureState(g, t)
      /\ last' = TransitionRecord(g, t.to, TRUE, moves)
  BY DEF Transit
<1> HIDE DEF after
<1>3. CASE moves
  <2>1. stops = {} /\ moves = TRUE
    BY <1>3
  <2> QED BY <1>2, <1>3, <2>1 DEF Moved, after
<1>4. CASE ~moves /\ stops # {}
  <2>1. stops \in SUBSET Nat
    OBVIOUS
  <2>2. Min(stops) \in stops
    BY <1>4, <2>1, MinOfNumbers
  <2>3. Min(stops) \in 1 .. Len(actions) /\ StopsAt(after[Min(stops)], actions[Min(stops)])
    BY <2>2
  <2>4. moves = FALSE
    BY <1>4
  <2> QED BY <1>2, <1>4, <2>3, <2>4 DEF HeldBack, after
<1>5. CASE ~moves /\ stops = {}
  <2>1. moves = FALSE
    BY <1>5
  <2> QED BY <1>2, <1>5, <2>1 DEF HeldBack, after
<1> QED BY <1>3, <1>4, <1>5

(* What a request may come to.                                               *)
Refused(g, want) ==
  /\ UNCHANGED <<procs, functionGroup, groupState>>
  /\ \/ UNCHANGED last
     \/ g \in registered /\ \E done \in BOOLEAN : last' = TransitionRecord(g, want, done, done)

Taken(g, want) ==
  /\ g \in registered /\ groupState[g] # want
  /\ Leading(g, want) # {}
  /\ Moved(g, FindTransition(g, want)) \/ HeldBack(g, FindTransition(g, want))

LEMMA RequestOutcome ==
  ASSUME SMInv, NEW g \in Groups, NEW want, ApplyRequest(g, want)
  PROVE  Refused(g, want) \/ Taken(g, want)
<1>1. CASE g \notin registered /\ UNCHANGED <<procs, functionGroup, groupState, last>>
  BY <1>1 DEF Refused
<1>2. CASE /\ g \in registered
           /\ UNCHANGED <<procs, functionGroup, groupState>>
           /\ last' = TransitionRecord(g, want, groupState[g] = want, groupState[g] = want)
  <2>1. (groupState[g] = want) \in BOOLEAN
    OBVIOUS
  <2> QED BY <1>2, <2>1 DEF Refused
<1>3. CASE /\ g \in registered /\ groupState[g] # want
           /\ Leading(g, want) # {}
           /\ Transit(g, FindTransition(g, want))
  <2>1. FindTransition(g, want) \in Transition
    BY <1>3, TransitionFound
  <2> QED BY <1>3, <2>1, TransitOutcome DEF Taken
<1> QED BY <1>1, <1>2, <1>3 DEF ApplyRequest

-----------------------------------------------------------------------------
(* The state manager: the invariant.                                         *)

(* A group that is taken somewhere goes there together with the machine.     *)
LEMMA TakenMoves ==
  ASSUME SMInv, NEW g \in Groups, NEW want, Taken(g, want)
  PROVE  LET t == FindTransition(g, want) IN
         /\ t \in Transition
         /\ \/ UNCHANGED <<functionGroup, groupState>>
            \/ \E s \in {t.to} \cup (IF t.degrade THEN {t.failure} ELSE {}) :
                 /\ s \in FunctionGroupStates
                 /\ IsAllowedTransition(functionGroup, s)
                 /\ functionGroup' = s
                 /\ groupState' = [groupState EXCEPT ![g] = s]
<1> DEFINE t == FindTransition(g, want)
<1>1. t \in Transition
  BY TransitionFound DEF Taken
<1>2. Moved(g, t) \/ HeldBack(g, t)
  BY DEF Taken
<1> HIDE DEF t
<1>3. t.to \in FunctionGroupStates /\ t.failure \in FunctionGroupStates
  BY <1>1 DEF Transition
<1>4. CASE Moved(g, t)
  BY <1>1, <1>3, <1>4 DEF Moved, t
<1>5. CASE HeldBack(g, t)
  BY <1>1, <1>3, <1>5 DEF HeldBack, EnterFailureState, t
<1> QED BY <1>2, <1>4, <1>5

LEMMA TakenSound ==
  ASSUME SMInv, NEW g \in Groups, NEW want, Taken(g, want)
  PROVE  SoundAll(procs')
<1> DEFINE t == FindTransition(g, want)
<1>1. t \in Transition
  BY TransitionFound DEF Taken
<1>2. Moved(g, t) \/ HeldBack(g, t)
  BY DEF Taken
<1> HIDE DEF t
<1>3. t.actions \in Seq(Action)
  BY <1>1 DEF Transition
<1>4. \E i \in 0 .. Len(t.actions) : procs' = After(t.actions)[i]
  <2>1. Len(t.actions) \in 0 .. Len(t.actions) /\ 1 .. Len(t.actions) \subseteq 0 .. Len(t.actions)
    BY <1>3
  <2> QED BY <1>2, <2>1 DEF Moved, HeldBack
<1>5. SoundInv
  BY DEF SMInv
<1> QED BY <1>3, <1>4, <1>5, AfterSound

LEMMA RequestKeeps ==
  ASSUME SMInv, NEW g \in Groups, NEW want, ApplyRequest(g, want), UNCHANGED registered
  PROVE  /\ SoundInv'
         /\ groupState' \in [Groups -> FunctionGroupStates]
         /\ last' # NoRecord => last'.group \in registered /\ last'.resulting = groupState'[last'.group]
<1>1. CASE Refused(g, want)
  <2>1. SoundInv' /\ groupState' \in [Groups -> FunctionGroupStates]
    BY <1>1 DEF Refused, SMInv, SMTypeOK, SoundInv
  <2> QED BY <1>1, <2>1 DEF Refused, SMInv, SMTypeOK, TransitionRecord
<1>2. CASE Taken(g, want)
  <2>1. SoundAll(procs')
    BY <1>2, TakenSound
  <2>2. functionGroup' \in FunctionGroupStates /\ groupState' \in [Groups -> FunctionGroupStates]
    BY <1>2, TakenMoves DEF SMInv, SMTypeOK, SoundInv
  <2>3. last'.group = g /\ last'.resulting = groupState'[g] /\ g \in registered
    BY <1>2 DEF Taken, Moved, HeldBack, TransitionRecord
  <2> QED BY <2>1, <2>2, <2>3 DEF SoundInv, SoundAll
<1> QED BY <1>1, <1>2, RequestOutcome

LEMMA SMInit1 == SMInit => SMInv
<1> SUFFICES ASSUME SMInit PROVE SMInv
  OBVIOUS
<1>1. SoundInv
  BY InitSound DEF SMInit
<1>2. groupState \in [Groups -> FunctionGroupStates]
  BY GroupsAssumption DEF SMInit
<1>3. pendingRequests \in Seq(Request) /\ Len(pendingRequests) <= MaxPending
  BY RequestAssumption DEF SMInit
<1> QED BY <1>1, <1>2, <1>3 DEF SMInv, SMTypeOK, SMInit, SoundInv, EMTypeOK

(* Without an entry a sequence is as long, but for that one.                 *)
LEMMA RemovedAt ==
  ASSUME NEW S, NEW s \in Seq(S), NEW i \in 1 .. Len(s)
  PROVE  RemoveAt(s, i) \in Seq(S) /\ Len(RemoveAt(s, i)) = Len(s) - 1
<1>1. SubSeq(s, 1, i - 1) \in Seq(S) /\ Len(SubSeq(s, 1, i - 1)) = i - 1
  OBVIOUS
<1>2. SubSeq(s, i + 1, Len(s)) \in Seq(S) /\ Len(SubSeq(s, i + 1, Len(s))) = Len(s) - i
  OBVIOUS
<1>3. ASSUME NEW a \in Seq(S), NEW b \in Seq(S)
      PROVE  a \o b \in Seq(S) /\ Len(a \o b) = Len(a) + Len(b)
  OBVIOUS
<1>4. /\ SubSeq(s, 1, i - 1) \o SubSeq(s, i + 1, Len(s)) \in Seq(S)
      /\ Len(SubSeq(s, 1, i - 1) \o SubSeq(s, i + 1, Len(s))) = (i - 1) + (Len(s) - i)
  BY <1>1, <1>2, <1>3
<1>5. (i - 1) + (Len(s) - i) = Len(s) - 1
  OBVIOUS
<1> QED BY <1>4, <1>5 DEF RemoveAt

LEMMA SMNextInv == SMInv /\ [SMNext]_smVars => SMInv'
<1> SUFFICES ASSUME SMInv, [SMNext]_smVars PROVE SMInv'
  OBVIOUS
<1>1. ASSUME NEW p \in Processes, RegisterProcess(p), UNCHANGED groupVars PROVE SMInv'
  <2>1. SoundInv'
    BY <1>1, NextSound DEF SMInv, EMNext
  <2> QED BY <1>1, <2>1 DEF SMInv, SMTypeOK, groupVars, SoundInv, EMTypeOK
<1>2. ASSUME NEW g \in Groups, RegisterFunctionGroup(g) PROVE SMInv'
  <2>1. groupState' \in [Groups -> FunctionGroupStates]
    BY <1>2, GroupsAssumption DEF RegisterFunctionGroup, SMInv, SMTypeOK
  <2>2. \A h \in registered : groupState'[h] = groupState[h]
    BY <1>2 DEF RegisterFunctionGroup, SMInv, SMTypeOK
  <2>3. SoundInv'
    BY <1>2 DEF RegisterFunctionGroup, SMInv, SoundInv
  <2> QED BY <1>2, <2>1, <2>2, <2>3
      DEF RegisterFunctionGroup, SMInv, SMTypeOK, SoundInv, EMTypeOK
<1>3. ASSUME NEW g \in Groups, NEW want \in Wanted, NEW priority \in Priorities,
             SubmitStateRequest(g, want, priority)
      PROVE  SMInv'
  <2>1. [group |-> g, want |-> want, priority |-> priority] \in Request
    BY DEF Request
  <2>2. pendingRequests' \in Seq(Request) /\ Len(pendingRequests') <= MaxPending
    BY <1>3, <2>1, RequestAssumption DEF SubmitStateRequest, SMInv, SMTypeOK
  <2> QED BY <1>3, <2>2 DEF SubmitStateRequest, SMInv, SMTypeOK, SoundInv, EMTypeOK
<1>4. ASSUME NEW g \in Groups, NEW want, ApplyRequest(g, want), UNCHANGED registered,
             pendingRequests' \in Seq(Request), Len(pendingRequests') <= MaxPending
      PROVE  SMInv'
  BY <1>4, RequestKeeps DEF SMInv, SMTypeOK, SoundInv, EMTypeOK
<1>5. ASSUME NEW g \in Groups, NEW want \in Wanted, RequestFunctionGroupState(g, want)
      PROVE  SMInv'
  BY <1>4, <1>5 DEF RequestFunctionGroupState, SMInv, SMTypeOK
<1>6. ASSUME ApplyNextRequest PROVE SMInv'
  <2>1. PICK i \in 1 .. Len(pendingRequests) :
          /\ pendingRequests' = RemoveAt(pendingRequests, i)
          /\ ApplyRequest(pendingRequests[i].group, pendingRequests[i].want)
          /\ UNCHANGED registered
    BY <1>6 DEF ApplyNextRequest
  <2>2. pendingRequests \in Seq(Request) /\ Len(pendingRequests) <= MaxPending /\ MaxPending \in Nat
    BY RequestAssumption DEF SMInv, SMTypeOK
  <2>3. pendingRequests' \in Seq(Request) /\ Len(pendingRequests') = Len(pendingRequests) - 1
    BY <2>1, <2>2, RemovedAt
  <2>4. Len(pendingRequests') <= MaxPending
    BY <2>2, <2>3
  <2>5. pendingRequests[i] \in Request
    BY <2>2
  <2>6. pendingRequests[i].group \in Groups
    BY <2>5 DEF Request
  <2> QED BY <1>4, <2>1, <2>3, <2>4, <2>6
<1>7. CASE UNCHANGED smVars
  BY <1>7 DEF smVars, groupVars, SMInv, SMTypeOK, SoundInv, EMTypeOK
<1> QED BY <1>1, <1>2, <1>3, <1>5, <1>6, <1>7 DEF SMNext

LEMMA SMInvariant == SMSpec => []SMInv
  BY SMInit1, SMNextInv, PTL DEF SMSpec

-----------------------------------------------------------------------------
(* The state manager: theorems.                                              *)

(* Every reachable state of state manager and execution manager is well      *)
(* typed, and the last record tells where its group is.                      *)
THEOREM StateTypeCorrect == SMSpec => []SMTypeOK
<1>1. SMInv => SMTypeOK
  BY DEF SMInv
<1> QED BY SMInvariant, <1>1, PTL

(* Whatever lists of actions groups apply, and wherever those are cut off,   *)
(* a process is Running exactly while the launcher runs one instance of it.  *)
THEOREM GroupsLauncherCorrect == SMSpec => []LauncherAgrees
<1>1. SMInv => LauncherAgrees
  BY DEF SMInv, SoundInv, Sound, LauncherAgrees
<1> QED BY SMInvariant, <1>1, PTL

(* A spent process stays down through every action.                          *)
Spent(f, p) == f[p].restarts > MaxRestarts[p] /\ ~f[p].active

LEMMA ActedSpent ==
  ASSUME NEW a \in Action, NEW r \in Process, Sound(r, a.process),
         r.restarts > MaxRestarts[a.process], ~r.active
  PROVE  Acted(r, a).restarts > MaxRestarts[a.process] /\ ~Acted(r, a).active
<1> DEFINE p == a.process
<1>1. p \in Processes /\ a.kind \in {"Start", "Stop", "Restart"}
  BY DEF Action
<1>2. ASSUME NEW s \in Process, Sound(s, p), s.restarts > MaxRestarts[p], ~s.active
      PROVE  /\ Started(s, p).restarts > MaxRestarts[p] /\ ~Started(s, p).active
             /\ Stopped(s).restarts > MaxRestarts[p] /\ ~Stopped(s).active
  <2>1. s.state # "Running" /\ Exhausted(s, p)
    BY <1>2 DEF Sound, Exhausted
  <2>2. Started(s, p).restarts > MaxRestarts[p] /\ ~Started(s, p).active
    BY <1>2, <2>1 DEF Started, Process
  <2>3. Stopped(s).restarts > MaxRestarts[p] /\ ~Stopped(s).active
    BY <1>2 DEF Stopped, Process
  <2> QED BY <2>2, <2>3
<1>3. Stopped(r) \in Process /\ Sound(Stopped(r), p)
  BY <1>1, StoppedSound DEF Sound
<1> QED BY <1>1, <1>2, <1>3 DEF Acted

LEMMA AfterSpent ==
  ASSUME SoundInv, NEW actions \in Seq(Action), NEW p \in Processes, Spent(procs, p)
  PROVE  \A i \in 0 .. Len(actions) : Spent(After(actions)[i], p)
<1> DEFINE N == {n \in Nat : n <= Len(actions) => Spent(After(actions)[n], p)}
<1>1. 0 \in N
  BY AfterActions
<1>2. ASSUME NEW n \in N PROVE n + 1 \in N
  <2> SUFFICES ASSUME n + 1 <= Len(actions) PROVE Spent(After(actions)[n + 1], p)
    OBVIOUS
  <2> DEFINE f == After(actions)[n]
             a == actions[n + 1]
  <2>1. n \in Nat /\ n \in 0 .. Len(actions) /\ Spent(f, p) /\ n + 1 \in 1 .. Len(actions)
        /\ (n + 1) - 1 = n /\ a \in Action
    OBVIOUS
  <2>2. After(actions)[n + 1] = Step(f, a)
    BY <2>1, AfterActions
  <2>3. SoundAll(f)
    BY <2>1, AfterSound
  <2> HIDE DEF f, a
  <2>4. /\ Step(f, a)[a.process] = Acted(f[a.process], a)
        /\ \A q \in Processes \ {a.process} : Step(f, a)[q] = f[q]
    BY <2>1, <2>3, StepSound
  <2>5. CASE p = a.process
    <3>1. f[p] \in Process /\ Sound(f[p], p)
      BY <2>3 DEF SoundAll
    <3>2. Acted(f[p], a).restarts > MaxRestarts[p] /\ ~Acted(f[p], a).active
      BY <2>1, <2>5, <3>1, ActedSpent DEF Spent
    <3> QED BY <2>2, <2>4, <2>5, <3>2 DEF Spent
  <2>6. CASE p # a.process
    <3>1. Step(f, a)[p] = f[p]
      BY <2>4, <2>6
    <3> QED BY <2>1, <2>2, <3>1 DEF Spent
  <2> QED BY <2>5, <2>6
<1> HIDE DEF N
<1>3. N = Nat
  <2>1. N \in SUBSET Nat
    BY DEF N
  <2> QED BY <1>1, <1>2, <2>1, NumbersAreReached
<1> QED BY <1>3 DEF N

(* What becomes of the processes in a step of the state manager.             *)
LEMMA ProcessSteps ==
  ASSUME SMInv, [SMNext]_smVars
  PROVE  \/ procs' = procs
         \/ \E p \in Processes : RegisterProcess(p)
         \/ \E g \in Groups, want \in FunctionGroupStates : Taken(g, want) /\ UNCHANGED registered
<1>1. ASSUME NEW g \in Groups, NEW want \in FunctionGroupStates, ApplyRequest(g, want),
             UNCHANGED registered
      PROVE  \/ procs' = procs
             \/ Taken(g, want) /\ UNCHANGED registered
  BY <1>1, RequestOutcome DEF Refused
<1>2. ASSUME ApplyNextRequest
      PROVE  \E g \in Groups, want \in FunctionGroupStates :
               ApplyRequest(g, want) /\ UNCHANGED registered
  <2>1. PICK i \in 1 .. Len(pendingRequests) :
          ApplyRequest(pendingRequests[i].group, pendingRequests[i].want) /\ UNCHANGED registered
    BY <1>2 DEF ApplyNextRequest
  <2>2. pendingRequests[i] \in Request
    BY DEF SMInv, SMTypeOK
  <2>3. pendingRequests[i].group \in Groups /\ pendingRequests[i].want \in FunctionGroupStates
    BY <2>2, RequestAssumption DEF Request
  <2> QED BY <2>1, <2>3
<1>3. ASSUME NEW g \in Groups, NEW want \in Wanted, RequestFunctionGroupState(g, want)
      PROVE  want \in FunctionGroupStates /\ ApplyRequest(g, want) /\ UNCHANGED registered
  BY <1>3, RequestAssumption DEF RequestFunctionGroupState
<1>4. CASE UNCHANGED smVars \/ \E g \in Groups : RegisterFunctionGroup(g)
  BY <1>4 DEF smVars, RegisterFunctionGroup
<1>5. CASE \E g \in Groups, want \in Wanted, priority \in Priorities :
             SubmitStateRequest(g, want, priority)
  BY <1>5 DEF SubmitStateRequest
<1> QED BY <1>1, <1>2, <1>3, <1>4, <1>5 DEF SMNext

(* A process that has spent its budget and is down stays down, whatever      *)
(* actions groups take on it (StateManager::ApplyProcessAction,              *)
(* ExecutionManager::StartProcess).                                          *)
THEOREM GroupsBudgetFinal == SMSpec => BudgetIsFinal
<1>1. ASSUME SMInv, [SMNext]_smVars, NEW p \in Processes, Spent(procs, p)
      PROVE  ~procs'[p].active
  <2>1. ASSUME NEW q \in Processes, RegisterProcess(q) PROVE ~procs'[p].active
    <3>1. procs'[p] = procs[p] \/ procs'[p] = Declared(procs[p])
      BY <2>1 DEF RegisterProcess, SMInv, SoundInv
    <3>2. procs[p] \in Process
      BY <1>1 DEF SMInv, SoundInv
    <3> QED BY <1>1, <3>1, <3>2 DEF Spent, Declared, Process
  <2>2. ASSUME NEW g \in Groups, NEW want, Taken(g, want) PROVE ~procs'[p].active
    <3>1. FindTransition(g, want) \in Transition
      BY <1>1, <2>2, TransitionFound DEF Taken
    <3> DEFINE t == FindTransition(g, want)
    <3>2. t.actions \in Seq(Action)
      BY <3>1 DEF Transition
    <3>3. Len(t.actions) \in 0 .. Len(t.actions) /\ 1 .. Len(t.actions) \subseteq 0 .. Len(t.actions)
      BY <3>2
    <3>4. PICK i \in 0 .. Len(t.actions) : procs' = After(t.actions)[i]
      BY <2>2, <3>3 DEF Taken, Moved, HeldBack
    <3>5. SoundInv
      BY <1>1 DEF SMInv
    <3> HIDE DEF t
    <3>6. Spent(After(t.actions)[i], p)
      BY <1>1, <3>2, <3>5, AfterSpent
    <3> QED BY <3>4, <3>6 DEF Spent
  <2> QED BY <1>1, <2>1, <2>2, ProcessSteps DEF Spent
<1>2. SMInv /\ [SMNext]_smVars =>
        [\A p \in Processes :
           procs[p].restarts > MaxRestarts[p] /\ ~procs[p].active
             => ~procs'[p].active]_emVars
  BY <1>1 DEF Spent
<1> QED BY SMInvariant, <1>2, PTL DEF SMSpec, BudgetIsFinal

(* Groups move with the machine, along their own policy                      *)
(* (StateManager::ApplyRequest, EnterFailureState).                          *)
THEOREM GroupsFollowPolicy == SMSpec => GroupFollowsPolicy
<1> DEFINE Follows(g) ==
      groupState'[g] # groupState[g] =>
        /\ functionGroup' = groupState'[g]
        /\ IsAllowedTransition(functionGroup, groupState'[g])
        /\ \E i \in 1 .. Len(Policy[g].transitions) :
             LET t == Policy[g].transitions[i] IN
             /\ t.from = groupState[g]
             /\ groupState'[g] \in {t.to} \cup (IF t.degrade THEN {t.failure} ELSE {})
<1>1. ASSUME SMInv, NEW h \in Groups, NEW want, ApplyRequest(h, want), NEW g \in registered
      PROVE  Follows(g)
  <2>1. CASE Refused(h, want)
    BY <2>1 DEF Refused
  <2>2. CASE Taken(h, want)
    <3> DEFINE t == FindTransition(h, want)
    <3>1. \/ UNCHANGED groupState
          \/ \E s \in {t.to} \cup (IF t.degrade THEN {t.failure} ELSE {}) :
               /\ IsAllowedTransition(functionGroup, s)
               /\ functionGroup' = s
               /\ groupState' = [groupState EXCEPT ![h] = s]
      BY <1>1, <2>2, TakenMoves
    <3>2. CASE UNCHANGED groupState
      BY <3>2
    <3>3. ASSUME NEW s \in {t.to} \cup (IF t.degrade THEN {t.failure} ELSE {}),
                 IsAllowedTransition(functionGroup, s),
                 functionGroup' = s,
                 groupState' = [groupState EXCEPT ![h] = s],
                 groupState'[g] # groupState[g]
          PROVE  Follows(g)
      <4>1. g = h /\ groupState'[g] = s
        BY <1>1, <3>3 DEF SMInv, SMTypeOK
      <4>2. /\ Min(Leading(h, want)) \in 1 .. Len(Policy[h].transitions)
            /\ t = Policy[h].transitions[Min(Leading(h, want))]
            /\ t.from = groupState[h]
        BY <1>1, <2>2, TransitionFound DEF Taken, FindTransition
      <4> HIDE DEF t
      <4> QED BY <3>3, <4>1, <4>2
    <3> QED BY <3>1, <3>2, <3>3
  <2> QED BY <1>1, <2>1, <2>2, RequestOutcome
<1>2. ASSUME SMInv, NEW h \in Groups, RegisterFunctionGroup(h), NEW g \in registered
      PROVE  Follows(g)
  BY <1>2 DEF RegisterFunctionGroup, SMInv, SMTypeOK
<1>3. ASSUME SMInv, [SMNext]_smVars, NEW g \in registered
      PROVE  Follows(g)
  <2>1. ASSUME ApplyNextRequest PROVE Follows(g)
    <3>1. PICK i \in 1 .. Len(pendingRequests) : ApplyRequest(pendingRequests[i].group, pendingRequests[i].want)
      BY <2>1 DEF ApplyNextRequest
    <3>2. pendingRequests[i] \in Request
      BY <1>3 DEF SMInv, SMTypeOK
    <3>3. pendingRequests[i].group \in Groups
      BY <3>2 DEF Request
    <3> QED BY <1>1, <1>3, <3>1, <3>3
  <2>2. ASSUME NEW h \in Groups, NEW want \in Wanted, RequestFunctionGroupState(h, want)
        PROVE  Follows(g)
    BY <1>1, <1>3, <2>2 DEF RequestFunctionGroupState
  <2>3. CASE UNCHANGED smVars \/ \E p \in Processes : RegisterProcess(p) /\ UNCHANGED groupVars
    BY <2>3 DEF smVars, groupVars
  <2>4. CASE \E h \in Groups, want \in Wanted, priority \in Priorities :
               SubmitStateRequest(h, want, priority)
    BY <2>4 DEF SubmitStateRequest
  <2> QED BY <1>2, <1>3, <2>1, <2>2, <2>3, <2>4 DEF SMNext
<1>4. SMInv /\ [SMNext]_smVars =>
        [\A g \in registered : groupState'[g] # groupState[g] =>
           /\ functionGroup' = groupState'[g]
           /\ IsAllowedTransition(functionGroup, groupState'[g])
           /\ \E i \in 1 .. Len(Policy[g].transitions) :
                LET t == Policy[g].transitions[i] IN
                /\ t.from = groupState[g]
                /\ groupState'[g] \in {t.to} \cup (IF t.degrade THEN {t.failure} ELSE {})]_smVars
  BY <1>3
<1> QED BY SMInvariant, <1>4, PTL DEF SMSpec, GroupFollowsPolicy

(* What is reported of a transition.                                         *)
LEMMA CompletedIsDone ==
  ASSUME SMInv, NEW g \in Groups, NEW t \in Transition, Moved(g, t),
         groupState'[g] = t.to, FindTransition(g, t.to) = t
  PROVE  CompletedMeansDone(g)
<1> DEFINE actions == t.actions
<1>1. actions \in Seq(Action) /\ procs' = After(actions)[Len(actions)] /\ SoundInv
  BY DEF Transition, Moved, SMInv
<1>2. ASSUME NEW i \in 1 .. Len(actions), actions[i].required,
             \A j \in i + 1 .. Len(actions) : actions[j].process # actions[i].process
      PROVE  procs'[actions[i].process].active = (actions[i].kind # "Stop")
  <2> DEFINE a == actions[i]
             f == After(actions)[i - 1]
  <2>1. a \in Action /\ i \in 0 .. Len(actions) /\ i - 1 \in 0 .. Len(actions)
    BY <1>1
  <2>2. a.process \in Processes
    BY <2>1 DEF Action
  <2>3. procs'[a.process] = After(actions)[i][a.process]
    <3>1. Len(actions) \in i .. Len(actions)
      BY <1>1
    <3> HIDE DEF actions
    <3>2. After(actions)[Len(actions)][a.process] = After(actions)[i][a.process]
      BY <1>1, <1>2, <2>1, <2>2, <3>1, Untouched
    <3> QED BY <1>1, <3>2
  <2>4. SoundAll(f) /\ After(actions)[i] = Step(f, a)
    BY <1>1, <2>1, AfterSound, AfterActions
  <2>5. ~StopsAt(After(actions)[i], a)
    BY <1>2 DEF Moved
  <2> HIDE DEF f
  <2>6. After(actions)[i][a.process] = Acted(f[a.process], a)
    BY <2>1, <2>4, StepSound
  <2>7. f[a.process] \in Process /\ Sound(f[a.process], a.process)
    BY <2>2, <2>4 DEF SoundAll
  <2>8. Succeeded(Acted(f[a.process], a), a)
    BY <1>2, <2>5, <2>6 DEF StopsAt
  <2> QED BY <2>1, <2>3, <2>6, <2>7, <2>8, ActedOutcome
<1> QED BY <1>2 DEF CompletedMeansDone

LEMMA HeldBackForCause ==
  ASSUME SMInv, NEW g \in Groups, NEW t \in Transition, HeldBack(g, t),
         FindTransition(g, t.to) = t
  PROVE  RefusedForCause(g, t.to)
<1> DEFINE actions == t.actions
<1>1. actions \in Seq(Action) /\ SoundInv
  BY DEF Transition, SMInv
<1>2. ASSUME NEW i \in 1 .. Len(actions), StopsAt(After(actions)[i], actions[i]),
             procs' = After(actions)[i]
      PROVE  /\ actions[i].required
             /\ procs'[actions[i].process].state \in {"Failed", "Unregistered"}
  <2> DEFINE a == actions[i]
             f == After(actions)[i - 1]
  <2>1. a \in Action /\ i - 1 \in 0 .. Len(actions)
    BY <1>1
  <2>2. a.process \in Processes
    BY <2>1 DEF Action
  <2>3. SoundAll(f) /\ After(actions)[i] = Step(f, a)
    BY <1>1, <2>1, AfterSound, AfterActions
  <2>4. a.required /\ ~Succeeded(After(actions)[i][a.process], a)
    BY <1>2 DEF StopsAt
  <2> HIDE DEF f
  <2>5. After(actions)[i][a.process] = Acted(f[a.process], a)
    BY <2>1, <2>3, StepSound
  <2>6. f[a.process] \in Process /\ Sound(f[a.process], a.process)
    BY <2>2, <2>3 DEF SoundAll
  <2>7. Acted(f[a.process], a).state \in {"Failed", "Unregistered"}
    BY <2>1, <2>4, <2>5, <2>6, ActedOutcome
  <2> QED BY <1>2, <2>4, <2>5, <2>7
<1>3. \/ ~IsAllowedTransition(functionGroup, t.to)
      \/ \E i \in 1 .. Len(actions) :
           StopsAt(After(actions)[i], actions[i]) /\ procs' = After(actions)[i]
  BY DEF HeldBack
<1> QED BY <1>2, <1>3 DEF RefusedForCause

(* A transition reported as completed did what its required actions asked    *)
(* for, and one reported as held back was held back for cause                *)
(* (StateManager::ApplyRequest, ApplyProcessAction).                         *)
THEOREM OutcomesCorrect == SMSpec => OutcomesAreHonest
<1> DEFINE Honest ==
      /\ \A g \in registered :
           groupState'[g] # groupState[g] /\ last'.completed => CompletedMeansDone(g)
      /\ last' # last /\ last'.accepted /\ ~last'.completed =>
           RefusedForCause(last'.group, last'.want)
<1>1. ASSUME SMInv, NEW g \in Groups, NEW want, ApplyRequest(g, want)
      PROVE  Honest
  <2>1. CASE Refused(g, want)
    <3>1. last' = last \/ \E done \in BOOLEAN : last' = TransitionRecord(g, want, done, done)
      BY <2>1 DEF Refused
    <3>2. last' = last \/ last'.accepted = last'.completed
      BY <3>1 DEF TransitionRecord
    <3> QED BY <2>1, <3>2 DEF Refused
  <2>2. CASE Taken(g, want)
    <3> DEFINE t == FindTransition(g, want)
    <3>1. t \in Transition /\ t.to = want
      BY <1>1, <2>2, TransitionFound DEF Taken
    <3>2. FindTransition(g, t.to) = t
      BY <3>1
    <3>3. Moved(g, t) \/ HeldBack(g, t)
      BY <2>2 DEF Taken
    <3> HIDE DEF t
    <3>4. CASE Moved(g, t)
      <4>1. /\ last'.accepted = TRUE /\ last'.completed = TRUE
            /\ groupState' = [groupState EXCEPT ![g] = t.to]
        BY <3>4 DEF Moved, TransitionRecord
      <4>2. groupState'[g] = t.to /\ \A h \in Groups \ {g} : groupState'[h] = groupState[h]
        BY <1>1, <4>1 DEF SMInv, SMTypeOK
      <4>3. CompletedMeansDone(g)
        BY <1>1, <3>1, <3>2, <3>4, <4>2, CompletedIsDone
      <4>4. registered \subseteq Groups
        BY <1>1 DEF SMInv, SMTypeOK
      <4> QED BY <4>1, <4>2, <4>3, <4>4
    <3>5. CASE HeldBack(g, t)
      <4>1. /\ last'.accepted = TRUE /\ last'.completed = FALSE
            /\ last'.group = g /\ last'.want = t.to
        BY <3>5 DEF HeldBack, TransitionRecord
      <4>2. RefusedForCause(g, t.to)
        BY <1>1, <3>1, <3>2, <3>5, HeldBackForCause
      <4> QED BY <4>1, <4>2
    <3> QED BY <3>3, <3>4, <3>5
  <2> QED BY <1>1, <2>1, <2>2, RequestOutcome
<1>2. ASSUME SMInv, NEW h \in Groups, RegisterFunctionGroup(h) PROVE Honest
  <2>1. last' = last /\ \A g \in registered : groupState'[g] = groupState[g]
    BY <1>2 DEF RegisterFunctionGroup, SMInv, SMTypeOK
  <2> QED BY <2>1
<1>3. ASSUME UNCHANGED <<groupState, last>> PROVE Honest
  BY <1>3
<1>4. ASSUME SMInv, [SMNext]_smVars PROVE Honest
  <2> HIDE DEF Honest
  <2>1. ASSUME ApplyNextRequest PROVE Honest
    <3>1. PICK i \in 1 .. Len(pendingRequests) : ApplyRequest(pendingRequests[i].group, pendingRequests[i].want)
      BY <2>1 DEF ApplyNextRequest
    <3>2. pendingRequests[i] \in Request
      BY <1>4 DEF SMInv, SMTypeOK
    <3>3. pendingRequests[i].group \in Groups
      BY <3>2 DEF Request
    <3> QED BY <1>1, <1>4, <3>1, <3>3
  <2>2. ASSUME NEW h \in Groups, NEW want \in Wanted, RequestFunctionGroupState(h, want)
        PROVE  Honest
    BY <1>1, <1>4, <2>2 DEF RequestFunctionGroupState
  <2>3. CASE UNCHANGED smVars \/ \E p \in Processes : RegisterProcess(p) /\ UNCHANGED groupVars
    BY <1>3, <2>3 DEF smVars, groupVars
  <2>4. CASE \E h \in Groups, want \in Wanted, priority \in Priorities :
               SubmitStateRequest(h, want, priority)
    BY <1>3, <2>4 DEF SubmitStateRequest
  <2> QED BY <1>2, <1>4, <2>1, <2>2, <2>3, <2>4 DEF SMNext
<1>5. SMInv /\ [SMNext]_smVars =>
        [/\ \A g \in registered :
              groupState'[g] # groupState[g] /\ last'.completed => CompletedMeansDone(g)
         /\ last' # last /\ last'.accepted /\ ~last'.completed =>
              RefusedForCause(last'.group, last'.want)]_smVars
  BY <1>4
<1> QED BY SMInvariant, <1>5, PTL DEF SMSpec, OutcomesAreHonest

-----------------------------------------------------------------------------
(* The reference model of the machine group.                                 *)

(* What its transitions have in common.                                      *)
StopsWell(t) ==
  /\ t.degrade => t.failure = "Degraded"
  /\ \A j \in 1 .. Len(t.actions) : t.actions[j].process \in {"provider", "dashboard"}
  /\ t.to = "Update" => t.actions = <<Stops("provider", FALSE)>>
  /\ t.to = "Shutdown" => t.actions = <<Stops("provider", FALSE), Stops("dashboard", FALSE)>>
  /\ t.from = "Update" =>
       t.to = "Parking" /\ ~t.degrade /\ t.actions = <<Starts("provider", TRUE)>>
  /\ t.from # "Shutdown"

LEMMA ReferenceTransitions ==
  \A i \in 1 .. Len(ReferenceModel.transitions) : StopsWell(ReferenceModel.transitions[i])
<1> DEFINE T == ReferenceModel.transitions
<1>1. Len(T) = 10
  BY DEF ReferenceModel
<1>2. StopsWell(T[1])
  <2>1. T[1] = Move("Off", "Startup", <<>>)
    BY DEF ReferenceModel
  <2> QED BY <2>1 DEF StopsWell, Move, Starts, Stops, Restarts
<1>3. StopsWell(T[2])
  <2>1. T[2] = DegradingMove("Startup", "DrivingReady",
                              <<Starts("provider", TRUE), Starts("dashboard", TRUE)>>)
    BY DEF ReferenceModel
  <2> QED BY <2>1 DEF StopsWell, DegradingMove, Move, Starts, Stops, Restarts
<1>4. StopsWell(T[3])
  <2>1. T[3] = Move("Startup", "Degraded", <<>>)
    BY DEF ReferenceModel
  <2> QED BY <2>1 DEF StopsWell, Move, Starts, Stops, Restarts
<1>5. StopsWell(T[4])
  <2>1. T[4] = Move("Startup", "Diagnostic", <<>>)
    BY DEF ReferenceModel
  <2> QED BY <2>1 DEF StopsWell, Move, Starts, Stops, Restarts
<1>6. StopsWell(T[5])
  <2>1. T[5] = Move("DrivingReady", "Degraded", <<Restarts("provider", TRUE), Stops("dashboard", FALSE)>>)
    BY DEF ReferenceModel
  <2> QED BY <2>1 DEF StopsWell, Move, Starts, Stops, Restarts
<1>7. StopsWell(T[6])
  <2>1. T[6] = Move("Degraded", "Parking", <<Stops("provider", FALSE)>>)
    BY DEF ReferenceModel
  <2> QED BY <2>1 DEF StopsWell, Move, Starts, Stops, Restarts
<1>8. StopsWell(T[7])
  <2> DEFINE acts == <<Stops("provider", FALSE)>>
  <2>1. T[7] = Move("Parking", "Update", acts)
    BY DEF ReferenceModel
  <2>2. \A j \in 1 .. Len(acts) : acts[j].process \in {"provider", "dashboard"}
    BY DEF Starts, Stops
  <2> HIDE DEF acts, T
  <2>3. /\ T[7].from = "Parking" /\ T[7].to = "Update"
        /\ T[7].actions = acts /\ T[7].degrade = FALSE
    BY <2>1 DEF Move
  <2> QED BY <2>2, <2>3 DEF StopsWell, acts
<1>9. StopsWell(T[8])
  <2> DEFINE acts == <<Starts("provider", TRUE)>>
  <2>1. T[8] = Move("Update", "Parking", acts)
    BY DEF ReferenceModel
  <2>2. \A j \in 1 .. Len(acts) : acts[j].process \in {"provider", "dashboard"}
    BY DEF Starts, Stops
  <2> HIDE DEF acts, T
  <2>3. /\ T[8].from = "Update" /\ T[8].to = "Parking"
        /\ T[8].actions = acts /\ T[8].degrade = FALSE
    BY <2>1 DEF Move
  <2> QED BY <2>2, <2>3 DEF StopsWell, acts
<1>10. StopsWell(T[9])
  <2>1. T[9] = Move("Parking", "DrivingReady", <<Starts("dashboard", FALSE)>>)
    BY DEF ReferenceModel
  <2> QED BY <2>1 DEF StopsWell, Move, Starts, Stops, Restarts
<1>11. StopsWell(T[10])
  <2> DEFINE acts == <<Stops("provider", FALSE), Stops("dashboard", FALSE)>>
  <2>1. T[10] = Move("Parking", "Shutdown", acts)
    BY DEF ReferenceModel
  <2>2. \A j \in 1 .. Len(acts) : acts[j].process \in {"provider", "dashboard"}
    BY DEF Starts, Stops
  <2> HIDE DEF acts, T
  <2>3. /\ T[10].from = "Parking" /\ T[10].to = "Shutdown"
        /\ T[10].actions = acts /\ T[10].degrade = FALSE
    BY <2>1 DEF Move
  <2> QED BY <2>2, <2>3 DEF StopsWell, acts
<1>12. \A i \in 1 .. 10 : i \in {1, 2, 3, 4, 5, 6, 7, 8, 9, 10}
  OBVIOUS
<1> HIDE DEF T
<1> QED BY <1>1, <1>2, <1>3, <1>4, <1>5, <1>6, <1>7, <1>8, <1>9, <1>10, <1>11, <1>12 DEF T

(* Left alone, the machine group moves the machine wherever it moves, and    *)
(* what it never acts on stays down.                                         *)
QuietInv ==
  /\ IsFiniteSet(registered)
  /\ registered = {} => \A p \in Processes : ~procs[p].active
  /\ \A g \in Groups : registered = {g} => groupState[g] = functionGroup
  /\ registered = {"MachineFG"} =>
       /\ \A p \in Processes \ {"provider", "dashboard"} : ~procs[p].active
       /\ functionGroup = "Update" => \A p \in Processes \cap {"provider"} : ~procs[p].active
       /\ functionGroup = "Shutdown" => \A p \in Processes : ~procs[p].active

(* A stop leaves no instance, whatever it finds and whether it succeeds.     *)
LEMMA StopQuiets ==
  ASSUME NEW f, SoundAll(f), NEW a \in Action, a.kind = "Stop"
  PROVE  ~Step(f, a)[a.process].active
<1>1. a.process \in Processes
  BY DEF Action
<1>2. Step(f, a)[a.process] = Stopped(f[a.process])
  BY StepSound DEF Acted
<1>3. f[a.process] \in Process /\ Sound(f[a.process], a.process)
  BY <1>1 DEF SoundAll
<1>4. Sound(Stopped(f[a.process]), a.process) /\ Stopped(f[a.process]).state # "Running"
  BY <1>1, <1>3, StoppedSound DEF Stopped, Process
<1> QED BY <1>2, <1>4 DEF Sound

(* A list of actions on the provider and the dashboard touches nobody else.  *)
LEMMA OthersQuiet ==
  ASSUME SMInv, NEW t \in Transition, StopsWell(t),
         NEW i \in 0 .. Len(t.actions), NEW p \in Processes \ {"provider", "dashboard"}
  PROVE  After(t.actions)[i][p] = procs[p]
<1>1. t.actions \in Seq(Action) /\ SoundInv
  BY DEF Transition, SMInv
<1>2. 0 \in 0 .. Len(t.actions) /\ i \in 0 .. Len(t.actions)
  BY <1>1
<1>3. \A j \in 0 + 1 .. i : t.actions[j].process # p
  <2>1. \A j \in 0 + 1 .. i : j \in 1 .. Len(t.actions)
    BY <1>1
  <2> QED BY <2>1 DEF StopsWell
<1>4. After(t.actions)[i][p] = After(t.actions)[0][p]
  BY <1>1, <1>2, <1>3, Untouched
<1> QED BY <1>1, <1>4, AfterActions

(* Into its update window the group goes with the provider stopped.          *)
LEMMA UpdateQuiet ==
  ASSUME SMInv, NEW t \in Transition, t.actions = <<Stops("provider", FALSE)>>
  PROVE  ~After(t.actions)[1]["provider"].active
<1> DEFINE a == t.actions[1]
<1>1. /\ t.actions \in Seq(Action) /\ SoundInv /\ Len(t.actions) = 1
      /\ a = Stops("provider", FALSE)
  <2>1. t.actions \in Seq(Action) /\ SoundInv
    BY DEF Transition, SMInv
  <2>2. \A x : Len(<<x>>) = 1 /\ <<x>>[1] = x
    OBVIOUS
  <2> QED BY <2>1, <2>2
<1>2. a \in Action /\ a.kind = "Stop" /\ a.process = "provider"
  BY <1>1 DEF Stops
<1>3. 1 \in 1 .. Len(t.actions) /\ 0 \in 0 .. Len(t.actions) /\ 1 - 1 = 0
  BY <1>1
<1>4. After(t.actions)[1] = Step(After(t.actions)[0], a) /\ SoundAll(After(t.actions)[0])
  BY <1>1, <1>3, AfterActions, AfterSound
<1> HIDE DEF a
<1> QED BY <1>2, <1>4, StopQuiets

(* Into Shutdown it goes with both of its processes stopped.                 *)
LEMMA ShutdownQuiet ==
  ASSUME SMInv, NEW t \in Transition,
         t.actions = <<Stops("provider", FALSE), Stops("dashboard", FALSE)>>
  PROVE  \A p \in {"provider", "dashboard"} : ~After(t.actions)[2][p].active
<1> DEFINE a == t.actions[1]
           b == t.actions[2]
<1>1. /\ t.actions \in Seq(Action) /\ SoundInv /\ Len(t.actions) = 2
      /\ a = Stops("provider", FALSE) /\ b = Stops("dashboard", FALSE)
  <2>1. t.actions \in Seq(Action) /\ SoundInv
    BY DEF Transition, SMInv
  <2>2. \A x, y : Len(<<x, y>>) = 2 /\ <<x, y>>[1] = x /\ <<x, y>>[2] = y
    OBVIOUS
  <2>3. Len(t.actions) = 2 /\ a = Stops("provider", FALSE)
    BY <2>2
  <2>4. b = Stops("dashboard", FALSE)
    BY <2>2
  <2> QED BY <2>1, <2>3, <2>4
<1>2. /\ a \in Action /\ a.kind = "Stop" /\ a.process = "provider"
      /\ b \in Action /\ b.kind = "Stop" /\ b.process = "dashboard"
  BY <1>1 DEF Stops
<1>3. /\ 1 \in 1 .. Len(t.actions) /\ 0 \in 0 .. Len(t.actions) /\ 1 - 1 = 0
      /\ 2 \in 1 .. Len(t.actions) /\ 1 \in 0 .. Len(t.actions) /\ 2 - 1 = 1
  BY <1>1
<1>4. /\ After(t.actions)[1] = Step(After(t.actions)[0], a) /\ SoundAll(After(t.actions)[0])
      /\ After(t.actions)[2] = Step(After(t.actions)[1], b) /\ SoundAll(After(t.actions)[1])
  BY <1>1, <1>3, AfterActions, AfterSound
<1> HIDE DEF a, b
<1>5. ~After(t.actions)[1]["provider"].active
  BY <1>2, <1>4, StopQuiets
<1>6. ~After(t.actions)[2]["dashboard"].active
  BY <1>2, <1>4, StopQuiets
<1>7. "provider" \in Processes \ {b.process}
  BY <1>2 DEF Action
<1>8. After(t.actions)[2]["provider"] = After(t.actions)[1]["provider"]
  <2>1. \A p \in Processes \ {b.process} :
          Step(After(t.actions)[1], b)[p] = After(t.actions)[1][p]
    BY <1>2, <1>4, StepSound
  <2> QED BY <1>4, <1>7, <2>1
<1> QED BY <1>5, <1>6, <1>8

(* From the update window it does not get away while the provider runs.      *)
LEMMA UpdateKept ==
  ASSUME SMInv, NEW t \in Transition, t.actions = <<Starts("provider", TRUE)>>,
         StopsAt(After(t.actions)[1], t.actions[1])
  PROVE  ~After(t.actions)[1]["provider"].active
<1> DEFINE a == t.actions[1]
<1>1. /\ t.actions \in Seq(Action) /\ SoundInv /\ Len(t.actions) = 1
      /\ a = Starts("provider", TRUE)
  <2>1. t.actions \in Seq(Action) /\ SoundInv
    BY DEF Transition, SMInv
  <2>2. \A x : Len(<<x>>) = 1 /\ <<x>>[1] = x
    OBVIOUS
  <2> QED BY <2>1, <2>2
<1>2. a \in Action /\ a.kind = "Start" /\ a.process = "provider"
  BY <1>1 DEF Starts
<1>3. 1 \in 0 .. Len(t.actions)
  BY <1>1
<1>4. SoundAll(After(t.actions)[1])
  BY <1>1, <1>3, AfterSound
<1>5. After(t.actions)[1]["provider"].state # "Running"
  BY <1>2 DEF StopsAt, Succeeded
<1> HIDE DEF a
<1> QED BY <1>2, <1>4, <1>5 DEF SoundAll, Sound, Action

(* A request to the machine group, alone on the machine.                     *)
LEMMA TakenQuiet ==
  ASSUME SMInv, QuietInv, Policy["MachineFG"] = ReferenceModel,
         registered = {"MachineFG"}, NEW want, Taken("MachineFG", want)
  PROVE  /\ groupState'["MachineFG"] = functionGroup'
         /\ \A p \in Processes \ {"provider", "dashboard"} : ~procs'[p].active
         /\ functionGroup' = "Update" => ~procs'["provider"].active
         /\ functionGroup' = "Shutdown" => \A p \in Processes : ~procs'[p].active
<1> DEFINE g == "MachineFG"
           t == FindTransition(g, want)
<1>1. /\ g \in Groups /\ g \in registered
      /\ groupState \in [Groups -> FunctionGroupStates]
      /\ groupState[g] = functionGroup
  BY DEF SMInv, SMTypeOK, QuietInv
<1>2. t \in Transition /\ t.from = groupState[g] /\ StopsWell(t)
  <2>1. Leading(g, want) # {}
    BY DEF Taken
  <2>2. Min(Leading(g, want)) \in 1 .. Len(ReferenceModel.transitions)
    BY <1>1, <2>1, TransitionFound
  <2>3. t = ReferenceModel.transitions[Min(Leading(g, want))]
    BY DEF FindTransition
  <2>4. StopsWell(t)
    BY <2>2, <2>3, ReferenceTransitions
  <2> QED BY <1>1, <2>1, <2>4, TransitionFound
<1>3. Moved(g, t) \/ HeldBack(g, t)
  BY DEF Taken
<1> HIDE DEF t
<1>4. t.actions \in Seq(Action) /\ SoundInv
  BY <1>2 DEF Transition, SMInv
<1>5. \E i \in 0 .. Len(t.actions) : procs' = After(t.actions)[i]
  <2>1. Len(t.actions) \in 0 .. Len(t.actions) /\ 1 .. Len(t.actions) \subseteq 0 .. Len(t.actions)
    BY <1>4
  <2> QED BY <1>3, <2>1 DEF Moved, HeldBack
<1>6. \A p \in Processes \ {"provider", "dashboard"} : ~procs'[p].active
  <2>1. PICK i \in 0 .. Len(t.actions) : procs' = After(t.actions)[i]
    BY <1>5
  <2>2. \A p \in Processes \ {"provider", "dashboard"} : After(t.actions)[i][p] = procs[p]
    BY <1>2, OthersQuiet
  <2> QED BY <2>1, <2>2 DEF QuietInv
<1>7. CASE Moved(g, t)
  <2>1. /\ functionGroup' = t.to /\ groupState'[g] = t.to
        /\ procs' = After(t.actions)[Len(t.actions)]
    BY <1>1, <1>7 DEF Moved
  <2>2. ASSUME t.to = "Update" PROVE ~procs'["provider"].active
    <3>1. t.actions = <<Stops("provider", FALSE)>>
      BY <1>2, <2>2 DEF StopsWell
    <3>2. Len(t.actions) = 1
      BY <3>1
    <3> QED BY <1>2, <2>1, <3>1, <3>2, UpdateQuiet
  <2>3. ASSUME t.to = "Shutdown" PROVE \A p \in Processes : ~procs'[p].active
    <3>1. t.actions = <<Stops("provider", FALSE), Stops("dashboard", FALSE)>>
      BY <1>2, <2>3 DEF StopsWell
    <3>2. Len(t.actions) = 2
      BY <3>1
    <3>3. \A p \in {"provider", "dashboard"} : ~procs'[p].active
      BY <1>2, <2>1, <3>1, <3>2, ShutdownQuiet
    <3> QED BY <1>6, <3>3
  <2> QED BY <1>6, <2>1, <2>2, <2>3
<1>8. CASE HeldBack(g, t)
  <2>1. CASE /\ t.degrade /\ functionGroup' = t.failure
             /\ groupState' = [groupState EXCEPT ![g] = t.failure]
    <3>1. functionGroup' = "Degraded" /\ groupState'[g] = "Degraded"
      BY <1>1, <1>2, <2>1 DEF StopsWell
    <3> QED BY <1>6, <3>1
  <2>2. CASE UNCHANGED <<functionGroup, groupState>>
    <3>1. functionGroup' = t.from /\ groupState'[g] = t.from
      BY <1>1, <1>2, <2>2
    <3>2. t.from # "Shutdown"
      BY <1>2 DEF StopsWell
    <3>3. ASSUME t.from = "Update" PROVE ~procs'["provider"].active
      <4>1. t.to = "Parking" /\ t.actions = <<Starts("provider", TRUE)>>
        BY <1>2, <3>3 DEF StopsWell
      <4>2. IsAllowedTransition(functionGroup, t.to)
        BY <1>1, <1>2, <3>3, <4>1 DEF IsAllowedTransition, AllowedFrom
      <4>3. PICK i \in 1 .. Len(t.actions) :
              StopsAt(After(t.actions)[i], t.actions[i]) /\ procs' = After(t.actions)[i]
        BY <1>8, <4>2 DEF HeldBack
      <4>4. i = 1
        BY <4>1
      <4> QED BY <1>2, <4>1, <4>3, <4>4, UpdateKept
    <3> QED BY <1>6, <3>1, <3>2, <3>3
  <2> QED BY <1>8, <2>1, <2>2 DEF HeldBack, EnterFailureState
<1> QED BY <1>3, <1>7, <1>8

(* A request to a group that is alone on the machine.                        *)
LEMMA AloneMovesMachine ==
  ASSUME SMInv, QuietInv, NEW g \in Groups, registered = {g}, NEW want, Taken(g, want)
  PROVE  groupState'[g] = functionGroup'
<1>1. groupState[g] = functionGroup /\ groupState \in [Groups -> FunctionGroupStates]
  BY DEF QuietInv, SMInv, SMTypeOK
<1>2. CASE UNCHANGED <<functionGroup, groupState>>
  BY <1>1, <1>2
<1>3. CASE \E s \in FunctionGroupStates :
             functionGroup' = s /\ groupState' = [groupState EXCEPT ![g] = s]
  BY <1>1, <1>3
<1> QED BY <1>2, <1>3, TakenMoves

LEMMA QuietNext ==
  ASSUME "MachineFG" \in Groups => Policy["MachineFG"] = ReferenceModel,
         SMInv, QuietInv, [SMNext]_smVars
  PROVE  QuietInv'
<1>1. ASSUME NEW g \in Groups, NEW want, ApplyRequest(g, want), UNCHANGED registered
      PROVE  QuietInv'
  <2>1. CASE Refused(g, want)
    BY <1>1, <2>1 DEF Refused, QuietInv
  <2>2. CASE Taken(g, want)
    <3>1. g \in registered /\ registered' = registered
      BY <1>1, <2>2 DEF Taken
    <3>2. ASSUME NEW h \in Groups, registered' = {h} PROVE groupState'[h] = functionGroup'
      <4>1. h = g /\ registered = {g}
        BY <3>1, <3>2
      <4> QED BY <2>2, <4>1, AloneMovesMachine
    <3>3. ASSUME registered' = {"MachineFG"}
          PROVE  /\ \A p \in Processes \ {"provider", "dashboard"} : ~procs'[p].active
                 /\ functionGroup' = "Update" =>
                      \A p \in Processes \cap {"provider"} : ~procs'[p].active
                 /\ functionGroup' = "Shutdown" => \A p \in Processes : ~procs'[p].active
      <4>1. g = "MachineFG" /\ registered = {"MachineFG"} /\ Policy["MachineFG"] = ReferenceModel
        BY <3>1, <3>3
      <4> QED BY <2>2, <4>1, TakenQuiet
    <3> QED BY <3>1, <3>2, <3>3 DEF QuietInv
  <2> QED BY <1>1, <2>1, <2>2, RequestOutcome
<1>2. ASSUME NEW p \in Processes, RegisterProcess(p), UNCHANGED groupVars PROVE QuietInv'
  <2>1. \A q \in Processes : procs'[q].active = procs[q].active
    <3>1. /\ procs \in [Processes -> Process]
          /\ procs' = [procs EXCEPT ![p] = Declared(procs[p])]
      BY <1>2 DEF RegisterProcess, SMInv, SoundInv
    <3>2. Declared(procs[p]).active = procs[p].active
      BY <3>1 DEF Declared, Process
    <3> QED BY <3>1, <3>2
  <2> QED BY <1>2, <2>1 DEF RegisterProcess, groupVars, QuietInv
<1>3. ASSUME NEW g \in Groups, RegisterFunctionGroup(g) PROVE QuietInv'
  <2>1. /\ registered' = registered \cup {g} /\ g \notin registered
        /\ UNCHANGED <<procs, functionGroup>>
        /\ groupState' = [groupState EXCEPT ![g] = Policy[g].initial]
        /\ registered = {} => functionGroup = Policy[g].initial
    BY <1>3 DEF RegisterFunctionGroup
  <2>2. IsFiniteSet(registered')
    BY <2>1, FS_AddElement DEF QuietInv
  <2>3. ASSUME NEW h \in Groups, registered' = {h}
        PROVE  registered = {} /\ h = g
    BY <2>1, <2>3
  <2>4. groupState \in [Groups -> FunctionGroupStates]
    BY DEF SMInv, SMTypeOK
  <2>5. \A h \in Groups : registered' = {h} => groupState'[h] = functionGroup'
    BY <2>1, <2>3, <2>4
  <2>6. registered' # {}
    BY <2>1
  <2>7. ASSUME registered' = {"MachineFG"} PROVE \A p \in Processes : ~procs'[p].active
    <3>1. registered = {}
      BY <2>1, <2>7
    <3> QED BY <2>1, <3>1 DEF QuietInv
  <2> QED BY <2>2, <2>5, <2>6, <2>7 DEF QuietInv
<1>4. ASSUME NEW g \in Groups, NEW want \in Wanted, RequestFunctionGroupState(g, want)
      PROVE  QuietInv'
  BY <1>1, <1>4 DEF RequestFunctionGroupState
<1>5. ASSUME ApplyNextRequest PROVE QuietInv'
  <2>1. PICK i \in 1 .. Len(pendingRequests) :
          ApplyRequest(pendingRequests[i].group, pendingRequests[i].want) /\ UNCHANGED registered
    BY <1>5 DEF ApplyNextRequest
  <2>2. pendingRequests[i] \in Request
    BY DEF SMInv, SMTypeOK
  <2>3. pendingRequests[i].group \in Groups
    BY <2>2 DEF Request
  <2> QED BY <1>1, <2>1, <2>3
<1>6. CASE UNCHANGED smVars \/ \E g \in Groups, want \in Wanted, priority \in Priorities :
                                  SubmitStateRequest(g, want, priority)
  BY <1>6 DEF smVars, groupVars, SubmitStateRequest, QuietInv
<1> QED BY <1>2, <1>3, <1>4, <1>5, <1>6 DEF SMNext

LEMMA QuietInit == SMInit => QuietInv
<1> SUFFICES ASSUME SMInit PROVE QuietInv
  OBVIOUS
<1>1. registered = {} /\ procs = [p \in Processes |-> Unregistered]
  BY DEF SMInit, EMInit
<1>2. IsFiniteSet(registered)
  BY <1>1, FS_EmptySet
<1>3. \A p \in Processes : ~procs[p].active
  BY <1>1 DEF Unregistered
<1> QED BY <1>1, <1>2, <1>3 DEF QuietInv

LEMMA QuietWindows ==
  ASSUME "MachineFG" \in Groups => Policy["MachineFG"] = ReferenceModel, SMInv, QuietInv
  PROVE  WindowsAreQuiet
<1>1. ASSUME Cardinality(registered) = 1, NEW g \in registered
      PROVE  groupState[g] = functionGroup
  <2>1. registered = {g}
    <3>1. IsFiniteSet(registered)
      BY DEF QuietInv
    <3>2. IsFiniteSet(registered \ {g}) /\ Cardinality(registered \ {g}) = 0
      BY <1>1, <3>1, FS_RemoveElement
    <3>3. registered \ {g} = {}
      BY <3>2, FS_EmptySet
    <3> QED BY <1>1, <3>3
  <2>2. g \in Groups
    BY <1>1 DEF SMInv, SMTypeOK
  <2> QED BY <2>1, <2>2 DEF QuietInv
<1>2. ASSUME registered = {"MachineFG"}
      PROVE  /\ functionGroup = "Update" => ~procs["provider"].active
             /\ functionGroup = "Shutdown" => \A p \in Processes : ~procs[p].active
  <2>1. Policy["MachineFG"] = ReferenceModel /\ "MachineFG" \in Groups
    BY <1>2 DEF SMInv, SMTypeOK
  <2>2. "provider" \in Processes
    <3> DEFINE t == ReferenceModel.transitions[6]
    <3>1. t \in Transition
      <4>1. Len(ReferenceModel.transitions) = 10
        BY DEF ReferenceModel
      <4>2. ReferenceModel.transitions \in Seq(Transition)
        BY <2>1, GroupsAssumption
      <4> QED BY <4>1, <4>2
    <3> DEFINE acts == <<Stops("provider", FALSE)>>
    <3>2. t = Move("Degraded", "Parking", acts)
      BY DEF ReferenceModel
    <3>3. acts[1].process = "provider" /\ Len(acts) = 1
      BY DEF Stops
    <3> HIDE DEF acts, t
    <3>4. t.actions = acts
      BY <3>2 DEF Move
    <3>5. acts \in Seq(Action)
      BY <3>1, <3>4 DEF Transition
    <3>6. acts[1] \in Action
      BY <3>3, <3>5
    <3> QED BY <3>3, <3>6 DEF Action
  <2> QED BY <1>2, <2>2 DEF QuietInv
<1> QED BY <1>1, <1>2 DEF WindowsAreQuiet

(* A group alone on the machine reports the machine's state; with the        *)
(* reference model the provider is down in its update window and everything  *)
(* is down in Shutdown, however its starts, stops and restarts fail          *)
(* (StateManager::RegisterFunctionGroup, ApplyRequest, EnterFailureState).   *)
THEOREM WindowsCorrect ==
  ASSUME "MachineFG" \in Groups => Policy["MachineFG"] = ReferenceModel
  PROVE  SMSpec => []WindowsAreQuiet
<1>1. SMInit => QuietInv
  BY QuietInit
<1>2. SMInv /\ QuietInv /\ [SMNext]_smVars => QuietInv'
  BY QuietNext
<1>3. SMInv /\ QuietInv => WindowsAreQuiet
  BY QuietWindows
<1> QED BY <1>1, <1>2, <1>3, SMInvariant, PTL DEF SMSpec

-----------------------------------------------------------------------------
(* The update manager.                                                       *)

(* Only a package that was written whole, while nothing was on trial, is     *)
(* staged.                                                                   *)
StagedIsWritten ==
  state = "Staged" =>
    /\ pendingSlot = None
    /\ inInactive # None
    /\ contents[Other(activeSlot)] = inInactive

SlotInv == TypeOK /\ SlotsTellTheTruth /\ StagedIsWritten

LEMMA NoneIsNoPackage == None \notin Packages \cup {Factory}
  BY PackagesAssumption

LEMMA OtherSlot ==
  ASSUME NEW s \in Slots
  PROVE  Other(s) \in Slots /\ Other(s) # s /\ Other(Other(s)) = s
  BY DEF Slots, Other

LEMMA InitSlotInv == Init => SlotInv
<1>1. Factory.cluster \in Clusters /\ Factory.version \in 1 .. 99
  BY PackagesAssumption DEF Package
<1>2. Init => TypeOK
  BY <1>1, PolicyAssumption DEF Init, TypeOK, Slots, States
<1>3. Init => SlotsTellTheTruth /\ StagedIsWritten
  BY DEF Init, SlotsTellTheTruth, StagedIsWritten, Slots
<1> QED BY <1>2, <1>3 DEF SlotInv

(* The backend's Rollback keeps the slots' truth and ends a trial.           *)
LEMMA RollbackSlots ==
  ASSUME SlotInv, Rollback
  PROVE  /\ activeSlot' \in Slots /\ pendingSlot' = None
         /\ inInactive' \in Packages \cup {Factory, None}
         /\ active' \in Packages \cup {Factory}
         /\ previous' \in Packages \cup {Factory, None}
         /\ bootAttempts' \in 0 .. MaxBootAttempts
         /\ contents' = contents
         /\ contents[activeSlot'] = active'
         /\ active' = IF pendingSlot = None THEN active ELSE previous
<1>1. CASE pendingSlot # None
  <2>1. /\ activeSlot' = Other(activeSlot) /\ inInactive' = active /\ active' = previous
        /\ previous' = None /\ pendingSlot' = None /\ bootAttempts' = 0
        /\ contents' = contents
    BY <1>1 DEF Rollback, Restore
  <2>2. previous # None /\ contents[Other(activeSlot)] = previous
    BY <1>1 DEF SlotInv, SlotsTellTheTruth
  <2> QED BY <1>1, <2>1, <2>2, OtherSlot, PolicyAssumption DEF SlotInv, TypeOK
<1>2. CASE pendingSlot = None
  <2>1. /\ inInactive' = None
        /\ UNCHANGED <<activeSlot, pendingSlot, active, previous, bootAttempts, contents>>
    BY <1>2 DEF Rollback
  <2> QED BY <1>2, <2>1 DEF SlotInv, TypeOK, SlotsTellTheTruth
<1> QED BY <1>1, <1>2

LEMMA RollBackSlotInv ==
  ASSUME SlotInv, RollBack
  PROVE  SlotInv'
<1>1. CASE Rollback /\ state' = "RolledBack"
  <2>1. TypeOK'
    BY <1>1, RollbackSlots
    DEF RollBack, SlotInv, TypeOK, ConsumeFailure, Operations, States
  <2>2. SlotsTellTheTruth' /\ StagedIsWritten'
    BY <1>1, RollbackSlots DEF SlotsTellTheTruth, StagedIsWritten
  <2> QED BY <2>1, <2>2 DEF SlotInv
<1>2. CASE UNCHANGED backendVars /\ state' = "Failed"
  <2>1. TypeOK'
    BY <1>2 DEF RollBack, SlotInv, TypeOK, ConsumeFailure, Operations, States, backendVars
  <2> QED BY <1>2, <2>1 DEF SlotInv, SlotsTellTheTruth, StagedIsWritten, backendVars
<1> QED BY <1>1, <1>2 DEF RollBack

LEMMA StageSlotInv ==
  ASSUME SlotInv, StagePackage
  PROVE  SlotInv'
<1>1. package \in Packages /\ failNext' \in Operations \cup {None}
  BY DEF StagePackage, SlotInv, TypeOK, ConsumeFailure
<1>2. CASE CanInstall(package) /\ InstallInactive(package) /\ state' = "Staged"
  <2>1. /\ contents' = [contents EXCEPT ![Other(activeSlot)] = package]
        /\ Other(activeSlot) \in Slots /\ Other(activeSlot) # activeSlot
        /\ UNCHANGED <<activeSlot, pendingSlot, active, previous, bootAttempts>>
        /\ inInactive' = package /\ pendingSlot = None
    BY <1>2, OtherSlot DEF CanInstall, InstallInactive, SlotInv, TypeOK
  <2>2. TypeOK'
    BY <1>1, <1>2, <2>1 DEF StagePackage, SlotInv, TypeOK, States
  <2>3. /\ contents'[activeSlot] = contents[activeSlot]
        /\ contents'[Other(activeSlot)] = package
    BY <2>1 DEF SlotInv, TypeOK
  <2>4. SlotsTellTheTruth' /\ StagedIsWritten'
    BY <1>1, <2>1, <2>3, NoneIsNoPackage
    DEF SlotInv, SlotsTellTheTruth, StagedIsWritten
  <2> QED BY <2>2, <2>4 DEF SlotInv
<1>3. CASE UNCHANGED backendVars /\ state' = "Failed"
  <2>1. TypeOK'
    BY <1>1, <1>3 DEF StagePackage, SlotInv, TypeOK, States, backendVars
  <2> QED BY <1>3, <2>1 DEF SlotInv, SlotsTellTheTruth, StagedIsWritten, backendVars
<1> QED BY <1>2, <1>3 DEF StagePackage

LEMMA ActivateSlotInv ==
  ASSUME SlotInv, NEW allowed \in BOOLEAN, Activate(allowed)
  PROVE  SlotInv'
<1>1. failNext' \in Operations \cup {None}
  BY DEF Activate, ConsumeFailure, SlotInv, TypeOK
<1>2. CASE CanActivate /\ ActivatePending /\ state' = "PendingHealthConfirmation" /\ boots' = 0
  <2>1. /\ previous' = active /\ active' = inInactive
        /\ activeSlot' = Other(activeSlot) /\ pendingSlot' = Other(activeSlot)
        /\ bootAttempts' = MaxBootAttempts /\ UNCHANGED <<inInactive, contents>>
        /\ inInactive # None
    BY <1>2 DEF ActivatePending, CanActivate
  <2>2. pendingSlot = None /\ contents[Other(activeSlot)] = inInactive
    BY DEF Activate, SlotInv, StagedIsWritten
  <2>3. Other(activeSlot) \in Slots /\ Other(Other(activeSlot)) = activeSlot
    BY OtherSlot DEF SlotInv, TypeOK
  <2>4. TypeOK'
    BY <1>1, <1>2, <2>1, <2>3, PolicyAssumption DEF Activate, SlotInv, TypeOK, States
  <2>5. SlotsTellTheTruth' /\ StagedIsWritten'
    BY <1>2, <2>1, <2>2, <2>3, NoneIsNoPackage
    DEF SlotInv, TypeOK, SlotsTellTheTruth, StagedIsWritten
  <2> QED BY <2>4, <2>5 DEF SlotInv
<1>3. CASE state' \in {"Rejected", "Failed"} /\ UNCHANGED <<backendVars, boots>>
  <2>1. TypeOK'
    BY <1>1, <1>3 DEF Activate, SlotInv, TypeOK, States, backendVars
  <2> QED BY <1>3, <2>1 DEF SlotInv, SlotsTellTheTruth, StagedIsWritten, backendVars
<1> QED BY <1>2, <1>3 DEF Activate

LEMMA ConfirmSlotInv ==
  ASSUME SlotInv, NEW confirmed \in BOOLEAN, ConfirmHealth(confirmed)
  PROVE  SlotInv'
<1>1. CASE ~confirmed
  BY <1>1, RollBackSlotInv DEF ConfirmHealth
<1>2. CASE confirmed
  <2>1. /\ failNext' \in Operations \cup {None}
        /\ UNCHANGED <<package, boots>>
    BY <1>2 DEF ConfirmHealth, ConsumeFailure, SlotInv, TypeOK
  <2>2. CASE /\ Commit /\ state' = "Committed"
             /\ installed' = IF package = None THEN installed
                             ELSE [installed EXCEPT ![package.cluster] = package.version]
    <3>1. installed' \in [Clusters -> 0 .. 99]
      <4>1. package # None => package.cluster \in Clusters /\ package.version \in 0 .. 99
        BY PackagesAssumption DEF SlotInv, TypeOK, Package
      <4> QED BY <2>2, <4>1 DEF SlotInv, TypeOK
    <3>2. TypeOK'
      BY <2>1, <2>2, <3>1, PolicyAssumption DEF Commit, SlotInv, TypeOK, States
    <3> QED BY <2>2, <3>2 DEF Commit, SlotInv, SlotsTellTheTruth, StagedIsWritten
  <2>3. CASE state' = "Failed" /\ UNCHANGED <<installed, backendVars>>
    <3>1. TypeOK'
      BY <2>1, <2>3 DEF SlotInv, TypeOK, States, backendVars
    <3> QED BY <2>3, <3>1 DEF SlotInv, SlotsTellTheTruth, StagedIsWritten, backendVars
  <2> QED BY <1>2, <2>2, <2>3 DEF ConfirmHealth
<1> QED BY <1>1, <1>2

LEMMA NextSlotInv == SlotInv /\ [Next]_vars => SlotInv'
<1> SUFFICES ASSUME SlotInv, [Next]_vars PROVE SlotInv'
  OBVIOUS
<1>1. ASSUME NEW op \in Operations, FailNext(op) PROVE SlotInv'
  BY <1>1 DEF FailNext, SlotInv, TypeOK, SlotsTellTheTruth, StagedIsWritten,
              managerVars, backendVars
<1>2. ASSUME NEW p \in Packages, TransferPackage(p) PROVE SlotInv'
  BY <1>2 DEF TransferPackage, SlotInv, TypeOK, SlotsTellTheTruth, StagedIsWritten,
              States, backendVars
<1>3. CASE VerifyPackage
  BY <1>3 DEF VerifyPackage, SlotInv, TypeOK, SlotsTellTheTruth, StagedIsWritten,
              States, backendVars
<1>4. CASE Restart
  BY <1>4, PolicyAssumption
  DEF Restart, SlotInv, TypeOK, SlotsTellTheTruth, StagedIsWritten, States, backendVars
<1>5. CASE UNCHANGED vars
  BY <1>5 DEF vars, SlotInv, TypeOK, SlotsTellTheTruth, StagedIsWritten
<1> QED
  BY <1>1, <1>2, <1>3, <1>4, <1>5, StageSlotInv, ActivateSlotInv, ConfirmSlotInv,
     RollBackSlotInv
  DEF Next, AbortAndRollback

LEMMA SlotInvariant == Spec => []SlotInv
  BY InitSlotInv, NextSlotInv, PTL DEF Spec

(* Every reachable state of the manager and its backend is well typed.       *)
THEOREM UpdateTypeCorrect == Spec => []TypeOK
<1>1. SlotInv => TypeOK
  BY DEF SlotInv
<1> QED BY SlotInvariant, <1>1, PTL

(* What is recorded of a trial: the package staged is the one that runs then *)
(* and that a confirmation records; the versions recorded are those of the   *)
(* package that a rollback returns to.                                       *)
RecordsAgree ==
  /\ state = "Staged" => inInactive = package
  /\ state = "PendingHealthConfirmation" /\ pendingSlot # None => active = package
  /\ pendingSlot # None => installed[previous.cluster] = previous.version

TrialInv == NoSilentTrial /\ VersionsMatch /\ RecordsAgree

LEMMA RollBackTrialInv ==
  ASSUME SlotInv, TrialInv, RollBack
  PROVE  TrialInv'
<1>1. installed' = installed
  BY DEF RollBack
<1>2. CASE Rollback /\ state' = "RolledBack"
  <2>1. pendingSlot' = None /\ active' = IF pendingSlot = None THEN active ELSE previous
    BY <1>2, RollbackSlots
  <2> QED
    BY <1>1, <1>2, <2>1 DEF TrialInv, NoSilentTrial, VersionsMatch, RecordsAgree
<1>3. CASE UNCHANGED backendVars /\ state' = "Failed"
  BY <1>1, <1>3 DEF TrialInv, NoSilentTrial, VersionsMatch, RecordsAgree, backendVars
<1> QED BY <1>2, <1>3 DEF RollBack

LEMMA StageTrialInv ==
  ASSUME SlotInv, TrialInv, StagePackage
  PROVE  TrialInv'
<1>1. installed' = installed /\ package' = package /\ boots' = boots /\ state = "Verified"
  BY DEF StagePackage
<1>2. CASE CanInstall(package) /\ InstallInactive(package) /\ state' = "Staged"
  BY <1>1, <1>2
  DEF CanInstall, InstallInactive, TrialInv, NoSilentTrial, VersionsMatch, RecordsAgree
<1>3. CASE UNCHANGED backendVars /\ state' = "Failed"
  BY <1>1, <1>3 DEF TrialInv, NoSilentTrial, VersionsMatch, RecordsAgree, backendVars
<1> QED BY <1>2, <1>3 DEF StagePackage

LEMMA ActivateTrialInv ==
  ASSUME SlotInv, TrialInv, NEW allowed \in BOOLEAN, Activate(allowed)
  PROVE  TrialInv'
<1>1. installed' = installed /\ package' = package /\ state = "Staged"
  BY DEF Activate
<1>2. CASE ActivatePending /\ state' = "PendingHealthConfirmation" /\ boots' = 0
  <2>1. previous' = active /\ active' = inInactive /\ pendingSlot' = Other(activeSlot)
    BY <1>2 DEF ActivatePending
  <2>2. pendingSlot = None /\ pendingSlot' # None
    BY <1>1, <2>1, OtherSlot, PackagesAssumption
    DEF SlotInv, TypeOK, StagedIsWritten, Slots, Other
  <2> QED
    BY <1>1, <1>2, <2>1, <2>2 DEF TrialInv, NoSilentTrial, VersionsMatch, RecordsAgree
<1>3. CASE state' \in {"Rejected", "Failed"} /\ UNCHANGED <<backendVars, boots>>
  BY <1>1, <1>3 DEF TrialInv, NoSilentTrial, VersionsMatch, RecordsAgree, backendVars,
                    SlotInv, StagedIsWritten
<1> QED BY <1>2, <1>3 DEF Activate

LEMMA ConfirmTrialInv ==
  ASSUME SlotInv, TrialInv, NEW confirmed \in BOOLEAN, ConfirmHealth(confirmed)
  PROVE  TrialInv'
<1>1. CASE ~confirmed
  BY <1>1, RollBackTrialInv DEF ConfirmHealth
<1>2. CASE confirmed
  <2>1. package' = package /\ boots' = boots /\ state = "PendingHealthConfirmation"
    BY <1>2 DEF ConfirmHealth
  <2>2. CASE /\ CanCommit /\ Commit /\ state' = "Committed"
             /\ installed' = IF package = None THEN installed
                             ELSE [installed EXCEPT ![package.cluster] = package.version]
    <3>1. active = package /\ active # None /\ active' = active
      BY <2>1, <2>2, NoneIsNoPackage
      DEF CanCommit, Commit, TrialInv, RecordsAgree, SlotInv, TypeOK
    <3>2. active.cluster \in Clusters
      BY PackagesAssumption DEF SlotInv, TypeOK, Package
    <3>3. installed'[active.cluster] = active.version
      BY <2>2, <3>1, <3>2 DEF SlotInv, TypeOK
    <3> QED
      BY <2>2, <3>1, <3>3
      DEF Commit, TrialInv, NoSilentTrial, VersionsMatch, RecordsAgree
  <2>3. CASE state' = "Failed" /\ UNCHANGED <<installed, backendVars>>
    BY <2>1, <2>3 DEF TrialInv, NoSilentTrial, VersionsMatch, RecordsAgree, backendVars
  <2> QED BY <1>2, <2>2, <2>3 DEF ConfirmHealth
<1> QED BY <1>1, <1>2

LEMMA InitTrialInv == Init => TrialInv
<1>1. Factory.cluster \in Clusters
  BY PackagesAssumption DEF Package
<1> QED BY <1>1 DEF Init, TrialInv, NoSilentTrial, VersionsMatch, RecordsAgree

LEMMA NextTrialInv == SlotInv /\ TrialInv /\ [Next]_vars => TrialInv'
<1> SUFFICES ASSUME SlotInv, TrialInv, [Next]_vars PROVE TrialInv'
  OBVIOUS
<1> USE DEF TrialInv, NoSilentTrial, VersionsMatch, RecordsAgree
<1>1. ASSUME NEW op \in Operations, FailNext(op) PROVE TrialInv'
  BY <1>1 DEF FailNext, managerVars, backendVars
<1>2. ASSUME NEW p \in Packages, TransferPackage(p) PROVE TrialInv'
  BY <1>2 DEF TransferPackage, backendVars
<1>3. CASE VerifyPackage
  BY <1>3 DEF VerifyPackage, backendVars
<1>4. CASE Restart
  BY <1>4, PolicyAssumption DEF Restart, backendVars, SlotInv, TypeOK
<1>5. CASE UNCHANGED vars
  BY <1>5 DEF vars
<1> QED
  BY <1>1, <1>2, <1>3, <1>4, <1>5, StageTrialInv, ActivateTrialInv, ConfirmTrialInv,
     RollBackTrialInv
  DEF Next, AbortAndRollback

(* What runs, what is on trial and what is recorded agree: no trial is       *)
(* silent, its way back is kept, and without one the version recorded is the *)
(* one that runs.                                                            *)
THEOREM TrialsCorrect == Spec => []TrialsAreSafe
<1>1. Spec => []SlotInv
  BY SlotInvariant
<1>2. Spec => []TrialInv
  BY <1>1, InitTrialInv, NextTrialInv, PTL DEF Spec
<1>3. SlotInv /\ TrialInv => TrialsAreSafe
  BY DEF SlotInv, TrialInv, TrialsAreSafe
<1> QED BY <1>1, <1>2, <1>3, PTL

(* An abort whose backend call does not fail always ends the trial on the    *)
(* last confirmed package.                                                   *)
THEOREM AbortCorrect == Spec => AbortRecovers
<1>1. ASSUME SlotInv, AbortAndRollback, failNext # "Rollback"
      PROVE  /\ pendingSlot' = None /\ state' = "RolledBack"
             /\ active' = IF pendingSlot = None THEN active ELSE previous
  <2>1. Rollback /\ state' = "RolledBack"
    BY <1>1 DEF AbortAndRollback, RollBack, FailureDue
  <2> QED BY <1>1, <2>1, RollbackSlots
<1>2. SlotInv /\ [Next]_vars =>
        [AbortAndRollback /\ failNext # "Rollback" =>
           /\ pendingSlot' = None /\ state' = "RolledBack"
           /\ active' = IF pendingSlot = None THEN active ELSE previous]_vars
  BY <1>1
<1> QED BY SlotInvariant, <1>2, PTL DEF Spec, AbortRecovers

LEMMA InitAB == Init => AB!Init
  BY DEF Init, AB!Init

LEMMA NextAB ==
  ASSUME SlotInv, SlotInv', [Next]_vars
  PROVE  [AB!Next]_(<<active, IF pendingSlot = None THEN None ELSE previous>>)
<1> DEFINE fallback == IF pendingSlot = None THEN None ELSE previous
<1>1. CASE Rollback
  <2>1. /\ pendingSlot' = None
        /\ active' = IF pendingSlot = None THEN active ELSE previous
    BY <1>1, RollbackSlots
  <2>2. pendingSlot # None => previous # None
    BY DEF SlotInv, SlotsTellTheTruth
  <2> QED BY <2>1, <2>2 DEF AB!Next, AB!Revert
<1>2. ASSUME NEW allowed \in BOOLEAN, Activate(allowed), ActivatePending
      PROVE  AB!Next
  <2>1. pendingSlot = None /\ inInactive \in Packages \cup {Factory}
    BY <1>2 DEF Activate, SlotInv, StagedIsWritten, TypeOK
  <2>2. /\ active' = inInactive /\ previous' = active
        /\ pendingSlot' # None
    BY <1>2, PackagesAssumption, OtherSlot
    DEF ActivatePending, SlotInv, SlotsTellTheTruth, StagedIsWritten, TypeOK
  <2> QED BY <2>1, <2>2 DEF AB!Next, AB!Try
<1>3. ASSUME NEW confirmed \in BOOLEAN, ConfirmHealth(confirmed), CanCommit, Commit
      PROVE  AB!Next
  <2>1. pendingSlot # None /\ previous # None
    BY <1>3 DEF CanCommit, SlotInv, SlotsTellTheTruth
  <2> QED BY <1>3, <2>1 DEF Commit, AB!Next, AB!Confirm
<1>4. CASE UNCHANGED <<active, pendingSlot, previous>>
  BY <1>4
<1> QED
  BY <1>1, <1>2, <1>3, <1>4
  DEF Next, vars, FailNext, TransferPackage, VerifyPackage, StagePackage, InstallInactive,
      Activate, ConfirmHealth, AbortAndRollback, RollBack, Restart, backendVars

(* The manager's slots implement the A/B update: every trial keeps its       *)
(* fallback, and ends confirmed or reverted.                                 *)
THEOREM UpdateImplementsAB == Spec => UpdatesAreAB
<1>1. Spec => []SlotInv
  BY SlotInvariant
<1> QED BY <1>1, InitAB, NextAB, PTL DEF Spec, UpdatesAreAB, AB!Spec

-----------------------------------------------------------------------------
(* The time manager.                                                         *)

Drift == AbsoluteDifference(snapshot.global, origin + snapshot.monotonic)

TimeInv ==
  /\ TimeTypeOK
  /\ hasSample => syncs > 0
  /\ ~hasSample => syncs = 0
  /\ jumpPolicy = "Reject" /\ hasSample => Drift <= (syncs - 1) * JumpThreshold

LEMMA InitTimeInv == TimeInit => TimeInv
<1> SUFFICES ASSUME TimeInit PROVE TimeInv
  OBVIOUS
<1>1. ~hasSample /\ hasSample \in BOOLEAN /\ syncs = 0
  BY DEF TimeInit
<1>2. TimeTypeOK
  <2>1. /\ virtualNow \in 0 .. MaxMonotonic /\ jumpPolicy \in JumpPolicies
        /\ origin \in Int /\ syncs \in 0 .. MaxSyncs
    BY TimeAssumption DEF TimeInit
  <2>2. 0 \in 0 .. virtualNow
    BY DEF TimeInit
  <2>3. snapshot \in [monotonic : 0 .. virtualNow, global : Int, synchronized : BOOLEAN,
                      quality : {"Unsynchronized", "Synchronized", "Degraded", "LostSync"}]
    BY <2>2 DEF TimeInit
  <2> QED BY <1>1, <2>1, <2>3 DEF TimeTypeOK
<1> QED BY <1>1, <1>2 DEF TimeInv

LEMMA ObserveTimeInv ==
  ASSUME TimeInv,
         NEW monotonic \in 0 .. virtualNow, NEW global \in GlobalTimes,
         NEW uncertainty \in Uncertainties,
         ObserveTimeSync(monotonic, global, uncertainty)
  PROVE  TimeInv'
<1>1. /\ virtualNow' = virtualNow /\ jumpPolicy' = jumpPolicy
      /\ virtualNow \in 0 .. MaxMonotonic /\ jumpPolicy \in JumpPolicies
      /\ syncs \in 0 .. MaxSyncs /\ syncs < MaxSyncs /\ syncs' = syncs + 1
      /\ hasSample \in BOOLEAN /\ hasSample' = TRUE
      /\ snapshot.monotonic \in Int /\ snapshot.global \in Int /\ origin \in Int
      /\ monotonic \in Int /\ global \in Int
      /\ origin' = IF hasSample THEN origin ELSE global - monotonic
      /\ Jumps(monotonic, global) => jumpPolicy # "Reject"
  BY TimeAssumption DEF ObserveTimeSync, TimeInv, TimeTypeOK
<1>2. /\ snapshot'.monotonic = monotonic /\ snapshot'.global = global
      /\ snapshot' \in [monotonic : 0 .. virtualNow, global : Int, synchronized : BOOLEAN,
                        quality : {"Unsynchronized", "Synchronized", "Degraded", "LostSync"}]
  BY <1>1 DEF ObserveTimeSync
<1>3. TimeTypeOK'
  BY <1>1, <1>2, TimeAssumption DEF TimeTypeOK
<1>4. syncs' > 0
  BY <1>1, TimeAssumption
<1>5. ASSUME jumpPolicy = "Reject" PROVE Drift' <= (syncs' - 1) * JumpThreshold
  <2>1. CASE ~hasSample
    <3>1. Drift' = 0
      BY <1>1, <1>2, <2>1 DEF Drift, AbsoluteDifference
    <3>2. syncs' - 1 = 0
      BY <1>1, <2>1, TimeAssumption DEF TimeInv
    <3> QED BY <3>1, <3>2, TimeAssumption
  <2>2. CASE hasSample
    <3>1. AbsoluteDifference(global, Expected(monotonic)) <= JumpThreshold
      BY <1>1, <1>5, <2>2, TimeAssumption DEF Jumps, Expected, AbsoluteDifference
    <3>2. Drift' <= Drift + JumpThreshold
      BY <1>1, <1>2, <2>2, <3>1, TimeAssumption DEF Drift, Expected, AbsoluteDifference
    <3>3. Drift <= (syncs - 1) * JumpThreshold /\ Drift \in Int /\ Drift' \in Int
      BY <1>1, <1>2, <1>5, <2>2 DEF TimeInv, Drift, AbsoluteDifference
    <3>4. (syncs - 1) * JumpThreshold + JumpThreshold = (syncs' - 1) * JumpThreshold
      BY <1>1, TimeAssumption
    <3>5. (syncs - 1) * JumpThreshold \in Int
      BY <1>1, TimeAssumption
    <3> HIDE DEF Drift
    <3> QED BY <3>2, <3>3, <3>4, <3>5, TimeAssumption
  <2> QED BY <1>1, <2>1, <2>2
<1> QED BY <1>1, <1>3, <1>4, <1>5 DEF TimeInv

LEMMA NextTimeInv == TimeInv /\ [TimeNext]_timeVars => TimeInv'
<1> SUFFICES ASSUME TimeInv, [TimeNext]_timeVars PROVE TimeInv'
  OBVIOUS
<1>1. ASSUME NEW next \in 0 .. MaxMonotonic, AdvanceTo(next) PROVE TimeInv'
  BY <1>1, TimeAssumption DEF AdvanceTo, TimeInv, TimeTypeOK, Drift
<1>2. ASSUME NEW monotonic \in 0 .. virtualNow, EvaluateLossOfSync(monotonic) PROVE TimeInv'
  BY <1>2, TimeAssumption DEF EvaluateLossOfSync, TimeInv, TimeTypeOK, Drift
<1>3. CASE UNCHANGED timeVars
  BY <1>3 DEF timeVars, TimeInv, TimeTypeOK, Drift
<1> QED BY <1>1, <1>2, <1>3, ObserveTimeInv DEF TimeNext

LEMMA TimeInvariant == TimeSpec => []TimeInv
  BY InitTimeInv, NextTimeInv, PTL DEF TimeSpec

(* Every reachable state of a clock domain is well typed.                    *)
THEOREM TimeTypeCorrect == TimeSpec => []TimeTypeOK
<1>1. TimeInv => TimeTypeOK
  BY DEF TimeInv
<1> QED BY TimeInvariant, <1>1, PTL

(* The time of a domain that rejects jumps stays on the line of its first    *)
(* sample but for a threshold for each sample accepted since.                *)
THEOREM DriftCorrect == TimeSpec => []DriftIsBounded
<1>1. ASSUME TimeInv, jumpPolicy = "Reject", hasSample
      PROVE  LET drift == snapshot.global - (origin + snapshot.monotonic)
                 bound == (syncs - 1) * JumpThreshold
             IN  drift <= bound /\ - drift <= bound
  <2>1. snapshot.global \in Int /\ origin \in Int /\ snapshot.monotonic \in Int
    BY <1>1 DEF TimeInv, TimeTypeOK
  <2>2. (syncs - 1) * JumpThreshold \in Int
    BY <1>1, TimeAssumption DEF TimeInv, TimeTypeOK
  <2> QED BY <1>1, <2>1, <2>2 DEF TimeInv, Drift, AbsoluteDifference
<1>2. TimeInv => DriftIsBounded
  BY <1>1 DEF DriftIsBounded
<1> QED BY TimeInvariant, <1>2, PTL

-----------------------------------------------------------------------------
(* The network manager.                                                      *)

(* An endpoint id stands for one policy; a plan was built for endpoints that *)
(* are still registered, and holds a rule for each that it did not reject.   *)
PoliciesInv ==
  /\ endpoints \in Seq(Endpoints)
  /\ \A i, j \in DOMAIN endpoints : endpoints[i].id = endpoints[j].id => i = j
  /\ \A id \in planned : \E i \in DOMAIN endpoints : endpoints[i].id = id
  /\ \A i \in DOMAIN endpoints :
       endpoints[i].id \in planned \ rejected => RuleFor(endpoints[i]) \in plan

LEMMA RegisterPolicies ==
  ASSUME PoliciesInv, NEW e \in Endpoints, RegisterEndpointPolicy(e)
  PROVE  PoliciesInv'
<1>1. /\ endpoints' = Append(endpoints, e) /\ UNCHANGED <<planned, rejected, plan>>
      /\ endpoints \in Seq(Endpoints)
  BY DEF RegisterEndpointPolicy, PoliciesInv
<1>2. /\ endpoints' \in Seq(Endpoints) /\ Len(endpoints') = Len(endpoints) + 1
      /\ endpoints'[Len(endpoints) + 1] = e
      /\ \A i \in 1 .. Len(endpoints) : endpoints'[i] = endpoints[i]
  BY <1>1
<1>3. /\ DOMAIN endpoints = 1 .. Len(endpoints) /\ Len(endpoints) \in Nat
      /\ DOMAIN endpoints' = 1 .. Len(endpoints) + 1
  BY <1>1, <1>2
<1>4. \A i \in DOMAIN endpoints : endpoints[i].id # e.id
  BY DEF RegisterEndpointPolicy, EndpointWith, ToSet
<1>5. \A i, j \in DOMAIN endpoints' : endpoints'[i].id = endpoints'[j].id => i = j
  BY <1>2, <1>3, <1>4 DEF PoliciesInv
<1>6. \A id \in planned' : \E i \in DOMAIN endpoints' : endpoints'[i].id = id
  BY <1>1, <1>2, <1>3 DEF PoliciesInv
<1>7. e.id \notin planned
  BY <1>4 DEF PoliciesInv
<1>8. ASSUME NEW i \in DOMAIN endpoints', endpoints'[i].id \in planned' \ rejected'
      PROVE  RuleFor(endpoints'[i]) \in plan'
  <2>1. i \in 1 .. Len(endpoints) /\ endpoints'[i] = endpoints[i]
    BY <1>1, <1>2, <1>3, <1>7, <1>8
  <2> QED BY <1>1, <1>3, <1>8, <2>1 DEF PoliciesInv
<1> QED BY <1>2, <1>5, <1>6, <1>8 DEF PoliciesInv

LEMMA PlanPolicies ==
  ASSUME PoliciesInv, BuildFirewallPlan
  PROVE  PoliciesInv'
<1>1. /\ endpoints' = endpoints
      /\ plan' = {RuleFor(e) : e \in {f \in ToSet(endpoints) : f.id \in installs}}
      /\ rejected' = {e.id : e \in {f \in ToSet(endpoints) : f.id \notin installs}}
      /\ planned' = {e.id : e \in ToSet(endpoints)}
  BY DEF BuildFirewallPlan, PlannedEndpoints, AuthorizeFirewallRule
<1>2. \A i \in DOMAIN endpoints : endpoints[i] \in ToSet(endpoints)
  BY DEF ToSet
<1>3. \A id \in planned' : \E i \in DOMAIN endpoints : endpoints[i].id = id
  BY <1>1 DEF ToSet
<1>4. ASSUME NEW i \in DOMAIN endpoints, endpoints[i].id \notin rejected'
      PROVE  RuleFor(endpoints[i]) \in plan'
  BY <1>1, <1>2, <1>4
<1> QED BY <1>1, <1>3, <1>4 DEF PoliciesInv

LEMMA PoliciesInvariant == NetSpec => []PoliciesInv
<1>1. NetInit => PoliciesInv
  BY DEF NetInit, PoliciesInv
<1>2. PoliciesInv /\ [NetNext]_netVars => PoliciesInv'
  <2> SUFFICES ASSUME PoliciesInv, [NetNext]_netVars PROVE PoliciesInv'
    OBVIOUS
  <2>1. ASSUME UNCHANGED <<endpoints, plan, rejected, planned>> PROVE PoliciesInv'
    BY <2>1 DEF PoliciesInv
  <2>2. ASSUME NEW policy \in Interfaces, RegisterInterface(policy) PROVE PoliciesInv'
    BY <2>1, <2>2 DEF RegisterInterface
  <2>3. ASSUME NEW policy \in Interfaces, NEW next \in InterfaceStates,
               UpdateInterfaceState(policy.name, next)
        PROVE  PoliciesInv'
    BY <2>1, <2>3 DEF UpdateInterfaceState
  <2>4. ASSUME NEW ids, SetFirewallAuthorization(ids) PROVE PoliciesInv'
    BY <2>1, <2>4 DEF SetFirewallAuthorization
  <2>5. CASE UNCHANGED netVars
    BY <2>1, <2>5 DEF netVars
  <2> QED BY <2>2, <2>3, <2>4, <2>5, RegisterPolicies, PlanPolicies DEF NetNext
<1> QED BY <1>1, <1>2, PTL DEF NetSpec

(* What Evaluate allows has a rule in the plan that BuildFirewallPlan *)
(* made, also when the interface came up after it.                           *)
THEOREM AllowedOpenCorrect == NetSpec => []AllowedIsOpen
<1>1. ASSUME PoliciesInv, NEW r \in Requirements, NEW e \in ToSet(endpoints),
             e.id = r.endpoint, Evaluate(r), r.endpoint \in planned \ rejected
      PROVE  \E rule \in plan : Admits(rule, e, r)
  <2>1. PICK i \in DOMAIN endpoints : e = endpoints[i]
    BY <1>1 DEF ToSet
  <2>2. PICK j \in DOMAIN endpoints : endpoints[j].id = r.endpoint /\ Allows(endpoints[j], r)
    BY <1>1 DEF Evaluate, EndpointWith, ToSet
  <2>3. Allows(e, r)
    BY <1>1, <2>1, <2>2 DEF PoliciesInv
  <2>4. RuleFor(e) \in plan
    BY <1>1, <2>1 DEF PoliciesInv
  <2>5. Admits(RuleFor(e), e, r)
    BY <2>3 DEF Allows, Admits, RuleFor, Ports
  <2> QED BY <2>4, <2>5
<1>2. PoliciesInv => AllowedIsOpen
  BY <1>1 DEF AllowedIsOpen
<1> QED BY <1>2, PoliciesInvariant, PTL

-----------------------------------------------------------------------------
(* The diagnostic manager.                                                   *)

(* The first refusing check gives the answer, and without one it is positive. *)
LEMMA FirstRefusalMeans ==
  ASSUME NEW checks, DOMAIN checks \subseteq 1 .. 5,
         \A i \in DOMAIN checks : checks[i].code # "Positive"
  PROVE  /\ FirstRefusal(checks) = "Positive" => \A i \in DOMAIN checks : ~checks[i].refused
         /\ FirstRefusal(checks) # "Positive" =>
              \E i \in DOMAIN checks : checks[i].refused /\ checks[i].code = FirstRefusal(checks)
<1> DEFINE refusing == {i \in DOMAIN checks : checks[i].refused}
<1>1. ASSUME refusing # {} PROVE Min(refusing) \in refusing
  <2>1. \E x \in refusing : \A y \in refusing : x <= y
    <3>1. refusing \subseteq 1 .. 5
      OBVIOUS
    <3> HIDE DEF refusing
    <3>2. 1 .. 5 = {1, 2, 3, 4, 5}
      OBVIOUS
    <3>3. CASE 1 \in refusing
      BY <3>1, <3>2, <3>3
    <3>4. CASE 1 \notin refusing /\ 2 \in refusing
      BY <3>1, <3>2, <3>4
    <3>5. CASE 1 \notin refusing /\ 2 \notin refusing /\ 3 \in refusing
      BY <3>1, <3>2, <3>5
    <3>6. CASE 1 \notin refusing /\ 2 \notin refusing /\ 3 \notin refusing /\ 4 \in refusing
      BY <3>1, <3>2, <3>6
    <3>7. CASE /\ 1 \notin refusing /\ 2 \notin refusing /\ 3 \notin refusing
               /\ 4 \notin refusing
      <4>1. PICK x \in refusing : TRUE
        BY <1>1
      <4>2. \A y \in refusing : y = 5
        BY <3>1, <3>2, <3>7
      <4> QED BY <4>1, <4>2
    <3> QED BY <3>3, <3>4, <3>5, <3>6, <3>7
  <2> QED BY <2>1 DEF Min
<1>2. CASE refusing = {}
  BY <1>2 DEF FirstRefusal
<1>3. CASE refusing # {}
  <2>1. FirstRefusal(checks) = checks[Min(refusing)].code
    BY <1>3 DEF FirstRefusal
  <2> QED BY <1>1, <1>3, <2>1
<1> QED BY <1>2, <1>3

LEMMA ClearAnswers ==
  ASSUME NEW r, HandleRequest(r) = ClearDiagnosticInformation(r)
  PROVE  /\ HandleRequest(r) = "Positive" => unlocked
         /\ HandleRequest(r) = "SecurityAccessDenied" => ~unlocked \/ "ClearDtc" \notin granted
         /\ HandleRequest(r) # "Nothing"
<1> DEFINE checks == <<
      Check(~unlocked \/ ~AuthorizeDiagnosticAccess("ClearDtc"), "SecurityAccessDenied"),
      Check(r.length # 3, "IncorrectMessageLength"),
      Check(r.code \notin DOMAIN memory \cup {AllGroups}, "RequestOutOfRange")>>
<1>1. HandleRequest(r) = FirstRefusal(checks)
  BY DEF ClearDiagnosticInformation
<1>2. /\ DOMAIN checks = 1 .. 3
      /\ checks[1].refused = (~unlocked \/ "ClearDtc" \notin granted)
      /\ checks[1].code = "SecurityAccessDenied"
      /\ checks[2].code = "IncorrectMessageLength" /\ checks[3].code = "RequestOutOfRange"
  BY DEF Check, AuthorizeDiagnosticAccess
<1> HIDE DEF checks
<1>3. /\ DOMAIN checks \subseteq 1 .. 5 /\ 1 \in DOMAIN checks
      /\ \A i \in DOMAIN checks : i = 1 \/ i = 2 \/ i = 3
  BY <1>2
<1>4. \A i \in DOMAIN checks : checks[i].code # "Positive"
  BY <1>2, <1>3
<1>5. /\ FirstRefusal(checks) = "Positive" => ~checks[1].refused
      /\ FirstRefusal(checks) = "SecurityAccessDenied" => checks[1].refused
      /\ FirstRefusal(checks) # "Nothing"
  BY <1>2, <1>3, <1>4, FirstRefusalMeans
<1> QED BY <1>1, <1>2, <1>5

LEMMA RoutineAnswers ==
  ASSUME NEW r, HandleRequest(r) = RoutineControl(r)
  PROVE  /\ HandleRequest(r) = "Positive" => unlocked /\ session # "Default"
         /\ HandleRequest(r) = "SecurityAccessDenied" =>
              ~unlocked \/ "RoutineControl" \notin granted
         /\ HandleRequest(r) # "Nothing"
<1> DEFINE checks == <<
      Check(session = "Default", "ConditionsNotCorrect"),
      Check(~unlocked \/ ~AuthorizeDiagnosticAccess("RoutineControl"), "SecurityAccessDenied"),
      Check(r.length < 3, "IncorrectMessageLength"),
      Check(r.sub = "unknown", "SubFunctionNotSupported"),
      Check(r.routine \notin runnable, "RequestOutOfRange")>>
<1>1. HandleRequest(r) = FirstRefusal(checks)
  BY DEF RoutineControl
<1>2. /\ DOMAIN checks = 1 .. 5
      /\ checks[1].refused = (session = "Default") /\ checks[1].code = "ConditionsNotCorrect"
      /\ checks[2].refused = (~unlocked \/ "RoutineControl" \notin granted)
      /\ checks[2].code = "SecurityAccessDenied"
      /\ checks[3].code = "IncorrectMessageLength" /\ checks[4].code = "SubFunctionNotSupported"
      /\ checks[5].code = "RequestOutOfRange"
  BY DEF Check, AuthorizeDiagnosticAccess
<1> HIDE DEF checks
<1>3. /\ 1 \in DOMAIN checks /\ 2 \in DOMAIN checks
      /\ \A i \in DOMAIN checks : i = 1 \/ i = 2 \/ i = 3 \/ i = 4 \/ i = 5
  BY <1>2
<1>4. \A i \in DOMAIN checks : checks[i].code # "Positive"
  BY <1>2, <1>3
<1>5. /\ FirstRefusal(checks) = "Positive" => ~checks[1].refused /\ ~checks[2].refused
      /\ FirstRefusal(checks) = "SecurityAccessDenied" => checks[2].refused
      /\ FirstRefusal(checks) # "Nothing"
  BY <1>2, <1>3, <1>4, FirstRefusalMeans
<1> QED BY <1>1, <1>2, <1>5

(* The lock is open exactly when a tester earned it.                         *)
LockInv == unlocked \in BOOLEAN /\ earned \in BOOLEAN /\ (unlocked <=> earned)

LEMMA LockStep ==
  ASSUME LockInv, [DiaNext]_diaVars
  PROVE  LockInv'
<1>1. CASE \E r \in Requests : HandleCanRequest(r)
  <2>1. PICK r \in Requests : HandleCanRequest(r)
    BY <1>1
  <2> DEFINE positive == HandleRequest(r) = "Positive"
             chooses == positive /\ r.service = "SessionControl"
             opens == positive /\ r.service = "SecurityAccess" /\ r.sub = "sendKey"
  <2>2. /\ unlocked' = ((unlocked \/ opens) /\ ~(chooses /\ Relocks(r)))
        /\ earned' = ((earned \/ opens) /\ ~chooses)
    BY <2>1 DEF HandleCanRequest
  <2> HIDE DEF chooses, opens
  <2>3. unlocked' = ((unlocked \/ opens) /\ ~chooses)
    BY <2>2 DEF Relocks
  <2> QED BY <2>2, <2>3, Zenon DEF LockInv
<1>2. CASE UNCHANGED <<unlocked, earned>>
  BY <1>2 DEF LockInv
<1> QED
  BY <1>1, <1>2 DEF DiaNext, diaVars, RegisterContribution, ReportDtc, ClearDtc,
                    SetAuthorizationPolicy

(* A request for a protected service, in the states the lock allows.         *)
LEMMA ProtectedRequest ==
  ASSUME LockInv, NEW r \in Requests, HandleCanRequest(r)
  PROVE  /\ r.service \in {"ClearDtc", "RoutineControl"} =>
              /\ exchange'.response \in {"Positive", "Nothing"} =>
                   earned /\ (r.service = "RoutineControl" => session # "Default")
              /\ exchange'.response = "SecurityAccessDenied" =>
                   ~earned \/ r.service \notin granted
         /\ ~(DOMAIN memory \subseteq DOMAIN memory') => earned /\ r.service = "ClearDtc"
<1>1. exchange' = [service |-> r.service,
                   response |-> IF Fits(r) THEN HandleRequest(r) ELSE "Nothing"]
  BY DEF HandleCanRequest
<1>2. ~Fits(r) => HandleRequest(r) = "Positive"
  BY DiagnosticsAssumption DEF Fits, ResponseBytes, DiagnosticsAssumption
<1>3. ASSUME r.service = "ClearDtc" PROVE HandleRequest(r) = ClearDiagnosticInformation(r)
  BY <1>3 DEF HandleRequest
<1>4. ASSUME r.service = "RoutineControl" PROVE HandleRequest(r) = RoutineControl(r)
  BY <1>4 DEF HandleRequest
<1>5. ASSUME r.service = "ClearDtc"
      PROVE  /\ exchange'.response \in {"Positive", "Nothing"} => earned
             /\ exchange'.response = "SecurityAccessDenied" => ~earned \/ r.service \notin granted
  BY <1>1, <1>2, <1>3, <1>5, ClearAnswers DEF LockInv
<1>6. ASSUME r.service = "RoutineControl"
      PROVE  /\ exchange'.response \in {"Positive", "Nothing"} => earned /\ session # "Default"
             /\ exchange'.response = "SecurityAccessDenied" => ~earned \/ r.service \notin granted
  BY <1>1, <1>2, <1>4, <1>6, RoutineAnswers DEF LockInv
<1>7. ASSUME ~(DOMAIN memory \subseteq DOMAIN memory')
      PROVE  earned /\ r.service = "ClearDtc"
  <2>1. HandleRequest(r) = "Positive" /\ r.service = "ClearDtc"
    BY <1>7 DEF HandleCanRequest
  <2> QED BY <1>3, <2>1, ClearAnswers DEF LockInv
<1> QED BY <1>5, <1>6, <1>7

(* However several testers, applications and policy changes interleave over  *)
(* the one session and the one lock, only a right key with a grant, given    *)
(* since the last choice of a session, lets a tester clear codes or start a  *)
(* routine, and no tester is denied who has both that and the grant for the  *)
(* operation (HandleCanRequest, HandleRequest).                              *)
THEOREM ProtectedCorrect == DiaSpec => ProtectedServices
<1>1. DiaInit => LockInv
  BY DEF DiaInit, LockInv
<1>2. LockInv /\ [DiaNext]_diaVars => LockInv'
  BY LockStep
<1>3. LockInv /\ [DiaNext]_diaVars =>
      [/\ exchange' # exchange /\ exchange'.service \in {"ClearDtc", "RoutineControl"} =>
            /\ exchange'.response \in {"Positive", "Nothing"} =>
                 earned /\ (exchange'.service = "RoutineControl" => session # "Default")
            /\ exchange'.response = "SecurityAccessDenied" =>
                 ~earned \/ exchange'.service \notin granted
       /\ exchange' # exchange /\ ~(DOMAIN memory \subseteq DOMAIN memory') =>
            earned /\ exchange'.service = "ClearDtc"]_diaVars
  <2> SUFFICES ASSUME LockInv, DiaNext, exchange' # exchange
               PROVE  /\ exchange'.service \in {"ClearDtc", "RoutineControl"} =>
                          /\ exchange'.response \in {"Positive", "Nothing"} =>
                               earned /\ (exchange'.service = "RoutineControl" => session # "Default")
                          /\ exchange'.response = "SecurityAccessDenied" =>
                               ~earned \/ exchange'.service \notin granted
                      /\ ~(DOMAIN memory \subseteq DOMAIN memory') =>
                          earned /\ exchange'.service = "ClearDtc"
    OBVIOUS
  <2>1. PICK r \in Requests : HandleCanRequest(r)
    BY DEF DiaNext, RegisterContribution, ReportDtc, ClearDtc, SetAuthorizationPolicy
  <2>2. exchange'.service = r.service
    BY <2>1 DEF HandleCanRequest
  <2> QED BY <2>1, <2>2, ProtectedRequest
<1> QED BY <1>1, <1>2, <1>3, PTL DEF DiaSpec, ProtectedServices
=============================================================================
