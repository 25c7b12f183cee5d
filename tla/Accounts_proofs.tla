--------------------------- MODULE Accounts_proofs ---------------------------
(***************************************************************************)
(* Theorems about what is kept and added up, for every keys, values, events *)
(* and limits.  The key-value store: what is acknowledged is kept, losses   *)
(* are accounted for, memory stays within the quota, and without faults     *)
(* only a restore can leave a store that does not open again.  The gateway: *)
(* every refusal is counted in an event that was kept or made room.  The    *)
(* intrusion detection manager: every event is counted once, in a record    *)
(* kept or dropped.                                                         *)
(***************************************************************************)
EXTENDS KeyValueStore, ApiGateway, Idsm, FiniteSetTheorems, WellFoundedInduction, TLAPS

-----------------------------------------------------------------------------
(* Sums.                                                                     *)

(* Every set of natural numbers has a least one.                             *)
LEMMA LeastNumber ==
  ASSUME NEW T \in SUBSET Nat, T # {}
  PROVE  \E n \in T : \A m \in T : n <= m
<1> DEFINE R == OpToRel(<, Nat)
<1>1. IsWellFoundedOn(R, Nat)
  BY NatLessThanWellFounded
<1>2. \A m, n \in Nat : m < n => <<m, n>> \in R
  BY DEF OpToRel
<1> HIDE DEF R
<1>3. \E x \in T : \A y \in T : ~ (<<y, x>> \in R)
  BY <1>1, WFMin
<1>4. PICK x \in T : \A y \in T : ~ (<<y, x>> \in R)
  BY <1>3
<1>5. \A y \in T : ~ (y < x)
  BY <1>2, <1>4
<1> QED BY <1>5

LEMMA LeastChosen ==
  ASSUME NEW T \in SUBSET Nat, T # {}
  PROVE  Min(T) \in T /\ \A m \in T : Min(T) <= m
<1>1. \E n \in T : \A m \in T : n <= m
  BY LeastNumber
<1> QED BY <1>1 DEF Min

(* A set that 0 starts and that goes on from each number holds them all.     *)
LEMMA NumbersAreReached ==
  ASSUME NEW S \in SUBSET Nat, 0 \in S, \A n \in S : n + 1 \in S
  PROVE  S = Nat
<1> DEFINE T == Nat \ S
<1>1. ASSUME T # {} PROVE FALSE
  <2>1. PICK n \in T : \A m \in T : n <= m
    BY <1>1, LeastNumber
  <2>2. n # 0 /\ n - 1 \in Nat /\ n - 1 \notin T
    BY <2>1
  <2>3. (n - 1) + 1 \in S
    BY <2>2
  <2> QED BY <2>1, <2>3
<1> QED BY <1>1

(* f adds up h, number by number.                                            *)
AddsUp(f, h, n) ==
  /\ n \in Nat /\ \A k \in 1 .. n : h[k] \in Int
  /\ f \in [0 .. n -> Int] /\ f[0] = 0
  /\ \A k \in 1 .. n : f[k] = f[k - 1] + h[k]

LEMMA AddsUpExists ==
  ASSUME NEW n \in Nat, NEW h, \A k \in 1 .. n : h[k] \in Int
  PROVE  \E f : AddsUp(f, h, n)
<1> DEFINE N == {m \in Nat : m <= n => \E f : AddsUp(f, h, m)}
<1>1. 0 \in N
  <2>1. AddsUp([k \in 0 .. 0 |-> 0], h, 0)
    BY DEF AddsUp
  <2> QED BY <2>1
<1>2. ASSUME NEW m \in N PROVE m + 1 \in N
  <2> SUFFICES ASSUME m + 1 <= n PROVE \E f : AddsUp(f, h, m + 1)
    OBVIOUS
  <2>1. m \in Nat /\ m <= n /\ m + 1 \in 1 .. n
    OBVIOUS
  <2>2. PICK f : AddsUp(f, h, m)
    BY <2>1
  <2> DEFINE g == [k \in 0 .. m + 1 |-> IF k = m + 1 THEN f[m] + h[k] ELSE f[k]]
  <2>3. f[m] \in Int /\ h[m + 1] \in Int
    BY <2>1, <2>2 DEF AddsUp
  <2>4. g \in [0 .. m + 1 -> Int] /\ g[0] = 0
    BY <2>1, <2>2, <2>3 DEF AddsUp
  <2>5. ASSUME NEW k \in 1 .. m + 1 PROVE g[k] = g[k - 1] + h[k]
    BY <2>1, <2>2, <2>5 DEF AddsUp
  <2> HIDE DEF g
  <2>6. AddsUp(g, h, m + 1)
    BY <2>1, <2>4, <2>5 DEF AddsUp
  <2> QED BY <2>6
<1> HIDE DEF N
<1>3. N = Nat
  <2>1. N \in SUBSET Nat
    BY DEF N
  <2> QED BY <1>1, <1>2, <2>1, NumbersAreReached
<1>4. n \in N
  BY <1>3
<1> QED BY <1>4 DEF N

(* Where the addends differ in one place, the sums differ by as much.        *)
SameBut(h, g, j, n) == j \in 1 .. n /\ \A k \in 1 .. n : k # j => h[k] = g[k]

LEMMA AddsUpExcept ==
  ASSUME NEW n, NEW m, NEW h, NEW g, NEW j, NEW f, NEW e,
         AddsUp(f, h, n), AddsUp(e, g, m), n <= m, SameBut(h, g, j, n)
  PROVE  f[n] = e[n] + (h[j] - g[j])
<1>0. /\ n \in Nat /\ m \in Nat /\ \A k \in 1 .. n : h[k] \in Int
      /\ \A k \in 1 .. m : g[k] \in Int
      /\ j \in 1 .. n /\ \A k \in 1 .. n : k # j => h[k] = g[k]
  BY DEF AddsUp, SameBut
<1> DEFINE N == {k \in Nat : k <= n => f[k] = e[k] + IF k >= j THEN h[j] - g[j] ELSE 0}
<1>1. 0 \in N
  BY <1>0 DEF AddsUp
<1>2. ASSUME NEW k \in N PROVE k + 1 \in N
  <2> SUFFICES ASSUME k + 1 <= n
               PROVE  f[k + 1] = e[k + 1] + IF k + 1 >= j THEN h[j] - g[j] ELSE 0
    OBVIOUS
  <2>1. /\ k \in Nat /\ k + 1 \in 1 .. n /\ k + 1 \in 1 .. m /\ (k + 1) - 1 = k
        /\ k \in 0 .. n /\ k \in 0 .. m /\ j \in 1 .. m
    BY <1>0
  <2>2. f[k] = e[k] + IF k >= j THEN h[j] - g[j] ELSE 0
    BY <2>1
  <2>3. f[k + 1] = f[k] + h[k + 1] /\ e[k + 1] = e[k] + g[k + 1]
    BY <2>1 DEF AddsUp
  <2>4. f[k] \in Int /\ e[k] \in Int
    BY <2>1 DEF AddsUp
  <2>5. h[k + 1] \in Int /\ g[k + 1] \in Int /\ h[j] \in Int /\ g[j] \in Int
    BY <1>0, <2>1
  <2>6. k + 1 # j => h[k + 1] = g[k + 1]
    BY <1>0, <2>1
  <2> HIDE DEF N
  <2>7. CASE k + 1 = j
    <3>1. ~(k >= j) /\ k + 1 >= j
      BY <1>0, <2>1, <2>7
    <3>2. f[k] = e[k]
      BY <2>2, <2>4, <3>1
    <3>3. f[k + 1] = e[k + 1] + (h[j] - g[j])
      BY <2>3, <2>4, <2>5, <2>7, <3>2
    <3> QED BY <3>1, <3>3
  <2>8. CASE k + 1 # j
    <3>1. k >= j <=> k + 1 >= j
      BY <1>0, <2>1, <2>8
    <3> QED BY <1>0, <2>2, <2>3, <2>4, <2>5, <2>6, <2>8, <3>1
  <2> QED BY <2>7, <2>8
<1> HIDE DEF N
<1>3. N = Nat
  <2>1. N \in SUBSET Nat
    BY DEF N
  <2> QED BY <1>1, <1>2, <2>1, NumbersAreReached
<1>4. n \in N /\ n >= j
  BY <1>0, <1>3
<1> QED BY <1>4 DEF N

(* As far as the addends are the same, the sums are.                         *)
LEMMA AddsUpSame ==
  ASSUME NEW n, NEW m, NEW h, NEW g, NEW f, NEW e,
         AddsUp(f, h, n), AddsUp(e, g, m), n <= m, \A k \in 1 .. n : h[k] = g[k]
  PROVE  f[n] = e[n]
<1>0. n \in Nat /\ m \in Nat /\ \A k \in 1 .. n : h[k] \in Int
  BY DEF AddsUp
<1>1. CASE n = 0
  BY <1>1 DEF AddsUp
<1>2. CASE n # 0
  <2>1. n \in 1 .. n /\ h[n] = g[n] /\ h[n] \in Int
    BY <1>0, <1>2
  <2>2. SameBut(h, g, n, n)
    BY <2>1 DEF SameBut
  <2>3. f[n] = e[n] + (h[n] - g[n])
    BY <2>2, AddsUpExcept
  <2>4. e[n] \in Int
    BY <1>0 DEF AddsUp
  <2> QED BY <2>1, <2>3, <2>4
<1> QED BY <1>1, <1>2

(* Without its first addend a sum is less by as much.                        *)
TailOf(h, g, n) == \A k \in 1 .. n : h[k] = g[k + 1]

LEMMA AddsUpTail ==
  ASSUME NEW n, NEW m, NEW h, NEW g, NEW f, NEW e, AddsUp(f, h, n), AddsUp(e, g, m),
         m = n + 1, TailOf(h, g, n)
  PROVE  f[n] = e[m] - g[1]
<1> DEFINE N == {k \in Nat : k <= n => f[k] = e[k + 1] - g[1]}
<1>0. /\ n \in Nat /\ 1 \in 1 .. n + 1 /\ 0 \in 0 .. n + 1 /\ 1 - 1 = 0
      /\ g[1] \in Int /\ \A k \in 1 .. n + 1 : g[k] \in Int
  BY DEF AddsUp
<1>1. 0 \in N
  <2>1. e[1] = e[0] + g[1] /\ e[0] = 0 /\ f[0] = 0
    BY <1>0 DEF AddsUp
  <2> QED BY <1>0, <2>1
<1>2. ASSUME NEW k \in N PROVE k + 1 \in N
  <2> SUFFICES ASSUME k + 1 <= n PROVE f[k + 1] = e[(k + 1) + 1] - g[1]
    OBVIOUS
  <2>1. /\ k \in Nat /\ k + 1 \in 1 .. n /\ (k + 1) - 1 = k
        /\ (k + 1) + 1 \in 1 .. n + 1 /\ ((k + 1) + 1) - 1 = k + 1
        /\ k \in 0 .. n /\ k + 1 \in 0 .. n + 1
    BY <1>0
  <2>2. f[k] = e[k + 1] - g[1]
    BY <2>1
  <2>3. f[k + 1] = f[k] + h[k + 1] /\ e[(k + 1) + 1] = e[k + 1] + g[(k + 1) + 1]
    BY <2>1 DEF AddsUp
  <2>4. f[k] \in Int /\ e[k + 1] \in Int /\ g[(k + 1) + 1] \in Int
    BY <2>1 DEF AddsUp
  <2>5. h[k + 1] = g[(k + 1) + 1]
    BY <2>1 DEF TailOf
  <2> HIDE DEF N
  <2> QED BY <1>0, <2>2, <2>3, <2>4, <2>5
<1> HIDE DEF N
<1>3. N = Nat
  <2>1. N \in SUBSET Nat
    BY DEF N
  <2> QED BY <1>1, <1>2, <2>1, NumbersAreReached
<1>4. n \in N
  BY <1>0, <1>3
<1> QED BY <1>0, <1>4 DEF N

-----------------------------------------------------------------------------
(* Sums over sets: what the folds of the models add up.                      *)

(* f goes through D, each member once.                                       *)
Enumerates(f, D, n) ==
  /\ n \in Nat /\ f \in [1 .. n -> D]
  /\ \A x \in D : \E i \in 1 .. n : f[i] = x
  /\ \A i, j \in 1 .. n : f[i] = f[j] => i = j

AnyOf(s) == CHOOSE x \in s : TRUE

(* g is the sum of w over each subset of S, as a fold takes it.              *)
SumsUp(g, S, w) ==
  g = [s \in SUBSET S |-> IF s = {} THEN 0 ELSE w[AnyOf(s)] + g[s \ {AnyOf(s)}]]

AddendsIn(w, f, n, s) == [i \in 1 .. n |-> IF f[i] \in s THEN w[f[i]] ELSE 0]

(* The sum over a set, in whatever order, is the sum along an enumeration    *)
(* with nothing in the places left out.                                      *)
LEMMA SumsAlong ==
  ASSUME NEW D, IsFiniteSet(D), NEW n, NEW f, Enumerates(f, D, n),
         NEW S \in SUBSET D, NEW w, \A x \in S : w[x] \in Int
  PROVE  /\ \E g : SumsUp(g, S, w)
         /\ \A g, a : SumsUp(g, S, w) /\ AddsUp(a, AddendsIn(w, f, n, S), n) => g[S] = a[n]
<1> DEFINE Part(s, e) == AddsUp(e, AddendsIn(w, f, n, s), n)
           G(s) == (CHOOSE e : Part(s, e))[n]
<1>1. n \in Nat /\ n <= n
  BY DEF Enumerates
<1>2. ASSUME NEW s \in SUBSET S PROVE \A k \in 1 .. n : AddendsIn(w, f, n, s)[k] \in Int
  BY DEF AddendsIn
<1>3. ASSUME NEW s \in SUBSET S PROVE Part(s, CHOOSE e : Part(s, e))
  <2>1. \E e : Part(s, e)
    BY <1>1, <1>2, AddsUpExists
  <2> QED BY <2>1
<1>4. ASSUME NEW s \in SUBSET S, NEW x \in s PROVE G(s) = w[x] + G(s \ {x})
  <2> DEFINE a == CHOOSE e : Part(s, e)
             b == CHOOSE e : Part(s \ {x}, e)
             h == AddendsIn(w, f, n, s)
             g == AddendsIn(w, f, n, s \ {x})
  <2>1. AddsUp(a, h, n) /\ AddsUp(b, g, n)
    BY <1>3
  <2>2. PICK i \in 1 .. n : f[i] = x
    BY DEF Enumerates
  <2>3. h[i] = w[x] /\ g[i] = 0
    BY <2>2 DEF AddendsIn
  <2>4. SameBut(h, g, i, n)
    <3>1. \A k \in 1 .. n : k # i => f[k] # x
      BY <2>2 DEF Enumerates
    <3> QED BY <2>2, <3>1 DEF AddendsIn, SameBut
  <2> HIDE DEF a, b, h, g
  <2>5. a[n] = b[n] + (h[i] - g[i])
    BY <1>1, <2>1, <2>4, AddsUpExcept
  <2>6. b[n] \in Int /\ w[x] \in Int
    BY <1>1, <2>1 DEF AddsUp
  <2>7. a[n] = w[x] + b[n]
    BY <2>3, <2>5, <2>6
  <2> QED BY <2>7 DEF a, b
<1>5. G({}) = 0
  <2> DEFINE z == [k \in 0 .. n |-> 0]
             a == CHOOSE e : Part({}, e)
  <2>1. AddsUp(z, AddendsIn(w, f, n, {}), n) /\ z[n] = 0
    BY <1>1 DEF AddsUp, AddendsIn
  <2>2. AddsUp(a, AddendsIn(w, f, n, {}), n)
    BY <1>3
  <2> HIDE DEF z, a
  <2>3. a[n] = z[n]
    BY <1>1, <2>1, <2>2, AddsUpSame
  <2> QED BY <2>1, <2>3 DEF a
<1>6. ASSUME NEW s \in SUBSET S, s # {} PROVE AnyOf(s) \in s
  BY <1>6 DEF AnyOf
<1>7. ASSUME NEW a, AddsUp(a, AddendsIn(w, f, n, S), n) PROVE G(S) = a[n]
  <2> DEFINE b == CHOOSE e : Part(S, e)
  <2>1. AddsUp(b, AddendsIn(w, f, n, S), n)
    BY <1>3
  <2> HIDE DEF b
  <2>2. b[n] = a[n]
    BY <1>1, <1>7, <2>1, AddsUpSame
  <2> QED BY <2>2 DEF b
<1> HIDE DEF G
<1>8. \E g : SumsUp(g, S, w)
  <2> DEFINE g == [s \in SUBSET S |-> G(s)]
  <2>1. ASSUME NEW s \in SUBSET S
        PROVE  g[s] = IF s = {} THEN 0 ELSE w[AnyOf(s)] + g[s \ {AnyOf(s)}]
    <3>1. CASE s = {}
      BY <1>5, <3>1
    <3>2. CASE s # {}
      <4>1. s \ {AnyOf(s)} \in SUBSET S /\ AnyOf(s) \in s
        BY <1>6, <3>2
      <4>2. G(s) = w[AnyOf(s)] + G(s \ {AnyOf(s)})
        BY <1>4, <4>1
      <4> QED BY <3>2, <4>1, <4>2
    <3> QED BY <3>1, <3>2
  <2>2. g = [s \in SUBSET S |-> g[s]]
    OBVIOUS
  <2> HIDE DEF g
  <2>3. SumsUp(g, S, w)
    BY <2>1, <2>2 DEF SumsUp
  <2> QED BY <2>3
<1>9. ASSUME NEW g, SumsUp(g, S, w) PROVE g[S] = G(S)
  <2>1. ASSUME NEW s \in SUBSET S
        PROVE  g[s] = IF s = {} THEN 0 ELSE w[AnyOf(s)] + g[s \ {AnyOf(s)}]
    BY <1>9 DEF SumsUp
  <2> DEFINE N == {m \in Nat : \A s \in SUBSET S : Cardinality(s) = m => g[s] = G(s)}
  <2>2. ASSUME NEW s \in SUBSET S PROVE IsFiniteSet(s)
    BY FS_Subset
  <2>3. 0 \in N
    <3>1. ASSUME NEW s \in SUBSET S, Cardinality(s) = 0 PROVE g[s] = G(s)
      <4>1. s = {}
        BY <2>2, <3>1, FS_EmptySet
      <4> QED BY <1>5, <2>1, <4>1
    <3> QED BY <3>1
  <2>4. ASSUME NEW m \in N PROVE m + 1 \in N
    <3>1. m \in Nat /\ \A s \in SUBSET S : Cardinality(s) = m => g[s] = G(s)
      OBVIOUS
    <3> HIDE DEF N
    <3>2. ASSUME NEW s \in SUBSET S, Cardinality(s) = m + 1 PROVE g[s] = G(s)
      <4>1. s # {}
        <5>1. Cardinality({}) = 0 /\ m + 1 # 0
          BY <3>1, FS_EmptySet
        <5> QED BY <3>2, <5>1
      <4> DEFINE x == AnyOf(s)
      <4>2. x \in s /\ s \ {x} \in SUBSET S
        BY <1>6, <4>1
      <4> HIDE DEF x
      <4>3. Cardinality(s \ {x}) = m
        <5>1. Cardinality(s \ {x}) = Cardinality(s) - 1
          BY <2>2, <4>2, FS_RemoveElement
        <5> QED BY <3>1, <3>2, <5>1
      <4>4. g[s \ {x}] = G(s \ {x})
        BY <3>1, <4>2, <4>3
      <4>5. g[s] = w[x] + g[s \ {x}]
        BY <2>1, <4>1 DEF x
      <4>6. G(s) = w[x] + G(s \ {x})
        BY <1>4, <4>2
      <4> QED BY <4>4, <4>5, <4>6
    <3> QED BY <3>1, <3>2 DEF N
  <2> HIDE DEF N
  <2>5. N = Nat
    <3>1. N \in SUBSET Nat
      BY DEF N
    <3> QED BY <2>3, <2>4, <3>1, NumbersAreReached
  <2>6. Cardinality(S) \in N
    <3>1. Cardinality(S) \in Nat
      BY <2>2, FS_CardinalityType
    <3> QED BY <2>5, <3>1
  <2> QED BY <2>6 DEF N
<1> QED BY <1>7, <1>8, <1>9

-----------------------------------------------------------------------------
(* What is counted in a sequence of records, as the states sum it up.        *)

TotalCount(recs) == MapThenSumSet(LAMBDA i : recs[i].count, DOMAIN recs)

Counted(R) == \A r \in R : r.count \in Int
CountsIn(recs) == [i \in 1 .. Len(recs) |-> recs[i].count]

LEMMA TotalAddsUp ==
  ASSUME NEW R, Counted(R), NEW recs \in Seq(R), NEW a, AddsUp(a, CountsIn(recs), Len(recs))
  PROVE  TotalCount(recs) = a[Len(recs)]
<1> DEFINE n == Len(recs)
           D == DOMAIN recs
           w == CountsIn(recs)
           f == [i \in 1 .. n |-> i]
           Folds(g) == g = [s \in SUBSET D |->
                              IF s = {} THEN 0 ELSE recs[AnyOf(s)].count + g[s \ {AnyOf(s)}]]
<1>1. n \in Nat /\ D = 1 .. n /\ IsFiniteSet(D) /\ \A i \in D : recs[i].count \in Int
  <2>1. n \in Nat /\ D = 1 .. n /\ \A i \in D : recs[i].count \in Int
    BY DEF Counted
  <2>2. IsFiniteSet(1 .. n)
    BY <2>1, FS_Interval
  <2> QED BY <2>1, <2>2
<1>2. Enumerates(f, D, n) /\ AddendsIn(w, f, n, D) = w /\ \A i \in D : w[i] \in Int
  BY <1>1 DEF Enumerates, AddendsIn, CountsIn
<1>3. ASSUME NEW g PROVE SumsUp(g, D, w) <=> Folds(g)
  <2>1. ASSUME NEW s \in SUBSET D
        PROVE  (IF s = {} THEN 0 ELSE w[AnyOf(s)] + g[s \ {AnyOf(s)}])
                 = IF s = {} THEN 0 ELSE recs[AnyOf(s)].count + g[s \ {AnyOf(s)}]
    <3>1. s # {} => AnyOf(s) \in D
      BY DEF AnyOf
    <3> QED BY <1>1, <3>1 DEF CountsIn
  <2>2. [s \in SUBSET D |-> IF s = {} THEN 0 ELSE w[AnyOf(s)] + g[s \ {AnyOf(s)}]]
          = [s \in SUBSET D |-> IF s = {} THEN 0 ELSE recs[AnyOf(s)].count + g[s \ {AnyOf(s)}]]
    BY <2>1
  <2> QED BY <2>2 DEF SumsUp
<1>4. TotalCount(recs) = (CHOOSE g : Folds(g))[D]
  BY DEF TotalCount, MapThenSumSet, MapThenFoldSet, AnyOf
<1> HIDE DEF Folds, D, w, f, n
<1>5. /\ \E g : SumsUp(g, D, w)
      /\ \A g : SumsUp(g, D, w) => g[D] = a[n]
  <2>1. AddsUp(a, AddendsIn(w, f, n, D), n)
    BY <1>2 DEF w, n
  <2>2. /\ IsFiniteSet(D) /\ Enumerates(f, D, n)
        /\ D \in SUBSET D /\ \A i \in D : w[i] \in Int
    BY <1>1, <1>2
  <2> QED BY <2>1, <2>2, SumsAlong
<1>6. Folds(CHOOSE g : Folds(g))
  BY <1>3, <1>5
<1> QED BY <1>3, <1>4, <1>5, <1>6 DEF n

LEMMA TotalFound ==
  ASSUME NEW R, Counted(R), NEW recs \in Seq(R)
  PROVE  \E f : /\ AddsUp(f, CountsIn(recs), Len(recs))
                /\ TotalCount(recs) = f[Len(recs)] /\ TotalCount(recs) \in Int
<1>1. Len(recs) \in Nat /\ \A k \in 1 .. Len(recs) : CountsIn(recs)[k] \in Int
  BY DEF Counted, CountsIn
<1>2. PICK f : AddsUp(f, CountsIn(recs), Len(recs))
  BY <1>1, AddsUpExists
<1>3. f[Len(recs)] \in Int
  BY <1>1, <1>2 DEF AddsUp
<1> QED BY <1>2, <1>3, TotalAddsUp

(* What an operation on the records makes of their total.                    *)
LEMMA TotalOfNone ==
  ASSUME NEW R, Counted(R)
  PROVE  TotalCount(<<>>) = 0
<1>1. <<>> \in Seq(R) /\ Len(<<>>) = 0
  OBVIOUS
<1>2. PICK f : AddsUp(f, CountsIn(<<>>), 0) /\ TotalCount(<<>>) = f[0]
  BY <1>1, TotalFound
<1> QED BY <1>2 DEF AddsUp

LEMMA TotalOfAppend ==
  ASSUME NEW R, Counted(R), NEW recs \in Seq(R), NEW r \in R
  PROVE  TotalCount(Append(recs, r)) = TotalCount(recs) + r.count
<1> DEFINE more == Append(recs, r)
           n == Len(recs)
<1>1. more \in Seq(R) /\ Len(more) = n + 1 /\ n \in Nat /\ r.count \in Int
      /\ more[n + 1] = r /\ \A k \in 1 .. n : more[k] = recs[k]
  BY DEF Counted
<1>2. PICK f : AddsUp(f, CountsIn(recs), n) /\ TotalCount(recs) = f[n]
  BY TotalFound
<1> HIDE DEF more
<1>3. PICK e : AddsUp(e, CountsIn(more), n + 1) /\ TotalCount(more) = e[n + 1]
  BY <1>1, TotalFound
<1>4. /\ \A k \in 1 .. n : CountsIn(recs)[k] = CountsIn(more)[k]
      /\ CountsIn(more)[n + 1] = r.count
  BY <1>1 DEF CountsIn
<1>5. f[n] = e[n]
  BY <1>1, <1>2, <1>3, <1>4, AddsUpSame
<1>6. e[n + 1] = e[n] + r.count
  <2>1. n + 1 \in 1 .. n + 1 /\ (n + 1) - 1 = n
    BY <1>1
  <2>2. \A k \in 1 .. n + 1 : e[k] = e[k - 1] + CountsIn(more)[k]
    BY <1>3 DEF AddsUp
  <2>3. e[n + 1] = e[n] + CountsIn(more)[n + 1]
    BY <2>1, <2>2
  <2> QED BY <1>4, <2>3
<1> QED BY <1>2, <1>3, <1>5, <1>6 DEF more

LEMMA TotalOfTail ==
  ASSUME NEW R, Counted(R), NEW recs \in Seq(R), recs # <<>>
  PROVE  TotalCount(Tail(recs)) = TotalCount(recs) - Head(recs).count
<1> DEFINE rest == Tail(recs)
           n == Len(rest)
           m == Len(recs)
<1>1. rest \in Seq(R) /\ m = n + 1 /\ n \in Nat
      /\ recs[1] = Head(recs) /\ \A k \in 1 .. n : rest[k] = recs[k + 1]
  OBVIOUS
<1> HIDE DEF rest
<1>2. PICK f : AddsUp(f, CountsIn(rest), n) /\ TotalCount(rest) = f[n]
  BY <1>1, TotalFound
<1>3. PICK e : AddsUp(e, CountsIn(recs), m) /\ TotalCount(recs) = e[m]
  BY TotalFound
<1>4. TailOf(CountsIn(rest), CountsIn(recs), n) /\ CountsIn(recs)[1] = Head(recs).count
  BY <1>1 DEF CountsIn, TailOf
<1> HIDE DEF m, n
<1>5. f[n] = e[m] - CountsIn(recs)[1]
  <2>1. AddsUp(f, CountsIn(rest), n) /\ AddsUp(e, CountsIn(recs), m)
    BY <1>2, <1>3
  <2>2. m = n + 1 /\ TailOf(CountsIn(rest), CountsIn(recs), n)
    BY <1>1, <1>4
  <2> QED BY <2>1, <2>2, AddsUpTail
<1> QED BY <1>2, <1>3, <1>4, <1>5 DEF rest

LEMMA TotalOfExcept ==
  ASSUME NEW R, Counted(R), NEW recs \in Seq(R), NEW i \in DOMAIN recs, NEW r \in R
  PROVE  TotalCount([recs EXCEPT ![i] = r]) = TotalCount(recs) + (r.count - recs[i].count)
<1> DEFINE new == [recs EXCEPT ![i] = r]
           n == Len(recs)
<1>1. new \in Seq(R) /\ Len(new) = n /\ n \in Nat /\ i \in 1 .. n
      /\ new[i] = r /\ \A k \in 1 .. n : k # i => new[k] = recs[k]
  OBVIOUS
<1> HIDE DEF new
<1>2. PICK f : AddsUp(f, CountsIn(new), n) /\ TotalCount(new) = f[n]
  BY <1>1, TotalFound
<1>3. PICK e : AddsUp(e, CountsIn(recs), n) /\ TotalCount(recs) = e[n]
  BY <1>1, TotalFound
<1>4. /\ SameBut(CountsIn(new), CountsIn(recs), i, n) /\ n <= n
      /\ CountsIn(new)[i] = r.count /\ CountsIn(recs)[i] = recs[i].count
  BY <1>1 DEF CountsIn, SameBut
<1> HIDE DEF n
<1>5. f[n] = e[n] + (CountsIn(new)[i] - CountsIn(recs)[i])
  BY <1>2, <1>3, <1>4, AddsUpExcept
<1> QED BY <1>2, <1>3, <1>4, <1>5 DEF new

(* Natural counts have a natural total, no less than any of them.            *)
LEMMA TotalNatural ==
  ASSUME NEW R, \A r \in R : r.count \in Nat, NEW s \in Seq(R)
  PROVE  TotalCount(s) \in Nat
<1>0. Counted(R)
  BY DEF Counted
<1> DEFINE n == Len(s)
<1>1. PICK f : AddsUp(f, CountsIn(s), n) /\ TotalCount(s) = f[n]
  BY <1>0, TotalFound
<1>2. n \in Nat /\ \A k \in 1 .. n : CountsIn(s)[k] \in Nat
  BY DEF CountsIn
<1> HIDE DEF n
<1> DEFINE N == {k \in Nat : k <= n => f[k] \in Nat}
<1>3. 0 \in N
  BY <1>1 DEF AddsUp
<1>4. ASSUME NEW k \in N PROVE k + 1 \in N
  <2> SUFFICES ASSUME k + 1 <= n PROVE f[k + 1] \in Nat
    OBVIOUS
  <2>1. k \in Nat /\ k <= n /\ k + 1 \in 1 .. n /\ (k + 1) - 1 = k
    BY <1>2
  <2>2. f[k] \in Nat /\ CountsIn(s)[k + 1] \in Nat
    BY <1>2, <2>1
  <2>3. f[k + 1] = f[k] + CountsIn(s)[k + 1]
    BY <1>1, <2>1 DEF AddsUp
  <2> QED BY <2>2, <2>3
<1> HIDE DEF N
<1>5. N = Nat
  <2>1. N \in SUBSET Nat
    BY DEF N
  <2> QED BY <1>3, <1>4, <2>1, NumbersAreReached
<1>6. n \in N
  BY <1>2, <1>5
<1> QED BY <1>1, <1>2, <1>6 DEF N

LEMMA TotalBounds ==
  ASSUME NEW R, \A r \in R : r.count \in Nat, NEW recs \in Seq(R), NEW i \in DOMAIN recs
  PROVE  recs[i].count <= TotalCount(recs)
<1> DEFINE z == [count |-> 0]
           T == R \cup {z}
           s == [recs EXCEPT ![i] = z]
<1>1. (\A r \in T : r.count \in Nat) /\ z \in T /\ recs \in Seq(T) /\ s \in Seq(T)
  OBVIOUS
<1>2. z.count = 0 /\ recs[i] \in R
  OBVIOUS
<1> HIDE DEF z, T
<1>3. Counted(T)
  BY <1>1 DEF Counted
<1>4. TotalCount(s) = TotalCount(recs) + (z.count - recs[i].count)
  BY <1>1, <1>3, TotalOfExcept
<1> HIDE DEF s
<1>5. TotalCount(s) \in Nat /\ TotalCount(recs) \in Nat
  BY <1>1, TotalNatural
<1> QED BY <1>2, <1>4, <1>5

-----------------------------------------------------------------------------
(* What a table of the key-value store takes.                                *)

SizeOf(entry) == IF entry \in {Nothing} \cup Damaged THEN 0 ELSE entry.value
SizesIn(table, f, n) == [i \in 1 .. n |-> SizeOf(table[f[i]])]
Tables == [Keys -> Entry \cup {Nothing} \cup Damaged]

LEMMA SizesAre ==
  ASSUME NEW e \in Entry \cup {Nothing} \cup Damaged
  PROVE  SizeOf(e) \in Nat /\ SizeOf(Nothing) = 0
  BY StoreAssumption DEF SizeOf, Entry

LEMMA BytesFound ==
  ASSUME NEW n, NEW f, Enumerates(f, Keys, n), NEW table \in Tables
  PROVE  \E a : AddsUp(a, SizesIn(table, f, n), n) /\ Bytes(table) = a[n]
<1> DEFINE D == Held(table)
           w == [k \in Keys |-> SizeOf(table[k])]
           Folds(g) == g = [s \in SUBSET D |->
                              IF s = {} THEN 0 ELSE table[AnyOf(s)].value + g[s \ {AnyOf(s)}]]
<1>1. IsFiniteSet(Keys) /\ D \in SUBSET Keys /\ \A k \in Keys : w[k] \in Int
  BY StoreAssumption, SizesAre DEF Held, Tables
<1>2. \A k \in D : w[k] = table[k].value
  BY DEF Held, SizeOf
<1>3. ASSUME NEW g PROVE SumsUp(g, D, w) <=> Folds(g)
  <2>1. ASSUME NEW s \in SUBSET D
        PROVE  (IF s = {} THEN 0 ELSE w[AnyOf(s)] + g[s \ {AnyOf(s)}])
                 = IF s = {} THEN 0 ELSE table[AnyOf(s)].value + g[s \ {AnyOf(s)}]
    <3>1. s # {} => AnyOf(s) \in D
      BY DEF AnyOf
    <3> QED BY <1>2, <3>1
  <2>2. [s \in SUBSET D |-> IF s = {} THEN 0 ELSE w[AnyOf(s)] + g[s \ {AnyOf(s)}]]
          = [s \in SUBSET D |-> IF s = {} THEN 0 ELSE table[AnyOf(s)].value + g[s \ {AnyOf(s)}]]
    BY <2>1
  <2> QED BY <2>2 DEF SumsUp
<1>4. Bytes(table) = (CHOOSE g : Folds(g))[D]
  BY DEF Bytes, MapThenSumSet, MapThenFoldSet, AnyOf
<1>5. AddendsIn(w, f, n, D) = SizesIn(table, f, n)
  <2>1. ASSUME NEW i \in 1 .. n
        PROVE  (IF f[i] \in D THEN w[f[i]] ELSE 0) = SizeOf(table[f[i]])
    <3>1. f[i] \in Keys
      BY DEF Enumerates
    <3> QED BY <3>1 DEF Held, SizeOf
  <2> QED BY <2>1 DEF AddendsIn, SizesIn
<1> HIDE DEF Folds, D, w
<1>6. PICK a : AddsUp(a, SizesIn(table, f, n), n)
  <2>1. ASSUME NEW i \in 1 .. n PROVE SizesIn(table, f, n)[i] \in Int
    <3>1. table[f[i]] \in Entry \cup {Nothing} \cup Damaged
      BY DEF Enumerates, Tables
    <3> QED BY <3>1, SizesAre DEF SizesIn
  <2>2. n \in Nat
    BY DEF Enumerates
  <2> QED BY <2>1, <2>2, AddsUpExists
<1>7. /\ \E g : SumsUp(g, D, w)
      /\ \A g : SumsUp(g, D, w) => g[D] = a[n]
  <2>1. AddsUp(a, AddendsIn(w, f, n, D), n)
    BY <1>5, <1>6
  <2>2. \A k \in D : w[k] \in Int
    BY <1>1
  <2> QED BY <1>1, <2>1, <2>2, SumsAlong
<1>8. Folds(CHOOSE g : Folds(g))
  BY <1>3, <1>7
<1> QED BY <1>3, <1>4, <1>6, <1>7, <1>8

LEMMA KeysEnumerated == \E n, f : Enumerates(f, Keys, n)
<1>1. PICK n \in Nat : ExistsBijection(1 .. n, Keys)
  BY StoreAssumption, FS_NatBijection
<1>2. PICK f : f \in Bijection(1 .. n, Keys)
  BY <1>1 DEF ExistsBijection
<1>3. Enumerates(f, Keys, n)
  BY <1>2 DEF Enumerates, Bijection, Injection, Surjection, IsInjective
<1> QED BY <1>3

LEMMA BytesOfNone == Bytes(Empty) = 0
<1>1. PICK n, f : Enumerates(f, Keys, n)
  BY KeysEnumerated
<1>2. Empty \in Tables
  BY DEF Empty, Tables
<1>3. PICK a : AddsUp(a, SizesIn(Empty, f, n), n) /\ Bytes(Empty) = a[n]
  BY <1>1, <1>2, BytesFound
<1> DEFINE z == [k \in 0 .. n |-> 0]
<1>4. n \in Nat /\ n <= n /\ \A i \in 1 .. n : SizesIn(Empty, f, n)[i] = 0
  BY <1>1 DEF Enumerates, SizesIn, SizeOf, Empty
<1>5. AddsUp(z, SizesIn(Empty, f, n), n) /\ z[n] = 0
  BY <1>4 DEF AddsUp
<1> HIDE DEF z
<1>6. a[n] = z[n]
  BY <1>3, <1>4, <1>5, AddsUpSame
<1> QED BY <1>3, <1>5, <1>6

(* Tables with the same values take the same.                                *)
LEMMA BytesSame ==
  ASSUME NEW t \in Tables, NEW u \in Tables, \A k \in Keys : SizeOf(t[k]) = SizeOf(u[k])
  PROVE  Bytes(t) = Bytes(u)
<1>1. PICK n, f : Enumerates(f, Keys, n)
  BY KeysEnumerated
<1>2. PICK a : AddsUp(a, SizesIn(t, f, n), n) /\ Bytes(t) = a[n]
  BY <1>1, BytesFound
<1>3. PICK b : AddsUp(b, SizesIn(u, f, n), n) /\ Bytes(u) = b[n]
  BY <1>1, BytesFound
<1>4. n \in Nat /\ n <= n /\ \A i \in 1 .. n : SizesIn(t, f, n)[i] = SizesIn(u, f, n)[i]
  BY <1>1 DEF Enumerates, SizesIn
<1>5. a[n] = b[n]
  BY <1>2, <1>3, <1>4, AddsUpSame
<1> QED BY <1>2, <1>3, <1>5

(* Another entry makes a table differ by what both take.                     *)
LEMMA BytesOfExcept ==
  ASSUME NEW t \in Tables, NEW k \in Keys, NEW e \in Entry \cup {Nothing} \cup Damaged
  PROVE  /\ Bytes([t EXCEPT ![k] = e]) = Bytes(t) + (SizeOf(e) - SizeOf(t[k]))
         /\ Bytes(t) \in Int
<1> DEFINE u == [t EXCEPT ![k] = e]
<1>1. u \in Tables /\ u[k] = e /\ \A j \in Keys : j # k => u[j] = t[j]
  BY DEF Tables
<1> HIDE DEF u
<1>2. PICK n, f : Enumerates(f, Keys, n)
  BY KeysEnumerated
<1>3. PICK a : AddsUp(a, SizesIn(u, f, n), n) /\ Bytes(u) = a[n]
  BY <1>1, <1>2, BytesFound
<1>4. PICK b : AddsUp(b, SizesIn(t, f, n), n) /\ Bytes(t) = b[n]
  BY <1>2, BytesFound
<1>5. PICK i \in 1 .. n : f[i] = k
  BY <1>2 DEF Enumerates
<1>6. SameBut(SizesIn(u, f, n), SizesIn(t, f, n), i, n)
  <2>1. \A j \in 1 .. n : j # i => f[j] # k /\ f[j] \in Keys
    BY <1>2, <1>5 DEF Enumerates
  <2> QED BY <1>1, <1>5, <2>1 DEF SameBut, SizesIn
<1>7. n \in Nat /\ n <= n
  BY <1>2 DEF Enumerates
<1>8. a[n] = b[n] + (SizesIn(u, f, n)[i] - SizesIn(t, f, n)[i])
  BY <1>3, <1>4, <1>6, <1>7, AddsUpExcept
<1>9. SizesIn(u, f, n)[i] = SizeOf(e) /\ SizesIn(t, f, n)[i] = SizeOf(t[k])
  BY <1>1, <1>5 DEF SizesIn
<1>10. b[n] \in Int
  BY <1>4, <1>7 DEF AddsUp
<1> QED BY <1>3, <1>4, <1>8, <1>9, <1>10 DEF u

-----------------------------------------------------------------------------
(* The key-value store.                                                      *)

Shapes ==
  /\ isOpen \in BOOLEAN /\ shut \in BOOLEAN /\ schema \in 1 .. MaxSchema
  /\ entries \in [Keys -> Entry \cup {Nothing}]
  /\ files \in [Keys -> Entry \cup {Nothing} \cup Damaged]
  /\ backup = Nothing \/ backup \in [Keys -> Entry \cup {Nothing}]
  /\ acked \in [Keys -> Values \cup {Nothing}] /\ unsure \subseteq Keys /\ quarantined \subseteq Keys
  /\ writing # Nothing =>
       /\ writing \in [target : {"store", "backup"}, todo : SUBSET Keys,
                       then : {"Return", "Restored", "Clear"}]
       /\ writing.todo \subseteq Held(entries)
       /\ writing.target = "backup" => backup \in [Keys -> Entry \cup {Nothing}]
       /\ isOpen

(* What memory holds of a key that is not in doubt is what was acknowledged; *)
(* only a shutdown leaves out what is on disk.                               *)
MemoryIsAcked ==
  isOpen => \A k \in Keys \ unsure :
    entries[k] # Nothing \/ ~shut => ValueOf(entries[k]) = acked[k]

(* A file of a key that is not in doubt holds what was acknowledged, or it   *)
(* held something and was damaged, and perhaps quarantined since.            *)
FilesAreAcked ==
  \A k \in Keys \ unsure :
    IF files[k] \in Damaged \/ k \in quarantined THEN acked[k] # Nothing
                                           ELSE ValueOf(files[k]) = acked[k]

(* While the store is closed nothing takes the place of a file that an open  *)
(* that failed has quarantined.                                              *)
QuarantinedAreGone ==
  /\ isOpen => quarantined = {}
  /\ \A k \in quarantined : files[k] = Nothing

(* A restore that is under way has acknowledged what it holds in memory, and *)
(* written what it has done.                                                 *)
RestoreIsAcked ==
  writing # Nothing /\ writing.then = "Restored" =>
    /\ writing.target = "store"
    /\ \A k \in Keys : ValueOf(entries[k]) = acked[k]
    /\ \A k \in Held(entries) \ writing.todo :
         files[k] \notin Damaged => ValueOf(files[k]) = acked[k]

StoreInv == Shapes /\ MemoryIsAcked /\ FilesAreAcked /\ RestoreIsAcked /\ QuarantinedAreGone

-----------------------------------------------------------------------------
LEMMA StoreParameters ==
  /\ IsFiniteSet(Keys) /\ Nothing \notin Damaged /\ Nothing \notin Values
  /\ \A e \in Entry : e # Nothing /\ e \notin Damaged /\ e.value \in Values
                      /\ e.schema \in 1 .. MaxSchema
  /\ Configured \in 1 .. MaxSchema
<1>1. /\ IsFiniteSet(Keys) /\ Nothing \notin Damaged
      /\ ({Nothing} \cup Damaged) \cap (Values \cup Entry) = {}
      /\ Configured \in Nat \ {0} /\ MaxSchema \in Nat /\ Configured <= MaxSchema
  BY StoreAssumption DEF Damaged
<1>2. \A e \in Entry : e.value \in Values /\ e.schema \in 1 .. MaxSchema
  BY DEF Entry
<1>3. \A e \in Entry : e # Nothing /\ e \notin Damaged
  BY <1>1
<1>4. Nothing \notin Values /\ Configured \in 1 .. MaxSchema
  BY <1>1
<1> QED BY <1>1, <1>2, <1>3, <1>4

(* What the value of a table's cell can be.                                  *)
LEMMA ValueOfEntry ==
  /\ ValueOf(Nothing) = Nothing /\ \A e \in Damaged : ValueOf(e) = Nothing
  /\ \A e \in Entry : ValueOf(e) = e.value /\ ValueOf(e) \in Values /\ ValueOf(e) # Nothing
BY StoreParameters DEF ValueOf

LEMMA MadeEntry ==
  ASSUME NEW s \in 1 .. MaxSchema, NEW v \in Values
  PROVE  /\ [schema |-> s, value |-> v] \in Entry
         /\ ValueOf([schema |-> s, value |-> v]) = v
<1>1. [schema |-> s, value |-> v] \in Entry
  BY DEF Entry
<1> QED BY <1>1, ValueOfEntry

LEMMA MovedEntry ==
  ASSUME NEW e \in Entry, NEW s \in 1 .. MaxSchema
  PROVE  [e EXCEPT !.schema = s] \in Entry /\ ValueOf([e EXCEPT !.schema = s]) = ValueOf(e)
<1>1. [e EXCEPT !.schema = s] \in Entry /\ [e EXCEPT !.schema = s].value = e.value
  BY DEF Entry
<1> QED BY <1>1, ValueOfEntry

LEMMA HeldKeys ==
  ASSUME NEW table \in [Keys -> Entry \cup {Nothing}]
  PROVE  /\ Held(table) \subseteq Keys
         /\ \A k \in Keys : k \in Held(table) <=> table[k] # Nothing
         /\ \A k \in Held(table) : table[k] \in Entry
BY StoreParameters DEF Held

LEMMA InitStoreInv == StoreInit => StoreInv
BY StoreParameters, ValueOfEntry
DEF StoreInit, StoreInv, Shapes, MemoryIsAcked, FilesAreAcked, RestoreIsAcked, QuarantinedAreGone,
    Empty

-----------------------------------------------------------------------------
LEMMA PutStoreInv ==
  ASSUME StoreInv, NEW k \in Keys, NEW v \in Values, Put(k, v)
  PROVE  StoreInv'
<1> DEFINE entry == [schema |-> schema, value |-> v]
<1>1. CASE UNCHANGED kvsVars
  BY <1>1 DEF kvsVars, storeVars, observers, StoreInv, Shapes, MemoryIsAcked, FilesAreAcked,
              RestoreIsAcked, QuarantinedAreGone, Held, ValueOf
<1>2. CASE ~UNCHANGED kvsVars
  <2>1. /\ writing = Nothing /\ isOpen /\ entry \in Entry /\ ValueOf(entry) = v
        /\ files' = [files EXCEPT ![k] = entry] /\ entries' = [entries EXCEPT ![k] = entry]
        /\ acked' = [acked EXCEPT ![k] = v] /\ unsure' = unsure \ {k}
        /\ UNCHANGED <<isOpen, schema, writing, backup, quarantined, shut>>
    BY <1>2, MadeEntry DEF Put, PutFails, Idle, StoreInv, Shapes
  <2> HIDE DEF entry
  <2>2. Shapes'
    BY <2>1 DEF StoreInv, Shapes
  <2>3. quarantined = {} /\ quarantined' = {} /\ entry # Nothing /\ entry \notin Damaged
    BY <2>1, StoreParameters DEF StoreInv, QuarantinedAreGone
  <2>4. MemoryIsAcked'
    BY <2>1 DEF StoreInv, Shapes, MemoryIsAcked
  <2>5. FilesAreAcked'
    BY <2>1, <2>3 DEF StoreInv, Shapes, FilesAreAcked
  <2> QED BY <2>1, <2>2, <2>3, <2>4, <2>5 DEF StoreInv, RestoreIsAcked, QuarantinedAreGone
<1> QED BY <1>1, <1>2

LEMMA RemoveStoreInv ==
  ASSUME StoreInv, NEW k \in Keys, RemoveKey(k)
  PROVE  StoreInv'
<1>1. /\ writing = Nothing /\ isOpen /\ entries' = [entries EXCEPT ![k] = Nothing]
      /\ \/ /\ files' = [files EXCEPT ![k] = Nothing]
            /\ acked' = [acked EXCEPT ![k] = Nothing]
            /\ unsure' = unsure \ {k}
         \/ unsure' = unsure \cup {k} /\ UNCHANGED <<files, acked>>
      /\ UNCHANGED <<isOpen, schema, writing, backup, quarantined, shut>>
  BY DEF RemoveKey, Idle
<1>2. Shapes'
  BY <1>1 DEF StoreInv, Shapes
<1>3. quarantined = {} /\ quarantined' = {}
  BY <1>1 DEF StoreInv, QuarantinedAreGone
<1>4. MemoryIsAcked'
  BY <1>1, ValueOfEntry DEF StoreInv, Shapes, MemoryIsAcked
<1>5. FilesAreAcked'
  BY <1>1, <1>3, StoreParameters, ValueOfEntry DEF StoreInv, Shapes, FilesAreAcked
<1> QED BY <1>1, <1>2, <1>3, <1>4, <1>5 DEF StoreInv, RestoreIsAcked, QuarantinedAreGone

(* A call that only starts to write: to the store or to the backup.          *)
LEMMA StartedStoreInv ==
  ASSUME StoreInv, Idle, NEW target \in {"store", "backup"}, NEW then \in {"Return", "Clear"},
         writing' = [target |-> target, todo |-> Held(entries), then |-> then],
         backup' = Empty \/ (backup' = backup /\ target = "store"),
         UNCHANGED <<isOpen, schema, entries, files, acked, unsure, quarantined, shut>>
  PROVE  StoreInv'
<1>1. Held(entries) \subseteq Keys /\ isOpen
  BY HeldKeys DEF StoreInv, Shapes, Idle
<1>2. Shapes'
  BY <1>1 DEF StoreInv, Shapes, Empty, Held
<1>3. MemoryIsAcked' /\ FilesAreAcked' /\ QuarantinedAreGone'
  BY DEF StoreInv, MemoryIsAcked, FilesAreAcked, QuarantinedAreGone, ValueOf
<1>4. RestoreIsAcked'
  BY DEF RestoreIsAcked
<1> QED BY <1>2, <1>3, <1>4 DEF StoreInv

LEMMA MigrateStoreInv ==
  ASSUME StoreInv, NEW version \in 1 .. MaxSchema, MigrateSchema(version)
  PROVE  StoreInv'
<1>1. /\ isOpen /\ writing = Nothing /\ schema' = version
      /\ entries' = [k \in Keys |-> IF entries[k] = Nothing THEN Nothing
                                    ELSE [entries[k] EXCEPT !.schema = version]]
      /\ writing' = [target |-> "store", todo |-> Held(entries), then |-> "Return"]
      /\ UNCHANGED <<isOpen, files, backup, acked, unsure, quarantined, shut>>
  BY DEF MigrateSchema, Idle, Writes, observers
<1>2. /\ Held(entries) \subseteq Keys
      /\ \A k \in Held(entries) : entries[k] \in Entry
      /\ \A k \in Keys : entries[k] # Nothing => entries[k] \in Entry
  BY HeldKeys DEF StoreInv, Shapes
<1>3. ASSUME NEW k \in Keys
      PROVE  /\ entries'[k] \in Entry \cup {Nothing} /\ ValueOf(entries'[k]) = ValueOf(entries[k])
             /\ entries'[k] = Nothing <=> entries[k] = Nothing
  <2>1. CASE entries[k] = Nothing
    BY <1>1, <2>1
  <2>2. CASE entries[k] # Nothing
    <3>1. entries'[k] = [entries[k] EXCEPT !.schema = version] /\ entries[k] \in Entry
      BY <1>1, <1>2, <2>2
    <3>2. entries'[k] \in Entry /\ ValueOf(entries'[k]) = ValueOf(entries[k])
      BY <3>1, MovedEntry
    <3> QED BY <2>2, <3>2, StoreParameters
  <2> QED BY <2>1, <2>2
<1>4. entries' \in [Keys -> Entry \cup {Nothing}]
  BY <1>1, <1>3
<1>5. Held(entries') = Held(entries)
  <2>1. entries \in [Keys -> Entry \cup {Nothing}]
    BY DEF StoreInv, Shapes
  <2>2. Held(entries') \subseteq Keys /\ \A k \in Keys : k \in Held(entries') <=> entries'[k] # Nothing
    BY <1>4, HeldKeys
  <2>3. \A k \in Keys : k \in Held(entries) <=> entries[k] # Nothing
    BY <2>1, HeldKeys
  <2> QED BY <1>2, <1>3, <2>2, <2>3
<1>6. Shapes'
  BY <1>1, <1>2, <1>4, <1>5 DEF StoreInv, Shapes
<1>7. MemoryIsAcked' /\ FilesAreAcked'
  <2>1. \A k \in Keys : ValueOf(files'[k]) = ValueOf(files[k])
    BY <1>1
  <2> QED BY <1>1, <1>3, <2>1 DEF StoreInv, MemoryIsAcked, FilesAreAcked
<1>8. RestoreIsAcked' /\ QuarantinedAreGone'
  BY <1>1 DEF StoreInv, RestoreIsAcked, QuarantinedAreGone
<1> QED BY <1>6, <1>7, <1>8 DEF StoreInv

LEMMA RestoreStoreInv ==
  ASSUME StoreInv, RestoreFrom
  PROVE  StoreInv'
<1>1. /\ isOpen /\ writing = Nothing /\ backup \in [Keys -> Entry \cup {Nothing}]
      /\ entries' = backup
      /\ schema' \in {schema} \cup {backup[k].schema : k \in Held(backup)}
      /\ writing' = [target |-> "store", todo |-> Held(backup), then |-> "Restored"]
      /\ acked' = [k \in Keys |-> ValueOf(backup[k])]
      /\ unsure' = unsure \cup {k \in Keys : ValueOf(backup[k]) # acked[k]}
      /\ UNCHANGED <<isOpen, files, backup, quarantined, shut>>
  BY DEF RestoreFrom, Idle, Writes, StoreInv, Shapes
<1>2. /\ Held(backup) \subseteq Keys
      /\ \A k \in Held(backup) : backup[k] \in Entry
  BY <1>1, HeldKeys
<1>3. schema' \in 1 .. MaxSchema
  BY <1>1, <1>2, StoreParameters DEF StoreInv, Shapes
<1>4. \A k \in Keys : ValueOf(backup[k]) \in Values \cup {Nothing}
  BY <1>1, ValueOfEntry
<1>5. Shapes'
  BY <1>1, <1>2, <1>3, <1>4 DEF StoreInv, Shapes
<1>6. \A k \in Keys : acked'[k] = ValueOf(entries'[k])
  BY <1>1
<1>7. \A k \in Keys \ unsure' : k \notin unsure /\ acked'[k] = acked[k]
  BY <1>1
<1>8. MemoryIsAcked'
  BY <1>6 DEF MemoryIsAcked
<1>9. FilesAreAcked'
  BY <1>1, <1>7 DEF StoreInv, FilesAreAcked
<1>10. RestoreIsAcked' /\ QuarantinedAreGone'
  BY <1>1, <1>6 DEF StoreInv, RestoreIsAcked, QuarantinedAreGone
<1> QED BY <1>5, <1>8, <1>9, <1>10 DEF StoreInv

LEMMA WriteStoreInv ==
  ASSUME StoreInv, NEW k \in Keys, WriteNext(k)
  PROVE  StoreInv'
<1>1. /\ isOpen /\ writing # Nothing /\ k \in writing.todo
      /\ \/ /\ writing.target = "store" /\ files' = [files EXCEPT ![k] = entries[k]]
            /\ backup' = backup
         \/ /\ writing.target = "backup" /\ backup' = [backup EXCEPT ![k] = entries[k]]
            /\ files' = files
      /\ writing' = [writing EXCEPT !.todo = @ \ {k}]
      /\ UNCHANGED <<isOpen, schema, entries, acked, unsure, quarantined, shut>>
  BY DEF WriteNext, storeVars, observers
<1>2. /\ entries[k] \in Entry /\ ValueOf(entries[k]) \in Values
      /\ entries[k] # Nothing /\ entries[k] \notin Damaged
  BY <1>1, HeldKeys, ValueOfEntry, StoreParameters DEF StoreInv, Shapes
<1>3. /\ writing' \in [target : {"store", "backup"}, todo : SUBSET Keys,
                        then : {"Return", "Restored", "Clear"}]
      /\ writing'.todo = writing.todo \ {k} /\ writing'.then = writing.then
      /\ writing'.target = writing.target
  BY <1>1 DEF StoreInv, Shapes
<1>4. Shapes'
  <2>1. files' \in [Keys -> Entry \cup {Nothing} \cup Damaged]
    BY <1>1, <1>2 DEF StoreInv, Shapes
  <2>2. /\ backup' = Nothing \/ backup' \in [Keys -> Entry \cup {Nothing}]
        /\ writing.target = "backup" => backup' \in [Keys -> Entry \cup {Nothing}]
    BY <1>1, <1>2 DEF StoreInv, Shapes
  <2>3. writing'.todo \subseteq Held(entries')
    BY <1>1, <1>3 DEF StoreInv, Shapes, Held
  <2> QED BY <1>1, <1>3, <2>1, <2>2, <2>3 DEF StoreInv, Shapes
<1>5. MemoryIsAcked'
  BY <1>1 DEF StoreInv, MemoryIsAcked, ValueOf
<1>6. FilesAreAcked' /\ QuarantinedAreGone'
  <2>1. quarantined = {} /\ quarantined' = {}
    BY <1>1 DEF StoreInv, QuarantinedAreGone
  <2>2. \A j \in Keys : files'[j] = files[j] \/ (j = k /\ files'[j] = entries[k])
    BY <1>1 DEF StoreInv, Shapes
  <2>3. k \notin unsure => ValueOf(entries[k]) = acked[k]
    BY <1>1, <1>2 DEF StoreInv, Shapes, MemoryIsAcked
  <2> QED BY <1>1, <1>2, <2>1, <2>2, <2>3 DEF StoreInv, FilesAreAcked, QuarantinedAreGone
<1>7. RestoreIsAcked'
  <2> SUFFICES ASSUME writing.then = "Restored" PROVE RestoreIsAcked'
    BY <1>3 DEF RestoreIsAcked
  <2>1. /\ writing.target = "store" /\ \A j \in Keys : ValueOf(entries[j]) = acked[j]
        /\ \A j \in Held(entries) \ writing.todo :
             files[j] \notin Damaged => ValueOf(files[j]) = acked[j]
    BY <1>1 DEF StoreInv, RestoreIsAcked
  <2>2. files'[k] = entries[k] /\ \A j \in Keys : j # k => files'[j] = files[j]
    BY <1>1, <2>1 DEF StoreInv, Shapes
  <2>3. Held(entries') = Held(entries) /\ Held(entries) \subseteq Keys
    BY <1>1, HeldKeys DEF Held
  <2>4. \A j \in Held(entries) \ writing'.todo :
          files'[j] \notin Damaged => ValueOf(files'[j]) = acked[j]
    BY <1>3, <2>1, <2>2, <2>3
  <2> QED BY <1>1, <1>3, <2>1, <2>3, <2>4 DEF RestoreIsAcked
<1> QED BY <1>4, <1>5, <1>6, <1>7 DEF StoreInv

LEMMA CompletedStoreInv ==
  ASSUME StoreInv, Completed
  PROVE  StoreInv'
<1>1. /\ isOpen /\ writing # Nothing /\ writing.todo = {} /\ writing' = Nothing
      /\ entries' = (IF writing.then = "Clear" THEN Empty ELSE entries)
      /\ shut' = (shut \/ writing.then = "Clear")
      /\ unsure' = (IF writing.then = "Restored" THEN unsure \ Held(entries) ELSE unsure)
      /\ UNCHANGED <<isOpen, schema, files, backup, acked, quarantined>>
  BY DEF Completed
<1>2. Shapes'
  BY <1>1 DEF StoreInv, Shapes, Empty
<1>3. RestoreIsAcked' /\ QuarantinedAreGone'
  BY <1>1 DEF StoreInv, RestoreIsAcked, QuarantinedAreGone
<1>4. CASE writing.then = "Restored"
  <2>1. /\ \A j \in Keys : ValueOf(entries[j]) = acked[j]
        /\ \A j \in Held(entries) : files[j] \notin Damaged => ValueOf(files[j]) = acked[j]
    BY <1>1, <1>4 DEF StoreInv, RestoreIsAcked
  <2>2. MemoryIsAcked'
    BY <1>1, <1>4, <2>1 DEF MemoryIsAcked
  <2>3. \A j \in Held(entries) : j \in Keys /\ acked[j] # Nothing
    BY <2>1, HeldKeys, ValueOfEntry DEF StoreInv, Shapes
  <2>4. FilesAreAcked'
    BY <1>1, <1>3, <1>4, <2>1, <2>3 DEF StoreInv, FilesAreAcked, QuarantinedAreGone
  <2> QED BY <1>2, <1>3, <2>2, <2>4 DEF StoreInv
<1>5. CASE writing.then # "Restored"
  <2>1. MemoryIsAcked'
    BY <1>1, <1>5 DEF StoreInv, MemoryIsAcked, Empty
  <2>2. FilesAreAcked'
    BY <1>1, <1>5 DEF StoreInv, FilesAreAcked
  <2> QED BY <1>2, <1>3, <2>1, <2>2 DEF StoreInv
<1> QED BY <1>4, <1>5

-----------------------------------------------------------------------------
LEMMA OpenStoreInv ==
  ASSUME StoreInv, OpenFilesystem
  PROVE  StoreInv'
<1>1. /\ ~isOpen /\ writing = Nothing /\ isOpen' = TRUE /\ schema' = Configured
      /\ entries' = Loaded /\ files' = Loaded
      /\ acked' = [k \in Keys |-> ValueOf(files[k])]
      /\ unsure' = {} /\ quarantined' = {} /\ shut' = FALSE /\ UNCHANGED <<writing, backup>>
  BY DEF OpenFilesystem, StoreInv, Shapes
<1>2. \A k \in Keys : /\ files[k] \in Entry \cup {Nothing} \cup Damaged
                      /\ ValueOf(files[k]) \in Values \cup {Nothing}
  BY ValueOfEntry DEF StoreInv, Shapes
<1>3. \A k \in Keys : Loaded[k] \in Entry \cup {Nothing} /\ ValueOf(Loaded[k]) = ValueOf(files[k])
  <2>1. ASSUME NEW k \in Keys
        PROVE  Loaded[k] = IF files[k] \in Damaged THEN Nothing ELSE files[k]
    BY DEF OpenFilesystem, Loaded, Damaged
  <2> QED BY <1>2, <2>1, ValueOfEntry
<1>4. Loaded \in [Keys -> Entry \cup {Nothing}]
  BY <1>3 DEF Loaded
<1>5. Shapes'
  BY <1>1, <1>2, <1>4, StoreParameters DEF StoreInv, Shapes
<1>6. \A k \in Keys : Loaded[k] \notin Damaged /\ ValueOf(Loaded[k]) = acked'[k]
  BY <1>1, <1>3, StoreParameters
<1> QED
  BY <1>1, <1>5, <1>6 DEF StoreInv, MemoryIsAcked, FilesAreAcked, RestoreIsAcked, QuarantinedAreGone

LEMMA OpenFailsStoreInv ==
  ASSUME StoreInv, OpenFails
  PROVE  StoreInv'
<1>1. PICK met \in SUBSET CorruptFiles :
        /\ files' = [k \in Keys |-> IF k \in met THEN Nothing ELSE files[k]]
        /\ quarantined' = quarantined \cup met
  BY DEF OpenFails
<1>2. ~isOpen /\ UNCHANGED <<isOpen, schema, entries, writing, backup, acked, unsure, shut>>
  BY DEF OpenFails, storeVars
<1>3. writing = Nothing
  BY <1>2 DEF StoreInv, Shapes
<1>4. \A k \in met : k \in Keys /\ files[k] \in Damaged /\ files'[k] = Nothing
  BY <1>1 DEF CorruptFiles, Damaged
<1>5. Shapes'
  BY <1>1, <1>2, <1>3, <1>4 DEF StoreInv, Shapes
<1>6. \A k \in Keys \ met : files'[k] = files[k]
  BY <1>1
<1>7. FilesAreAcked'
  BY <1>1, <1>2, <1>4, <1>6 DEF StoreInv, FilesAreAcked
<1>8. QuarantinedAreGone'
  <2>1. \A k \in quarantined : k \in Keys /\ files[k] = Nothing
    BY DEF StoreInv, Shapes, QuarantinedAreGone
  <2> QED BY <1>1, <1>2, <1>4, <1>6, <2>1 DEF QuarantinedAreGone
<1> QED BY <1>2, <1>3, <1>5, <1>7, <1>8 DEF StoreInv, MemoryIsAcked, RestoreIsAcked

(* The process is gone, having changed the file of at most one key that is   *)
(* then in doubt.                                                            *)
LEMMA GoneStoreInv ==
  ASSUME StoreInv, Gone, UNCHANGED <<backup, acked, quarantined, shut>>, quarantined = {},
         files' \in [Keys -> Entry \cup {Nothing} \cup Damaged],
         unsure' \subseteq Keys, unsure \subseteq unsure',
         \A k \in Keys \ unsure' : files'[k] = files[k]
  PROVE  StoreInv'
<1>1. /\ isOpen' = FALSE /\ entries' = [k \in Keys |-> Nothing] /\ writing' = Nothing
      /\ schema' = schema
  BY DEF Gone, Empty
<1>2. Shapes'
  BY <1>1 DEF StoreInv, Shapes
<1>3. \A k \in Keys \ unsure' : k \notin unsure
  OBVIOUS
<1>4. FilesAreAcked'
  BY <1>3 DEF StoreInv, FilesAreAcked
<1> QED
  BY <1>1, <1>2, <1>4 DEF StoreInv, MemoryIsAcked, RestoreIsAcked, QuarantinedAreGone

LEMMA CorruptStoreInv ==
  ASSUME StoreInv, NEW k \in Keys, Corrupt(k)
  PROVE  StoreInv'
<1>1. PICK damage \in Damaged : files' = [files EXCEPT ![k] = damage]
  BY DEF Corrupt
<1>2. /\ files[k] # Nothing
      /\ UNCHANGED <<isOpen, schema, entries, writing, backup, acked, unsure, quarantined, shut>>
  BY DEF Corrupt, storeVars, observers
<1>3. files[k] \in Entry \cup Damaged /\ files \in [Keys -> Entry \cup {Nothing} \cup Damaged]
  BY <1>2 DEF StoreInv, Shapes
<1>4. Shapes'
  BY <1>1, <1>2, <1>3 DEF StoreInv, Shapes, Held
<1>5. files'[k] \in Damaged /\ \A j \in Keys : j # k => files'[j] = files[j]
  BY <1>1, <1>3
<1>6. k \notin unsure => acked[k] # Nothing
  BY <1>2, <1>3, ValueOfEntry DEF StoreInv, FilesAreAcked
<1>7. FilesAreAcked'
  BY <1>2, <1>5, <1>6 DEF StoreInv, FilesAreAcked
<1>8. MemoryIsAcked' /\ Held(entries') = Held(entries)
  BY <1>2 DEF StoreInv, MemoryIsAcked, ValueOf, Held
<1>9. RestoreIsAcked'
  <2>1. Held(entries) \subseteq Keys
    BY HeldKeys DEF StoreInv, Shapes
  <2> QED BY <1>2, <1>5, <1>8, <2>1 DEF StoreInv, RestoreIsAcked
<1>10. QuarantinedAreGone'
  <2>1. k \notin quarantined /\ quarantined \subseteq Keys
    BY <1>2 DEF StoreInv, Shapes, QuarantinedAreGone
  <2> QED BY <1>2, <1>5, <2>1 DEF StoreInv, QuarantinedAreGone
<1> QED BY <1>4, <1>7, <1>8, <1>9, <1>10 DEF StoreInv

-----------------------------------------------------------------------------
LEMMA NextStoreInv == StoreInv /\ [StoreNext]_kvsVars => StoreInv'
<1> SUFFICES ASSUME StoreInv, [StoreNext]_kvsVars PROVE StoreInv'
  OBVIOUS
<1>1. ASSUME NEW k \in Keys, NEW v \in Values, Put(k, v) PROVE StoreInv'
  BY <1>1, PutStoreInv
<1>2. ASSUME NEW k \in Keys, RemoveKey(k) PROVE StoreInv'
  BY <1>2, RemoveStoreInv
<1>3. ASSUME Flush \/ BackupTo \/ Shutdown PROVE StoreInv'
  <2>1. PICK target \in {"store", "backup"} : \E then \in {"Return", "Clear"} :
          /\ writing' = [target |-> target, todo |-> Held(entries), then |-> then]
          /\ backup' = Empty \/ (backup' = backup /\ target = "store")
    BY <1>3 DEF Flush, BackupTo, Shutdown, Writes
  <2>2. PICK then \in {"Return", "Clear"} :
          /\ writing' = [target |-> target, todo |-> Held(entries), then |-> then]
          /\ backup' = Empty \/ (backup' = backup /\ target = "store")
    BY <2>1
  <2>3. /\ Idle
        /\ UNCHANGED <<isOpen, schema, entries, files, acked, unsure, quarantined, shut>>
    BY <1>3 DEF Flush, BackupTo, Shutdown, storeVars, observers
  <2> QED BY <2>2, <2>3, StartedStoreInv
<1>4. ASSUME RestoreFrom PROVE StoreInv'
  BY <1>4, RestoreStoreInv
<1>5. ASSUME NEW version \in 1 .. MaxSchema, MigrateSchema(version) PROVE StoreInv'
  BY <1>5, MigrateStoreInv
<1>6. ASSUME NEW k \in Keys, WriteNext(k) PROVE StoreInv'
  BY <1>6, WriteStoreInv
<1>7. ASSUME WriteFails PROVE StoreInv'
  BY <1>7 DEF WriteFails, storeVars, observers, StoreInv, Shapes, MemoryIsAcked, FilesAreAcked,
              RestoreIsAcked, QuarantinedAreGone, ValueOf
<1>8. ASSUME Completed PROVE StoreInv'
  BY <1>8, CompletedStoreInv
<1>9. ASSUME OpenFilesystem PROVE StoreInv'
  BY <1>9, OpenStoreInv
<1>10. ASSUME OpenFails PROVE StoreInv'
  BY <1>10, OpenFailsStoreInv
<1>11. ASSUME Crash PROVE StoreInv'
  BY <1>11, GoneStoreInv DEF Crash, observers, StoreInv, Shapes, QuarantinedAreGone
<1>12. ASSUME NEW k \in Keys, NEW v \in Values, CrashInPut(k, v) PROVE StoreInv'
  <2>1. [schema |-> schema, value |-> v] \in Entry
    BY MadeEntry DEF StoreInv, Shapes
  <2> DEFINE entry == [schema |-> schema, value |-> v]
  <2>2. /\ files' = [files EXCEPT ![k] = entry] /\ unsure' = unsure \cup {k}
        /\ Gone /\ UNCHANGED <<backup, acked, quarantined, shut>>
    BY <1>12 DEF CrashInPut
  <2> HIDE DEF entry
  <2>3. Idle /\ isOpen /\ quarantined = {}
    BY <1>12 DEF CrashInPut, Idle, StoreInv, QuarantinedAreGone
  <2>4. /\ files' \in [Keys -> Entry \cup {Nothing} \cup Damaged]
        /\ \A j \in Keys : j # k => files'[j] = files[j]
    BY <2>1, <2>2 DEF entry, StoreInv, Shapes
  <2> QED BY <2>2, <2>3, <2>4, GoneStoreInv DEF StoreInv, Shapes
<1>13. ASSUME NEW k \in Keys, CrashInRemove(k) PROVE StoreInv'
  <2>1. /\ files' = [files EXCEPT ![k] = Nothing] /\ unsure' = unsure \cup {k}
        /\ Gone /\ UNCHANGED <<backup, acked, quarantined, shut>>
    BY <1>13 DEF CrashInRemove
  <2>2. Idle /\ isOpen /\ quarantined = {}
    BY <1>13 DEF CrashInRemove, Idle, StoreInv, QuarantinedAreGone
  <2>3. /\ files' \in [Keys -> Entry \cup {Nothing} \cup Damaged]
        /\ \A j \in Keys : j # k => files'[j] = files[j]
    BY <2>1 DEF StoreInv, Shapes
  <2> QED BY <2>1, <2>2, <2>3, GoneStoreInv DEF StoreInv, Shapes
<1>14. ASSUME NEW k \in Keys, Corrupt(k) PROVE StoreInv'
  BY <1>14, CorruptStoreInv
<1>15. CASE UNCHANGED kvsVars
  BY <1>15 DEF kvsVars, storeVars, observers, StoreInv, Shapes, MemoryIsAcked, FilesAreAcked,
               RestoreIsAcked, QuarantinedAreGone, Held, ValueOf
<1> QED
  BY <1>1, <1>2, <1>3, <1>4, <1>5, <1>6, <1>7, <1>8, <1>9, <1>10, <1>11, <1>12, <1>13, <1>14,
     <1>15 DEF StoreNext, CallNext, ProcessNext

(* What a call acknowledged or the store loaded is on disk, and in memory    *)
(* while the store is in use, through failed writes and crashes at any file. *)
THEOREM KeptCorrect == StoreSpec => []AcknowledgedIsKept
<1>1. StoreSpec => []StoreInv
  BY InitStoreInv, NextStoreInv, PTL DEF StoreSpec
<1>2. ASSUME StoreInv, NEW k \in Keys \ (unsure \cup quarantined)
      PROVE  /\ files[k] \notin Damaged => ValueOf(files[k]) = acked[k]
             /\ isOpen /\ ~shut => ValueOf(entries[k]) = acked[k]
  BY <1>2 DEF StoreInv, MemoryIsAcked, FilesAreAcked
<1>3. StoreInv => AcknowledgedIsKept
  BY <1>2 DEF AcknowledgedIsKept
<1> QED BY <1>1, <1>3, PTL

(* What damage took from a store that opens is what this open quarantines    *)
(* and what those that failed before it have, each key once.                 *)
LEMMA LostKeys ==
  ASSUME StoreInv, OpenFilesystem
  PROVE  Lost = CorruptFiles \cup quarantined /\ CorruptFiles \cap quarantined = {}
<1>1. \A k \in quarantined : k \in Keys /\ files[k] = Nothing
  BY DEF StoreInv, Shapes, QuarantinedAreGone
<1>2. \A k \in CorruptFiles : k \in Keys /\ files[k] = Corrupted /\ files[k] \in Damaged
  BY DEF CorruptFiles, Damaged
<1>3. CorruptFiles \cap quarantined = {}
  BY <1>1, <1>2, StoreParameters
<1>4. ASSUME NEW k \in Keys \ unsure
      PROVE  (acked[k] # Nothing /\ entries'[k] = Nothing) <=> k \in CorruptFiles \cup quarantined
  <2>1. entries'[k] = IF files[k] = Corrupted THEN Nothing ELSE files[k]
    BY DEF OpenFilesystem, Loaded
  <2>2. files[k] \in Damaged => files[k] = Corrupted
    BY DEF OpenFilesystem, Damaged
  <2>3. CASE k \in CorruptFiles \cup quarantined
    <3>1. files[k] \in Damaged \/ k \in quarantined
      BY <1>2, <2>3
    <3>2. acked[k] # Nothing
      BY <3>1 DEF StoreInv, FilesAreAcked
    <3>3. entries'[k] = Nothing
      BY <1>1, <1>2, <2>1, <2>3
    <3> QED BY <2>3, <3>2, <3>3
  <2>4. CASE k \notin CorruptFiles \cup quarantined
    <3>1. ~ (files[k] = Corrupted)
      BY <2>4 DEF CorruptFiles
    <3>2. files[k] \notin Damaged /\ k \notin quarantined
      BY <2>2, <2>4, <3>1
    <3>3. ValueOf(files[k]) = acked[k]
      BY <3>2 DEF StoreInv, FilesAreAcked
    <3>4. entries'[k] = Nothing => acked[k] = Nothing
      BY <2>1, <3>1, <3>3, ValueOfEntry
    <3> QED BY <2>4, <3>4
  <2> QED BY <2>3, <2>4
<1>5. unsure \subseteq Keys
  BY DEF StoreInv, Shapes
<1>6. \A k \in unsure : (files[k] = Corrupted \/ k \in quarantined) <=> k \in CorruptFiles \cup quarantined
  BY <1>5 DEF CorruptFiles
<1>7. Lost = CorruptFiles \cup quarantined
  <2> DEFINE U == CorruptFiles \cup quarantined
  <2>1. U \subseteq Keys
    BY <1>1, <1>2
  <2> HIDE DEF U
  <2>2. {k \in Keys \ unsure : acked[k] # Nothing /\ entries'[k] = Nothing} = {k \in Keys \ unsure : k \in U}
    BY <1>4 DEF U
  <2>3. {k \in unsure : files[k] = Corrupted \/ k \in quarantined} = {k \in unsure : k \in U}
    BY <1>6 DEF U
  <2>4. Lost = U
    BY <1>5, <2>1, <2>2, <2>3 DEF Lost
  <2> QED BY <2>4 DEF U
<1> QED BY <1>3, <1>7

(* Every value that damage took was quarantined by exactly one open: those   *)
(* the open that succeeds reports and those of the opens that failed before  *)
(* it, whose count went with the store, are together exactly what is lost.   *)
THEOREM LossCorrect == StoreSpec => LossIsAccounted
<1>1. StoreSpec => []StoreInv
  BY InitStoreInv, NextStoreInv, PTL DEF StoreSpec
<1>2. ASSUME StoreInv, OpenFilesystem
      PROVE  recovered' + Cardinality(quarantined) = Cardinality(Lost)
  <2>1. Lost = CorruptFiles \cup quarantined /\ CorruptFiles \cap quarantined = {}
    BY <1>2, LostKeys
  <2>2. recovered' = Cardinality(CorruptFiles)
    BY <1>2 DEF OpenFilesystem, Quarantine
  <2>3. CorruptFiles \subseteq Keys /\ quarantined \subseteq Keys
    BY <1>2 DEF StoreInv, Shapes, CorruptFiles
  <2>4. IsFiniteSet(CorruptFiles) /\ IsFiniteSet(quarantined)
    BY <2>3, StoreParameters, FS_Subset
  <2>5. Cardinality(CorruptFiles \cup quarantined)
          = Cardinality(CorruptFiles) + Cardinality(quarantined) - Cardinality({})
    BY <2>1, <2>4, FS_Union
  <2>6. /\ Cardinality({}) = 0
        /\ Cardinality(CorruptFiles) \in Nat /\ Cardinality(quarantined) \in Nat
    BY <2>4, FS_EmptySet, FS_CardinalityType
  <2>7. Cardinality(CorruptFiles \cup quarantined) = Cardinality(CorruptFiles) + Cardinality(quarantined)
    BY <2>5, <2>6
  <2> QED BY <2>1, <2>2, <2>7
<1> QED BY <1>1, <1>2, PTL DEF StoreSpec, LossIsAccounted

(* The same values take the same.                                            *)
LEMMA SizesOfValues ==
  ASSUME NEW d \in Entry \cup {Nothing} \cup Damaged, NEW e \in Entry \cup {Nothing} \cup Damaged,
         ValueOf(d) = ValueOf(e)
  PROVE  SizeOf(d) = SizeOf(e)
<1>1. \A x \in Entry : x.value \in Values /\ x.value # Nothing /\ x # Nothing /\ x \notin Damaged
  BY StoreParameters
<1> QED BY <1>1 DEF SizeOf, ValueOf

LEMMA TablesOfEntries ==
  ASSUME NEW t \in [Keys -> Entry \cup {Nothing}]
  PROVE  t \in Tables
  BY DEF Tables

(* Memory takes no more than the quota, and what was lost is counted.        *)
WithinQuota ==
  /\ Bytes(entries) <= Quota
  /\ health \in {"Healthy", "Recovered"} /\ recovered \in 0 .. Cardinality(Keys)

LEMMA InitQuota == StoreInit => WithinQuota
<1>1. Quota \in Nat /\ Cardinality(Keys) \in Nat
  BY StoreAssumption, FS_CardinalityType
<1> QED BY <1>1, BytesOfNone DEF StoreInit, WithinQuota

LEMMA PutQuota ==
  ASSUME StoreInv, WithinQuota, NEW k \in Keys, NEW v \in Values, Put(k, v)
  PROVE  WithinQuota'
<1> DEFINE entry == [schema |-> schema, value |-> v]
           less == [entries EXCEPT ![k] = Nothing]
<1>1. EnsureQuota(k, v)
  BY DEF Put
<1>2. \/ UNCHANGED <<entries, health, recovered>>
      \/ entries' = [entries EXCEPT ![k] = entry] /\ UNCHANGED <<health, recovered>>
  BY DEF Put, PutFails, kvsVars, storeVars
<1>3. entry \in Entry /\ entry.value = v /\ v \in Nat /\ Nothing \in Entry \cup {Nothing} \cup Damaged
  BY MadeEntry, StoreAssumption DEF StoreInv, Shapes
<1>4. SizeOf(entry) = v /\ SizeOf(Nothing) = 0
  BY <1>3, StoreParameters DEF SizeOf
<1>5. entries \in Tables /\ less \in Tables /\ less[k] = Nothing
  BY DEF StoreInv, Shapes, Tables
<1>6. [less EXCEPT ![k] = entry] = [entries EXCEPT ![k] = entry]
  BY <1>5 DEF Tables
<1>7. Bytes(less) + v <= Quota
  BY <1>1 DEF EnsureQuota
<1> HIDE DEF entry, less
<1>8. /\ Bytes([less EXCEPT ![k] = entry]) = Bytes(less) + (SizeOf(entry) - SizeOf(less[k]))
      /\ Bytes(less) \in Int
  BY <1>3, <1>5, BytesOfExcept
<1>9. Bytes([entries EXCEPT ![k] = entry]) = Bytes(less) + v
  BY <1>3, <1>4, <1>5, <1>6, <1>8
<1> QED BY <1>2, <1>7, <1>9 DEF WithinQuota

LEMMA RemoveQuota ==
  ASSUME StoreInv, WithinQuota, NEW k \in Keys, RemoveKey(k)
  PROVE  WithinQuota'
<1>1. entries' = [entries EXCEPT ![k] = Nothing] /\ UNCHANGED <<health, recovered>>
  BY DEF RemoveKey
<1>2. entries \in Tables /\ entries[k] \in Entry \cup {Nothing} \cup Damaged
  BY DEF StoreInv, Shapes, Tables
<1>3. /\ Bytes([entries EXCEPT ![k] = Nothing]) = Bytes(entries) + (SizeOf(Nothing) - SizeOf(entries[k]))
      /\ Bytes(entries) \in Int
  BY <1>2, BytesOfExcept
<1>4. SizeOf(Nothing) = 0 /\ SizeOf(entries[k]) \in Nat
  BY <1>2, SizesAre
<1>5. Quota \in Nat /\ Bytes(entries) <= Quota
  BY StoreAssumption DEF WithinQuota
<1>6. Bytes(entries') <= Quota
  BY <1>1, <1>3, <1>4, <1>5
<1> QED BY <1>1, <1>6 DEF WithinQuota

LEMMA MigrateQuota ==
  ASSUME StoreInv, WithinQuota, NEW version \in 1 .. MaxSchema, MigrateSchema(version)
  PROVE  WithinQuota'
<1>1. /\ entries' = [k \in Keys |-> IF entries[k] = Nothing THEN Nothing
                                    ELSE [entries[k] EXCEPT !.schema = version]]
      /\ UNCHANGED <<health, recovered>>
  BY DEF MigrateSchema
<1>2. entries \in [Keys -> Entry \cup {Nothing}] /\ entries \in Tables
  BY DEF StoreInv, Shapes, Tables
<1>3. ASSUME NEW k \in Keys
      PROVE  /\ entries'[k] \in Entry \cup {Nothing} \cup Damaged
             /\ ValueOf(entries'[k]) = ValueOf(entries[k])
  <2>1. CASE entries[k] = Nothing
    BY <1>1, <2>1
  <2>2. CASE entries[k] # Nothing
    <3>1. entries[k] \in Entry /\ entries'[k] = [entries[k] EXCEPT !.schema = version]
      BY <1>1, <1>2, <2>2
    <3> QED BY <3>1, MovedEntry
  <2> QED BY <2>1, <2>2
<1>4. entries' \in Tables
  <2>1. entries' = [k \in Keys |-> entries'[k]]
    BY <1>1
  <2> QED BY <1>3, <2>1 DEF Tables
<1>5. \A k \in Keys : SizeOf(entries'[k]) = SizeOf(entries[k])
  BY <1>2, <1>3, SizesOfValues DEF Tables
<1>6. Bytes(entries') = Bytes(entries)
  BY <1>2, <1>4, <1>5, BytesSame
<1> QED BY <1>1, <1>6 DEF WithinQuota

LEMMA OpenQuota ==
  ASSUME StoreInv, OpenFilesystem
  PROVE  WithinQuota'
<1>1. /\ files \in Tables /\ Loaded \in Tables
      /\ \A k \in Keys : ValueOf(Loaded[k]) = ValueOf(files[k])
  <2>1. files \in Tables /\ Corrupted \in Damaged
    BY DEF StoreInv, Shapes, Tables, Damaged
  <2> QED BY <2>1, ValueOfEntry DEF Tables, Loaded
<1>2. \A k \in Keys : SizeOf(Loaded[k]) = SizeOf(files[k])
  BY <1>1, SizesOfValues DEF Tables
<1>3. Bytes(Loaded) = Bytes(files)
  BY <1>1, <1>2, BytesSame
<1>4. entries' = Loaded /\ Bytes(files) <= Quota
  BY DEF OpenFilesystem
<1>5. health' \in {"Healthy", "Recovered"} /\ recovered' \in 0 .. Cardinality(Keys)
  <2> DEFINE corrupt == CorruptFiles
  <2>1. recovered' = Cardinality(corrupt) /\ health' \in {"Healthy", "Recovered"}
    BY DEF OpenFilesystem, Quarantine
  <2>2. IsFiniteSet(Keys) /\ corrupt \in SUBSET Keys
    BY StoreAssumption DEF CorruptFiles
  <2> HIDE DEF corrupt
  <2>3. /\ Cardinality(corrupt) <= Cardinality(Keys)
        /\ Cardinality(corrupt) \in Nat /\ Cardinality(Keys) \in Nat
    BY <2>2, FS_Subset, FS_CardinalityType
  <2> QED BY <2>1, <2>3
<1> QED BY <1>3, <1>4, <1>5 DEF WithinQuota

LEMMA NextQuota == StoreInv /\ WithinQuota /\ [StoreNext]_kvsVars => WithinQuota'
<1> SUFFICES ASSUME StoreInv, WithinQuota, [StoreNext]_kvsVars PROVE WithinQuota'
  OBVIOUS
<1>1. ASSUME entries' \in {entries, Empty}, UNCHANGED <<health, recovered>>
      PROVE  WithinQuota'
  <2>1. Quota \in Nat
    BY StoreAssumption
  <2> QED BY <1>1, <2>1, BytesOfNone DEF WithinQuota
<1>2. ASSUME \E k \in Keys, v \in Values : Put(k, v) PROVE WithinQuota'
  BY <1>2, PutQuota
<1>3. ASSUME \E k \in Keys : RemoveKey(k) PROVE WithinQuota'
  BY <1>3, RemoveQuota
<1>4. ASSUME \E version \in 1 .. MaxSchema : MigrateSchema(version) PROVE WithinQuota'
  BY <1>4, MigrateQuota
<1>5. CASE RestoreFrom
  BY <1>5 DEF RestoreFrom, WithinQuota
<1>6. CASE OpenFilesystem
  BY <1>6, OpenQuota
<1>7. CASE Flush \/ BackupTo \/ Shutdown \/ WriteFails \/ OpenFails \/ UNCHANGED kvsVars
  BY <1>1, <1>7 DEF Flush, BackupTo, Shutdown, WriteFails, OpenFails, storeVars, kvsVars
<1>8. CASE Completed
  BY <1>1, <1>8 DEF Completed
<1>9. CASE \E k \in Keys : WriteNext(k) \/ Corrupt(k)
  BY <1>1, <1>9 DEF WriteNext, Corrupt, storeVars
<1>10. CASE Crash \/ (\E k \in Keys, v \in Values : CrashInPut(k, v))
              \/ \E k \in Keys : CrashInRemove(k)
  BY <1>1, <1>10 DEF Crash, CrashInPut, CrashInRemove, Gone
<1> QED
  BY <1>2, <1>3, <1>4, <1>5, <1>6, <1>7, <1>8, <1>9, <1>10 DEF StoreNext, CallNext, ProcessNext

(* The store keeps its types, and what it holds in memory within its quota,  *)
(* through every put, migration, restore and load (EnsureQuota, RestoreFrom, *)
(* OpenFilesystem).                                                          *)
THEOREM StoreTypeCorrect == StoreSpec => []StoreTypeOK
<1>1. StoreSpec => []StoreInv
  BY InitStoreInv, NextStoreInv, PTL DEF StoreSpec
<1>2. StoreSpec => []WithinQuota
  BY <1>1, InitQuota, NextQuota, PTL DEF StoreSpec
<1>3. StoreInv /\ WithinQuota => StoreTypeOK
  BY DEF StoreInv, Shapes, WithinQuota, StoreTypeOK
<1> QED BY <1>1, <1>2, <1>3, PTL

(* While nothing fails and nothing is restored, the files hold what memory   *)
(* holds, until a shutdown clears memory.                                    *)
ReopensInv ==
  /\ \A k \in Keys : files[k] \notin Damaged
  /\ ~shut =>
       /\ Bytes(files) <= Quota
       /\ isOpen => \A k \in Keys : ValueOf(files[k]) = ValueOf(entries[k])

LEMMA InitReopens == StoreInit => ReopensInv
<1>1. Quota \in Nat
  BY StoreAssumption
<1> QED BY <1>1, BytesOfNone, StoreParameters DEF StoreInit, ReopensInv, Empty

(* Files that agree with memory fit the quota as memory does.                *)
LEMMA FilesFit ==
  ASSUME NEW t \in Tables, NEW u \in Tables, \A k \in Keys : ValueOf(t[k]) = ValueOf(u[k]),
         Bytes(u) <= Quota
  PROVE  Bytes(t) <= Quota
<1>1. \A k \in Keys : SizeOf(t[k]) = SizeOf(u[k])
  BY SizesOfValues DEF Tables
<1>2. Bytes(t) = Bytes(u)
  BY <1>1, BytesSame
<1> QED BY <1>2

LEMMA NextReopens ==
  ASSUME ~Faulty, StoreInv, WithinQuota, StoreInv', WithinQuota', ReopensInv,
         [StoreNext /\ ~RestoreFrom]_kvsVars
  PROVE  ReopensInv'
<1>1. ASSUME \A k \in Keys : files'[k] \notin Damaged,
             ~shut' => isOpen' /\ \A k \in Keys : ValueOf(files'[k]) = ValueOf(entries'[k])
      PROVE  ReopensInv'
  <2>1. files' \in Tables /\ entries' \in Tables /\ Bytes(entries') <= Quota
    BY DEF StoreInv, Shapes, Tables, WithinQuota
  <2>2. ASSUME ~shut' PROVE Bytes(files') <= Quota
    <3>1. \A k \in Keys : ValueOf(files'[k]) = ValueOf(entries'[k])
      BY <1>1, <2>2
    <3> QED BY <2>1, <3>1, FilesFit
  <2> QED BY <1>1, <2>2 DEF ReopensInv
<1>2. ASSUME UNCHANGED <<files, shut>>, ~isOpen' \/ UNCHANGED <<isOpen, entries>>
      PROVE  ReopensInv'
  BY <1>2 DEF ReopensInv
<1>3. ASSUME NEW k \in Keys, NEW v \in Values, Put(k, v) PROVE ReopensInv'
  <2> DEFINE entry == [schema |-> schema, value |-> v]
  <2>1. CASE UNCHANGED kvsVars
    BY <1>2, <2>1 DEF kvsVars, storeVars, observers
  <2>2. CASE ~UNCHANGED kvsVars
    <3>1. /\ isOpen /\ entry \in Entry /\ isOpen' = isOpen /\ shut' = shut
          /\ files' = [files EXCEPT ![k] = entry] /\ entries' = [entries EXCEPT ![k] = entry]
      BY <1>3, <2>2, MadeEntry DEF Put, PutFails, Idle, StoreInv, Shapes
    <3>2. files \in [Keys -> Entry \cup {Nothing} \cup Damaged] /\ entries \in [Keys -> Entry \cup {Nothing}]
      BY DEF StoreInv, Shapes
    <3> HIDE DEF entry
    <3>3. /\ \A j \in Keys : files'[j] = IF j = k THEN entry ELSE files[j]
          /\ \A j \in Keys : entries'[j] = IF j = k THEN entry ELSE entries[j]
          /\ entry \notin Damaged
      BY <3>1, <3>2, StoreParameters
    <3>4. /\ \A j \in Keys : files[j] \notin Damaged
          /\ ~shut => \A j \in Keys : ValueOf(files[j]) = ValueOf(entries[j])
      BY <3>1 DEF ReopensInv
    <3> QED BY <1>1, <3>1, <3>3, <3>4
  <2> QED BY <2>1, <2>2
<1>4. ASSUME NEW k \in Keys, RemoveKey(k) PROVE ReopensInv'
  <2>1. /\ isOpen /\ isOpen' = isOpen /\ shut' = shut
        /\ files' = [files EXCEPT ![k] = Nothing] /\ entries' = [entries EXCEPT ![k] = Nothing]
    BY <1>4 DEF RemoveKey, Idle
  <2>2. files \in [Keys -> Entry \cup {Nothing} \cup Damaged] /\ entries \in [Keys -> Entry \cup {Nothing}]
    BY DEF StoreInv, Shapes
  <2>3. /\ \A j \in Keys : files'[j] = IF j = k THEN Nothing ELSE files[j]
        /\ \A j \in Keys : entries'[j] = IF j = k THEN Nothing ELSE entries[j]
        /\ Nothing \notin Damaged
    BY <2>1, <2>2, StoreParameters
  <2>4. /\ \A j \in Keys : files[j] \notin Damaged
        /\ ~shut => \A j \in Keys : ValueOf(files[j]) = ValueOf(entries[j])
    BY <2>1 DEF ReopensInv
  <2> QED BY <1>1, <2>1, <2>3, <2>4
<1>5. ASSUME NEW version \in 1 .. MaxSchema, MigrateSchema(version) PROVE ReopensInv'
  <2>1. /\ isOpen /\ UNCHANGED <<isOpen, shut, files>>
        /\ entries' = [k \in Keys |-> IF entries[k] = Nothing THEN Nothing
                                      ELSE [entries[k] EXCEPT !.schema = version]]
    BY <1>5 DEF MigrateSchema, Idle, observers
  <2>2. entries \in [Keys -> Entry \cup {Nothing}]
    BY DEF StoreInv, Shapes
  <2>3. ASSUME NEW k \in Keys PROVE ValueOf(entries'[k]) = ValueOf(entries[k])
    <3>1. CASE entries[k] = Nothing
      BY <2>1, <3>1
    <3>2. CASE entries[k] # Nothing
      <4>1. entries[k] \in Entry /\ entries'[k] = [entries[k] EXCEPT !.schema = version]
        BY <2>1, <2>2, <3>2
      <4> QED BY <4>1, MovedEntry
    <3> QED BY <3>1, <3>2
  <2>4. /\ \A j \in Keys : files[j] \notin Damaged
        /\ ~shut => \A j \in Keys : ValueOf(files[j]) = ValueOf(entries[j])
    BY <2>1 DEF ReopensInv
  <2> QED BY <1>1, <2>1, <2>3, <2>4
<1>6. ASSUME NEW k \in Keys, WriteNext(k) PROVE ReopensInv'
  <2>1. /\ isOpen /\ UNCHANGED <<isOpen, shut, entries>>
        /\ files' = files \/ files' = [files EXCEPT ![k] = entries[k]]
    BY <1>6 DEF WriteNext, storeVars, observers
  <2>2. files \in [Keys -> Entry \cup {Nothing} \cup Damaged] /\ entries[k] \notin Damaged
    BY StoreParameters DEF StoreInv, Shapes
  <2>3. \A j \in Keys : files'[j] = files[j] \/ (j = k /\ files'[j] = entries[k])
    BY <2>1, <2>2
  <2>4. /\ \A j \in Keys : files[j] \notin Damaged
        /\ ~shut => \A j \in Keys : ValueOf(files[j]) = ValueOf(entries[j])
    BY <2>1 DEF ReopensInv
  <2> QED BY <1>1, <2>1, <2>2, <2>3, <2>4
<1>7. CASE Completed
  <2>1. /\ isOpen /\ UNCHANGED <<isOpen, files>>
        /\ ~shut' => ~shut /\ entries' = entries
    BY <1>7 DEF Completed
  <2> QED BY <1>1, <2>1 DEF ReopensInv
<1>8. CASE OpenFilesystem
  <2>1. isOpen' /\ entries' = Loaded /\ files' = Loaded
    BY <1>8 DEF OpenFilesystem
  <2>2. \A k \in Keys : Loaded[k] \notin Damaged
    BY StoreParameters DEF Loaded, ReopensInv
  <2> QED BY <1>1, <2>1, <2>2
<1>9. CASE OpenFails
  <2>1. CorruptFiles = {}
    BY DEF ReopensInv, CorruptFiles, Damaged
  <2>2. files' = [k \in Keys |-> files[k]] /\ UNCHANGED <<isOpen, entries, shut>>
    BY <1>9, <2>1 DEF OpenFails, storeVars
  <2>3. files' = files
    BY <2>2 DEF StoreInv, Shapes
  <2> QED BY <1>2, <2>2, <2>3
<1>10. CASE Flush \/ BackupTo \/ Shutdown \/ UNCHANGED kvsVars
  BY <1>2, <1>10 DEF Flush, BackupTo, Shutdown, storeVars, observers, kvsVars
<1>11. CASE Crash
  BY <1>2, <1>11 DEF Crash, Gone, observers
<1>12. CASE \/ WriteFails \/ \E k \in Keys : CrashInRemove(k) \/ Corrupt(k)
            \/ \E k \in Keys, v \in Values : CrashInPut(k, v)
  BY <1>12 DEF WriteFails, CrashInRemove, Corrupt, CrashInPut
<1> QED
  BY <1>3, <1>4, <1>5, <1>6, <1>7, <1>8, <1>9, <1>10, <1>11, <1>12 DEF StoreNext, CallNext, ProcessNext

(* Where no write fails and no call is cut short, only a restore can leave a *)
(* store, not shut down since it was opened, too full to be opened again     *)
(* (RestoreFrom, OpenFilesystem): its other calls keep files and memory      *)
(* alike.                                                                    *)
THEOREM ReopensCorrect ==
  ASSUME ~Faulty
  PROVE  StoreInit /\ [][StoreNext /\ ~RestoreFrom]_kvsVars => []StoreReopens
<1> DEFINE Steps == [StoreNext /\ ~RestoreFrom]_kvsVars
<1>1. StoreInit => StoreInv /\ WithinQuota /\ ReopensInv
  BY InitStoreInv, InitQuota, InitReopens
<1>2. StoreInv /\ WithinQuota /\ ReopensInv /\ Steps => StoreInv' /\ WithinQuota' /\ ReopensInv'
  <2> SUFFICES ASSUME StoreInv, WithinQuota, ReopensInv, Steps
               PROVE  StoreInv' /\ WithinQuota' /\ ReopensInv'
    OBVIOUS
  <2>1. StoreInv' /\ WithinQuota'
    BY NextStoreInv, NextQuota
  <2> QED BY <2>1, NextReopens
<1>3. ReopensInv => StoreReopens
  BY DEF ReopensInv, StoreReopens
<1> QED BY <1>1, <1>2, <1>3, PTL

-----------------------------------------------------------------------------
(* The API gateway: refusals.                                                *)

Stored(K) == [key : K, count : Nat, at : Nat]

LEMMA StoredCounts == ASSUME NEW K PROVE Counted(Stored(K)) /\ \A r \in Stored(K) : r.count \in Nat
  BY DEF Stored, Counted

(* More keys make no difference to what is stored.                           *)
LEMMA StoredMore ==
  ASSUME NEW K, NEW k, NEW recs \in Seq(Stored(K)), NEW n \in Nat, NEW at \in Nat
  PROVE  /\ recs \in Seq(Stored(K \cup {k}))
         /\ [key |-> k, count |-> n, at |-> at] \in Stored(K \cup {k})
<1>1. Stored(K) \subseteq Stored(K \cup {k})
  BY DEF Stored
<1>2. [key |-> k, count |-> n, at |-> at] \in Stored(K \cup {k})
  BY DEF Stored
<1>3. ASSUME NEW A, NEW B, A \subseteq B PROVE Seq(A) \subseteq Seq(B)
  BY <1>3
<1>4. recs \in Seq(Stored(K \cup {k}))
  BY <1>1, <1>3
<1> QED BY <1>2, <1>4

(* An event more counts one more, but for what makes room for it.            *)
LetsGo(evs, k, at, window, max) == Len(evs) >= max /\ Aggregating(evs, k, at, window) = {}

LEMMA RecordedTotal ==
  ASSUME NEW K, NEW evs \in Seq(Stored(K)), NEW k, NEW at \in Nat, NEW window,
         NEW max \in Nat \ {0}
  PROVE  /\ Recorded(evs, k, at, window, max) \in Seq(Stored(K \cup {k}))
         /\ TotalCount(Recorded(evs, k, at, window, max)) =
              TotalCount(evs) + 1 - IF LetsGo(evs, k, at, window, max) THEN Head(evs).count ELSE 0
<1> DEFINE same == Aggregating(evs, k, at, window)
           event == [key |-> k, count |-> 1, at |-> at]
           R == Stored(K \cup {k})
           new == Recorded(evs, k, at, window, max)
<1>1. evs \in Seq(R) /\ event \in R
  BY StoredMore
<1>2. event.count = 1
  OBVIOUS
<1>3. Counted(R) /\ TotalCount(evs) \in Int
  <2>1. Counted(R)
    BY StoredCounts
  <2>2. \E f : TotalCount(evs) \in Int
    BY <1>1, <2>1, TotalFound
  <2> QED BY <2>1, <2>2
<1> DEFINE lets == same = {} /\ Len(evs) >= max
<1> SUFFICES /\ new \in Seq(R)
             /\ TotalCount(new) = TotalCount(evs) + 1 - IF lets THEN Head(evs).count ELSE 0
  BY DEF LetsGo
<1> HIDE DEF event, R
<1>4. CASE same # {}
  <2> DEFINE i == Min(same)
             stored == [event EXCEPT !.count = evs[i].count + 1]
  <2>1. i \in DOMAIN evs
    <3>1. same \in SUBSET Nat /\ same \subseteq DOMAIN evs
      BY DEF Aggregating
    <3>2. Min(same) \in same
      BY <1>4, <3>1, LeastChosen
    <3> QED BY <3>1, <3>2
  <2> HIDE DEF i
  <2>2. stored \in R /\ stored.count = evs[i].count + 1 /\ evs[i].count \in Nat
    <3>1. evs[i] \in R
      BY <1>1, <2>1
    <3>2. evs[i].count + 1 \in Nat /\ evs[i].count \in Nat
      BY <3>1 DEF R, Stored
    <3>3. stored = [key |-> k, count |-> evs[i].count + 1, at |-> at]
      BY DEF event
    <3>4. stored \in R
      BY <3>2, <3>3 DEF R, Stored
    <3> QED BY <3>2, <3>3, <3>4
  <2>3. new = [evs EXCEPT ![i] = stored]
    BY <1>4 DEF Recorded, i, event
  <2> HIDE DEF stored, new
  <2>4. new \in Seq(R)
    BY <1>1, <2>1, <2>2, <2>3
  <2>5. TotalCount(new) = TotalCount(evs) + (stored.count - evs[i].count)
    BY <1>1, <1>3, <2>1, <2>2, <2>3, TotalOfExcept
  <2> QED BY <1>3, <1>4, <2>2, <2>4, <2>5
<1>5. CASE same = {} /\ Len(evs) < max
  <2>1. new = Append(evs, event)
    BY <1>5 DEF Recorded, event
  <2> HIDE DEF new
  <2>2. new \in Seq(R)
    BY <1>1, <2>1
  <2>3. TotalCount(new) = TotalCount(evs) + event.count
    BY <1>1, <1>3, <2>1, TotalOfAppend
  <2> QED BY <1>2, <1>3, <1>5, <2>2, <2>3
<1>6. CASE same = {} /\ Len(evs) >= max
  <2>1. new = Append(Tail(evs), event)
    BY <1>6 DEF Recorded, event
  <2>2. evs # <<>> /\ Tail(evs) \in Seq(R) /\ Head(evs) \in R
    BY <1>1, <1>6
  <2> HIDE DEF new
  <2>3. new \in Seq(R)
    BY <1>1, <2>1, <2>2
  <2>4. TotalCount(new) = TotalCount(Tail(evs)) + event.count
    BY <1>1, <1>3, <2>1, <2>2, TotalOfAppend
  <2>5. TotalCount(Tail(evs)) = TotalCount(evs) - Head(evs).count
    BY <1>1, <1>3, <2>2, TotalOfTail
  <2>6. Head(evs).count \in Int
    BY <1>3, <2>2 DEF Counted
  <2> QED BY <1>2, <1>3, <1>6, <2>3, <2>4, <2>5, <2>6
<1>7. Len(evs) \in Nat /\ max \in Nat
  OBVIOUS
<1> QED BY <1>4, <1>5, <1>6, <1>7

(* What the collector keeps are events, and it lets go of what it says.      *)
RefusalsInv ==
  /\ gatewayClock \in Nat /\ displaced \in Nat
  /\ \E K : events \in Seq(Stored(K))
  /\ unauthorized = displaced + TotalCount(events)

LEMMA InitRefusals == GatewayInit => RefusalsInv
<1> SUFFICES ASSUME GatewayInit PROVE RefusalsInv
  OBVIOUS
<1>1. gatewayClock = 1 /\ displaced = 0 /\ events = <<>> /\ unauthorized = 0
  BY DEF GatewayInit
<1>2. TotalCount(<<>>) = 0
  BY StoredCounts, TotalOfNone
<1>3. events \in Seq(Stored({}))
  BY <1>1
<1> QED BY <1>1, <1>2, <1>3 DEF RefusalsInv

LEMMA ReportedRefusal ==
  ASSUME RefusalsInv, NEW client, NEW r, Reported(client, r),
         UNCHANGED gatewayClock, unauthorized' = unauthorized + 1
  PROVE  RefusalsInv'
<1> DEFINE k == <<ClientId(client), r.id, Authorization(client, r).reason>>
           lets == LetsGo(events, k, gatewayClock, EventWindow, EventBudget)
<1>1. /\ events' = Recorded(events, k, gatewayClock, EventWindow, EventBudget)
      /\ displaced' = IF lets THEN displaced + Head(events).count ELSE displaced
  BY DEF Reported, LetsGo
<1> HIDE DEF k
<1>2. PICK K : events \in Seq(Stored(K))
  BY DEF RefusalsInv
<1>3. EventBudget \in Nat \ {0} /\ gatewayClock \in Nat /\ displaced \in Nat
  BY GatewayAssumption DEF RefusalsInv
<1>4. /\ events' \in Seq(Stored(K \cup {k}))
      /\ TotalCount(events') = TotalCount(events) + 1 - IF lets THEN Head(events).count ELSE 0
  <2>1. /\ Recorded(events, k, gatewayClock, EventWindow, EventBudget) \in Seq(Stored(K \cup {k}))
        /\ TotalCount(Recorded(events, k, gatewayClock, EventWindow, EventBudget)) =
             TotalCount(events) + 1 - IF lets THEN Head(events).count ELSE 0
    BY <1>2, <1>3, RecordedTotal
  <2> HIDE DEF lets
  <2> QED BY <1>1, <2>1
<1>5. lets => Head(events).count \in Nat
  <2>1. ASSUME lets PROVE Head(events) \in Stored(K)
    BY <1>2, <1>3, <2>1 DEF LetsGo
  <2> QED BY <2>1, StoredCounts
<1>6. TotalCount(events) \in Nat
  BY <1>2, StoredCounts, TotalNatural
<1> HIDE DEF lets
<1>7. /\ unauthorized' = displaced' + TotalCount(events')
      /\ displaced' \in Nat
  <2> DEFINE gone == IF lets THEN Head(events).count ELSE 0
  <2>1. unauthorized = displaced + TotalCount(events)
    BY DEF RefusalsInv
  <2>2. /\ gone \in Nat /\ displaced' = displaced + gone
        /\ TotalCount(events') = TotalCount(events) + 1 - gone
    BY <1>1, <1>3, <1>4, <1>5
  <2> HIDE DEF gone
  <2> QED BY <1>3, <1>6, <2>1, <2>2
<1> QED BY <1>3, <1>4, <1>7 DEF RefusalsInv

LEMMA NextRefusals ==
  ASSUME RefusalsInv, [GatewayNext]_gatewayVars
  PROVE  RefusalsInv'
<1>1. ASSUME UNCHANGED <<events, displaced, unauthorized>>, gatewayClock' \in Nat
      PROVE  RefusalsInv'
  BY <1>1 DEF RefusalsInv
<1>2. gatewayClock \in Nat
  BY DEF RefusalsInv
<1>3. ASSUME NEW r \in Routes, NEW client \in Callers, NEW payload \in 0 .. 2,
             Dispatch(client, r, payload)
      PROVE  RefusalsInv'
  <2> DEFINE status == DispatchStatus(client, r, payload)
  <2>1. /\ unauthorized' = IF status = "Unauthorized" THEN unauthorized + 1 ELSE unauthorized
        /\ gatewayClock' = gatewayClock
    BY <1>3 DEF Dispatch, Receipted
  <2>2. \/ status = "Unauthorized" /\ Reported(client, r)
        \/ status # "Unauthorized" /\ UNCHANGED <<events, displaced>>
    BY <1>3 DEF Dispatch
  <2> HIDE DEF status
  <2>3. CASE status = "Unauthorized" /\ Reported(client, r)
    BY <2>1, <2>3, ReportedRefusal
  <2>4. CASE status # "Unauthorized" /\ UNCHANGED <<events, displaced>>
    BY <1>1, <1>2, <2>1, <2>4
  <2> QED BY <2>2, <2>3, <2>4
<1>4. ASSUME NEW id, DispatchUnknown(id) PROVE RefusalsInv'
  <2>1. UNCHANGED <<events, displaced, unauthorized, gatewayClock>>
    BY <1>4 DEF DispatchUnknown, Receipted
  <2> QED BY <1>1, <1>2, <2>1
<1>5. CASE GatewayTick
  BY <1>1, <1>2, <1>5 DEF GatewayTick
<1>6. CASE UNCHANGED <<events, displaced, unauthorized, gatewayClock>>
  BY <1>1, <1>2, <1>6
<1> QED
  BY <1>3, <1>4, <1>5, <1>6 DEF GatewayNext, gatewayVars, RegisterRoute, RemoveRoute, AddRule, OfferOrStopOffer

(* Every request refused for lack of authorization is counted in an event    *)
(* that the collector keeps or has let go for a newer one, however events    *)
(* are aggregated and room is made (RecordAuthorizationFailure,              *)
(* SecurityEventCollector).                                                  *)
THEOREM RefusalsCorrect == GatewaySpec => []RefusalsAreOnRecord
<1>1. RefusalsInv /\ [GatewayNext]_gatewayVars => RefusalsInv'
  BY NextRefusals
<1>2. RefusalsInv => RefusalsAreOnRecord
  BY DEF RefusalsInv, RefusalsAreOnRecord, TotalCount
<1> QED BY InitRefusals, <1>1, <1>2, PTL DEF GatewaySpec

-----------------------------------------------------------------------------
(* The intrusion detection manager.                                          *)

(* What came of each record is kept beside it, and no more is counted than   *)
(* came.                                                                     *)
ForBackend(policy, r) ==
  policy.forwarding /\ r.key.severity >= policy.threshold /\ r.count <= policy.rate_limit_count

IdsInv ==
  /\ idsPolicy \in Policies
  /\ \E K : records \in Seq(Stored(K))
  /\ told \in Seq(Nat) /\ Len(told) = Len(records)
  /\ seen \in Nat /\ forgotten \in Nat
  /\ TotalCount(records) + forgotten <= seen
  /\ seen <= MaxCount => TotalCount(records) + forgotten = seen
  /\ \A i \in DOMAIN records :
       ForBackend(idsPolicy, records[i]) => told[i] = records[i].count

LEMMA InitIds == IdsInit => IdsInv
<1> SUFFICES ASSUME IdsInit PROVE IdsInv
  OBVIOUS
<1>1. TotalCount(<<>>) = 0
  BY StoredCounts, TotalOfNone
<1>2. /\ records = <<>> /\ told = <<>> /\ seen = 0 /\ forgotten = 0 /\ idsPolicy \in Policies
      /\ records \in Seq(Stored({})) /\ told \in Seq(Nat) /\ Len(told) = 0 /\ Len(records) = 0
  BY DEF IdsInit
<1> QED BY <1>1, <1>2, IdsmAssumption DEF IdsInv

(* A counter that saturates counts no more than it is given, and all of it   *)
(* while the total fits the counter.                                         *)
LEMMA Saturating ==
  ASSUME NEW a \in Nat, NEW n \in Nat \ {0}
  PROVE  /\ SaturatingAdd(a, n) \in Nat /\ SaturatingAdd(a, n) <= a + n
         /\ a + n <= MaxCount => SaturatingAdd(a, n) = a + n
  BY IdsmAssumption DEF SaturatingAdd

LEMMA AggregateIds ==
  ASSUME IdsInv, NEW i \in DOMAIN records, NEW n \in Nat \ {0}, NEW at \in Nat,
         Aggregate(i, n, at), seen' = seen + n, UNCHANGED idsPolicy
  PROVE  IdsInv'
<1> DEFINE sum == SaturatingAdd(records[i].count, n)
           stored == [records[i] EXCEPT !.count = sum, !.at = at]
<1>1. PICK K : records \in Seq(Stored(K))
  BY DEF IdsInv
<1>2. records[i] \in Stored(K) /\ records[i].count \in Nat
  <2>1. records[i] \in Stored(K)
    BY <1>1
  <2> QED BY <2>1 DEF Stored
<1>3. sum \in Nat /\ sum <= records[i].count + n
      /\ (records[i].count + n <= MaxCount => sum = records[i].count + n)
  BY <1>2, Saturating
<1> HIDE DEF sum
<1>4. stored \in Stored(K) /\ stored.count = sum /\ stored.key = records[i].key
  BY <1>2, <1>3 DEF Stored
<1>5. /\ records' = [records EXCEPT ![i] = stored]
      /\ UNCHANGED forgotten
      /\ \/ Throttles(stored, ElapsedMs(at, records[i].at)) /\ UNCHANGED told
         \/ told' = IF ShouldForward(stored.key) THEN [told EXCEPT ![i] = stored.count] ELSE told
  BY DEF Aggregate, sum
<1> HIDE DEF stored
<1>6. /\ records' \in Seq(Stored(K)) /\ Len(records') = Len(records)
      /\ DOMAIN records' = DOMAIN records /\ records'[i] = stored
      /\ \A j \in DOMAIN records : j # i => records'[j] = records[j]
  BY <1>1, <1>4, <1>5
<1>7. TotalCount(records') = TotalCount(records) + (sum - records[i].count)
  BY <1>1, <1>4, <1>5, StoredCounts, TotalOfExcept
<1>8. /\ TotalCount(records) \in Nat /\ records[i].count <= TotalCount(records)
  BY <1>1, StoredCounts, TotalNatural, TotalBounds
<1>9. /\ TotalCount(records') + forgotten' <= seen'
      /\ seen' <= MaxCount => TotalCount(records') + forgotten' = seen'
  <2>1. /\ seen \in Nat /\ forgotten \in Nat /\ MaxCount \in Nat
        /\ TotalCount(records) + forgotten <= seen
        /\ seen <= MaxCount => TotalCount(records) + forgotten = seen
    BY IdsmAssumption DEF IdsInv
  <2>2. forgotten' = forgotten /\ seen' = seen + n
    BY <1>5
  <2> QED BY <1>2, <1>3, <1>7, <1>8, <2>1, <2>2
<1>10. /\ told' \in Seq(Nat) /\ Len(told') = Len(records')
       /\ \A j \in DOMAIN records : j # i => told'[j] = told[j]
       /\ i \in DOMAIN told
  <2>1. told \in Seq(Nat) /\ Len(told) = Len(records) /\ DOMAIN told = DOMAIN records
    BY <1>1 DEF IdsInv
  <2>2. told' = told \/ told' = [told EXCEPT ![i] = stored.count]
    BY <1>5
  <2>3. stored.count \in Nat
    BY <1>3, <1>4
  <2>4. CASE told' = told
    BY <1>6, <2>1, <2>4
  <2>5. CASE told' = [told EXCEPT ![i] = stored.count]
    BY <1>6, <2>1, <2>3, <2>5
  <2> QED BY <2>2, <2>4, <2>5
<1>11. ASSUME NEW j \in DOMAIN records', ForBackend(idsPolicy', records'[j])
       PROVE  told'[j] = records'[j].count
  <2>1. idsPolicy' = idsPolicy /\ j \in DOMAIN records
    BY <1>6
  <2>2. CASE j # i
    <3>1. ForBackend(idsPolicy, records[j]) /\ records'[j] = records[j]
      BY <1>6, <1>11, <2>1, <2>2
    <3>2. told[j] = records[j].count
      BY <2>1, <3>1 DEF IdsInv
    <3> QED BY <1>10, <2>1, <2>2, <3>1, <3>2
  <2>3. CASE j = i
    <3>1. ShouldForward(stored.key) /\ stored.count <= idsPolicy.rate_limit_count
      BY <1>6, <1>11, <2>1, <2>3 DEF ShouldForward, ForBackend
    <3>2. idsPolicy.rate_limit_count \in Nat
      BY IdsmAssumption DEF IdsInv
    <3>3. ~Throttles(stored, ElapsedMs(at, records[i].at))
      BY <1>3, <1>4, <3>1, <3>2 DEF Throttles
    <3>4. told' = [told EXCEPT ![i] = stored.count]
      BY <1>5, <3>1, <3>3
    <3> QED BY <1>6, <1>10, <2>3, <3>4
  <2> QED BY <2>2, <2>3
<1>12. seen' \in Nat /\ forgotten' \in Nat /\ idsPolicy' \in Policies
  BY <1>5 DEF IdsInv
<1> QED BY <1>6, <1>9, <1>10, <1>11, <1>12 DEF IdsInv

LEMMA StoreIds ==
  ASSUME IdsInv, NEW e, NEW n \in Nat \ {0}, NEW at \in Nat, idsPolicy.max_records # 0,
         Store(e, n, at), seen' = seen + n, UNCHANGED idsPolicy
  PROVE  IdsInv'
<1> DEFINE event == [key |-> Key(e), count |-> n, at |-> at]
           full == Len(records) >= idsPolicy.max_records
           kept == IF full THEN Tail(records) ELSE records
           keptTold == IF full THEN Tail(told) ELSE told
           new == IF ShouldForward(event.key) THEN n ELSE 0
           gone == IF full THEN Head(records).count ELSE 0
<1>1. PICK K : records \in Seq(Stored(K))
  BY DEF IdsInv
<1> DEFINE R == Stored(K \cup {Key(e)})
<1>2. records \in Seq(R) /\ event \in R
  BY <1>1, StoredMore
<1>3. event.count = n /\ event.key = Key(e) /\ new \in Nat
  OBVIOUS
<1>4. /\ records' = Append(kept, event) /\ told' = Append(keptTold, new)
      /\ forgotten' = forgotten + gone
  <2>1. forgotten \in Nat
    BY DEF IdsInv
  <2> QED BY <2>1 DEF Store
<1>5. Counted(R) /\ \A r \in R : r.count \in Nat
  BY StoredCounts
<1> HIDE DEF event, new, R
<1>6. full => records # <<>> /\ told # <<>>
  <2>1. idsPolicy.max_records \in Nat /\ idsPolicy.max_records # 0
    BY IdsmAssumption DEF IdsInv
  <2>2. Len(told) = Len(records) /\ told \in Seq(Nat)
    BY DEF IdsInv
  <2> QED BY <1>2, <2>1, <2>2
<1>7. /\ kept \in Seq(R) /\ keptTold \in Seq(Nat) /\ Len(kept) = Len(keptTold)
      /\ full => Head(records) \in R
  <2>1. Len(told) = Len(records) /\ told \in Seq(Nat)
    BY DEF IdsInv
  <2>2. CASE full
    <3>1. kept = Tail(records) /\ keptTold = Tail(told)
      BY <2>2
    <3>2. Tail(records) \in Seq(R) /\ Len(Tail(records)) = Len(records) - 1 /\ Head(records) \in R
      BY <1>2, <1>6, <2>2
    <3>3. Tail(told) \in Seq(Nat) /\ Len(Tail(told)) = Len(told) - 1
      BY <1>6, <2>1, <2>2
    <3> QED BY <2>1, <3>1, <3>2, <3>3
  <2>3. CASE ~full
    BY <1>2, <2>1, <2>3
  <2> QED BY <2>2, <2>3
<1>8. TotalCount(kept) = TotalCount(records) - gone /\ gone \in Nat
  <2>1. CASE full
    BY <1>2, <1>5, <1>6, <1>7, <2>1, TotalOfTail
  <2>2. CASE ~full
    <3>1. TotalCount(records) \in Nat
      BY <1>2, <1>5, TotalNatural
    <3> QED BY <2>2, <3>1
  <2> QED BY <2>1, <2>2
<1>9. \A j \in DOMAIN kept : ForBackend(idsPolicy, kept[j]) => keptTold[j] = kept[j].count
  <2>1. Len(told) = Len(records) /\ told \in Seq(Nat)
    BY DEF IdsInv
  <2>2. \A j \in DOMAIN records : ForBackend(idsPolicy, records[j]) => told[j] = records[j].count
    BY DEF IdsInv
  <2>3. CASE full
    <3>1. /\ kept = Tail(records) /\ keptTold = Tail(told)
          /\ \A j \in DOMAIN kept :
               j + 1 \in DOMAIN records /\ kept[j] = records[j + 1] /\ keptTold[j] = told[j + 1]
      BY <1>2, <1>6, <2>1, <2>3
    <3> QED BY <2>2, <3>1
  <2>4. CASE ~full
    BY <2>2, <2>4
  <2> QED BY <2>3, <2>4
<1> HIDE DEF kept, keptTold, gone, full
<1>10. TotalCount(records') = TotalCount(kept) + n
  BY <1>2, <1>3, <1>4, <1>5, <1>7, TotalOfAppend
<1>11. /\ records' \in Seq(R) /\ told' \in Seq(Nat) /\ Len(told') = Len(records')
       /\ DOMAIN records' = DOMAIN kept \cup {Len(kept) + 1}
       /\ records'[Len(kept) + 1] = event /\ told'[Len(kept) + 1] = new
       /\ \A j \in DOMAIN kept : records'[j] = kept[j] /\ told'[j] = keptTold[j]
  <2>1. event \in R /\ new \in Nat
    BY <1>2, <1>3
  <2>2. /\ records' \in Seq(R) /\ Len(records') = Len(kept) + 1
        /\ records'[Len(kept) + 1] = event
        /\ \A j \in DOMAIN kept : records'[j] = kept[j]
    BY <1>4, <1>7, <2>1
  <2>3. /\ told' \in Seq(Nat) /\ Len(told') = Len(keptTold) + 1
        /\ told'[Len(keptTold) + 1] = new
        /\ \A j \in DOMAIN keptTold : told'[j] = keptTold[j]
    BY <1>4, <1>7, <2>1
  <2>4. /\ DOMAIN kept = DOMAIN keptTold /\ DOMAIN kept = 1 .. Len(kept)
        /\ DOMAIN records' = 1 .. Len(records') /\ Len(kept) \in Nat
    BY <1>7, <2>2
  <2>5. 1 .. Len(kept) + 1 = (1 .. Len(kept)) \cup {Len(kept) + 1}
    BY <2>4
  <2> QED BY <1>7, <2>2, <2>3, <2>4, <2>5
<1>12. /\ TotalCount(records') + forgotten' <= seen'
       /\ seen' <= MaxCount => TotalCount(records') + forgotten' = seen'
       /\ seen' \in Nat /\ forgotten' \in Nat
  <2>1. /\ seen \in Nat /\ forgotten \in Nat /\ MaxCount \in Nat
        /\ TotalCount(records) + forgotten <= seen
        /\ seen <= MaxCount => TotalCount(records) + forgotten = seen
    BY IdsmAssumption DEF IdsInv
  <2>2. TotalCount(records) \in Nat
    BY <1>2, <1>5, TotalNatural
  <2>3. forgotten' = forgotten + gone /\ seen' = seen + n
    BY <1>4
  <2> QED BY <1>8, <1>10, <2>1, <2>2, <2>3
<1>13. ASSUME NEW j \in DOMAIN records', ForBackend(idsPolicy', records'[j])
       PROVE  told'[j] = records'[j].count
  <2>1. ForBackend(idsPolicy, records'[j])
    BY <1>13
  <2>2. CASE j \in DOMAIN kept
    BY <1>9, <1>11, <2>1, <2>2
  <2>3. CASE j = Len(kept) + 1
    BY <1>3, <1>11, <2>1, <2>3 DEF new, ForBackend, ShouldForward
  <2> QED BY <1>11, <2>2, <2>3
<1>14. idsPolicy' \in Policies
  BY DEF IdsInv
<1> QED BY <1>11, <1>12, <1>13, <1>14 DEF IdsInv, R

LEMMA NextIds ==
  ASSUME IdsInv, [IdsNext]_idsVars
  PROVE  IdsInv'
<1>1. ASSUME NEW e \in SecurityEvents, NEW count \in 0 .. 2, NEW at \in 0 .. MaxEventTime,
             Record(e, count, at)
      PROVE  IdsInv'
  <2> DEFINE n == IF count = 0 THEN 1 ELSE count
  <2>1. n \in Nat \ {0} /\ at \in Nat
    BY IdsmAssumption
  <2>2. /\ idsPolicy.max_records # 0 /\ seen' = seen + n /\ UNCHANGED idsPolicy
        /\ IF Matches(e, at) # {} THEN Aggregate(Min(Matches(e, at)), n, at) ELSE Store(e, n, at)
    BY <1>1 DEF Record
  <2> HIDE DEF n
  <2>3. CASE Matches(e, at) # {}
    <3>1. Matches(e, at) \in SUBSET Nat /\ Matches(e, at) \subseteq DOMAIN records
      BY DEF Matches, IdsInv
    <3>2. Min(Matches(e, at)) \in DOMAIN records
      BY <2>3, <3>1, LeastChosen
    <3> QED BY <2>1, <2>2, <2>3, <3>2, AggregateIds
  <2>4. CASE Matches(e, at) = {}
    BY <2>1, <2>2, <2>4, StoreIds
  <2> QED BY <2>3, <2>4
<1>2. CASE DrainForwardingBatch
  BY <1>2 DEF DrainForwardingBatch, IdsInv
<1>3. CASE UNCHANGED idsVars
  BY <1>3 DEF idsVars, IdsInv
<1> QED BY <1>1, <1>2, <1>3 DEF IdsNext

(* Whatever names are taken from events and however late or often they come, *)
(* they are counted once in a record that is kept or was dropped, all of     *)
(* them until more came than a counter holds, and the backend was given what *)
(* a record at or above the threshold counts until that is throttled         *)
(* (IdsmManager::Record, Normalize, ShouldForward).                          *)
THEOREM EventsCorrect == IdsSpec => []EventsAreAccounted
<1>1. IdsInv /\ [IdsNext]_idsVars => IdsInv'
  BY NextIds
<1>2. IdsInv => EventsAreAccounted
  <2>1. Accounted = TotalCount(records) + forgotten
    BY DEF Accounted, TotalCount
  <2> QED BY <2>1 DEF IdsInv, EventsAreAccounted, ForBackend
<1> QED BY InitIds, <1>1, <1>2, PTL DEF IdsSpec
=============================================================================
