-------------------------- MODULE CopiedLogsProofs --------------------------
(***************************************************************************)
(* The log writers that copy a whole entry and persist it: the header, the *)
(* classic and the zero family (LW_Header*.hpp, LW_Classic*.hpp,           *)
(* LW_Zero*.hpp).  Of each: the invariant that every step of the writer    *)
(* and every line the cache writes out on its own keeps, and that in a     *)
(* state of it the recovery finds the log.  LogWritersProofs.tla has the   *)
(* other two families and the theorems about all of them.                  *)
(*                                                                         *)
(* First, what the operators of LogMemory.tla do, for every format: how    *)
(* each changes what a word is in the cache, on its way to NVM and in NVM; *)
(* where the entries of a log lie and what a reader makes of them; sums    *)
(* and bit counts.                                                         *)
(***************************************************************************)
EXTENDS LogWriters, SequenceTheorems, WellFoundedInduction, TLAPS

-----------------------------------------------------------------------------
\* Cache lines: what the operations of PMem.tla do to one.

(* So does every store.                                                    *)
LEMMA StoreOps ==
  ASSUME NEW V, NEW c \in LineSet(V), NEW v \in V
  PROVE  /\ Line(v) \in LineSet(V)
         /\ Store(c, v) \in LineSet(V)
         /\ CopyAndFlush(c, v) \in LineSet(V)
         /\ Tear(c, v) \in LineSet(V)
  BY DEF LineSet, Line, Store, WriteBack, CopyAndFlush, Tear

(* What a store leaves in the fields.                                      *)
LEMMA StoreFields ==
  ASSUME NEW V, NEW c \in LineSet(V), NEW v
  PROVE  /\ Store(c, v).vol = v /\ Store(c, v).fen = c.fen /\ Store(c, v).dur = c.dur
         /\ CopyAndFlush(c, v).vol = v /\ CopyAndFlush(c, v).fen = v
         /\ CopyAndFlush(c, v).dur = c.dur
  BY DEF LineSet, Store, WriteBack, CopyAndFlush

-----------------------------------------------------------------------------
\* Numbers.

(* Every nonempty set of natural numbers has a least one.  Whatever is     *)
(* proved by induction below is proved from it.                            *)
LEMMA LeastNumber ==
  ASSUME NEW T \in SUBSET Nat, T # {}
  PROVE  \E x \in T : \A y \in T : x <= y
<1> DEFINE R == OpToRel(<, Nat)
<1>1. IsWellFoundedOn(R, Nat)
  BY NatLessThanWellFounded
<1>2. PICK x \in T : \A y \in T : ~(<<y, x>> \in R)
  <2> HIDE DEF R
  <2> QED  BY <1>1, WFMin
<1>3. ASSUME NEW y \in T
      PROVE  x <= y
  <2>1. ~(<<y, x>> \in R)
    BY <1>2
  <2>2. ~(y < x)
    BY <2>1 DEF OpToRel
  <2> QED  BY <2>2
<1> QED  BY <1>3

(* Induction over the natural numbers, the property given by its set.      *)
LEMMA Induction ==
  ASSUME NEW S, 0 \in S, \A n \in Nat : n \in S => n + 1 \in S
  PROVE  \A n \in Nat : n \in S
<1>1. SUFFICES ASSUME NEW m \in Nat, m \notin S PROVE FALSE
  OBVIOUS
<1>2. PICK x \in Nat \ S : \A y \in Nat \ S : x <= y
  <2>1. Nat \ S \in SUBSET Nat /\ Nat \ S # {}
    BY <1>1
  <2> QED  BY <2>1, LeastNumber
<1>3. x # 0 /\ x - 1 \in Nat
  BY <1>2
<1>4. x - 1 \in S
  BY <1>2, <1>3
<1>5. (x - 1) + 1 \in S
  BY <1>3, <1>4
<1> QED  BY <1>2, <1>3, <1>5

(* alex_PopCount computes what its recursive definition says.              *)
LEMMA PopCountUnfolds ==
  /\ alex_PopCount \in [Nat -> Nat]
  /\ \A n \in Nat :
       alex_PopCount[n] = IF n = 0 THEN 0 ELSE (n % 2) + alex_PopCount[n \div 2]
<1> DEFINE Counts(g, n) ==
      \A i \in 0 .. n : g[i] = IF i = 0 THEN 0 ELSE (i % 2) + g[i \div 2]
           S == {n \in Nat : \E g \in [0 .. n -> Nat] : Counts(g, n)}
<1>h. \A i \in Nat \ {0} : i \div 2 \in 0 .. i - 1 /\ i % 2 \in 0 .. 1
  OBVIOUS
<1>1. 0 \in S
  <2>1. [i \in 0 .. 0 |-> 0] \in [0 .. 0 -> Nat] /\ Counts([i \in 0 .. 0 |-> 0], 0)
    OBVIOUS
  <2> QED  BY <2>1
<1>2. ASSUME NEW n \in Nat, n \in S
      PROVE  n + 1 \in S
  <2>1. PICK g \in [0 .. n -> Nat] : Counts(g, n)
    BY <1>2
  <2> DEFINE m == n + 1
             h == [i \in 0 .. m |-> IF i = m THEN (m % 2) + g[m \div 2] ELSE g[i]]
  <2>2. m \div 2 \in 0 .. n /\ m % 2 \in Nat
    BY <1>h
  <2>3. h \in [0 .. m -> Nat]
    BY <2>2
  <2>4. ASSUME NEW i \in 0 .. m
        PROVE  h[i] = IF i = 0 THEN 0 ELSE (i % 2) + h[i \div 2]
    <3>1. CASE i = m
      BY <3>1, <2>2
    <3>2. CASE i # m
      <4>1. i \in 0 .. n
        BY <3>2
      <4>2. i # 0 => i \div 2 \in 0 .. n
        BY <4>1, <1>h
      <4> QED  BY <2>1, <4>1, <4>2
    <3> QED  BY <3>1, <3>2
  <2>5. Counts(h, m) /\ m \in Nat
    <3> HIDE DEF h
    <3> QED  BY <2>4
  <2> HIDE DEF h, Counts
  <2> QED  BY <2>3, <2>5
<1>3. \A n \in Nat : n \in S
  <2> HIDE DEF S
  <2> QED  BY <1>1, <1>2, Induction
<1>4. ASSUME NEW m \in Nat, NEW n \in Nat, m <= n,
             NEW g \in [0 .. m -> Nat], Counts(g, m), NEW h \in [0 .. n -> Nat], Counts(h, n)
      PROVE  g[m] = h[m]
  <2> DEFINE D == {i \in 0 .. m : g[i] # h[i]}
  <2>1. SUFFICES ASSUME D # {} PROVE FALSE
    OBVIOUS
  <2>2. PICK i \in D : \A j \in D : i <= j
    <3>1. D \in SUBSET Nat
      OBVIOUS
    <3> HIDE DEF D
    <3> QED  BY <2>1, <3>1, LeastNumber
  <2>3. i \in 0 .. m /\ i \in 0 .. n /\ i # 0
    BY <1>4
  <2>4. i \div 2 \in 0 .. i - 1
    BY <2>3, <1>h
  <2>5. g[i \div 2] = h[i \div 2]
    BY <2>2, <2>3, <2>4
  <2> QED  BY <1>4, <2>3, <2>5
<1> DEFINE G(n) == CHOOSE g \in [0 .. n -> Nat] : Counts(g, n)
           F == [n \in Nat |-> G(n)[n]]
<1>5. \A n \in Nat : G(n) \in [0 .. n -> Nat] /\ Counts(G(n), n)
  BY <1>3
<1>6. F \in [Nat -> Nat]
  <2> SUFFICES ASSUME NEW n \in Nat PROVE G(n)[n] \in Nat
    OBVIOUS
  <2> HIDE DEF G
  <2> QED  BY <1>5
<1>7. ASSUME NEW n \in Nat
      PROVE  F[n] = IF n = 0 THEN 0 ELSE (n % 2) + F[n \div 2]
  <2>1. CASE n = 0
    <3> HIDE DEF G
    <3> QED  BY <2>1, <1>5
  <2>2. CASE n # 0
    <3>1. n \div 2 \in 0 .. n - 1
      BY <2>2, <1>h
    <3> DEFINE half == n \div 2
    <3>2. G(n)[n] = (n % 2) + G(n)[n \div 2]
      <4>1. Counts(G(n), n)
        <5> HIDE DEF G, Counts
        <5> QED  BY <1>5
      <4>2. n \in 0 .. n
        OBVIOUS
      <4> HIDE DEF G
      <4> QED  BY <2>2, <4>1, <4>2
    <3>3. G(half) \in [0 .. half -> Nat] /\ Counts(G(half), half) /\ half \in Nat /\ half <= n
      <4> HIDE DEF G, Counts
      <4> QED  BY <3>1, <1>5
    <3>4. G(n)[n \div 2] = G(half)[half]
      <4>1. G(n) \in [0 .. n -> Nat] /\ Counts(G(n), n)
        <5> HIDE DEF G, Counts
        <5> QED  BY <1>5
      <4>2. G(half)[half] = G(n)[half]
        <5> HIDE DEF G, Counts, half
        <5> QED  BY <1>4, <3>3, <4>1
      <4> QED  BY <4>2
    <3>5. n \div 2 \in Nat
      BY <3>1
    <3> HIDE DEF G
    <3> QED  BY <2>2, <3>2, <3>4, <3>5
  <2> QED  BY <2>1, <2>2
<1>8. F = [n \in Nat |-> IF n = 0 THEN 0 ELSE (n % 2) + F[n \div 2]]
  <2> HIDE DEF F
  <2>1. F = [n \in Nat |-> F[n]]
    BY <1>6
  <2> QED  BY <2>1, <1>7
<1>9. alex_PopCount = [n \in Nat |-> IF n = 0 THEN 0 ELSE (n % 2) + alex_PopCount[n \div 2]]
  <2> HIDE DEF F
  <2> QED  BY <1>8 DEF alex_PopCount
<1>10. alex_PopCount = F
  <2> HIDE DEF F
  <2> DEFINE D == {n \in Nat : alex_PopCount[n] # F[n]}
  <2>1. D = {}
    <3>1. SUFFICES ASSUME D # {} PROVE FALSE
      OBVIOUS
    <3>2. PICK i \in D : \A j \in D : i <= j
      BY <3>1, LeastNumber
    <3>3. i # 0 => i \div 2 \in Nat /\ i \div 2 < i
      BY <1>h
    <3>4. i # 0 => alex_PopCount[i \div 2] = F[i \div 2]
      BY <3>2, <3>3
    <3> QED  BY <1>7, <1>9, <3>3, <3>4
  <2>2. \A n \in Nat : alex_PopCount[n] = F[n]
    BY <2>1
  <2> QED  BY <2>2, <1>6, <1>9
<1> HIDE DEF F
<1> QED  BY <1>6, <1>7, <1>10

(* A word has no bit set exactly when it is zero.                          *)
LEMMA PopCountZero ==
  ASSUME NEW n \in Nat
  PROVE  /\ alex_PopCount[n] \in Nat
         /\ alex_PopCount[n] = 0 <=> n = 0
<1> DEFINE D == {i \in Nat : i # 0 /\ alex_PopCount[i] = 0}
<1>1. alex_PopCount[n] \in Nat
  BY PopCountUnfolds
<1>2. alex_PopCount[0] = 0
  BY PopCountUnfolds
<1>3. D = {}
  <2>1. SUFFICES ASSUME D # {} PROVE FALSE
    OBVIOUS
  <2>2. PICK i \in D : \A j \in D : i <= j
    BY <2>1, LeastNumber
  <2>3. i \div 2 \in Nat /\ i % 2 \in Nat /\ i \div 2 < i
    OBVIOUS
  <2>4. alex_PopCount[i] = (i % 2) + alex_PopCount[i \div 2] /\ alex_PopCount[i \div 2] \in Nat
    BY <2>3, PopCountUnfolds
  <2>5. i % 2 = 0 /\ alex_PopCount[i \div 2] = 0
    BY <2>3, <2>4
  <2>6. i \div 2 \in D
    BY <2>3, <2>5
  <2> QED  BY <2>2, <2>3, <2>6
<1> QED  BY <1>1, <1>2, <1>3

(* Total adds the numbers of a sequence up from the left.                  *)
LEMMA TotalUnfolds ==
  ASSUME NEW ns \in Seq(Nat)
  PROVE  \E sum \in [0 .. Len(ns) -> Nat] :
           /\ sum[0] = 0
           /\ \A i \in 1 .. Len(ns) : sum[i] = sum[i - 1] + ns[i]
           /\ Total(ns) = sum[Len(ns)]
<1> DEFINE n == Len(ns)
           Sums(f, k) == \A s \in SUBSET (1 .. k) :
             f[s] = IF s = {} THEN 0 ELSE ns[Max(s)] + f[s \ {Max(s)}]
           Summed(k) == k <= n => \E f \in [SUBSET (1 .. k) -> Nat] : Sums(f, k)
           S == {k \in Nat : Summed(k)}
<1>d. n \in Nat /\ DOMAIN ns = 1 .. n /\ \A i \in 1 .. n : ns[i] \in Nat
  OBVIOUS
<1>1. Summed(0)
  <2>1. SUBSET (1 .. 0) = {{}}
    OBVIOUS
  <2> DEFINE f == [s \in SUBSET (1 .. 0) |-> 0]
  <2>2. f \in [SUBSET (1 .. 0) -> Nat] /\ Sums(f, 0)
    BY <2>1
  <2> QED  BY <2>2
<1>2. ASSUME NEW k \in Nat, Summed(k)
      PROVE  Summed(k + 1)
  <2> DEFINE m == k + 1
  <2>1. SUFFICES ASSUME m <= n
                 PROVE  \E f \in [SUBSET (1 .. m) -> Nat] : Sums(f, m)
    <3> HIDE DEF Sums, n
    <3> QED  OBVIOUS
  <2>2. PICK g \in [SUBSET (1 .. k) -> Nat] : Sums(g, k)
    <3>1. k <= n
      BY <2>1, <1>d
    <3> HIDE DEF Sums, n
    <3> QED  BY <1>2, <3>1, Zenon
  <2> DEFINE h == [s \in SUBSET (1 .. m) |-> IF m \in s THEN ns[m] + g[s \ {m}] ELSE g[s]]
  <2>3. \A s \in SUBSET (1 .. m) : /\ m \in s => s \ {m} \in SUBSET (1 .. k)
                                   /\ m \notin s => s \in SUBSET (1 .. k)
    OBVIOUS
  <2>4. ns[m] \in Nat
    BY <2>1, <1>d
  <2>5. h \in [SUBSET (1 .. m) -> Nat]
    BY <2>3, <2>4
  <2>6. ASSUME NEW s \in SUBSET (1 .. m)
        PROVE  h[s] = IF s = {} THEN 0 ELSE ns[Max(s)] + h[s \ {Max(s)}]
    <3>1. CASE m \in s
      <4>1. Max(s) = m
        <5>1. \A x \in s : (\A y \in s : x >= y) => x = m
          BY <3>1
        <5>2. m \in s /\ \A y \in s : m >= y
          BY <3>1
        <5> HIDE DEF h, m
        <5> QED  BY <5>1, <5>2 DEF Max
      <4>2. h[s \ {m}] = g[s \ {m}]
        OBVIOUS
      <4> QED  BY <3>1, <4>1, <4>2
    <3>2. CASE m \notin s
      <4>1. s \in SUBSET (1 .. k) /\ h[s] = g[s]
        BY <3>2, <2>3
      <4>2. h[s \ {Max(s)}] = g[s \ {Max(s)}]
        BY <3>2
      <4> QED  BY <2>2, <4>1, <4>2
    <3> QED  BY <3>1, <3>2
  <2> QED
    <3>1. Sums(h, m)
      BY <2>6
    <3> HIDE DEF h, Sums
    <3> QED  BY <2>5, <3>1
<1>3. Summed(n)
  <2> HIDE DEF Summed, n
  <2>1. 0 \in S /\ \A k \in Nat : k \in S => k + 1 \in S
    BY <1>1, <1>2
  <2>2. \A k \in Nat : k \in S
    <3> HIDE DEF S
    <3> QED  BY <2>1, Induction
  <2> QED  BY <2>2, <1>d
<1>4. PICK f \in [SUBSET (1 .. n) -> Nat] : Sums(f, n)
  <2>1. n <= n
    BY <1>d
  <2> HIDE DEF Sums, n
  <2> QED  BY <1>3, <2>1, Zenon
<1> DEFINE sums[s \in SUBSET DOMAIN ns] ==
      IF s = {} THEN 0 ELSE ns[Max(s)] + sums[s \ {Max(s)}]
<1>5. Total(ns) = sums[DOMAIN ns]
  BY DEF Total, MapThenFoldSet
<1>6. sums = [s \in SUBSET DOMAIN ns |->
                IF s = {} THEN 0 ELSE ns[Max(s)] + sums[s \ {Max(s)}]]
  <2>1. f = [s \in SUBSET DOMAIN ns |-> IF s = {} THEN 0 ELSE ns[Max(s)] + f[s \ {Max(s)}]]
    BY <1>4, <1>d
  <2> QED  BY <2>1
<1> HIDE DEF sums
<1>7. ASSUME NEW s \in SUBSET (1 .. n), s # {}
      PROVE  Max(s) \in s /\ \A j \in s : Max(s) >= j
  <2> DEFINE D == {n - i : i \in s}
  <2>1. D \in SUBSET Nat /\ D # {}
    <3>1. \A i \in s : i \in Nat /\ i <= n
      BY <1>d, <1>7
    <3>2. \A i \in s : n - i \in Nat
      BY <1>d, <3>1
    <3>3. PICK i \in s : TRUE
      BY <1>7
    <3> HIDE DEF n
    <3> QED  BY <3>2, <3>3
  <2>2. PICK d \in D : \A e \in D : d <= e
    <3> HIDE DEF D
    <3> QED  BY <2>1, LeastNumber
  <2>3. PICK i \in s : d = n - i
    OBVIOUS
  <2>4. \A j \in s : i >= j
    <3>1. SUFFICES ASSUME NEW j \in s PROVE i >= j
      OBVIOUS
    <3>2. n - j \in D /\ i \in Nat /\ j \in Nat
      OBVIOUS
    <3> HIDE DEF D, n
    <3> QED  BY <2>2, <2>3, <1>d, <3>2
  <2> QED  BY <2>4 DEF Max
<1>8. \A s \in SUBSET (1 .. n) : sums[s] = f[s]
  <2> DEFINE Same(k) == k <= n => \A s \in SUBSET (1 .. k) : sums[s] = f[s]
             Q == {k \in Nat : Same(k)}
  <2> HIDE DEF n
  <2>1. Same(0)
    <3>1. \A s \in SUBSET (1 .. 0) : s = {}
      OBVIOUS
    <3>2. {} \in SUBSET (1 .. n)
      OBVIOUS
    <3>3. sums[{}] = 0 /\ f[{}] = 0
      BY <1>4, <1>6, <1>d, <3>2
    <3> QED  BY <3>1, <3>3
  <2>2. ASSUME NEW k \in Nat, Same(k)
        PROVE  Same(k + 1)
    <3>0. sums[{}] = 0 /\ f[{}] = 0
      <4>1. {} \in SUBSET (1 .. n)
        OBVIOUS
      <4> QED  BY <1>4, <1>6, <1>d, <4>1
    <3>1. SUFFICES ASSUME k + 1 <= n, NEW s \in SUBSET (1 .. k + 1), s # {}
                   PROVE  sums[s] = f[s]
      BY <3>0
    <3>2. s \in SUBSET (1 .. n) /\ Max(s) \in s
      BY <1>7, <1>d, <3>1
    <3>3. s \ {Max(s)} \in SUBSET (1 .. k)
      <4>1. \A y \in s : Max(s) >= y
        BY <1>7, <3>1, <3>2
      <4>2. ASSUME NEW y \in s, y # Max(s)
            PROVE  y \in 1 .. k
        <5>1. y \in 1 .. k + 1 /\ Max(s) \in 1 .. k + 1 /\ Max(s) >= y
          BY <3>1, <3>2, <4>1
        <5> QED  BY <4>2, <5>1
      <4> QED  BY <4>2
    <3>4. sums[s \ {Max(s)}] = f[s \ {Max(s)}]
      BY <2>2, <3>1, <3>3, <1>d
    <3> QED  BY <1>4, <1>6, <1>d, <3>1, <3>2, <3>4
  <2>3. Same(n)
    <3> HIDE DEF Same
    <3>1. 0 \in Q /\ \A k \in Nat : k \in Q => k + 1 \in Q
      BY <2>1, <2>2
    <3>2. \A k \in Nat : k \in Q
      <4> HIDE DEF Q
      <4> QED  BY <3>1, Induction
    <3> QED  BY <3>2, <1>d
  <2> QED  BY <2>3, <1>d
<1> DEFINE up == [i \in 0 .. n |-> sums[1 .. i]]
<1>9. \A i \in 0 .. n : sums[1 .. i] \in Nat
  <2> HIDE DEF n
  <2> QED  BY <1>8, <1>4, <1>d
<1>10. ASSUME NEW i \in 1 .. n
       PROVE  sums[1 .. i] = sums[1 .. (i - 1)] + ns[i]
  <2> HIDE DEF n
  <2>1. (1 .. i) \in SUBSET (1 .. n) /\ (1 .. i) # {}
    <3>1. i \in 1 .. i
      BY <1>d
    <3>2. \A x \in 1 .. i : x \in 1 .. n
      BY <1>d
    <3> QED  BY <3>1, <3>2
  <2>2. Max(1 .. i) = i
    <3>1. \A x \in 1 .. i : (\A y \in 1 .. i : x >= y) => x = i
      BY <1>d
    <3>2. i \in 1 .. i /\ \A y \in 1 .. i : i >= y
      BY <1>d
    <3> QED  BY <3>1, <3>2 DEF Max
  <2>3. (1 .. i) \ {i} = 1 .. (i - 1)
    BY <1>d
  <2>4. sums[1 .. i] = ns[i] + sums[1 .. (i - 1)]
    BY <1>6, <1>d, <2>1, <2>2, <2>3
  <2>5. ns[i] \in Nat /\ sums[1 .. (i - 1)] \in Nat
    BY <1>9, <1>d
  <2> QED  BY <2>4, <2>5
<1>11. sums[1 .. 0] = 0
  <2>1. 1 .. 0 = {}
    OBVIOUS
  <2> QED  BY <1>6, <2>1
<1>12. /\ up \in [0 .. n -> Nat]
       /\ up[0] = 0
       /\ \A i \in 1 .. n : up[i] = up[i - 1] + ns[i]
       /\ Total(ns) = up[n]
  <2> HIDE DEF n
  <2> QED  BY <1>d, <1>5, <1>9, <1>10, <1>11
<1> HIDE DEF up
<1> QED  BY <1>12

-----------------------------------------------------------------------------
(* No number is more than the total,                                       *)
LEMMA TotalBounds ==
  ASSUME NEW ns \in Seq(Nat)
  PROVE  Total(ns) \in Nat /\ \A i \in 1 .. Len(ns) : ns[i] <= Total(ns)
<1> DEFINE n == Len(ns)
<1>d. n \in Nat /\ \A i \in 1 .. n : ns[i] \in Nat
  OBVIOUS
<1>1. PICK sum \in [0 .. n -> Nat] :
        /\ sum[0] = 0
        /\ \A i \in 1 .. n : sum[i] = sum[i - 1] + ns[i]
        /\ Total(ns) = sum[n]
  BY TotalUnfolds
<1> DEFINE Above(k) == k <= n => \A i \in 1 .. k : ns[i] <= sum[k]
           S == {k \in Nat : Above(k)}
<1> HIDE DEF n
<1>2. Above(0)
  OBVIOUS
<1>3. ASSUME NEW k \in Nat, Above(k)
      PROVE  Above(k + 1)
  <2>1. SUFFICES ASSUME k + 1 <= n, NEW i \in 1 .. k + 1
                 PROVE  ns[i] <= sum[k + 1]
    OBVIOUS
  <2>2. /\ sum[k + 1] = sum[k] + ns[k + 1] /\ ns[k + 1] \in Nat /\ sum[k] \in Nat
        /\ ns[i] \in Nat
    <3>1. k + 1 \in 1 .. n /\ (k + 1) - 1 = k /\ k \in 0 .. n /\ i \in 1 .. n
      BY <1>d, <2>1
    <3> QED  BY <1>1, <1>d, <3>1
  <2>3. i # k + 1 => ns[i] <= sum[k]
    BY <1>3, <1>d, <2>1
  <2> QED  BY <2>2, <2>3
<1>4. Above(n)
  <2> HIDE DEF Above
  <2>1. 0 \in S /\ \A k \in Nat : k \in S => k + 1 \in S
    BY <1>2, <1>3
  <2>2. \A k \in Nat : k \in S
    <3> HIDE DEF S
    <3> QED  BY <2>1, Induction
  <2> QED  BY <2>2, <1>d
<1>5. Total(ns) \in Nat /\ \A i \in 1 .. n : ns[i] <= Total(ns)
  BY <1>1, <1>4, <1>d
<1> QED  BY <1>5 DEF n

(* and smaller numbers have a smaller total, unless they are the same.     *)
LEMMA TotalGrows ==
  ASSUME NEW ns \in Seq(Nat), NEW ms \in Seq(Nat), Len(ms) = Len(ns),
         \A i \in 1 .. Len(ns) : ms[i] <= ns[i],
         Total(ms) = Total(ns)
  PROVE  \A i \in 1 .. Len(ns) : ms[i] = ns[i]
<1> DEFINE n == Len(ns)
<1>d. /\ n \in Nat /\ Len(ms) = n
      /\ \A i \in 1 .. n : ns[i] \in Nat /\ ms[i] \in Nat /\ ms[i] <= ns[i]
  OBVIOUS
<1>1. PICK sum \in [0 .. n -> Nat] :
        /\ sum[0] = 0
        /\ \A i \in 1 .. n : sum[i] = sum[i - 1] + ns[i]
        /\ Total(ns) = sum[n]
  BY TotalUnfolds
<1>2. PICK part \in [0 .. n -> Nat] :
        /\ part[0] = 0
        /\ \A i \in 1 .. n : part[i] = part[i - 1] + ms[i]
        /\ Total(ms) = part[n]
  BY TotalUnfolds
<1> DEFINE Below(k) == k <= n => /\ part[k] <= sum[k]
                                 /\ part[k] = sum[k] => \A i \in 1 .. k : ms[i] = ns[i]
           S == {k \in Nat : Below(k)}
<1> HIDE DEF n
<1>3. Below(0)
  BY <1>1, <1>2
<1>4. ASSUME NEW k \in Nat, Below(k)
      PROVE  Below(k + 1)
  <2>1. SUFFICES ASSUME k + 1 <= n
                 PROVE  /\ part[k + 1] <= sum[k + 1]
                        /\ part[k + 1] = sum[k + 1] => \A i \in 1 .. k + 1 : ms[i] = ns[i]
    OBVIOUS
  <2>2. /\ sum[k + 1] = sum[k] + ns[k + 1] /\ part[k + 1] = part[k] + ms[k + 1]
        /\ ms[k + 1] <= ns[k + 1] /\ ms[k + 1] \in Nat /\ ns[k + 1] \in Nat
        /\ sum[k] \in Nat /\ part[k] \in Nat /\ part[k] <= sum[k]
    <3>1. k + 1 \in 1 .. n /\ (k + 1) - 1 = k /\ k \in 0 .. n /\ k <= n
      BY <1>d, <2>1
    <3>2. sum[k + 1] = sum[k] + ns[k + 1] /\ sum[k] \in Nat
      BY <1>1, <3>1
    <3>3. part[k + 1] = part[k] + ms[k + 1] /\ part[k] \in Nat
      BY <1>2, <3>1
    <3> QED  BY <1>4, <1>d, <3>1, <3>2, <3>3
  <2>h. \A a, b, c, d \in Nat : a <= b /\ c <= d => /\ a + c <= b + d
                                                     /\ a + c = b + d => a = b /\ c = d
    OBVIOUS
  <2>3. part[k + 1] <= sum[k + 1]
    BY <2>2
  <2>4. part[k + 1] = sum[k + 1] => part[k] = sum[k] /\ ms[k + 1] = ns[k + 1]
    <3> DEFINE a == part[k]  b == sum[k]  c == ms[k + 1]  d == ns[k + 1]
    <3>1. SUFFICES ASSUME part[k + 1] = sum[k + 1] PROVE a = b /\ c = d
      OBVIOUS
    <3>2. a \in Nat /\ b \in Nat /\ c \in Nat /\ d \in Nat /\ a <= b /\ c <= d
      BY <2>2
    <3>3. a + c = b + d
      BY <2>2, <3>1
    <3> HIDE DEF a, b, c, d
    <3> QED  BY <2>h, <3>2, <3>3
  <2>5. part[k] = sum[k] => \A i \in 1 .. k : ms[i] = ns[i]
    BY <1>4, <1>d, <2>1
  <2>6. \A i \in 1 .. k + 1 : i \in 1 .. k \/ i = k + 1
    BY <1>4
  <2> QED  BY <2>3, <2>4, <2>5, <2>6
<1>5. Below(n)
  <2> HIDE DEF Below
  <2>1. 0 \in S /\ \A k \in Nat : k \in S => k + 1 \in S
    BY <1>3, <1>4
  <2>2. \A k \in Nat : k \in S
    <3> HIDE DEF S
    <3> QED  BY <2>1, Induction
  <2> QED  BY <2>2, <1>d
<1>6. \A i \in 1 .. n : ms[i] = ns[i]
  BY <1>1, <1>2, <1>5, <1>d
<1> QED  BY <1>6 DEF n

-----------------------------------------------------------------------------
\* Reading a log.

\* f reads a memory of B words: from s on there is the entry payload[s], and
\* what is read from next[s] on, if s is the start of a whole entry.
Reader(f, B, whole, payload, next) ==
  \A s \in 0 .. B : f[s] = IF s \in whole THEN <<payload[s]>> \o f[next[s]] ELSE <<>>

\* A way for a reader through the entries of found.
Way(at, found, whole, payload, next) ==
  /\ \A i \in 1 .. Len(found) :
       at[i] \in whole /\ payload[at[i]] = found[i] /\ next[at[i]] = at[i + 1]
  /\ at[Len(found) + 1] \notin whole

\* No entry goes back, and f is what reading gives from every start.
GoesForward(B, whole, next) == \A s \in 0 .. B : s \in whole => next[s] \in s + 1 .. B
IsReading(f, B, whole, payload, next) ==
  f = [s \in 0 .. B |-> IF s \in whole THEN <<payload[s]>> \o f[next[s]] ELSE <<>>]

(* A reader that only goes forward, up to the end of the memory, is        *)
(* defined by its recursive equation.                                      *)
LEMMA ReaderExists ==
  ASSUME NEW B \in Nat, NEW whole, NEW payload, NEW next, GoesForward(B, whole, next)
  PROVE  \E f : IsReading(f, B, whole, payload, next)
<1> USE DEF GoesForward
<1> DEFINE Reads(f, k) ==
      \A s \in k .. B : f[s] = IF s \in whole THEN <<payload[s]>> \o f[next[s]] ELSE <<>>
           Readable(k) == k <= B => \E f : DOMAIN f = B - k .. B /\ f = [s \in B - k .. B |-> f[s]] /\ Reads(f, B - k)
           S == {k \in Nat : Readable(k)}
<1>1. Readable(0)
  <2> DEFINE f == [s \in B .. B |-> <<>>]
  <2>1. B \notin whole
    OBVIOUS
  <2>2. Reads(f, B)
    BY <2>1
  <2>3. B - 0 = B
    OBVIOUS
  <2> HIDE DEF Reads
  <2>4. DOMAIN f = B .. B /\ f = [s \in B .. B |-> f[s]]
    OBVIOUS
  <2> HIDE DEF f
  <2> QED  BY <2>2, <2>3, <2>4
<1>2. ASSUME NEW k \in Nat, Readable(k)
      PROVE  Readable(k + 1)
  <2> DEFINE b == B - (k + 1)
  <2>1. SUFFICES ASSUME k + 1 <= B
                 PROVE  \E f : DOMAIN f = b .. B /\ f = [s \in b .. B |-> f[s]] /\ Reads(f, b)
    <3> HIDE DEF Reads
    <3> QED  OBVIOUS
  <2>2. k <= B /\ b \in 0 .. B /\ B - k = b + 1
    BY <2>1
  <2>3. PICK g : DOMAIN g = B - k .. B /\ g = [s \in B - k .. B |-> g[s]] /\ Reads(g, B - k)
    <3> HIDE DEF Reads
    <3> QED  BY <1>2, <2>2
  <2>4. Reads(g, b + 1)
    <3> HIDE DEF Reads
    <3> QED  BY <2>2, <2>3
  <2> DEFINE h == [s \in b .. B |->
                     IF s = b THEN IF b \in whole THEN <<payload[b]>> \o g[next[b]] ELSE <<>>
                              ELSE g[s]]
  <2>5. Reads(h, b)
    <3> SUFFICES ASSUME NEW s \in b .. B
                 PROVE  h[s] = IF s \in whole THEN <<payload[s]>> \o h[next[s]] ELSE <<>>
      OBVIOUS
    <3>1. s \in 0 .. B
      BY <2>2
    <3>2. s \in whole => next[s] \in b .. B /\ next[s] # b /\ h[next[s]] = g[next[s]]
      BY <2>2, <3>1
    <3>3. CASE s = b
      BY <3>2, <3>3
    <3>4. CASE s # b
      <4>1. s \in b + 1 .. B
        BY <2>2, <3>4
      <4> QED  BY <2>4, <3>2, <3>4, <4>1
    <3> QED  BY <3>3, <3>4
  <2>6. DOMAIN h = b .. B /\ h = [s \in b .. B |-> h[s]]
    OBVIOUS
  <2> HIDE DEF h, Reads
  <2> QED  BY <2>5, <2>6
<1>3. Readable(B)
  <2> HIDE DEF Readable
  <2>1. 0 \in S /\ \A k \in Nat : k \in S => k + 1 \in S
    BY <1>1, <1>2
  <2>2. \A k \in Nat : k \in S
    <3> HIDE DEF S
    <3> QED  BY <2>1, Induction
  <2> QED  BY <2>2
<1>4. PICK f : f = [s \in 0 .. B |-> f[s]] /\ Reads(f, 0)
  <2>1. B - B = 0 /\ B <= B
    OBVIOUS
  <2> HIDE DEF Reads
  <2> QED  BY <1>3, <2>1
<1>5. f = [s \in 0 .. B |-> IF s \in whole THEN <<payload[s]>> \o f[next[s]] ELSE <<>>]
  BY <1>4
<1> QED  BY <1>5 DEF IsReading

(* What a recursive definition of a reader stands for is a reader.         *)
LEMMA ChosenReader ==
  ASSUME NEW B \in Nat, NEW whole, NEW payload, NEW next, GoesForward(B, whole, next)
  PROVE  Reader(CHOOSE f : IsReading(f, B, whole, payload, next), B, whole, payload, next)
<1> DEFINE read == CHOOSE f : IsReading(f, B, whole, payload, next)
<1>2. \E f : IsReading(f, B, whole, payload, next)
  BY ReaderExists
<1>3. IsReading(read, B, whole, payload, next)
  BY <1>2
<1> HIDE DEF read
<1>4. read = [s \in 0 .. B |-> IF s \in whole THEN <<payload[s]>> \o read[next[s]] ELSE <<>>]
  BY <1>3 DEF IsReading
<1>5. Reader(read, B, whole, payload, next)
  BY <1>4 DEF Reader
<1> QED  BY <1>5 DEF read

(* A reader that finds the entries of a log where they start, and nothing  *)
(* behind them, returns the log.                                           *)
LEMMA ReaderReads ==
  ASSUME NEW B \in Nat, NEW whole, NEW payload, NEW next, NEW f,
         Reader(f, B, whole, payload, next),
         NEW T, NEW found \in Seq(T), NEW at \in [1 .. Len(found) + 1 -> 0 .. B],
         Way(at, found, whole, payload, next)
  PROVE  f[at[1]] = found
<1> DEFINE n == Len(found)
           Tail_(k) == k <= n => f[at[n + 1 - k]] = SubSeq(found, n + 1 - k, n)
           S == {k \in Nat : Tail_(k)}
<1>d. n \in Nat
  OBVIOUS
<1>1. Tail_(0)
  <2>1. SubSeq(found, n + 1, n) = <<>>
    OBVIOUS
  <2>2. at[n + 1] \in 0 .. B
    OBVIOUS
  <2>3. f[at[n + 1]] = <<>>
    BY <2>2 DEF Reader, Way
  <2>4. n + 1 - 0 = n + 1
    OBVIOUS
  <2> HIDE DEF n
  <2> QED  BY <2>1, <2>3, <2>4
<1>2. ASSUME NEW k \in Nat, Tail_(k)
      PROVE  Tail_(k + 1)
  <2> DEFINE i == n + 1 - (k + 1)
  <2>1. SUFFICES ASSUME k + 1 <= n
                 PROVE  f[at[i]] = SubSeq(found, i, n)
    OBVIOUS
  <2>2. i \in 1 .. n /\ i + 1 = n + 1 - k /\ k <= n
    BY <1>d, <2>1
  <2>3. f[at[i + 1]] = SubSeq(found, i + 1, n)
    BY <1>2, <2>2
  <2>4. /\ at[i] \in 0 .. B /\ at[i] \in whole
        /\ payload[at[i]] = found[i] /\ next[at[i]] = at[i + 1]
    <3>1. at[i] \in 0 .. B
      <4> HIDE DEF i
      <4> QED  BY <2>2
    <3> HIDE DEF i
    <3> QED  BY <2>2, <3>1 DEF Way
  <2>5. f[at[i]] = <<found[i]>> \o SubSeq(found, i + 1, n)
    <3>1. f[at[i]] = <<payload[at[i]]>> \o f[next[at[i]]]
      <4> HIDE DEF i, n
      <4> QED  BY <2>4 DEF Reader
    <3> HIDE DEF i, n
    <3> QED  BY <2>3, <2>4, <3>1
  <2>6. <<found[i]>> \o SubSeq(found, i + 1, n) = SubSeq(found, i, n)
    <3> HIDE DEF i
    <3>1. i \in 1 .. Len(found) /\ n \in i .. Len(found)
      BY <2>2
    <3> QED  BY <3>1, SubSeqRecursiveFirst
  <2> QED  BY <2>5, <2>6
<1>3. Tail_(n)
  <2> HIDE DEF Tail_, n
  <2>1. 0 \in S /\ \A k \in Nat : k \in S => k + 1 \in S
    BY <1>1, <1>2
  <2>2. \A k \in Nat : k \in S
    <3> HIDE DEF S
    <3> QED  BY <2>1, Induction
  <2> QED  BY <2>2, <1>d
<1>4. f[at[1]] = SubSeq(found, 1, n)
  <2>1. n + 1 - n = 1 /\ n <= n
    BY <1>d
  <2> QED  BY <1>3, <2>1
<1> QED  BY <1>4, SubSeqFull

-----------------------------------------------------------------------------
\* The memory of a log.

\* What a fence makes durable at the latest.
Flushed(m, a) == m[LineOf(a)].fen[SlotOf(a)]

\* The word b is in a line with one of the words as.
Touched(as, b) == \E a \in as : LineOf(a) = LineOf(b)

\* Memories whose words are of W.
Memory(W) == [LogLines -> LineSet([Slots -> W])]

\* What the memory m holds of the word a.
Settled(m, a, w) == Cached(m, a) = w /\ Flushed(m, a) = w /\ Durable(m, a) = w

(* Division rounds down.                                                   *)
LEMMA DivType ==
  ASSUME NEW n \in Nat \ {0}, NEW a \in Nat
  PROVE  /\ a \div n \in Nat /\ a % n \in 0 .. n - 1
         /\ a = n * (a \div n) + (a % n)
  OBVIOUS

(* A multiple more is a whole divisor more.                                *)
LEMMA Multiples ==
  ASSUME NEW n \in Nat \ {0}, NEW p \in Nat, NEW q \in Nat, p < q
  PROVE n * p + n <= n * q
<1>1. q - p \in Nat /\ q - p >= 1
  OBVIOUS
<1>2. n * (q - p) >= n
  BY <1>1
<1> QED  BY <1>2

(* Quotient and remainder are the only ones.                               *)
LEMMA DivUnique ==
  ASSUME NEW n \in Nat \ {0}, NEW q \in Nat, NEW r \in 0 .. n - 1
  PROVE  (n * q + r) \div n = q /\ (n * q + r) % n = r
<1> DEFINE a == n * q + r
           p == a \div n
           s == a % n
<1>1. a \in Nat /\ n * q \in Nat
  OBVIOUS
<1>2. p \in Nat /\ s \in 0 .. n - 1 /\ a = n * p + s
  BY <1>1, DivType
<1>3. n * p \in Nat
  BY <1>2
<1>4. ~(p < q)
  <2>1. SUFFICES ASSUME p < q PROVE FALSE
    OBVIOUS
  <2>2. n * p + n <= n * q
    BY <1>2, <2>1, Multiples
  <2> HIDE DEF p, s
  <2> QED  BY <1>1, <1>2, <1>3, <2>2
<1>5. ~(q < p)
  <2>1. SUFFICES ASSUME q < p PROVE FALSE
    OBVIOUS
  <2>2. n * q + n <= n * p
    BY <1>2, <2>1, Multiples
  <2> HIDE DEF p, s
  <2> QED  BY <1>1, <1>2, <1>3, <2>2
<1>6. p = q
  <2> HIDE DEF p
  <2> QED  BY <1>2, <1>4, <1>5
<1>7. s = r
  <2>1. n * p = n * q
    BY <1>6
  <2> HIDE DEF p, s
  <2> QED  BY <1>1, <1>2, <1>3, <2>1
<1> QED  BY <1>6, <1>7

(* An address is a slot of a line, and no two are the same.                *)
LEMMA AddressParts ==
  ASSUME NEW a \in Addresses
  PROVE  /\ a \in Nat /\ LineOf(a) \in LogLines /\ SlotOf(a) \in Slots
         /\ a = LineWords * LineOf(a) + SlotOf(a)
         /\ \A b \in Addresses : LineOf(b) = LineOf(a) /\ SlotOf(b) = SlotOf(a) => b = a
<1>1. LineWords \in Nat \ {0} /\ LineCount \in Nat \ {0}
  BY LogMemoryAssumption
<1>2. LineCount * LineWords \in Nat
  BY <1>1
<1>3. \A b \in Addresses : b \in Nat /\ b < LineCount * LineWords
  BY <1>2 DEF Addresses, ByteCount
<1>4. ASSUME NEW b \in Addresses
      PROVE  /\ LineOf(b) \in LogLines /\ SlotOf(b) \in Slots
             /\ b = LineWords * LineOf(b) + SlotOf(b)
  <2>1. /\ LineOf(b) \in Nat /\ SlotOf(b) \in 0 .. LineWords - 1
        /\ b = LineWords * LineOf(b) + SlotOf(b)
    BY <1>1, <1>3, DivType DEF LineOf, SlotOf
  <2>2. LineOf(b) < LineCount
    <3>1. SUFFICES ASSUME LineCount <= LineOf(b) PROVE FALSE
      BY <1>1, <2>1
    <3>2. LineWords * LineCount <= LineWords * LineOf(b)
      <4>1. LineCount < LineOf(b) => LineWords * LineCount + LineWords <= LineWords * LineOf(b)
        BY <1>1, <2>1, Multiples
      <4>2. LineWords * LineCount \in Nat /\ LineWords * LineOf(b) \in Nat
        BY <1>1, <2>1
      <4> QED  BY <1>1, <2>1, <3>1, <4>1, <4>2
    <3>3. LineWords * LineCount = LineCount * LineWords /\ LineWords * LineOf(b) \in Nat
      BY <1>1, <2>1
    <3> QED  BY <1>2, <1>3, <2>1, <3>2, <3>3
  <2> QED  BY <1>1, <2>1, <2>2 DEF LogLines, Slots
<1>5. ASSUME NEW b \in Addresses, LineOf(b) = LineOf(a), SlotOf(b) = SlotOf(a)
      PROVE  b = a
  BY <1>4, <1>5
<1> QED  BY <1>3, <1>4, <1>5

(* Every slot of every line has an address.                                *)
LEMMA PartsAddress ==
  ASSUME NEW l \in LogLines, NEW s \in Slots
  PROVE  /\ LineWords * l + s \in Addresses
         /\ LineOf(LineWords * l + s) = l /\ SlotOf(LineWords * l + s) = s
<1>1. LineWords \in Nat \ {0} /\ LineCount \in Nat \ {0} /\ l \in Nat /\ s \in 0 .. LineWords - 1
  BY LogMemoryAssumption DEF LogLines, Slots
<1>2. LineWords * l + LineWords <= LineWords * LineCount
  BY <1>1, Multiples DEF LogLines
<1>3. /\ LineWords * l \in Nat /\ LineWords * LineCount \in Nat
      /\ LineWords * LineCount = LineCount * LineWords
  BY <1>1
<1>4. LineWords * l + s \in Addresses
  BY <1>1, <1>2, <1>3 DEF Addresses, ByteCount
<1> QED  BY <1>1, <1>4, DivUnique DEF LineOf, SlotOf

(* A fresh memory holds its word everywhere.                               *)
LEMMA FilledOps ==
  ASSUME NEW W, NEW w \in W
  PROVE  Filled(w) \in Memory(W) /\ \A a \in Addresses : Settled(Filled(w), a, w)
  BY AddressParts DEF Filled, Memory, LineSet, Line, Settled, Cached, Flushed, Durable

(* The words of a typed memory are words.                                  *)
LEMMA WordTypes ==
  ASSUME NEW W, NEW m \in Memory(W), NEW a \in Addresses
  PROVE  Cached(m, a) \in W /\ Flushed(m, a) \in W /\ Durable(m, a) \in W
  BY AddressParts DEF Memory, LineSet, Cached, Flushed, Durable

(* A store changes one word in the cache.                                  *)
LEMMA StoreWordOps ==
  ASSUME NEW W, NEW m \in Memory(W), NEW a \in Addresses, NEW w \in W
  PROVE  /\ StoreWord(m, a, w) \in Memory(W)
         /\ \A b \in Addresses :
              /\ Cached(StoreWord(m, a, w), b) = IF b = a THEN w ELSE Cached(m, b)
              /\ Flushed(StoreWord(m, a, w), b) = Flushed(m, b)
              /\ Durable(StoreWord(m, a, w), b) = Durable(m, b)
<1> DEFINE l == LineOf(a)
           k == SlotOf(a)
           c == Store(m[l], [m[l].vol EXCEPT ![k] = w])
<1>1. l \in LogLines /\ k \in Slots
  BY AddressParts
<1>2. m[l] \in LineSet([Slots -> W]) /\ m[l].vol \in [Slots -> W]
  BY <1>1 DEF Memory, LineSet
<1>3. /\ c \in LineSet([Slots -> W])
      /\ c.vol = [m[l].vol EXCEPT ![k] = w] /\ c.fen = m[l].fen /\ c.dur = m[l].dur
  BY <1>2 DEF Store, LineSet
<1>4. StoreWord(m, a, w) = [m EXCEPT ![l] = c]
  BY DEF StoreWord
<1> HIDE DEF c, l, k
<1>5. StoreWord(m, a, w) \in Memory(W)
  BY <1>1, <1>3, <1>4 DEF Memory
<1>6. ASSUME NEW b \in Addresses
      PROVE  /\ Cached(StoreWord(m, a, w), b) = IF b = a THEN w ELSE Cached(m, b)
             /\ Flushed(StoreWord(m, a, w), b) = Flushed(m, b)
             /\ Durable(StoreWord(m, a, w), b) = Durable(m, b)
  <2>1. LineOf(b) \in LogLines /\ SlotOf(b) \in Slots
    BY AddressParts
  <2>2. StoreWord(m, a, w)[LineOf(b)] = IF LineOf(b) = l THEN c ELSE m[LineOf(b)]
    BY <1>1, <1>4, <2>1 DEF Memory
  <2>3. c.vol[SlotOf(b)] = IF SlotOf(b) = k THEN w ELSE m[l].vol[SlotOf(b)]
    BY <1>1, <1>2, <1>3, <2>1
  <2>4. LineOf(b) = l /\ SlotOf(b) = k <=> b = a
    BY AddressParts DEF l, k
  <2> QED  BY <1>3, <2>2, <2>3, <2>4 DEF Cached, Flushed, Durable
<1> QED  BY <1>5, <1>6

(* A write-back sets the lines of its words on their way.                  *)
LEMMA WriteBackOps ==
  ASSUME NEW W, NEW m \in Memory(W), NEW as
  PROVE  /\ WriteBackWords(m, as) \in Memory(W)
         /\ \A b \in Addresses :
              /\ Cached(WriteBackWords(m, as), b) = Cached(m, b)
              /\ Flushed(WriteBackWords(m, as), b) =
                   IF Touched(as, b) THEN Cached(m, b) ELSE Flushed(m, b)
              /\ Durable(WriteBackWords(m, as), b) = Durable(m, b)
<1> DEFINE ls == {LineOf(a) : a \in as}
           n == WriteBackWords(m, as)
<1>0. \A b \in Addresses : LineOf(b) \in ls <=> Touched(as, b)
  BY DEF Touched
<1> HIDE DEF ls
<1>1. n = [l \in LogLines |-> IF l \in ls THEN WriteBack(m[l]) ELSE m[l]]
  BY DEF WriteBackWords, ls
<1> HIDE DEF n
<1>2. \A l \in LogLines :
        /\ m[l] \in LineSet([Slots -> W])
        /\ n[l] \in LineSet([Slots -> W])
        /\ n[l].vol = m[l].vol /\ n[l].dur = m[l].dur
        /\ n[l].fen = IF l \in ls THEN m[l].vol ELSE m[l].fen
  BY <1>1 DEF Memory, LineSet, WriteBack
<1>3. n \in Memory(W)
  BY <1>1, <1>2 DEF Memory
<1>4. ASSUME NEW b \in Addresses
      PROVE  /\ Cached(n, b) = Cached(m, b)
             /\ Flushed(n, b) = IF LineOf(b) \in ls THEN Cached(m, b) ELSE Flushed(m, b)
             /\ Durable(n, b) = Durable(m, b)
  BY <1>2, AddressParts DEF Cached, Flushed, Durable
<1> QED  BY <1>0, <1>3, <1>4 DEF n

(* A fence makes durable what was on its way.                              *)
LEMMA FenceOps ==
  ASSUME NEW W, NEW m \in Memory(W)
  PROVE  /\ Fence(m) \in Memory(W)
         /\ \A b \in Addresses :
              /\ Cached(Fence(m), b) = Cached(m, b)
              /\ Flushed(Fence(m), b) = Flushed(m, b)
              /\ Durable(Fence(m), b) = Flushed(m, b)
<1>1. \A l \in LogLines :
        /\ m[l] \in LineSet([Slots -> W])
        /\ Fence(m)[l] \in LineSet([Slots -> W])
        /\ Fence(m)[l].vol = m[l].vol /\ Fence(m)[l].fen = m[l].fen
        /\ Fence(m)[l].dur = m[l].fen
  BY DEF Memory, LineSet, Fence, SFence
<1>2. Fence(m) \in Memory(W)
  BY <1>1 DEF Memory, Fence
<1> QED  BY <1>1, <1>2, AddressParts DEF Cached, Flushed, Durable

(* Persisting makes the lines of the words given durable, and it fences    *)
(* what had been written back before.                                      *)
LEMMA PersistOps ==
  ASSUME NEW W, NEW m \in Memory(W), NEW as
  PROVE  /\ PersistWords(m, as) \in Memory(W)
         /\ \A b \in Addresses :
              /\ Cached(PersistWords(m, as), b) = Cached(m, b)
              /\ Flushed(PersistWords(m, as), b) =
                   IF Touched(as, b) THEN Cached(m, b) ELSE Flushed(m, b)
              /\ Durable(PersistWords(m, as), b) = Flushed(PersistWords(m, as), b)
<1> DEFINE n == WriteBackWords(m, as)
<1>1. /\ n \in Memory(W)
      /\ \A b \in Addresses :
           /\ Cached(n, b) = Cached(m, b)
           /\ Flushed(n, b) =
                IF Touched(as, b) THEN Cached(m, b) ELSE Flushed(m, b)
  BY WriteBackOps
<1>2. PersistWords(m, as) = Fence(n)
  BY DEF PersistWords
<1> HIDE DEF n
<1>3. /\ Fence(n) \in Memory(W)
      /\ \A b \in Addresses : /\ Cached(Fence(n), b) = Cached(n, b)
                              /\ Flushed(Fence(n), b) = Flushed(n, b)
                              /\ Durable(Fence(n), b) = Flushed(n, b)
  BY <1>1, FenceOps
<1> QED  BY <1>1, <1>2, <1>3

(* The cache writes back all of a line or nothing of it.                   *)
LEMMA LineDriftOps ==
  ASSUME NEW W, NEW m \in Memory(W), NEW n \in LineDrift(m)
  PROVE  /\ n \in Memory(W)
         /\ \A b \in Addresses :
              /\ Cached(n, b) = Cached(m, b)
              /\ \/ Flushed(n, b) = Flushed(m, b) /\ Durable(n, b) = Durable(m, b)
                 \/ Flushed(n, b) = Cached(m, b) /\ Durable(n, b) = Cached(m, b)
<1>1. PICK l \in LogLines : n = [m EXCEPT ![l] = Evict(m[l])]
  BY DEF LineDrift
<1>2. m[l] \in LineSet([Slots -> W])
  BY DEF Memory
<1>3. Evict(m[l]) \in LineSet([Slots -> W])
  BY <1>2 DEF LineSet, Evict
<1>4. n \in Memory(W)
  BY <1>1, <1>3 DEF Memory
<1>5. \A k \in LogLines :
        /\ n[k].vol = m[k].vol
        /\ \/ n[k].fen = m[k].fen /\ n[k].dur = m[k].dur
           \/ n[k].fen = m[k].vol /\ n[k].dur = m[k].vol
  BY <1>1, <1>2 DEF Memory, LineSet, Evict
<1> QED  BY <1>4, <1>5, AddressParts DEF Cached, Flushed, Durable

(* A streamed line is on its way.                                          *)
LEMMA StreamOps ==
  ASSUME NEW W, NEW m \in Memory(W), NEW l \in LogLines, NEW words \in [Slots -> W]
  PROVE  /\ StreamLine(m, l, words) \in Memory(W)
         /\ \A b \in Addresses :
              /\ Cached(StreamLine(m, l, words), b) =
                   IF LineOf(b) = l THEN words[SlotOf(b)] ELSE Cached(m, b)
              /\ Flushed(StreamLine(m, l, words), b) =
                   IF LineOf(b) = l THEN words[SlotOf(b)] ELSE Flushed(m, b)
              /\ Durable(StreamLine(m, l, words), b) = Durable(m, b)
<1> DEFINE c == CopyAndFlush(m[l], words)
<1>1. m[l] \in LineSet([Slots -> W])
  BY DEF Memory
<1>2. c \in LineSet([Slots -> W]) /\ c.vol = words /\ c.fen = words /\ c.dur = m[l].dur
  BY <1>1, StoreOps, StoreFields
<1>3. StreamLine(m, l, words) = [m EXCEPT ![l] = c]
  BY DEF StreamLine
<1> HIDE DEF c
<1>4. StreamLine(m, l, words) \in Memory(W)
  BY <1>2, <1>3 DEF Memory
<1>5. \A k \in LogLines : StreamLine(m, l, words)[k] = IF k = l THEN c ELSE m[k]
  BY <1>3 DEF Memory
<1> QED  BY <1>2, <1>4, <1>5, AddressParts DEF Cached, Flushed, Durable

(* Some word of a streamed line reaches NVM.                               *)
LEMMA StreamDriftOps ==
  ASSUME NEW W, NEW m \in Memory(W), NEW n \in StreamDrift(m)
  PROVE  /\ n \in Memory(W)
         /\ \A b \in Addresses :
              /\ Cached(n, b) = Cached(m, b)
              /\ Flushed(n, b) = Flushed(m, b)
              /\ Durable(n, b) = Durable(m, b) \/ Durable(n, b) = Cached(m, b)
<1>1. PICK a \in Addresses : n = [m EXCEPT ![LineOf(a)].dur[SlotOf(a)] = Cached(m, a)]
  BY DEF StreamDrift
<1> DEFINE l == LineOf(a)
           k == SlotOf(a)
           c == [m[l] EXCEPT !.dur[k] = Cached(m, a)]
<1>2. l \in LogLines /\ k \in Slots /\ m[l] \in LineSet([Slots -> W]) /\ Cached(m, a) \in W
  BY AddressParts, WordTypes DEF Memory
<1>3. n = [m EXCEPT ![l] = c]
  BY <1>1
<1>4. /\ c \in LineSet([Slots -> W]) /\ c.vol = m[l].vol /\ c.fen = m[l].fen
      /\ \A s \in Slots : c.dur[s] = IF s = k THEN Cached(m, a) ELSE m[l].dur[s]
  BY <1>2 DEF LineSet
<1> HIDE DEF c, l, k
<1>5. n \in Memory(W)
  BY <1>2, <1>3, <1>4 DEF Memory
<1>6. \A j \in LogLines : n[j] = IF j = l THEN c ELSE m[j]
  BY <1>3 DEF Memory
<1>7. ASSUME NEW b \in Addresses
      PROVE  /\ Cached(n, b) = Cached(m, b)
             /\ Flushed(n, b) = Flushed(m, b)
             /\ Durable(n, b) = Durable(m, b) \/ Durable(n, b) = Cached(m, b)
  <2>1. LineOf(b) \in LogLines /\ SlotOf(b) \in Slots
    BY AddressParts
  <2>2. LineOf(b) = l /\ SlotOf(b) = k => b = a
    BY AddressParts DEF l, k
  <2> QED  BY <1>4, <1>6, <2>1, <2>2 DEF Cached, Flushed, Durable
<1> QED  BY <1>5, <1>7

-----------------------------------------------------------------------------
\* Where the entries of a log lie.

\* The entries of found lie one behind the other from the front of the memory
\* up to end.  What it means that the entry e lies from s to n, <<s, e, n>>
\* in R, is up to the format of the log.
Places(found, end, R) ==
  \E at \in [1 .. Len(found) + 1 -> 0 .. end] :
    /\ at[1] = 0
    /\ at[Len(found) + 1] = end
    /\ \A i \in 1 .. Len(found) : <<at[i], found[i], at[i + 1]>> \in R

(* Nothing lies in an empty log.                                           *)
LEMMA PlacesEmpty ==
  ASSUME NEW R
  PROVE  Places(<<>>, 0, R)
<1> DEFINE at == [i \in 1 .. 1 |-> 0]
<1>1. at \in [1 .. Len(<<>>) + 1 -> 0 .. 0] /\ at[1] = 0 /\ at[Len(<<>>) + 1] = 0
  OBVIOUS
<1> HIDE DEF at
<1> QED  BY <1>1 DEF Places

(* An entry that lies where the log ends becomes its last one.             *)
LEMMA PlacesAppend ==
  ASSUME NEW T, NEW found \in Seq(T), NEW e \in T, NEW R,
         NEW end \in Nat, NEW next \in Nat, end <= next,
         Places(found, end, R), <<end, e, next>> \in R
  PROVE  Places(Append(found, e), next, R)
<1> DEFINE n == Len(found)
           more == Append(found, e)
<1>1. /\ n \in Nat /\ more \in Seq(T) /\ Len(more) = n + 1 /\ more[n + 1] = e
      /\ \A i \in 1 .. n : more[i] = found[i]
  BY AppendProperties
<1>2. PICK at \in [1 .. n + 1 -> 0 .. end] :
        /\ at[1] = 0 /\ at[n + 1] = end
        /\ \A i \in 1 .. n : <<at[i], found[i], at[i + 1]>> \in R
  BY DEF Places
<1> DEFINE to == [i \in 1 .. Len(more) + 1 |-> IF i = n + 2 THEN next ELSE at[i]]
<1> HIDE DEF n, more
<1>3. to \in [1 .. Len(more) + 1 -> 0 .. next]
  BY <1>1, <1>2
<1>4. to[1] = 0 /\ to[Len(more) + 1] = next
  BY <1>1, <1>2
<1>5. ASSUME NEW i \in 1 .. Len(more)
      PROVE  <<to[i], more[i], to[i + 1]>> \in R
  <2>1. CASE i = n + 1
    <3>1. to[i] = end /\ more[i] = e /\ to[i + 1] = next
      BY <1>1, <1>2, <2>1
    <3> QED  BY <3>1
  <2>2. CASE i # n + 1
    <3>1. i \in 1 .. n /\ i + 1 \in 1 .. n + 1
      BY <1>1, <2>2
    <3>2. to[i] = at[i] /\ more[i] = found[i] /\ to[i + 1] = at[i + 1]
      <4>1. /\ i \in 1 .. Len(more) + 1 /\ i # n + 2
            /\ i + 1 \in 1 .. Len(more) + 1 /\ i + 1 # n + 2
        BY <1>1, <3>1
      <4> QED  BY <1>1, <3>1, <4>1
    <3> QED  BY <1>2, <3>1, <3>2
  <2> QED  BY <2>1, <2>2
<1> HIDE DEF to
<1>6. Places(more, next, R)
  BY <1>3, <1>4, <1>5 DEF Places
<1> QED  BY <1>6 DEF more

(* A memory that still holds what lies below end holds the log.            *)
LEMMA PlacesKeep ==
  ASSUME NEW T, NEW found \in Seq(T), NEW end \in Nat, NEW R, NEW Q,
         Places(found, end, R),
         \A s, n \in 0 .. end : \A e \in T : <<s, e, n>> \in R => <<s, e, n>> \in Q
  PROVE  Places(found, end, Q)
<1>1. PICK at \in [1 .. Len(found) + 1 -> 0 .. end] :
        /\ at[1] = 0 /\ at[Len(found) + 1] = end
        /\ \A i \in 1 .. Len(found) : <<at[i], found[i], at[i + 1]>> \in R
  BY DEF Places
<1>2. ASSUME NEW i \in 1 .. Len(found)
      PROVE  <<at[i], found[i], at[i + 1]>> \in Q
  <2>1. at[i] \in 0 .. end /\ at[i + 1] \in 0 .. end /\ found[i] \in T
    OBVIOUS
  <2>2. <<at[i], found[i], at[i + 1]>> \in R
    BY <1>1
  <2> QED  BY <2>1, <2>2
<1> QED  BY <1>1, <1>2 DEF Places

(* A reader that knows an entry of the format when it sees one, and takes  *)
(* nothing that lies behind the log for one, reads the log.                *)
LEMMA PlacesRead ==
  ASSUME NEW T, NEW found \in Seq(T), NEW end \in Nat, NEW R, Places(found, end, R),
         NEW B \in Nat, end <= B, NEW whole, NEW payload, NEW next, NEW f,
         Reader(f, B, whole, payload, next),
         \A s, n \in 0 .. end : \A e \in T :
           <<s, e, n>> \in R => s \in whole /\ payload[s] = e /\ next[s] = n,
         end \notin whole
  PROVE  f[0] = found
<1>1. PICK at \in [1 .. Len(found) + 1 -> 0 .. end] :
        /\ at[1] = 0 /\ at[Len(found) + 1] = end
        /\ \A i \in 1 .. Len(found) : <<at[i], found[i], at[i + 1]>> \in R
  BY DEF Places
<1>2. ASSUME NEW i \in 1 .. Len(found)
      PROVE  at[i] \in whole /\ payload[at[i]] = found[i] /\ next[at[i]] = at[i + 1]
  <2>1. at[i] \in 0 .. end /\ at[i + 1] \in 0 .. end /\ found[i] \in T
    OBVIOUS
  <2>2. <<at[i], found[i], at[i + 1]>> \in R
    BY <1>1
  <2> QED  BY <2>1, <2>2
<1>3. at \in [1 .. Len(found) + 1 -> 0 .. B]
  OBVIOUS
<1>4. f[at[1]] = found
  <2>1. Way(at, found, whole, payload, next)
    BY <1>1, <1>2 DEF Way
  <2> QED  BY <1>3, <2>1, ReaderReads
<1> QED  BY <1>1, <1>4

(* RoundUp goes to the next multiple of a cache line, inside the memory.   *)
LEMMA RoundUpBounds ==
  ASSUME NEW n \in Nat
  PROVE  /\ RoundUp(n) \in Nat /\ n <= RoundUp(n) /\ RoundUp(n) < n + LineWords
         /\ n <= ByteCount => RoundUp(n) <= ByteCount
         /\ RoundUp(n) % LineWords = 0
<1> DEFINE a == n + LineWords - 1
           q == a \div LineWords
           r == a % LineWords
<1>1. LineWords \in Nat \ {0} /\ LineCount \in Nat \ {0} /\ a \in Nat
  BY LogMemoryAssumption
<1>2. q \in Nat /\ r \in 0 .. LineWords - 1 /\ a = LineWords * q + r
  BY <1>1, DivType
<1>3. RoundUp(n) = q * LineWords
  BY DEF RoundUp
<1> HIDE DEF q, r
<1>4. q * LineWords = LineWords * q /\ LineWords * q \in Nat
  BY <1>1, <1>2
<1>5. RoundUp(n) \in Nat /\ n <= RoundUp(n) /\ RoundUp(n) < n + LineWords
  BY <1>1, <1>2, <1>3, <1>4
<1>6. ASSUME n <= ByteCount
      PROVE  RoundUp(n) <= ByteCount
  <2>1. LineCount * LineWords = LineWords * LineCount /\ LineWords * LineCount \in Nat
    BY <1>1
  <2>2. SUFFICES ASSUME LineCount < q PROVE FALSE
    <3>1. CASE q = LineCount
      BY <1>3, <1>4, <2>1, <3>1 DEF ByteCount
    <3>2. CASE q < LineCount
      <4>1. LineWords * q + LineWords <= LineWords * LineCount
        BY <1>1, <1>2, <3>2, Multiples
      <4> QED  BY <1>1, <1>3, <1>4, <2>1, <4>1 DEF ByteCount
    <3> QED  BY <1>1, <1>2, <3>1, <3>2
  <2>3. LineWords * LineCount + LineWords <= LineWords * q
    BY <1>1, <1>2, <2>2, Multiples
  <2> QED  BY <1>1, <1>3, <1>4, <1>5, <1>6, <2>1, <2>3 DEF ByteCount
<1>7. RoundUp(n) % LineWords = 0
  <2>1. (LineWords * q + 0) % LineWords = 0
    <3>1. 0 \in 0 .. LineWords - 1
      BY <1>1
    <3> QED  BY <1>1, <1>2, <3>1, DivUnique, Zenon
  <2>2. LineWords * q + 0 = RoundUp(n)
    BY <1>3, <1>4
  <2> QED  BY <2>1, <2>2
<1> QED  BY <1>5, <1>6, <1>7

(* What is settled in the memory stays so, except where words are stored.  *)
Keeps(m, n, A) ==
  \A b \in A : \A w : Settled(m, b, w) => Settled(n, b, w)

(* A store moves no settled word but its own; write-backs, fences and      *)
(* persists move none at all.                                              *)
LEMMA SettledKept ==
  ASSUME NEW W, NEW m \in Memory(W)
  PROVE  /\ \A a \in Addresses : \A w \in W : Keeps(m, StoreWord(m, a, w), Addresses \ {a})
         /\ \A as : Keeps(m, WriteBackWords(m, as), Addresses)
         /\ \A as : Keeps(m, PersistWords(m, as), Addresses)
         /\ Keeps(m, Fence(m), Addresses)
         /\ \A n \in LineDrift(m) : Keeps(m, n, Addresses)
         /\ \A n \in StreamDrift(m) : Keeps(m, n, Addresses)
<1>1. ASSUME NEW a \in Addresses, NEW w \in W
      PROVE  Keeps(m, StoreWord(m, a, w), Addresses \ {a})
  BY StoreWordOps DEF Keeps, Settled
<1>2. ASSUME NEW as
      PROVE  Keeps(m, WriteBackWords(m, as), Addresses)
  BY WriteBackOps DEF Keeps, Settled
<1>3. ASSUME NEW as
      PROVE  Keeps(m, PersistWords(m, as), Addresses)
  BY PersistOps DEF Keeps, Settled
<1>4. Keeps(m, Fence(m), Addresses)
  BY FenceOps DEF Keeps, Settled
<1>5. ASSUME NEW n \in LineDrift(m)
      PROVE  Keeps(m, n, Addresses)
  BY LineDriftOps DEF Keeps, Settled
<1>6. ASSUME NEW n \in StreamDrift(m)
      PROVE  Keeps(m, n, Addresses)
  BY StreamDriftOps DEF Keeps, Settled
<1> QED  BY <1>1, <1>2, <1>3, <1>4, <1>5, <1>6

-----------------------------------------------------------------------------
\* The word a goes from o to w in the cache, then in what is on its way to NVM,
\* then in NVM, and not back.
Rising(m, a, o, w) ==
  /\ Cached(m, a) \in {o, w} /\ Flushed(m, a) \in {o, w} /\ Durable(m, a) \in {o, w}
  /\ Flushed(m, a) = w => Cached(m, a) = w
  /\ Durable(m, a) = w => Flushed(m, a) = w

\* Every word of A that rises in m rises in n, and is durable there if it is
\* durable in m.
Raises(m, n, A) ==
  \A b \in A : \A o, w :
    Rising(m, b, o, w) =>
      /\ Rising(n, b, o, w)
      /\ Cached(n, b) = Cached(m, b)
      /\ Flushed(m, b) = w => Flushed(n, b) = w
      /\ Durable(m, b) = w => Durable(n, b) = w

(* A settled word is one that has risen.                                   *)
LEMMA SettledRises ==
  ASSUME NEW m, NEW a, NEW w
  PROVE  /\ Settled(m, a, w) => Rising(m, a, w, w) /\ \A v : Rising(m, a, v, w)
         /\ Rising(m, a, w, w) => Settled(m, a, w)
         /\ \A o : Rising(m, a, o, w) /\ Durable(m, a) = w => Settled(m, a, w)
         /\ \A o : Settled(m, a, o) /\ o # w => Rising(m, a, o, w)
  BY DEF Settled, Rising

(* Nothing but a store of another word takes a word back.                  *)
LEMMA RisingKept ==
  ASSUME NEW W, NEW m \in Memory(W)
  PROVE  /\ \A as : Raises(m, WriteBackWords(m, as), Addresses)
         /\ \A as : Raises(m, PersistWords(m, as), Addresses)
         /\ Raises(m, Fence(m), Addresses)
         /\ \A n \in LineDrift(m) : Raises(m, n, Addresses)
<1>1. ASSUME NEW as
      PROVE  Raises(m, WriteBackWords(m, as), Addresses)
  <2> DEFINE n == WriteBackWords(m, as)
  <2>1. \A b \in Addresses :
          /\ Cached(n, b) = Cached(m, b)
          /\ Flushed(n, b) = Cached(m, b) \/ Flushed(n, b) = Flushed(m, b)
          /\ Durable(n, b) = Durable(m, b) \/ Durable(n, b) = Flushed(n, b)
    BY WriteBackOps
  <2> HIDE DEF n
  <2>2. Raises(m, n, Addresses)
    BY <2>1 DEF Raises, Rising
  <2> QED  BY <2>2 DEF n
<1>2. ASSUME NEW as
      PROVE  Raises(m, PersistWords(m, as), Addresses)
  <2> DEFINE n == PersistWords(m, as)
  <2>1. \A b \in Addresses :
          /\ Cached(n, b) = Cached(m, b)
          /\ Flushed(n, b) = Cached(m, b) \/ Flushed(n, b) = Flushed(m, b)
          /\ Durable(n, b) = Durable(m, b) \/ Durable(n, b) = Flushed(n, b)
    BY PersistOps
  <2> HIDE DEF n
  <2>2. Raises(m, n, Addresses)
    BY <2>1 DEF Raises, Rising
  <2> QED  BY <2>2 DEF n
<1>3. Raises(m, Fence(m), Addresses)
  BY FenceOps DEF Raises, Rising
<1>4. ASSUME NEW n \in LineDrift(m)
      PROVE  Raises(m, n, Addresses)
  BY LineDriftOps DEF Raises, Rising
<1> QED  BY <1>1, <1>2, <1>3, <1>4

(* A store of the word it rises to raises a word, and no other.            *)
LEMMA StoreRaises ==
  ASSUME NEW W, NEW m \in Memory(W), NEW a \in Addresses, NEW w \in W
  PROVE  /\ Raises(m, StoreWord(m, a, w), Addresses \ {a})
         /\ Cached(StoreWord(m, a, w), a) = w
         /\ \A o : Rising(m, a, o, w) =>
              /\ Rising(StoreWord(m, a, w), a, o, w)
              /\ Durable(StoreWord(m, a, w), a) = Durable(m, a)
  BY StoreWordOps DEF Raises, Rising

(* What is in the cache when its line is persisted is safe.                *)
LEMMA PersistSettles ==
  ASSUME NEW W, NEW m \in Memory(W), NEW as, NEW b \in Addresses, b \in as
  PROVE  Settled(PersistWords(m, as), b, Cached(m, b))
<1>1. Touched(as, b)
  BY DEF Touched
<1> QED  BY <1>1, PersistOps DEF Settled

(* A settled word stays settled.                                           *)
LEMMA SettledStays ==
  ASSUME NEW m, NEW n, NEW A, Raises(m, n, A)
  PROVE  \A b \in A : \A w : Settled(m, b, w) => Settled(n, b, w)
  BY DEF Raises, Rising, Settled

(* A reader that knows only some of the entries when it sees them reads    *)
(* the log up to the first one it does not know.                           *)
LEMMA PlacesReadFront ==
  ASSUME NEW T, NEW found \in Seq(T), NEW end \in Nat, NEW R, Places(found, end, R),
         NEW B \in Nat, end <= B, NEW whole, NEW payload, NEW next, NEW f,
         Reader(f, B, whole, payload, next),
         \A s, n \in 0 .. end : \A e \in T :
           <<s, e, n>> \in R /\ s \in whole => payload[s] = e /\ next[s] = n,
         end \notin whole
  PROVE  \E i \in 0 .. Len(found) : f[0] = SubSeq(found, 1, i)
<1> DEFINE n == Len(found)
<1>0. n \in Nat
  OBVIOUS
<1>1. PICK at \in [1 .. n + 1 -> 0 .. end] :
        /\ at[1] = 0 /\ at[n + 1] = end
        /\ \A i \in 1 .. n : <<at[i], found[i], at[i + 1]>> \in R
  BY DEF Places
<1> DEFINE S == {j \in 1 .. n + 1 : at[j] \notin whole}
<1>2. S \in SUBSET Nat /\ n + 1 \in S
  BY <1>0, <1>1
<1>3. PICK j \in S : \A y \in S : j <= y
  BY <1>2, LeastNumber
<1>4. j \in 1 .. n + 1 /\ at[j] \notin whole /\ j - 1 \in 0 .. n
  BY <1>0
<1>5. \A i \in 1 .. j - 1 : i \in 1 .. n /\ at[i] \in whole
  <2>1. ASSUME NEW i \in 1 .. j - 1
        PROVE  i \in 1 .. n /\ at[i] \in whole
    <3>1. i \in 1 .. n /\ i < j
      BY <1>0, <1>4
    <3>2. i \notin S
      BY <1>0, <1>3, <1>4, <3>1
    <3> QED  BY <1>0, <3>1, <3>2
  <2> QED  BY <2>1
<1> HIDE DEF S, n
<1> DEFINE front == SubSeq(found, 1, j - 1)
           to == [i \in 1 .. (j - 1) + 1 |-> at[i]]
<1>6. /\ front \in Seq(T) /\ Len(front) = j - 1
      /\ \A i \in 1 .. j - 1 : front[i] = found[i]
  <2>1. \A i \in 1 .. j - 1 : found[i] \in T
    BY <1>5 DEF n
  <2>2. 1 \in Int /\ j - 1 \in Int /\ j - 1 \in Nat
    BY <1>0, <1>4
  <2>3. /\ front \in Seq(T)
        /\ Len(front) = IF 1 <= j - 1 THEN (j - 1) - 1 + 1 ELSE 0
        /\ \A i \in 1 .. (j - 1) - 1 + 1 : front[i] = found[1 + i - 1]
    BY <2>1, <2>2, SubSeqProperties
  <2> HIDE DEF front
  <2> QED  BY <1>4, <2>2, <2>3
<1>7. to \in [1 .. Len(front) + 1 -> 0 .. B] /\ \A i \in 1 .. (j - 1) + 1 : to[i] = at[i]
  <2>1. \A i \in 1 .. (j - 1) + 1 : i \in 1 .. n + 1 /\ at[i] \in 0 .. B
    BY <1>0, <1>1, <1>4
  <2>2. \A i \in 1 .. (j - 1) + 1 : to[i] = at[i]
    OBVIOUS
  <2>3. to \in [1 .. (j - 1) + 1 -> 0 .. B]
    BY <2>1
  <2> QED  BY <1>6, <2>2, <2>3
<1> HIDE DEF front, to
<1>8. ASSUME NEW i \in 1 .. Len(front)
      PROVE  to[i] \in whole /\ payload[to[i]] = front[i] /\ next[to[i]] = to[i + 1]
  <2>1. /\ i \in 1 .. n /\ i + 1 \in 1 .. n + 1 /\ at[i] \in whole
        /\ to[i] = at[i] /\ to[i + 1] = at[i + 1] /\ front[i] = found[i]
    <3>1. i \in 1 .. j - 1 /\ i \in 1 .. (j - 1) + 1 /\ i + 1 \in 1 .. (j - 1) + 1
      BY <1>4, <1>6
    <3> QED  BY <1>0, <1>4, <1>5, <1>6, <1>7, <3>1
  <2>2. at[i] \in 0 .. end /\ at[i + 1] \in 0 .. end /\ found[i] \in T
    BY <1>1, <2>1 DEF n
  <2>3. <<at[i], found[i], at[i + 1]>> \in R
    BY <1>1, <2>1
  <2> QED  BY <2>1, <2>2, <2>3
<1>9. to[Len(front) + 1] \notin whole /\ to[1] = 0
  <2>1. (j - 1) + 1 = j /\ 1 \in 1 .. (j - 1) + 1
    BY <1>4
  <2> QED  BY <1>1, <1>4, <1>6, <1>7, <2>1
<1>10. Way(to, front, whole, payload, next)
  BY <1>8, <1>9 DEF Way
<1>11. f[to[1]] = front
  BY <1>6, <1>7, <1>10, ReaderReads
<1> QED  BY <1>4, <1>9, <1>11 DEF front, n

-----------------------------------------------------------------------------
\* What the families have in common.

\* The abstract log, whichever writer it is.
Kept == INSTANCE DurableLog WITH
  acked <- log, pending <- Adding, durable <- Recovered

\* What a power failure leaves is the log, with or without the entry being added.
Faithful ==
  IF pc = "idle" THEN Recovered = log /\ Adding = <<>>
  ELSE Len(Adding) = 1 /\ Recovered \in {log, log \o Adding}

\* The kinds of step a log writer takes: AddLogEntry begins; it goes on, and
\* what NVM has of the entry stays there; it returns; nothing happens to the log.
Begins == pc = "idle" /\ pc' # "idle" /\ log' = log /\ Recovered' = log
GoesOn ==
  /\ pc # "idle" /\ pc' # "idle" /\ log' = log /\ Adding' = Adding
  /\ Recovered = log \o Adding => Recovered' = log \o Adding
Returns == pc # "idle" /\ pc' = "idle" /\ log' = log \o Adding
Rests == pc = "idle" /\ pc' = "idle" /\ log' = log

(* Such steps are the ones of the abstract log.                            *)
LEMMA KindsOfSteps ==
  ASSUME Faithful, Faithful', Begins \/ GoesOn \/ Returns \/ Rests
  PROVE  [Kept!Next]_<<log, Adding, Recovered>>
<1>1. CASE Begins
  <2>1. Adding = <<>> /\ Recovered = log /\ Len(Adding') = 1
    BY <1>1 DEF Begins, Faithful
  <2>2. Kept!Begin
    BY <1>1, <2>1 DEF Begins, Kept!Begin
  <2> QED  BY <2>2 DEF Kept!Next
<1>2. CASE GoesOn
  <2>1. Len(Adding) = 1 /\ Adding # <<>>
    BY <1>2 DEF GoesOn, Faithful
  <2>2. log' = log /\ Adding' = Adding /\ Recovered \in {log, log \o Adding}
    BY <1>2 DEF GoesOn, Faithful
  <2>3. Recovered' \in {log, log \o Adding}
    BY <1>2 DEF GoesOn, Faithful
  <2>4. CASE Recovered' = log \o Adding
    <3>1. Kept!Commit
      BY <2>1, <2>2, <2>4 DEF Kept!Commit
    <3> QED  BY <3>1 DEF Kept!Next
  <2>5. CASE Recovered' # log \o Adding
    <3>1. Recovered' = Recovered
      BY <1>2, <2>2, <2>3, <2>5 DEF GoesOn
    <3> QED  BY <2>2, <3>1
  <2> QED  BY <2>4, <2>5
<1>3. CASE Returns
  <2>1. Len(Adding) = 1 /\ Adding # <<>>
    BY <1>3 DEF Returns, Faithful
  <2>2. Adding' = <<>> /\ log' = log \o Adding /\ Recovered' = log \o Adding
    BY <1>3 DEF Returns, Faithful
  <2>3. Kept!CommitAndReturn
    BY <2>1, <2>2 DEF Kept!CommitAndReturn
  <2> QED  BY <2>3 DEF Kept!Next
<1>4. CASE Rests
  BY <1>4 DEF Rests, Faithful
<1> QED  BY <1>1, <1>2, <1>3, <1>4

\* What the format of the writer makes of the memory, family by family.
LEMMA Families ==
  /\ writer \in Header!Writers => Recovered = Header!Recovered
  /\ writer \in Classic!Writers => Recovered = Classic!Recovered
  /\ writer \in Zero!Writers => Recovered = Zero!Recovered
  /\ writer \in ZeroCached!Writers => Recovered = ZeroCached!Recovered
  /\ writer \in Torn!Writers => Recovered = Torn!Recovered
  /\ writer \in Classic!Writers =>
       Adding = IF pc = "idle" THEN <<>> ELSE <<[start |-> next_free, payload |-> entry]>>
  /\ writer \in Writers \ Classic!Writers =>
       Adding = IF pc = "idle" THEN <<>> ELSE <<entry>>
<1>1. /\ writer \in Header!Writers => Recovered = Header!Recovered
      /\ writer \in Classic!Writers => Recovered = Classic!Recovered
      /\ writer \in Zero!Writers => Recovered = Zero!Recovered
      /\ writer \in ZeroCached!Writers => Recovered = ZeroCached!Recovered
      /\ writer \in Torn!Writers => Recovered = Torn!Recovered
  BY DEF Recovered, Header!Writers, Classic!Writers, Zero!Writers, ZeroCached!Writers,
         Torn!Writers
<1>2. /\ writer \in Classic!Writers =>
           Adding = IF pc = "idle" THEN <<>> ELSE <<[start |-> next_free, payload |-> entry]>>
      /\ writer \in Writers \ Classic!Writers =>
           Adding = IF pc = "idle" THEN <<>> ELSE <<entry>>
  BY DEF Adding
<1> QED  BY <1>1, <1>2

-----------------------------------------------------------------------------
\* The classic writers.

ClassicWords == Value \union (0 .. ByteCount)

\* Where the footer of an entry lies, what it says, where the next entry
\* starts: Classic's operators, with the writer as a parameter.
Foot(w, s, e) ==
  IF w = "ClassicAligned" THEN RoundUp(s + Classic!Size(e)) ELSE s + Classic!Size(e)
Mark(w, s, e) == IF w = "ClassicAligned" THEN Foot(w, s, e) ELSE s
ClassicEnd(w, s, e) == Foot(w, s, e) + (IF w = "ClassicAligned" THEN LineWords ELSE 1)

\* The words of the entry e at s, and which of them a is.
Spot(s, e) == Classic!Region(s, Classic!Size(e))
WordAt(s, e, a) == Classic!Layout(e)[a - s + 1]

(* The instance's names are the ones of LogMemory.                         *)
LEMMA ClassicMemory ==
  /\ Classic!Words = ClassicWords
  /\ Classic!ByteCount = ByteCount /\ Classic!Addresses = Addresses
  /\ [Classic!LogLines -> Classic!LineSet([Classic!Slots -> Classic!Words])] = Memory(ClassicWords)
  /\ \A m, a, w : Classic!StoreWord(m, a, w) = StoreWord(m, a, w)
  /\ \A m, as : Classic!PersistWords(m, as) = PersistWords(m, as)
  /\ \A m, a : Classic!Durable(m, a) = Durable(m, a)
  /\ \A m : Classic!LineDrift(m) = LineDrift(m)
  /\ Classic!Filled(0) = Filled(0)
  /\ \A s, e : Classic!FooterAddress(s, e) = Foot(writer, s, e)
  /\ \A s, e : Classic!Footer(s, e) = Mark(writer, s, e)
  /\ \A s, e : Classic!After(s, e) = ClassicEnd(writer, s, e)
<1>1. /\ Classic!ByteCount = ByteCount /\ Classic!Addresses = Addresses
      /\ Classic!LogLines = LogLines /\ Classic!Slots = Slots
      /\ \A a : Classic!LineOf(a) = LineOf(a) /\ Classic!SlotOf(a) = SlotOf(a)
  BY DEF Classic!ByteCount, ByteCount, Classic!Addresses, Addresses, Classic!LogLines,
         LogLines, Classic!Slots, Slots, Classic!LineOf, LineOf, Classic!SlotOf, SlotOf
<1>2. Classic!Words = ClassicWords
  BY <1>1 DEF Classic!Words, ClassicWords
<1>3. [Classic!LogLines -> Classic!LineSet([Classic!Slots -> Classic!Words])] = Memory(ClassicWords)
  BY <1>1, <1>2 DEF Classic!LineSet, LineSet, Memory
<1>4. \A m, a, w : Classic!StoreWord(m, a, w) = StoreWord(m, a, w)
  BY <1>1 DEF Classic!StoreWord, StoreWord, Classic!Store, Store
<1>5. \A m, as : Classic!PersistWords(m, as) = PersistWords(m, as)
  <2>1. ASSUME NEW m, NEW as
        PROVE  Classic!WriteBackWords(m, as) = WriteBackWords(m, as)
    BY <1>1 DEF Classic!WriteBackWords, WriteBackWords, Classic!WriteBack, WriteBack
  <2>2. ASSUME NEW m
        PROVE  Classic!Fence(m) = Fence(m)
    BY <1>1 DEF Classic!Fence, Fence, Classic!SFence, SFence
  <2> QED  BY <2>1, <2>2 DEF Classic!PersistWords, PersistWords
<1>6. \A m, a : Classic!Durable(m, a) = Durable(m, a)
  BY <1>1 DEF Classic!Durable, Durable
<1>7. ASSUME NEW m
      PROVE  Classic!LineDrift(m) = LineDrift(m)
  BY <1>1 DEF Classic!LineDrift, LineDrift, Classic!Evict, Evict, Classic!Dirty, Dirty
<1>8. Classic!Filled(0) = Filled(0)
  BY <1>1 DEF Classic!Filled, Filled, Classic!Line, Line
<1>9. ASSUME NEW n
      PROVE  Classic!RoundUp(n) = RoundUp(n)
  BY DEF Classic!RoundUp, RoundUp
<1>10. \A s, e : Classic!FooterAddress(s, e) = Foot(writer, s, e)
  BY <1>9 DEF Classic!FooterAddress, Foot, Classic!Aligned
<1>11. \A s, e : Classic!Footer(s, e) = Mark(writer, s, e)
  BY <1>10 DEF Classic!Footer, Mark, Classic!Aligned
<1>12. \A s, e : Classic!After(s, e) = ClassicEnd(writer, s, e)
  BY <1>10 DEF Classic!After, ClassicEnd, Classic!Aligned
<1> QED  BY <1>1, <1>2, <1>3, <1>4, <1>5, <1>6, <1>7, <1>8, <1>10, <1>11, <1>12

(* An entry lies in front of its footer, and the footer in front of what   *)
(* comes next.                                                             *)
LEMMA ClassicSizes ==
  ASSUME NEW w, NEW s \in Nat, NEW e \in Classic!Entries
  PROVE  /\ Classic!Size(e) \in Nat \ {0, 1} /\ Classic!Layout(e) \in Seq(Nat)
         /\ Classic!Layout(e)[1] # 0
         /\ Len(Classic!Layout(e)) = Classic!Size(e)
         /\ Foot(w, s, e) \in Nat /\ s + Classic!Size(e) <= Foot(w, s, e)
         /\ ClassicEnd(w, s, e) \in Nat /\ Foot(w, s, e) < ClassicEnd(w, s, e)
         /\ ClassicEnd(w, s, e) <= ByteCount =>
              /\ Foot(w, s, e) \in Addresses
              /\ Mark(w, s, e) \in ClassicWords
              /\ \A a \in Spot(s, e) : a \in Addresses /\ s <= a /\ a < Foot(w, s, e)
              /\ \A a \in Spot(s, e) : WordAt(s, e, a) \in ClassicWords
<1>1. PICK n \in 1 .. MaxPayload : e \in [1 .. n -> Value]
  BY DEF Classic!Entries
<1>2. MaxPayload \in Nat /\ LineWords \in Nat \ {0} /\ ByteCount \in Nat /\ Value \subseteq Nat
  BY LogMemoryAssumption DEF ByteCount
<1>3. e \in Seq(Value) /\ Len(e) = n /\ n \in Nat \ {0}
  BY <1>1, <1>2
<1>4. Classic!Size(e) = n + 1
  BY <1>3 DEF Classic!Size
<1> DEFINE l == Classic!Layout(e)
<1>5. l \in Seq(Nat) /\ Len(l) = n + 1 /\ l[1] = n /\ \A i \in 2 .. n + 1 : l[i] \in Value
  <2>0. e \in [1 .. n -> Nat]
    BY <1>1, <1>2
  <2>1. e \in Seq(Nat) /\ <<n>> \in Seq(Nat) /\ Len(<<n>>) = 1 /\ <<n>>[1] = n
    BY <2>0, <1>3
  <2>2. l = <<n>> \o e
    BY <1>3 DEF Classic!Layout
  <2>3. \A i \in 2 .. n + 1 : l[i] = e[i - 1]
    BY <1>3, <2>1, <2>2
  <2>4. \A i \in 2 .. n + 1 : e[i - 1] \in Value
    BY <1>1, <1>3
  <2> QED  BY <1>3, <2>1, <2>2, <2>3, <2>4
<1> HIDE DEF l
<1>6. /\ Foot(w, s, e) \in Nat /\ s + Classic!Size(e) <= Foot(w, s, e)
      /\ ClassicEnd(w, s, e) \in Nat /\ Foot(w, s, e) < ClassicEnd(w, s, e)
  <2>1. RoundUp(s + (n + 1)) \in Nat /\ s + (n + 1) <= RoundUp(s + (n + 1))
    BY <1>3, RoundUpBounds
  <2> QED  BY <1>2, <1>3, <1>4, <2>1 DEF Foot, ClassicEnd
<1>7. ASSUME ClassicEnd(w, s, e) <= ByteCount
      PROVE  /\ Foot(w, s, e) \in Addresses
             /\ Mark(w, s, e) \in ClassicWords
             /\ n \in 0 .. ByteCount
             /\ \A a \in Spot(s, e) : /\ a \in Addresses /\ s <= a /\ a < Foot(w, s, e)
                                      /\ a - s + 1 \in 1 .. n + 1
  <2>1. Foot(w, s, e) \in Addresses /\ n \in 0 .. ByteCount
    BY <1>2, <1>3, <1>4, <1>6, <1>7 DEF Addresses
  <2>2. Mark(w, s, e) \in 0 .. ByteCount
    BY <1>2, <1>4, <1>3, <1>6, <1>7 DEF Mark
  <2>3. \A a \in Spot(s, e) : /\ a \in Addresses /\ s <= a /\ a < Foot(w, s, e)
                              /\ a - s + 1 \in 1 .. n + 1
    BY <1>2, <1>3, <1>4, <1>6, <1>7 DEF Spot, Classic!Region, Addresses
  <2> QED  BY <2>1, <2>2, <2>3 DEF ClassicWords
<1>8. ClassicEnd(w, s, e) <= ByteCount => \A i \in 1 .. n + 1 : l[i] \in ClassicWords
  BY <1>3, <1>5, <1>7 DEF ClassicWords
<1>9. ClassicEnd(w, s, e) <= ByteCount =>
        \A a \in Spot(s, e) : WordAt(s, e, a) \in ClassicWords
  BY <1>7, <1>8 DEF WordAt, l
<1>10. Classic!Size(e) \in Nat \ {0, 1} /\ l[1] # 0
  BY <1>3, <1>4, <1>5
<1> QED  BY <1>4, <1>5, <1>6, <1>7, <1>9, <1>10 DEF l

\* An entry of the log is in NVM with its footer, in front of end.
ClassicSafe(w, m, r, end) ==
  /\ ClassicEnd(w, r.start, r.payload) <= end
  /\ \A a \in Spot(r.start, r.payload) : Settled(m, a, WordAt(r.start, r.payload, a))
  /\ Settled(m, Foot(w, r.start, r.payload), Mark(w, r.start, r.payload))

\* The words of the entry being added, each on its way from zero ...
ClassicCopied ==
  /\ pc = "copy" =>
       /\ todo \subseteq Spot(next_free, entry)
       /\ \A a \in Spot(next_free, entry) :
            /\ Rising(mem, a, 0, WordAt(next_free, entry, a))
            /\ a \in todo \/ Cached(mem, a) = WordAt(next_free, entry, a)
  /\ pc \in {"footer", "persist_footer"} =>
       \A a \in Spot(next_free, entry) : Settled(mem, a, WordAt(next_free, entry, a))

\* ... then its footer; and nothing else behind the log.
ClassicMarked ==
  pc = "persist_footer" =>
    /\ Rising(mem, Foot(writer, next_free, entry), 0, Mark(writer, next_free, entry))
    /\ Cached(mem, Foot(writer, next_free, entry)) = Mark(writer, next_free, entry)

ClassicRest ==
  \A a \in Addresses :
    a >= next_free =>
      \/ pc # "idle" /\ a \in Spot(next_free, entry)
      \/ pc = "persist_footer" /\ a = Foot(writer, next_free, entry)
      \/ Settled(mem, a, 0)

ClassicEntry ==
  IF pc = "idle" THEN entry = <<>>
  ELSE entry \in Classic!Entries /\ ClassicEnd(writer, next_free, entry) <= ByteCount

ClassicInv ==
  /\ Classic!TypeOK
  /\ ClassicEntry
  /\ \A i \in 1 .. Len(log) : ClassicSafe(writer, mem, log[i], next_free)
  /\ ClassicCopied
  /\ ClassicMarked
  /\ ClassicRest

(* What is written beyond the end of the log cannot make an entry that is  *)
(* not there.                                                              *)
LEMMA ClassicSafeKept ==
  ASSUME NEW w, NEW m, NEW n, NEW end \in 0 .. ByteCount, NEW A,
         NEW r \in Classic!Placed,
         Raises(m, n, A), \A a \in Addresses : a < end => a \in A,
         ClassicSafe(w, m, r, end)
  PROVE  \A to \in Nat : end <= to => ClassicSafe(w, n, r, to)
<1>1. r.start \in Nat /\ r.payload \in Classic!Entries
  BY ClassicMemory DEF Classic!Placed
<1>2. /\ ClassicEnd(w, r.start, r.payload) \in Nat
      /\ ClassicEnd(w, r.start, r.payload) <= ByteCount
      /\ ClassicEnd(w, r.start, r.payload) <= end
  <2>1. ByteCount \in Nat
    BY LogMemoryAssumption DEF ByteCount
  <2>2. ClassicEnd(w, r.start, r.payload) <= end
    BY DEF ClassicSafe
  <2>3. ClassicEnd(w, r.start, r.payload) \in Nat
    BY <1>1, ClassicSizes
  <2> QED  BY <2>1, <2>2, <2>3
<1>3. /\ Foot(w, r.start, r.payload) \in A
      /\ \A a \in Spot(r.start, r.payload) : a \in A
  <2> DEFINE f == Foot(w, r.start, r.payload)
             to == ClassicEnd(w, r.start, r.payload)
  <2>1. /\ f \in Addresses /\ f \in Nat /\ f < to
        /\ \A a \in Spot(r.start, r.payload) : a \in Addresses /\ a < f
    BY <1>1, <1>2, ClassicSizes
  <2>2. \A a \in Addresses : a \in Nat
    BY AddressParts
  <2> HIDE DEF f, to
  <2>3. to \in Nat /\ to <= end
    BY <1>2 DEF to
  <2>4. f \in A /\ \A a \in Spot(r.start, r.payload) : a \in A
    <3>1. end \in Nat
      BY LogMemoryAssumption DEF ByteCount
    <3>2. f < end
      BY <2>1, <2>3, <3>1
    <3>3. ASSUME NEW a \in Spot(r.start, r.payload)
          PROVE  a \in Addresses /\ a < end
      <4>1. a \in Addresses /\ a < f
        BY <2>1
      <4>2. a \in Nat
        BY <4>1, <2>2
      <4> QED  BY <2>1, <4>1, <4>2, <3>1, <3>2
    <3> QED  BY <2>1, <3>2, <3>3
  <2> QED  BY <2>4 DEF f
<1>4. /\ Settled(n, Foot(w, r.start, r.payload), Mark(w, r.start, r.payload))
      /\ \A a \in Spot(r.start, r.payload) : Settled(n, a, WordAt(r.start, r.payload, a))
  BY <1>3, SettledStays DEF ClassicSafe
<1> QED  BY <1>2, <1>4 DEF ClassicSafe

(* The zeroed memory holds no entry.                                       *)
LEMMA ClassicInit ==
  ASSUME Classic!Init PROVE ClassicInv
<1>1. mem = Filled(0) /\ next_free = 0 /\ pc = "idle" /\ entry = <<>> /\ todo = {} /\ log = <<>>
      /\ writer \in Classic!Writers
  BY ClassicMemory DEF Classic!Init
<1>2. 0 \in ClassicWords /\ ByteCount \in Nat
  BY LogMemoryAssumption DEF ClassicWords, ByteCount
<1>3. mem \in Memory(ClassicWords) /\ \A a \in Addresses : Settled(mem, a, 0)
  BY <1>1, <1>2, FilledOps
<1>4. Classic!TypeOK
  <2>1. mem \in [Classic!LogLines -> Classic!LineSet([Classic!Slots -> Classic!Words])]
    BY <1>3, ClassicMemory
  <2>2. next_free \in 0 .. Classic!ByteCount
    BY <1>1, <1>2, ClassicMemory
  <2>3. log \in Seq(Classic!Placed) /\ entry \in Classic!Entries \union {<<>>}
    BY <1>1
  <2>4. todo \in SUBSET Classic!Addresses /\ pc \in Classic!Steps
    BY <1>1 DEF Classic!Steps
  <2> QED  BY <1>1, <2>1, <2>2, <2>3, <2>4 DEF Classic!TypeOK
<1> QED  BY <1>1, <1>3, <1>4
         DEF ClassicInv, ClassicEntry, ClassicCopied, ClassicMarked, ClassicRest

\* What the invariant says of the entry being added.
LEMMA ClassicFacts ==
  ASSUME ClassicInv
  PROVE  /\ mem \in Memory(ClassicWords) /\ 0 \in ClassicWords /\ ByteCount \in Nat
         /\ next_free \in 0 .. ByteCount /\ writer \in Classic!Writers
         /\ log \in Seq(Classic!Placed)
         /\ pc # "idle" =>
              LET foot == Foot(writer, next_free, entry)
                  end == ClassicEnd(writer, next_free, entry)
              IN /\ entry \in Classic!Entries
                 /\ end \in 0 .. ByteCount /\ next_free < end
                 /\ foot \in Addresses /\ foot >= next_free /\ foot < end
                 /\ Mark(writer, next_free, entry) \in ClassicWords
                 /\ \A a \in Spot(next_free, entry) :
                      /\ a \in Addresses /\ a >= next_free /\ a < foot
                      /\ WordAt(next_free, entry, a) \in ClassicWords
<1>1. /\ mem \in Memory(ClassicWords) /\ next_free \in 0 .. ByteCount
      /\ writer \in Classic!Writers /\ log \in Seq(Classic!Placed)
  BY ClassicMemory DEF ClassicInv, Classic!TypeOK
<1>2. 0 \in ClassicWords /\ ByteCount \in Nat
  BY LogMemoryAssumption DEF ClassicWords, ByteCount
<1>3. ASSUME pc # "idle"
      PROVE  entry \in Classic!Entries /\ ClassicEnd(writer, next_free, entry) <= ByteCount
  BY <1>3 DEF ClassicInv, ClassicEntry
<1>4. ASSUME pc # "idle"
      PROVE  /\ ClassicEnd(writer, next_free, entry) \in 0 .. ByteCount
             /\ next_free < ClassicEnd(writer, next_free, entry)
             /\ Foot(writer, next_free, entry) \in Addresses
             /\ Foot(writer, next_free, entry) >= next_free
             /\ Foot(writer, next_free, entry) < ClassicEnd(writer, next_free, entry)
             /\ Mark(writer, next_free, entry) \in ClassicWords
             /\ \A a \in Spot(next_free, entry) :
                  /\ a \in Addresses /\ a >= next_free
                  /\ a < Foot(writer, next_free, entry)
                  /\ WordAt(next_free, entry, a) \in ClassicWords
  <2> DEFINE f == Foot(writer, next_free, entry)
             to == ClassicEnd(writer, next_free, entry)
             n == Classic!Size(entry)
  <2>1. next_free \in Nat /\ entry \in Classic!Entries
    BY <1>1, <1>2, <1>3, <1>4
  <2>2. /\ n \in Nat \ {0, 1} /\ f \in Nat /\ next_free + n <= f /\ to \in Nat /\ f < to
        /\ f \in Addresses /\ Mark(writer, next_free, entry) \in ClassicWords
        /\ \A a \in Spot(next_free, entry) :
             /\ a \in Addresses /\ next_free <= a /\ a < f
             /\ WordAt(next_free, entry, a) \in ClassicWords
    BY <1>3, <1>4, <2>1, ClassicSizes
  <2>3. \A a \in Addresses : a \in Nat
    BY AddressParts
  <2>4. to <= ByteCount
    BY <1>3, <1>4
  <2> HIDE DEF f, to, n
  <2>5. /\ to \in 0 .. ByteCount /\ next_free < to /\ f \in Addresses /\ f >= next_free
        /\ f < to /\ Mark(writer, next_free, entry) \in ClassicWords
        /\ \A a \in Spot(next_free, entry) :
             /\ a \in Addresses /\ a >= next_free /\ a < f
             /\ WordAt(next_free, entry, a) \in ClassicWords
    BY <1>2, <2>1, <2>2, <2>3, <2>4
  <2> QED  BY <2>5 DEF f, to
<1> QED  BY <1>1, <1>2, <1>3, <1>4

(* A call that starts finds an idle writer and fits into the file.         *)
LEMMA ClassicAddLogEntry ==
  ASSUME ClassicInv, NEW e \in Classic!Entries, Classic!AddLogEntry(e)
  PROVE  ClassicInv'
<1>1. /\ pc = "idle" /\ ClassicEnd(writer, next_free, e) <= ByteCount
      /\ entry' = e /\ todo' = Spot(next_free, e) /\ pc' = "copy"
      /\ writer' = writer /\ mem' = mem /\ next_free' = next_free /\ log' = log
  BY ClassicMemory DEF Classic!AddLogEntry, Spot
<1>2. next_free \in Nat
  BY ClassicFacts
<1>3. \A a \in Spot(next_free, e) : a \in Addresses /\ next_free <= a
  BY <1>1, <1>2, ClassicSizes
<1>4. \A a \in Spot(next_free, e) : Rising(mem, a, 0, WordAt(next_free, e, a))
  <2>1. \A a \in Addresses : a >= next_free => Settled(mem, a, 0)
    BY <1>1 DEF ClassicInv, ClassicRest
  <2>2. \A a \in Spot(next_free, e) : Settled(mem, a, 0)
    BY <1>3, <2>1, AddressParts, <1>2
  <2> QED  BY <2>2, SettledRises
<1>5. Classic!TypeOK'
  BY <1>1, <1>3, ClassicMemory DEF ClassicInv, Classic!TypeOK, Classic!Steps
<1>6. ClassicEntry'
  BY <1>1 DEF ClassicEntry
<1>7. ClassicCopied'
  BY <1>1, <1>4 DEF ClassicCopied
<1>8. ClassicMarked' /\ ClassicRest'
  BY <1>1 DEF ClassicInv, ClassicMarked, ClassicRest
<1>9. \A i \in 1 .. Len(log') : ClassicSafe(writer', mem', log'[i], next_free')
  BY <1>1 DEF ClassicInv
<1> QED  BY <1>5, <1>6, <1>7, <1>8, <1>9 DEF ClassicInv

(* Copying a word touches the new entry only.                              *)
LEMMA ClassicCopyWord ==
  ASSUME ClassicInv, Classic!CopyWord
  PROVE  ClassicInv'
<1>1. PICK a \in todo :
        /\ mem' = StoreWord(mem, a, WordAt(next_free, entry, a))
        /\ todo' = todo \ {a}
  BY ClassicMemory DEF Classic!CopyWord, WordAt
<1>2. /\ pc = "copy" /\ writer' = writer /\ next_free' = next_free /\ pc' = pc
      /\ entry' = entry /\ log' = log
  BY DEF Classic!CopyWord
<1> DEFINE w == WordAt(next_free, entry, a)
           spot == Spot(next_free, entry)
<1>3. /\ a \in Addresses /\ a \in spot /\ a >= next_free /\ w \in ClassicWords
      /\ mem \in Memory(ClassicWords) /\ next_free \in 0 .. ByteCount /\ ByteCount \in Nat
      /\ spot \subseteq Addresses /\ todo \subseteq spot
  BY <1>2, ClassicFacts DEF ClassicInv, ClassicCopied
<1> HIDE DEF w
<1>4. /\ mem' \in Memory(ClassicWords)
      /\ Raises(mem, mem', Addresses \ {a})
      /\ Cached(mem', a) = w
      /\ Rising(mem, a, 0, w) => Rising(mem', a, 0, w)
  <2>1. mem' = StoreWord(mem, a, w)
    BY <1>1 DEF w
  <2>2. mem' \in Memory(ClassicWords)
    BY <1>3, <2>1, StoreWordOps
  <2> QED  BY <1>3, <2>1, <2>2, StoreRaises, Zenon
<1>5. Classic!TypeOK'
  BY <1>1, <1>2, <1>4, ClassicMemory DEF ClassicInv, Classic!TypeOK
<1>6. ClassicEntry'
  BY <1>2 DEF ClassicInv, ClassicEntry
<1>7. \A i \in 1 .. Len(log') : ClassicSafe(writer', mem', log'[i], next_free')
  <2>1. \A b \in Addresses : b < next_free => b \in Addresses \ {a}
    BY <1>3, AddressParts
  <2>2. \A i \in 1 .. Len(log) : log[i] \in Classic!Placed
    BY ClassicFacts
  <2> QED  BY <1>2, <1>3, <1>4, <2>1, <2>2, ClassicSafeKept DEF ClassicInv
<1>8. ClassicCopied'
  <2>1. \A b \in spot : /\ Rising(mem, b, 0, WordAt(next_free, entry, b))
                        /\ b \in todo \/ Cached(mem, b) = WordAt(next_free, entry, b)
    BY <1>2 DEF ClassicInv, ClassicCopied
  <2>2. ASSUME NEW b \in spot
        PROVE  /\ Rising(mem', b, 0, WordAt(next_free, entry, b))
               /\ b \in todo' \/ Cached(mem', b) = WordAt(next_free, entry, b)
    <3>1. CASE b = a
      <4>1. Rising(mem, a, 0, w)
        BY <1>3, <2>1 DEF w
      <4>2. Rising(mem', a, 0, w) /\ Cached(mem', a) = w
        BY <1>4, <4>1
      <4> QED  BY <3>1, <4>2 DEF w
    <3>2. CASE b # a
      <4>1. b \in Addresses \ {a}
        BY <1>3, <3>2
      <4> DEFINE v == WordAt(next_free, entry, b)
      <4>2. Rising(mem, b, 0, v) /\ (b \in todo \/ Cached(mem, b) = v)
        BY <2>1
      <4> HIDE DEF v
      <4>3. Rising(mem', b, 0, v) /\ Cached(mem', b) = Cached(mem, b)
        BY <1>4, <4>1, <4>2 DEF Raises
      <4>4. Rising(mem', b, 0, v) /\ (b \in todo' \/ Cached(mem', b) = v)
        BY <1>1, <3>2, <4>2, <4>3
      <4> QED  BY <4>4 DEF v
    <3> QED  BY <3>1, <3>2
  <2> QED  BY <1>1, <1>2, <1>3, <2>2 DEF ClassicCopied
<1>9. ClassicMarked'
  BY <1>2 DEF ClassicMarked
<1>10. ClassicRest'
  <2>1. \A b \in Addresses \ {a} : Settled(mem, b, 0) => Settled(mem', b, 0)
    BY <1>4, SettledStays
  <2> QED  BY <1>2, <1>3, <2>1 DEF ClassicInv, ClassicRest
<1> QED  BY <1>5, <1>6, <1>7, <1>8, <1>9, <1>10 DEF ClassicInv

(* After the first persist the entry is settled and its footer still is    *)
(* what it was.                                                            *)
LEMMA ClassicPersistEntry ==
  ASSUME ClassicInv, Classic!PersistEntry
  PROVE  ClassicInv'
<1> DEFINE spot == Spot(next_free, entry)
<1>1. /\ pc = "copy" /\ todo = {} /\ mem' = PersistWords(mem, spot) /\ pc' = "footer"
      /\ writer' = writer /\ next_free' = next_free /\ entry' = entry /\ todo' = todo
      /\ log' = log
  BY ClassicMemory DEF Classic!PersistEntry, Spot
<1>2. /\ mem \in Memory(ClassicWords) /\ next_free \in 0 .. ByteCount /\ ByteCount \in Nat
      /\ spot \subseteq Addresses
  BY <1>1, ClassicFacts
<1>3. /\ mem' \in Memory(ClassicWords)
      /\ Raises(mem, mem', Addresses)
      /\ \A b \in spot : Settled(mem', b, Cached(mem, b))
  <2>1. mem' \in Memory(ClassicWords) /\ Raises(mem, mem', Addresses)
    BY <1>1, <1>2, RisingKept, PersistOps
  <2>2. \A b \in spot : Settled(mem', b, Cached(mem, b))
    BY <1>1, <1>2, PersistSettles
  <2> QED  BY <2>1, <2>2
<1>4. \A b \in spot : Settled(mem', b, WordAt(next_free, entry, b))
  BY <1>1, <1>3 DEF ClassicInv, ClassicCopied
<1>5. Classic!TypeOK'
  BY <1>1, <1>3, ClassicMemory DEF ClassicInv, Classic!TypeOK, Classic!Steps
<1>6. ClassicEntry'
  BY <1>1 DEF ClassicInv, ClassicEntry
<1>7. \A i \in 1 .. Len(log') : ClassicSafe(writer', mem', log'[i], next_free')
  <2>1. \A i \in 1 .. Len(log) : log[i] \in Classic!Placed
    BY ClassicFacts
  <2> QED  BY <1>1, <1>2, <1>3, <2>1, ClassicSafeKept DEF ClassicInv
<1>8. ClassicCopied'
  BY <1>1, <1>4 DEF ClassicCopied
<1>9. ClassicMarked'
  BY <1>1 DEF ClassicMarked
<1>10. ClassicRest'
  <2>1. \A b \in Addresses : Settled(mem, b, 0) => Settled(mem', b, 0)
    BY <1>3, SettledStays
  <2> QED  BY <1>1, <2>1 DEF ClassicInv, ClassicRest
<1> QED  BY <1>5, <1>6, <1>7, <1>8, <1>9, <1>10 DEF ClassicInv

(* The footer is stored behind an entry that is settled already.           *)
LEMMA ClassicStoreFooter ==
  ASSUME ClassicInv, Classic!StoreFooter
  PROVE  ClassicInv'
<1> DEFINE spot == Spot(next_free, entry)
           foot == Foot(writer, next_free, entry)
           w == Mark(writer, next_free, entry)
<1>1. /\ pc = "footer" /\ mem' = StoreWord(mem, foot, w) /\ pc' = "persist_footer"
      /\ writer' = writer /\ next_free' = next_free /\ entry' = entry /\ todo' = todo
      /\ log' = log
  BY ClassicMemory DEF Classic!StoreFooter
<1>2. /\ mem \in Memory(ClassicWords) /\ next_free \in 0 .. ByteCount /\ ByteCount \in Nat
      /\ foot \in Addresses /\ foot >= next_free /\ w \in ClassicWords
      /\ \A b \in spot : b \in Addresses /\ b < foot
  BY <1>1, ClassicFacts
<1>3. Settled(mem, foot, 0)
  <2>1. foot \notin spot
    BY <1>2, AddressParts
  <2> QED  BY <1>1, <1>2, <2>1 DEF ClassicInv, ClassicRest
<1> HIDE DEF foot, w
<1>4. /\ mem' \in Memory(ClassicWords)
      /\ Raises(mem, mem', Addresses \ {foot})
      /\ Rising(mem', foot, 0, w) /\ Cached(mem', foot) = w
  <2>1. mem' \in Memory(ClassicWords)
    BY <1>1, <1>2, StoreWordOps
  <2>2. \A b \in Addresses :
          /\ Cached(mem', b) = IF b = foot THEN w ELSE Cached(mem, b)
          /\ Flushed(mem', b) = Flushed(mem, b) /\ Durable(mem', b) = Durable(mem, b)
    BY <1>1, <1>2, StoreWordOps
  <2>3. Rising(mem', foot, 0, w) /\ Cached(mem', foot) = w
    BY <1>2, <1>3, <2>2 DEF Rising, Settled
  <2>4. Raises(mem, mem', Addresses \ {foot})
    BY <1>1, <1>2, StoreRaises
  <2> QED  BY <2>1, <2>3, <2>4
<1>5. Classic!TypeOK'
  BY <1>1, <1>4, ClassicMemory DEF ClassicInv, Classic!TypeOK, Classic!Steps
<1>6. ClassicEntry'
  BY <1>1 DEF ClassicInv, ClassicEntry
<1>7. \A i \in 1 .. Len(log') : ClassicSafe(writer', mem', log'[i], next_free')
  <2>1. \A b \in Addresses : b < next_free => b \in Addresses \ {foot}
    BY <1>2, AddressParts
  <2>2. \A i \in 1 .. Len(log) : log[i] \in Classic!Placed
    BY ClassicFacts
  <2> QED  BY <1>1, <1>2, <1>4, <2>1, <2>2, ClassicSafeKept DEF ClassicInv
<1>8. ClassicCopied'
  <2>1. ASSUME NEW b \in spot
        PROVE  Settled(mem', b, WordAt(next_free, entry, b))
    <3>1. Settled(mem, b, WordAt(next_free, entry, b))
      BY <1>1 DEF ClassicInv, ClassicCopied
    <3>2. b \in Addresses \ {foot}
      BY <1>2, AddressParts
    <3> QED  BY <1>4, <3>1, <3>2, SettledStays
  <2> QED  BY <1>1, <2>1 DEF ClassicCopied
<1>9. ClassicMarked'
  BY <1>1, <1>4 DEF ClassicMarked, foot, w
<1>10. ClassicRest'
  <2>1. \A b \in Addresses \ {foot} : Settled(mem, b, 0) => Settled(mem', b, 0)
    BY <1>4, SettledStays
  <2>2. ASSUME NEW b \in Addresses, b >= next_free, b \notin spot, b # foot
        PROVE  Settled(mem', b, 0)
    BY <1>1, <2>1, <2>2 DEF ClassicInv, ClassicRest
  <2> QED  BY <1>1, <2>2 DEF ClassicRest, foot
<1> QED  BY <1>5, <1>6, <1>7, <1>8, <1>9, <1>10 DEF ClassicInv

(* The second persist is what makes the entry count.                       *)
LEMMA ClassicPersistFooter ==
  ASSUME ClassicInv, Classic!PersistFooter
  PROVE  ClassicInv'
<1> DEFINE spot == Spot(next_free, entry)
           foot == Foot(writer, next_free, entry)
           end == ClassicEnd(writer, next_free, entry)
           w == Mark(writer, next_free, entry)
           r == [start |-> next_free, payload |-> entry]
<1>1. /\ pc = "persist_footer" /\ mem' = PersistWords(mem, {foot}) /\ pc' = "idle"
      /\ writer' = writer /\ next_free' = end /\ entry' = <<>> /\ todo' = todo
      /\ log' = Append(log, r)
  BY ClassicMemory DEF Classic!PersistFooter
<1>2. /\ mem \in Memory(ClassicWords) /\ next_free \in 0 .. ByteCount /\ ByteCount \in Nat
      /\ entry \in Classic!Entries
      /\ foot \in Addresses /\ foot < end /\ end \in 0 .. ByteCount /\ next_free < end
      /\ \A b \in spot : b \in Addresses /\ b < foot
  BY <1>1, ClassicFacts
<1> HIDE DEF foot, end, w
<1>3. /\ mem' \in Memory(ClassicWords)
      /\ Raises(mem, mem', Addresses)
      /\ Settled(mem', foot, w)
  <2>1. mem' \in Memory(ClassicWords) /\ Raises(mem, mem', Addresses)
    BY <1>1, <1>2, RisingKept, PersistOps
  <2>2. Settled(mem', foot, Cached(mem, foot))
    BY <1>1, <1>2, PersistSettles
  <2>3. Cached(mem, foot) = w
    BY <1>1 DEF ClassicInv, ClassicMarked, foot, w
  <2> QED  BY <2>1, <2>2, <2>3
<1>4. \A b \in Addresses : \A v : Settled(mem, b, v) => Settled(mem', b, v)
  BY <1>3, SettledStays
<1>5. \A b \in spot : Settled(mem', b, WordAt(next_free, entry, b))
  BY <1>1, <1>2, <1>4 DEF ClassicInv, ClassicCopied
<1>6. r \in Classic!Placed /\ log \in Seq(Classic!Placed)
  BY <1>2, ClassicMemory, ClassicFacts DEF Classic!Placed
<1>7. Classic!TypeOK'
  <2>1. log' \in Seq(Classic!Placed)
    BY <1>1, <1>6, AppendProperties
  <2> QED  BY <1>1, <1>2, <1>3, <2>1, ClassicMemory DEF ClassicInv, Classic!TypeOK, Classic!Steps
<1>8. ClassicEntry'
  BY <1>1 DEF ClassicEntry
<1>9. \A i \in 1 .. Len(log') : ClassicSafe(writer', mem', log'[i], next_free')
  <2>1. ClassicSafe(writer, mem', r, end)
    BY <1>2, <1>3, <1>5 DEF ClassicSafe, foot, end, w
  <2>2. \A i \in 1 .. Len(log) : ClassicSafe(writer, mem', log[i], end)
    <3>1. \A i \in 1 .. Len(log) : log[i] \in Classic!Placed
      BY <1>6
    <3> QED  BY <1>2, <1>3, <3>1, ClassicSafeKept DEF ClassicInv
  <2>3. \A i \in 1 .. Len(log') : (i \in 1 .. Len(log) /\ log'[i] = log[i]) \/ log'[i] = r
    BY <1>1, <1>6, AppendProperties
  <2> QED  BY <1>1, <2>1, <2>2, <2>3
<1>10. ClassicCopied' /\ ClassicMarked'
  BY <1>1 DEF ClassicCopied, ClassicMarked
<1>11. ClassicRest'
  <2>1. ASSUME NEW b \in Addresses, b >= end
        PROVE  Settled(mem', b, 0)
    <3>1. b >= next_free /\ b \notin spot /\ b # foot
      BY <1>2, <2>1, AddressParts
    <3>2. Settled(mem, b, 0)
      BY <1>1, <3>1 DEF ClassicInv, ClassicRest, foot
    <3> QED  BY <1>4, <3>2
  <2> QED  BY <1>1, <2>1 DEF ClassicRest
<1> QED  BY <1>7, <1>8, <1>9, <1>10, <1>11 DEF ClassicInv

(* A line the cache writes out on its own changes no settled word, and of  *)
(* the footer it takes the old value or the new one.                       *)
LEMMA ClassicDrift ==
  ASSUME ClassicInv, Classic!Drift
  PROVE  ClassicInv'
<1>1. /\ mem' \in LineDrift(mem) /\ pc' = pc /\ writer' = writer
      /\ next_free' = next_free /\ entry' = entry /\ todo' = todo /\ log' = log
  BY ClassicMemory DEF Classic!Drift
<1>2. mem \in Memory(ClassicWords) /\ next_free \in 0 .. ByteCount /\ ByteCount \in Nat
  BY ClassicFacts
<1>3. mem' \in Memory(ClassicWords) /\ Raises(mem, mem', Addresses)
  BY <1>1, <1>2, LineDriftOps, RisingKept
<1>4. \A b \in Addresses : \A v : Settled(mem, b, v) => Settled(mem', b, v)
  BY <1>3, SettledStays
<1>5. Classic!TypeOK'
  BY <1>1, <1>3, ClassicMemory DEF ClassicInv, Classic!TypeOK
<1>6. ClassicEntry'
  BY <1>1 DEF ClassicInv, ClassicEntry
<1>7. \A i \in 1 .. Len(log') : ClassicSafe(writer', mem', log'[i], next_free')
  <2>1. \A i \in 1 .. Len(log) : log[i] \in Classic!Placed
    BY ClassicFacts
  <2> QED  BY <1>1, <1>2, <1>3, <2>1, ClassicSafeKept DEF ClassicInv
<1>8. ASSUME pc # "idle"
      PROVE  /\ Foot(writer, next_free, entry) \in Addresses
             /\ \A b \in Spot(next_free, entry) : b \in Addresses
  BY <1>8, ClassicFacts
<1>9. ClassicCopied'
  <2>1. ASSUME pc = "copy", NEW b \in Spot(next_free, entry)
        PROVE  /\ Rising(mem', b, 0, WordAt(next_free, entry, b))
               /\ b \in todo \/ Cached(mem', b) = WordAt(next_free, entry, b)
    <3> DEFINE v == WordAt(next_free, entry, b)
    <3>1. Rising(mem, b, 0, v) /\ (b \in todo \/ Cached(mem, b) = v)
      BY <2>1 DEF ClassicInv, ClassicCopied
    <3>2. b \in Addresses
      BY <1>8, <2>1
    <3> HIDE DEF v
    <3>3. Rising(mem', b, 0, v) /\ Cached(mem', b) = Cached(mem, b)
      BY <1>3, <3>1, <3>2 DEF Raises
    <3>4. Rising(mem', b, 0, v) /\ (b \in todo \/ Cached(mem', b) = v)
      BY <3>1, <3>3
    <3> QED  BY <3>4 DEF v
  <2>2. ASSUME pc \in {"footer", "persist_footer"}, NEW b \in Spot(next_free, entry)
        PROVE  Settled(mem', b, WordAt(next_free, entry, b))
    BY <1>4, <1>8, <2>2 DEF ClassicInv, ClassicCopied
  <2>3. pc = "copy" => todo \subseteq Spot(next_free, entry)
    BY DEF ClassicInv, ClassicCopied
  <2> QED  BY <1>1, <2>1, <2>2, <2>3 DEF ClassicCopied
<1>10. ClassicMarked'
  <2> DEFINE f == Foot(writer, next_free, entry)
             v == Mark(writer, next_free, entry)
  <2>1. ASSUME pc = "persist_footer"
        PROVE  Rising(mem', f, 0, v) /\ Cached(mem', f) = v
    <3>1. Rising(mem, f, 0, v) /\ Cached(mem, f) = v /\ f \in Addresses
      BY <1>8, <2>1 DEF ClassicInv, ClassicMarked
    <3> HIDE DEF f, v
    <3> QED  BY <1>3, <3>1 DEF Raises
  <2> QED  BY <1>1, <2>1 DEF ClassicMarked
<1>11. ClassicRest'
  BY <1>1, <1>4 DEF ClassicInv, ClassicRest
<1> QED  BY <1>5, <1>6, <1>7, <1>9, <1>10, <1>11 DEF ClassicInv

\* Every word of the entry and its footer are in NVM.
ClassicWhole(w, m, s, e) ==
  /\ \A a \in Spot(s, e) : Durable(m, a) = WordAt(s, e, a)
  /\ Durable(m, Foot(w, s, e)) = Mark(w, s, e)

(* The reader of the log looks at just these words.                        *)
LEMMA ClassicWholeIs ==
  ASSUME NEW s \in Nat, NEW e \in Classic!Entries
  PROVE  Classic!EntryIsDurable(s, e) /\ Classic!FooterIsDurable(s, e)
           <=> ClassicWhole(writer, mem, s, e)
<1> DEFINE n == Classic!Size(e)
           l == Classic!Layout(e)
<1>1. n \in Nat
  BY ClassicSizes
<1>2. Classic!EntryIsDurable(s, e) <=> \A i \in 1 .. n : Durable(mem, s + i - 1) = l[i]
  BY ClassicMemory DEF Classic!EntryIsDurable
<1>3. (\A i \in 1 .. n : Durable(mem, s + i - 1) = l[i])
        <=> \A a \in s .. s + n - 1 : Durable(mem, a) = l[a - s + 1]
  <2> HIDE DEF n, l
  <2>1. ASSUME \A i \in 1 .. n : Durable(mem, s + i - 1) = l[i], NEW a \in s .. s + n - 1
        PROVE  Durable(mem, a) = l[a - s + 1]
    <3>1. a - s + 1 \in 1 .. n /\ s + (a - s + 1) - 1 = a
      BY <1>1
    <3> QED  BY <2>1, <3>1
  <2>2. ASSUME \A a \in s .. s + n - 1 : Durable(mem, a) = l[a - s + 1], NEW i \in 1 .. n
        PROVE  Durable(mem, s + i - 1) = l[i]
    <3>1. s + i - 1 \in s .. s + n - 1 /\ (s + i - 1) - s + 1 = i
      BY <1>1
    <3> QED  BY <2>2, <3>1
  <2> QED  BY <2>1, <2>2
<1>4. Classic!FooterIsDurable(s, e) <=> Durable(mem, Foot(writer, s, e)) = Mark(writer, s, e)
  BY ClassicMemory DEF Classic!FooterIsDurable
<1> QED  BY <1>2, <1>3, <1>4 DEF ClassicWhole, Spot, WordAt, Classic!Region

(* What is read is the log, with the entry being added if all of it and    *)
(* its footer are in NVM.                                                  *)
LEMMA ClassicReads ==
  ASSUME ClassicInv
  PROVE  Classic!Recovered =
           IF pc # "idle" /\ ClassicWhole(writer, mem, next_free, entry)
           THEN Append(log, [start |-> next_free, payload |-> entry]) ELSE log
<1> DEFINE r == [start |-> next_free, payload |-> entry]
           added == IF pc = "idle" THEN log ELSE Append(log, r)
           IsLost(q) == ~ (Classic!EntryIsDurable(q.start, q.payload)
                             /\ Classic!FooterIsDurable(q.start, q.payload))
           lost == {i \in 1 .. Len(added) : IsLost(added[i])}
           n == Len(log)
<1>1. Classic!Recovered = SubSeq(added, 1, Classic!Min(lost \union {Len(added) + 1}) - 1)
  BY DEF Classic!Recovered
<1>2. log \in Seq(Classic!Placed) /\ n \in Nat
  BY ClassicFacts
<1>3. ASSUME NEW q \in Classic!Placed
      PROVE  IsLost(q) <=> ~ ClassicWhole(writer, mem, q.start, q.payload)
  <2>1. q.start \in Nat /\ q.payload \in Classic!Entries
    BY ClassicMemory DEF Classic!Placed
  <2> QED  BY <2>1, ClassicWholeIs
<1> HIDE DEF IsLost
<1>4. \A i \in 1 .. n : ~ IsLost(log[i])
  <2> SUFFICES ASSUME NEW i \in 1 .. n PROVE ~ IsLost(log[i])
    OBVIOUS
  <2>1. ClassicSafe(writer, mem, log[i], next_free) /\ log[i] \in Classic!Placed
    BY <1>2 DEF ClassicInv
  <2>2. ClassicWhole(writer, mem, log[i].start, log[i].payload)
    BY <2>1 DEF ClassicSafe, ClassicWhole, Settled
  <2> QED  BY <1>3, <2>1, <2>2
<1>5. ASSUME NEW S \in SUBSET Nat, NEW k \in S, \A x \in S : k <= x
      PROVE  Classic!Min(S) = k
  <2>1. \A y \in S : (\A x \in S : y <= x) <=> y = k
    BY <1>5
  <2>2. (CHOOSE y \in S : \A x \in S : y <= x) = k
    BY <1>5, <2>1
  <2> QED  BY <2>2 DEF Classic!Min
<1>6. CASE pc = "idle"
  <2>1. added = log /\ lost = {}
    BY <1>4, <1>6
  <2>2. Classic!Min(lost \union {Len(added) + 1}) = n + 1
    BY <1>2, <1>5, <2>1
  <2>3. SubSeq(log, 1, n) = log
    BY <1>2
  <2>4. (n + 1) - 1 = n
    BY <1>2
  <2>5. Classic!Recovered = SubSeq(log, 1, n)
    BY <1>1, <2>1, <2>2, <2>4
  <2> QED  BY <1>6, <2>3, <2>5
<1>7. CASE pc # "idle"
  <2>1. entry \in Classic!Entries /\ next_free \in 0 .. ByteCount
    BY <1>7, ClassicFacts
  <2>2. r \in Classic!Placed
    BY <2>1, ClassicMemory DEF Classic!Placed
  <2>3. /\ added = Append(log, r) /\ added \in Seq(Classic!Placed) /\ Len(added) = n + 1
        /\ added[n + 1] = r /\ \A i \in 1 .. n : added[i] = log[i]
    BY <1>2, <1>7, <2>2, AppendProperties
  <2>4. IsLost(r) <=> ~ ClassicWhole(writer, mem, next_free, entry)
    BY <1>3, <2>2
  <2> HIDE DEF r, added
  <2>5. lost = IF IsLost(r) THEN {n + 1} ELSE {}
    BY <1>2, <1>4, <2>3
  <2>6. CASE IsLost(r)
    <3>1. Classic!Min(lost \union {Len(added) + 1}) = n + 1
      <4>1. n + 1 \in lost \union {n + 2} /\ lost \union {n + 2} \in SUBSET Nat
        BY <1>2, <2>5, <2>6
      <4>2. \A x \in lost \union {n + 2} : n + 1 <= x
        BY <1>2, <2>5, <2>6
      <4>3. Len(added) + 1 = n + 2
        BY <1>2, <2>3
      <4> HIDE DEF lost
      <4> QED  BY <1>5, <4>1, <4>2, <4>3
    <3>2. SubSeq(added, 1, n) = log
      BY <1>2, <2>3
    <3>3. (n + 1) - 1 = n
      BY <1>2
    <3>4. Classic!Recovered = log
      BY <1>1, <3>1, <3>2, <3>3
    <3> QED  BY <2>4, <2>6, <3>4
  <2>7. CASE ~ IsLost(r)
    <3>1. Classic!Min(lost \union {Len(added) + 1}) = n + 2
      BY <1>2, <1>5, <2>3, <2>5, <2>7
    <3>2. SubSeq(added, 1, n + 1) = added
      BY <1>2, <2>3
    <3>3. Classic!Recovered = added
      <4>1. (n + 2) - 1 = n + 1
        BY <1>2
      <4> QED  BY <1>1, <3>1, <3>2, <4>1
    <3>4. Classic!Recovered = Append(log, r)
      BY <2>3, <3>3
    <3> QED  BY <1>7, <2>4, <2>7, <3>4 DEF r
  <2> QED  BY <2>6, <2>7
<1> QED  BY <1>6, <1>7

\* What a power failure leaves of the log.
ClassicShown ==
  /\ Adding = IF pc = "idle" THEN <<>> ELSE <<[start |-> next_free, payload |-> entry]>>
  /\ Recovered = IF pc # "idle" /\ ClassicWhole(writer, mem, next_free, entry)
                 THEN log \o Adding ELSE log

(* In every state what the recovery finds is the log, and while the        *)
(* footer is on its way possibly the entry being added.                    *)
LEMMA ClassicIsFaithful ==
  ClassicInv => ClassicShown /\ Faithful
<1> SUFFICES ASSUME ClassicInv PROVE ClassicShown /\ Faithful
  OBVIOUS
<1> DEFINE r == [start |-> next_free, payload |-> entry]
<1>1. writer \in Classic!Writers /\ log \in Seq(Classic!Placed)
  BY ClassicFacts
<1>2. /\ Recovered = Classic!Recovered
      /\ Adding = IF pc = "idle" THEN <<>> ELSE <<r>>
  BY <1>1, Families
<1>3. pc # "idle" => Append(log, r) = log \o <<r>>
  <2>1. ASSUME pc # "idle"
        PROVE  r \in Classic!Placed
    BY <2>1, ClassicFacts, ClassicMemory DEF Classic!Placed
  <2> HIDE DEF r
  <2> QED  BY <1>1, <2>1
<1>4. Classic!Recovered =
        IF pc # "idle" /\ ClassicWhole(writer, mem, next_free, entry)
        THEN Append(log, r) ELSE log
  BY ClassicReads
<1>5. ClassicShown
  BY <1>2, <1>3, <1>4 DEF ClassicShown
<1>6. Faithful
  BY <1>5 DEF ClassicShown, Faithful
<1> QED  BY <1>5, <1>6

(* The same of the state after a step.                                     *)
LEMMA ClassicIsFaithfulNext ==
  ClassicInv' => ClassicShown' /\ Faithful'
<1>1. ClassicInv => ClassicShown /\ Faithful
  BY ClassicIsFaithful
<1> QED  BY <1>1, PTL

(* What NVM has of an entry stays there until the entry is whole.          *)
LEMMA ClassicGoesOn ==
  ASSUME ClassicInv, pc # "idle",
         Classic!CopyWord \/ Classic!PersistEntry \/ Classic!StoreFooter \/ Classic!Drift,
         ClassicWhole(writer, mem, next_free, entry)
  PROVE  ClassicWhole(writer, mem', next_free, entry)
<1> DEFINE spot == Spot(next_free, entry)
           foot == Foot(writer, next_free, entry)
           mark == Mark(writer, next_free, entry)
<1>1. /\ mem \in Memory(ClassicWords) /\ next_free \in 0 .. ByteCount
      /\ foot \in Addresses /\ foot >= next_free /\ mark \in ClassicWords
      /\ \A b \in spot : /\ b \in Addresses /\ b < foot
                         /\ WordAt(next_free, entry, b) \in ClassicWords
  BY ClassicFacts
<1>2. \A b \in Addresses : b \in Nat
  BY AddressParts
<1>3. ASSUME \A b \in Addresses : Durable(mem', b) = Durable(mem, b)
      PROVE  ClassicWhole(writer, mem', next_free, entry)
  BY <1>1, <1>3 DEF ClassicWhole
<1>4. ASSUME Raises(mem, mem', Addresses)
      PROVE  ClassicWhole(writer, mem', next_free, entry)
  <2>1. ASSUME NEW b \in Addresses, NEW o, NEW w, Rising(mem, b, o, w), Durable(mem, b) = w
        PROVE  Durable(mem', b) = w
    BY <1>4, <2>1 DEF Raises
  <2>2. ASSUME NEW b \in spot
        PROVE  Durable(mem', b) = WordAt(next_free, entry, b)
    <3> DEFINE w == WordAt(next_free, entry, b)
    <3>1. Rising(mem, b, 0, w) \/ Settled(mem, b, w)
      BY DEF ClassicInv, ClassicCopied, Classic!TypeOK, Classic!Steps
    <3>2. Durable(mem, b) = w /\ b \in Addresses
      BY <1>1 DEF ClassicWhole
    <3> HIDE DEF w
    <3>3. Rising(mem, b, 0, w)
      BY <3>1, SettledRises
    <3>4. Durable(mem', b) = w
      BY <2>1, <3>2, <3>3
    <3> QED  BY <3>4 DEF w
  <2>3. Durable(mem', foot) = mark
    <3>1. foot \notin spot
      BY <1>1, <1>2
    <3>2. Rising(mem, foot, 0, mark) \/ Settled(mem, foot, 0)
      BY <1>1, <3>1 DEF ClassicInv, ClassicMarked, ClassicRest
    <3>3. Durable(mem, foot) = mark
      BY DEF ClassicWhole
    <3> HIDE DEF foot, mark
    <3>4. Rising(mem, foot, 0, mark)
      BY <3>2, <3>3, SettledRises DEF Settled, Rising
    <3> QED  BY <1>1, <2>1, <3>3, <3>4 DEF foot
  <2> QED  BY <2>2, <2>3 DEF ClassicWhole
<1>5. CASE Classic!CopyWord
  <2>1. PICK a \in todo : mem' = StoreWord(mem, a, WordAt(next_free, entry, a))
    BY <1>5, ClassicMemory DEF Classic!CopyWord, WordAt
  <2>2. a \in spot
    BY <1>5 DEF Classic!CopyWord, ClassicInv, ClassicCopied
  <2>3. \A b \in Addresses : Durable(mem', b) = Durable(mem, b)
    BY <1>1, <2>1, <2>2, StoreWordOps
  <2> QED  BY <1>3, <2>3
<1>6. CASE Classic!StoreFooter
  <2>1. mem' = StoreWord(mem, foot, mark)
    BY <1>6, ClassicMemory DEF Classic!StoreFooter
  <2>2. \A b \in Addresses : Durable(mem', b) = Durable(mem, b)
    BY <1>1, <2>1, StoreWordOps
  <2> QED  BY <1>3, <2>2
<1>7. CASE Classic!PersistEntry
  <2>1. mem' = PersistWords(mem, spot)
    BY <1>7, ClassicMemory DEF Classic!PersistEntry, Spot
  <2> QED  BY <1>1, <1>4, <2>1, RisingKept
<1>8. CASE Classic!Drift
  <2>1. mem' \in LineDrift(mem)
    BY <1>8, ClassicMemory DEF Classic!Drift
  <2> QED  BY <1>1, <1>4, <2>1, RisingKept
<1> QED  BY <1>5, <1>6, <1>7, <1>8

(* Every step of a classic writer keeps the invariant and is a step of     *)
(* the abstract log.                                                       *)
LEMMA ClassicNext ==
  ASSUME ClassicInv, Classic!Next
  PROVE  ClassicInv' /\ Faithful /\ Faithful' /\ (Begins \/ GoesOn \/ Returns \/ Rests)
<1>1. ClassicShown /\ Faithful
  BY ClassicIsFaithful
<1>2. ClassicInv'
  BY ClassicAddLogEntry, ClassicCopyWord, ClassicPersistEntry, ClassicStoreFooter,
     ClassicPersistFooter, ClassicDrift DEF Classic!Next
<1>3. ClassicShown' /\ Faithful'
  BY <1>2, ClassicIsFaithfulNext
<1>4. ASSUME NEW e \in Classic!Entries, Classic!AddLogEntry(e)
      PROVE  Begins
  <2>1. /\ pc = "idle" /\ pc' = "copy" /\ log' = log /\ mem' = mem /\ writer' = writer
        /\ next_free' = next_free /\ entry' = e
    BY <1>4 DEF Classic!AddLogEntry
  <2>2. ~ ClassicWhole(writer, mem, next_free, e)
    <3>1. next_free \in 0 .. ByteCount /\ next_free \in Nat
      BY ClassicFacts
    <3>2. /\ Classic!Size(e) \in Nat \ {0, 1} /\ Classic!Layout(e)[1] # 0
          /\ \A b \in Spot(next_free, e) : b \in Addresses
      BY <1>4, <3>1, ClassicMemory, ClassicSizes DEF Classic!AddLogEntry
    <3>3. next_free \in Spot(next_free, e) /\ WordAt(next_free, e, next_free) # 0
      <4>1. next_free - next_free + 1 = 1
        BY <3>1
      <4> QED  BY <3>1, <3>2, <4>1 DEF Spot, Classic!Region, WordAt
    <3>4. Settled(mem, next_free, 0)
      BY <2>1, <3>1, <3>2, <3>3 DEF ClassicInv, ClassicRest
    <3> QED  BY <3>3, <3>4 DEF ClassicWhole, Settled
  <2>3. Recovered' = log'
    BY <1>3, <2>1, <2>2 DEF ClassicShown
  <2> QED  BY <2>1, <2>3 DEF Begins
<1>5. ASSUME Classic!CopyWord \/ Classic!PersistEntry \/ Classic!StoreFooter \/ Classic!Drift,
             pc # "idle"
      PROVE  GoesOn
  <2>1. /\ pc' # "idle" /\ log' = log /\ writer' = writer /\ next_free' = next_free
        /\ entry' = entry
    BY <1>5 DEF Classic!CopyWord, Classic!PersistEntry, Classic!StoreFooter, Classic!Drift
  <2>2. Adding' = Adding /\ Len(Adding) = 1
    BY <1>1, <1>3, <1>5, <2>1 DEF ClassicShown, Faithful
  <2>3. log # log \o Adding
    BY <2>2, ClassicFacts, <1>1, <1>5 DEF ClassicShown
  <2>4. Recovered = log \o Adding => ClassicWhole(writer, mem, next_free, entry)
    BY <1>1, <2>3 DEF ClassicShown
  <2>5. Recovered = log \o Adding => ClassicWhole(writer, mem', next_free, entry)
    BY <1>5, <2>4, ClassicGoesOn
  <2>6. ClassicWhole(writer, mem', next_free, entry) => Recovered' = log \o Adding
    BY <1>3, <2>1, <2>2 DEF ClassicShown
  <2> QED  BY <1>5, <2>1, <2>2, <2>5, <2>6 DEF GoesOn
<1>6. ASSUME Classic!Drift, pc = "idle"
      PROVE  Rests
  BY <1>6 DEF Classic!Drift, Rests
<1>7. ASSUME Classic!PersistFooter
      PROVE  Returns
  <2>1. /\ pc # "idle" /\ pc' = "idle"
        /\ log' = Append(log, [start |-> next_free, payload |-> entry])
    BY <1>7 DEF Classic!PersistFooter
  <2>2. log \in Seq(Classic!Placed) /\ Adding = <<[start |-> next_free, payload |-> entry]>>
    BY <1>1, <2>1, ClassicFacts DEF ClassicShown
  <2>3. [start |-> next_free, payload |-> entry] \in Classic!Placed
    BY <2>1, ClassicFacts, ClassicMemory DEF Classic!Placed
  <2>4. log' = log \o Adding
    <3> DEFINE r == [start |-> next_free, payload |-> entry]
    <3> HIDE DEF r
    <3>1. r \in Classic!Placed => Append(log, r) = log \o <<r>>
      BY <2>2
    <3> QED  BY <2>1, <2>2, <2>3, <3>1 DEF r
  <2> QED  BY <2>1, <2>4 DEF Returns
<1>8. Begins \/ GoesOn \/ Returns \/ Rests
  <2>1. \/ \E e \in Classic!Entries : Classic!AddLogEntry(e)
        \/ Classic!CopyWord \/ Classic!PersistEntry \/ Classic!StoreFooter
        \/ Classic!PersistFooter \/ Classic!Drift
    BY DEF Classic!Next
  <2>2. Classic!CopyWord \/ Classic!PersistEntry \/ Classic!StoreFooter => pc # "idle"
    BY DEF Classic!CopyWord, Classic!PersistEntry, Classic!StoreFooter
  <2> QED  BY <1>4, <1>5, <1>6, <1>7, <2>1, <2>2
<1> QED  BY <1>1, <1>2, <1>3, <1>8

(* A durable footer marks a durable entry.                                 *)
LEMMA ClassicFooter ==
  ASSUME ClassicInv
  PROVE  Classic!FooterImpliesEntry
<1> SUFFICES ASSUME pc # "idle", Classic!Footer(next_free, entry) # 0,
                    Classic!FooterIsDurable(next_free, entry)
             PROVE  Classic!EntryIsDurable(next_free, entry)
  BY DEF Classic!FooterImpliesEntry
<1> DEFINE foot == Foot(writer, next_free, entry)
           mark == Mark(writer, next_free, entry)
<1>1. /\ entry \in Classic!Entries /\ next_free \in 0 .. ByteCount /\ ByteCount \in Nat
      /\ foot \in Addresses /\ foot >= next_free
      /\ \A b \in Spot(next_free, entry) : b \in Addresses /\ b < foot
  BY ClassicFacts
<1>2. Durable(mem, foot) = mark /\ mark # 0
  BY ClassicMemory DEF Classic!FooterIsDurable
<1>3. pc = "persist_footer"
  <2>1. foot \notin Spot(next_free, entry)
    BY <1>1, AddressParts
  <2>2. ASSUME pc # "persist_footer"
        PROVE  Settled(mem, foot, 0)
    BY <1>1, <2>1, <2>2 DEF ClassicInv, ClassicRest
  <2> QED  BY <1>2, <2>2 DEF Settled
<1>4. \A a \in Spot(next_free, entry) : Durable(mem, a) = WordAt(next_free, entry, a)
  BY <1>3 DEF ClassicInv, ClassicCopied, Settled
<1>5. ClassicWhole(writer, mem, next_free, entry)
  BY <1>2, <1>4 DEF ClassicWhole
<1> QED  BY <1>1, <1>5, ClassicWholeIs

-----------------------------------------------------------------------------
\* Entries as they lie in the memory.

\* The words l lie in the memory m from s on.
Laid(m, s, l) == \A a \in s .. s + Len(l) - 1 : Settled(m, a, l[a - s + 1])

(* They are not touched by what happens behind them.                       *)
LEMMA LaidKept ==
  ASSUME NEW m, NEW n, NEW end \in Nat, end <= ByteCount,
         \A a, w : a \in Addresses /\ a < end /\ Settled(m, a, w) => Settled(n, a, w),
         NEW s \in Nat, NEW l, Len(l) \in Nat, s + Len(l) <= end, Laid(m, s, l)
  PROVE  Laid(n, s, l)
<1> SUFFICES ASSUME NEW a \in s .. s + Len(l) - 1
             PROVE  Settled(n, a, l[a - s + 1])
  BY DEF Laid
<1>1. ByteCount \in Nat
  BY LogMemoryAssumption DEF ByteCount
<1>2. a \in Addresses /\ a < end
  BY <1>1 DEF Addresses
<1>3. Settled(m, a, l[a - s + 1])
  BY DEF Laid
<1> QED  BY <1>2, <1>3

(* A sequence of numbers in front of another.                              *)
LEMMA InFront ==
  ASSUME NEW S, NEW e \in Seq(S), NEW x \in S
  PROVE  /\ <<x>> \o e \in Seq(S) /\ Len(<<x>> \o e) = Len(e) + 1
         /\ (<<x>> \o e)[1] = x
         /\ \A i \in 1 .. Len(e) : (<<x>> \o e)[i + 1] = e[i]
<1>1. Len(e) \in Nat /\ <<x>> \in Seq(S) /\ Len(<<x>>) = 1 /\ <<x>>[1] = x
  OBVIOUS
<1> QED  BY <1>1
-----------------------------------------------------------------------------
\* The header writers.

HeaderWords == Value \union (0 .. MaxPayload)
HeaderAfter(w, s, n) ==
  IF w \in {"HeaderAligned", "HeaderAlignedDancing"} THEN RoundUp(s + n) ELSE s + n
HeaderEnd(w, s, e) == HeaderAfter(w, s, Header!Size(e))

\* The words of an entry at s.
HeaderSpot(s, e) == s .. s + Header!Size(e) - 1

(* The instance's names are the ones of LogMemory.                         *)
LEMMA HeaderMemory ==
  /\ Header!Words = HeaderWords
  /\ Header!ByteCount = ByteCount /\ Header!Addresses = Addresses
  /\ [Header!LogLines -> Header!LineSet([Header!Slots -> Header!Words])] = Memory(HeaderWords)
  /\ \A m, a, w : Header!StoreWord(m, a, w) = StoreWord(m, a, w)
  /\ \A m, as : Header!PersistWords(m, as) = PersistWords(m, as)
  /\ \A m : Header!Fence(m) = Fence(m)
  /\ \A m, a : Header!Durable(m, a) = Durable(m, a)
  /\ \A m : Header!LineDrift(m) = LineDrift(m)
  /\ \A v : Header!Filled(v) = Filled(v)
  /\ \A s, n : Header!After(s, n) = HeaderAfter(writer, s, n)
  /\ \A s, e : Header!After(s, Header!Size(e)) = HeaderEnd(writer, s, e)
<1>1. /\ Header!ByteCount = ByteCount /\ Header!Addresses = Addresses
      /\ Header!LogLines = LogLines /\ Header!Slots = Slots
      /\ \A a : Header!LineOf(a) = LineOf(a) /\ Header!SlotOf(a) = SlotOf(a)
  BY DEF Header!ByteCount, ByteCount, Header!Addresses, Addresses, Header!LogLines,
         LogLines, Header!Slots, Slots, Header!LineOf, LineOf, Header!SlotOf, SlotOf
<1>2. Header!Words = HeaderWords
  BY <1>1 DEF Header!Words, HeaderWords
<1>3. [Header!LogLines -> Header!LineSet([Header!Slots -> Header!Words])] = Memory(HeaderWords)
  BY <1>1, <1>2 DEF Header!LineSet, LineSet, Memory
<1>4. \A m, a, w : Header!StoreWord(m, a, w) = StoreWord(m, a, w)
  BY <1>1 DEF Header!StoreWord, StoreWord, Header!Store, Store
<1>5. \A m : Header!Fence(m) = Fence(m)
  BY <1>1 DEF Header!Fence, Fence, Header!SFence, SFence
<1>6. \A m, as : Header!PersistWords(m, as) = PersistWords(m, as)
  <2>1. ASSUME NEW m, NEW as
        PROVE  Header!WriteBackWords(m, as) = WriteBackWords(m, as)
    BY <1>1 DEF Header!WriteBackWords, WriteBackWords, Header!WriteBack, WriteBack
  <2> QED  BY <1>5, <2>1 DEF Header!PersistWords, PersistWords
<1>7. \A m, a : Header!Durable(m, a) = Durable(m, a)
  BY <1>1 DEF Header!Durable, Durable
<1>8. ASSUME NEW m
      PROVE  Header!LineDrift(m) = LineDrift(m)
  BY <1>1 DEF Header!LineDrift, LineDrift, Header!Evict, Evict, Header!Dirty, Dirty
<1>9. ASSUME NEW v
      PROVE  Header!Filled(v) = Filled(v)
  BY <1>1 DEF Header!Filled, Filled, Header!Line, Line
<1>10. ASSUME NEW n
      PROVE  Header!RoundUp(n) = RoundUp(n)
  BY DEF Header!RoundUp, RoundUp
<1>11. /\ \A s, n : Header!After(s, n) = HeaderAfter(writer, s, n)
       /\ \A s, e : Header!After(s, Header!Size(e)) = HeaderEnd(writer, s, e)
  BY <1>10 DEF Header!After, HeaderAfter, HeaderEnd, Header!Aligned
<1> QED  BY <1>1, <1>2, <1>3, <1>4, <1>5, <1>6, <1>7, <1>8, <1>9, <1>11

(* An entry takes the words it has and no more than the memory.            *)
LEMMA HeaderSizes ==
  ASSUME NEW w, NEW s \in Nat, NEW e \in Header!Entries
  PROVE  /\ Header!Size(e) \in Nat \ {0, 1} /\ Header!Layout(e) \in Seq(HeaderWords)
         /\ e \in Seq(Nat) /\ Len(e) \in Nat \ {0} /\ Header!Size(e) = Len(e) + 1
         /\ Header!Layout(e)[1] = Len(e)
         /\ \A i \in 1 .. Len(e) : Header!Layout(e)[i + 1] = e[i]
         /\ Len(Header!Layout(e)) = Header!Size(e)
         /\ HeaderEnd(w, s, e) \in Nat /\ s + Header!Size(e) <= HeaderEnd(w, s, e)
         /\ s + Header!Size(e) <= ByteCount <=> HeaderEnd(w, s, e) <= ByteCount
         /\ HeaderEnd(w, s, e) <= ByteCount =>
              \A a \in HeaderSpot(s, e) :
                /\ a \in Addresses /\ a \in Nat /\ s <= a /\ a < HeaderEnd(w, s, e)
                /\ a - s + 1 \in 1 .. Header!Size(e)
                /\ Header!Layout(e)[a - s + 1] \in HeaderWords
<1> DEFINE l == Header!Layout(e)
           k == Header!Size(e)
           end == HeaderEnd(w, s, e)
<1>1. PICK n \in 1 .. MaxPayload : e \in [1 .. n -> Value]
  BY DEF Header!Entries
<1>2. MaxPayload \in Nat /\ LineWords \in Nat \ {0} /\ ByteCount \in Nat /\ Value \subseteq Nat
  BY LogMemoryAssumption DEF ByteCount
<1>3. e \in [1 .. n -> Nat] /\ e \in [1 .. n -> HeaderWords] /\ n \in Nat \ {0}
  <2>0. n \in Nat \ {0}
    BY <1>2
  <2>1. e \in [1 .. n -> Nat]
    BY <1>1, <1>2
  <2>2. e \in [1 .. n -> Value \union (0 .. MaxPayload)]
    BY <1>1
  <2> QED  BY <2>0, <2>1, <2>2 DEF HeaderWords
<1>4. e \in Seq(Nat) /\ e \in Seq(HeaderWords) /\ Len(e) = n /\ n \in HeaderWords
  BY <1>1, <1>2, <1>3 DEF HeaderWords
<1>5. k = n + 1 /\ k \in Nat \ {0, 1}
  BY <1>3, <1>4 DEF Header!Size
<1>6. l = <<n>> \o e
  BY <1>4 DEF Header!Layout
<1>7. /\ l \in Seq(HeaderWords) /\ Len(l) = n + 1 /\ l[1] = n
      /\ \A i \in 1 .. n : l[i + 1] = e[i]
  <2> HIDE DEF l
  <2> QED  BY <1>3, <1>4, <1>6, InFront
<1> HIDE DEF l
<1>8. \A i \in 1 .. n + 1 : l[i] \in HeaderWords
  BY <1>3, <1>7
<1>9. end \in Nat /\ s + k <= end /\ (s + k <= ByteCount <=> end <= ByteCount)
  <2>1. /\ RoundUp(s + k) \in Nat /\ s + k <= RoundUp(s + k)
        /\ s + k <= ByteCount => RoundUp(s + k) <= ByteCount
    BY <1>5, RoundUpBounds
  <2>2. end = IF w \in {"HeaderAligned", "HeaderAlignedDancing"} THEN RoundUp(s + k) ELSE s + k
    BY DEF HeaderEnd, HeaderAfter
  <2> HIDE DEF end, k
  <2> QED  BY <1>2, <1>5, <2>1, <2>2
<1>10. ASSUME end <= ByteCount, NEW a \in HeaderSpot(s, e)
       PROVE  /\ a \in Addresses /\ a \in Nat /\ s <= a /\ a < end
              /\ a - s + 1 \in 1 .. n + 1
  <2>1. a \in s .. s + k - 1
    BY <1>10 DEF HeaderSpot
  <2> HIDE DEF end, k
  <2> QED  BY <1>2, <1>3, <1>5, <1>9, <1>10, <2>1 DEF Addresses
<1> QED  BY <1>3, <1>4, <1>5, <1>7, <1>8, <1>9, <1>10 DEF l

\* <<s, e, n>> such that the entry e lies at s and the next one goes to n.
HeaderPlaces(w, m) ==
  {t \in Nat \X Header!Entries \X Nat :
     t[3] = HeaderEnd(w, t[1], t[2]) /\ Laid(m, t[1], Header!Layout(t[2]))}

\* A header nothing is on its way to.
Flat(c) == c.vol = c.dur /\ c.fen = c.dur

HeaderEntry == IF pc = "idle" THEN entry = <<>> ELSE entry \in Header!Entries

\* The headers name no end behind the one of the log, and one of them names it.
HeaderNamed ==
  pc # "persist_header" =>
    /\ Places(log, next_free, HeaderPlaces(writer, mem))
    /\ \A h \in Header!Headers : Flat(headers[h]) /\ headers[h].dur <= next_free
    /\ \E h \in Header!Headers : headers[h].dur = next_free

\* The entry is in the cache, then in NVM, before a header says so.
HeaderCopied ==
  /\ pc = "copy" =>
       /\ HeaderEnd(writer, next_free, entry) <= ByteCount
       /\ todo \subseteq HeaderSpot(next_free, entry)
       /\ \A a \in HeaderSpot(next_free, entry) :
            a \in todo \/ Cached(mem, a) = Header!Layout(entry)[a - next_free + 1]
  /\ pc = "header" =>
       /\ HeaderEnd(writer, next_free, entry) <= ByteCount
       /\ Laid(mem, next_free, Header!Layout(entry))

\* The next header is on its way from an older end to the new one.
HeaderSet(old) ==
  /\ HeaderEnd(writer, old, entry) = next_free
  /\ Places(log, old, HeaderPlaces(writer, mem))
  /\ Laid(mem, old, Header!Layout(entry))
  /\ \A h \in Header!Headers \ {next_header} : Flat(headers[h]) /\ headers[h].dur <= old
  /\ headers[next_header].vol = next_free
  /\ headers[next_header].fen = headers[next_header].dur
  /\ headers[next_header].dur = next_free \/ headers[next_header].dur <= old
  /\ \/ headers[next_header].dur = next_free
     \/ \E h \in Header!Headers : headers[h].dur = old

HeaderInv ==
  /\ Header!TypeOK
  /\ HeaderEntry
  /\ HeaderNamed
  /\ HeaderCopied
  /\ pc = "persist_header" => \E old \in 0 .. ByteCount : HeaderSet(old)

(* What the invariant says of the variables in every state.                *)
LEMMA HeaderFacts ==
  ASSUME HeaderInv
  PROVE  /\ mem \in Memory(HeaderWords) /\ ByteCount \in Nat
         /\ next_free \in 0 .. ByteCount /\ writer \in Header!Writers
         /\ headers \in [Header!Headers -> LineSet(0 .. ByteCount)]
         /\ next_header \in Header!Headers
         /\ log \in Seq(Header!Entries)
         /\ pc # "idle" => entry \in Header!Entries
         /\ pc = "idle" => entry = <<>>
         /\ todo \in SUBSET Addresses
<1>1. /\ mem \in Memory(HeaderWords)
      /\ next_free \in 0 .. ByteCount /\ writer \in Header!Writers
      /\ next_header \in Header!Headers /\ log \in Seq(Header!Entries)
      /\ todo \in SUBSET Addresses
  BY HeaderMemory DEF HeaderInv, Header!TypeOK
<1>2. headers \in [Header!Headers -> LineSet(0 .. ByteCount)]
  BY HeaderMemory DEF HeaderInv, Header!TypeOK, Header!LineSet, LineSet
<1>3. ByteCount \in Nat
  BY LogMemoryAssumption DEF ByteCount
<1> QED  BY <1>1, <1>2, <1>3 DEF HeaderInv, HeaderEntry

(* The headers in use are numbered from 0, and the round goes back to 0    *)
(* (next_header, Header with dancing).                                     *)
LEMMA HeaderNumbers ==
  /\ Header!HeadersInUse \in Nat \ {0}
  /\ 0 \in Header!Headers
  /\ \A h \in Header!Headers : (h + 1) % Header!HeadersInUse \in Header!Headers
<1>1. Header!HeadersInUse \in Nat \ {0}
  BY LogMemoryAssumption DEF Header!HeadersInUse
<1> DEFINE n == Header!HeadersInUse
<1> HIDE DEF n
<1>2. ASSUME NEW h \in 0 .. n - 1
      PROVE  (h + 1) % n \in 0 .. n - 1
  <2>1. h + 1 \in Nat /\ n \in Nat \ {0}
    BY <1>1 DEF n
  <2> QED  BY <2>1, DivType
<1> QED  BY <1>1, <1>2 DEF Header!Headers, n

(* What lies in front of an end stays there while words behind it change.  *)
LEMMA HeaderPlacesKept ==
  ASSUME NEW w, NEW m, NEW n, NEW end \in 0 .. ByteCount, NEW found \in Seq(Header!Entries),
         Places(found, end, HeaderPlaces(w, m)),
         \A a, v : a \in Addresses /\ a < end /\ Settled(m, a, v) => Settled(n, a, v)
  PROVE  Places(found, end, HeaderPlaces(w, n))
<1>0. ByteCount \in Nat
  BY LogMemoryAssumption DEF ByteCount
<1>1. ASSUME NEW s \in 0 .. end, NEW to \in 0 .. end, NEW e \in Header!Entries,
             <<s, e, to>> \in HeaderPlaces(w, m)
      PROVE  <<s, e, to>> \in HeaderPlaces(w, n)
  <2>1. /\ to = HeaderEnd(w, s, e) /\ Laid(m, s, Header!Layout(e))
    BY <1>1 DEF HeaderPlaces
  <2>2. /\ s \in Nat /\ to \in Nat /\ end \in Nat /\ end <= ByteCount
    BY <1>0
  <2>3. Len(Header!Layout(e)) \in Nat /\ s + Len(Header!Layout(e)) <= end
    <3>1. /\ Header!Size(e) \in Nat /\ Len(Header!Layout(e)) = Header!Size(e)
          /\ s + Header!Size(e) <= HeaderEnd(w, s, e)
      BY <2>2, HeaderSizes
    <3>2. s + Header!Size(e) <= to
      BY <2>1, <3>1
    <3> QED  BY <2>2, <3>1, <3>2
  <2>4. Laid(n, s, Header!Layout(e))
    BY <2>1, <2>2, <2>3, LaidKept
  <2> QED  BY <2>1, <2>2, <2>4 DEF HeaderPlaces
<1>2. end \in Nat
  BY <1>0
<1> QED  BY <1>1, <1>2, PlacesKeep, Zenon

(* The writer starts with empty headers: its log is empty whatever the     *)
(* memory behind them holds.                                               *)
LEMMA HeaderInit ==
  ASSUME Header!Init PROVE HeaderInv
<1>1. /\ writer \in Header!Writers
      /\ \E v \in Value : mem = Filled(v)
      /\ headers = [h \in Header!Headers |-> Line(0)]
      /\ next_free = 0 /\ next_header = 0 /\ pc = "idle" /\ entry = <<>> /\ todo = {}
      /\ log = <<>>
  BY HeaderMemory DEF Header!Init, Header!Line, Line
<1>2. ByteCount \in Nat
  BY LogMemoryAssumption DEF ByteCount
<1>3. mem \in Memory(HeaderWords)
  BY <1>1, FilledOps DEF HeaderWords
<1>4. \A h \in Header!Headers : Flat(headers[h]) /\ headers[h].dur = 0
  BY <1>1 DEF Flat, Line
<1>5. headers \in [Header!Headers -> Header!LineSet(0 .. Header!ByteCount)]
  BY <1>1, <1>2, HeaderMemory DEF Line, Header!LineSet
<1>6. Header!TypeOK
  <2>1. mem \in [Header!LogLines -> Header!LineSet([Header!Slots -> Header!Words])]
    BY <1>3, HeaderMemory
  <2>2. next_free \in 0 .. Header!ByteCount /\ next_header \in Header!Headers
    BY <1>1, <1>2, HeaderMemory, HeaderNumbers
  <2>3. /\ log \in Seq(Header!Entries) /\ entry \in Header!Entries \union {<<>>}
        /\ todo \in SUBSET Header!Addresses /\ pc \in Header!Steps
    BY <1>1 DEF Header!Steps
  <2> QED  BY <1>1, <1>5, <2>1, <2>2, <2>3 DEF Header!TypeOK
<1>7. HeaderNamed
  <2>1. Places(log, next_free, HeaderPlaces(writer, mem))
    BY <1>1, PlacesEmpty
  <2> QED  BY <1>1, <1>4, <2>1, HeaderNumbers DEF HeaderNamed
<1>8. HeaderEntry /\ HeaderCopied
  BY <1>1 DEF HeaderEntry, HeaderCopied
<1> QED  BY <1>1, <1>6, <1>7, <1>8 DEF HeaderInv

(* A call that starts fits into the file.                                  *)
LEMMA HeaderAddLogEntry ==
  ASSUME HeaderInv, NEW e \in Header!Entries, Header!AddLogEntry(e)
  PROVE  HeaderInv'
<1>1. /\ pc = "idle" /\ HeaderEnd(writer, next_free, e) <= ByteCount
      /\ entry' = e /\ todo' = HeaderSpot(next_free, e) /\ pc' = "copy"
      /\ writer' = writer /\ mem' = mem /\ headers' = headers /\ next_free' = next_free
      /\ next_header' = next_header /\ log' = log
  BY HeaderMemory DEF Header!AddLogEntry, HeaderSpot, Header!Region
<1>2. next_free \in Nat
  BY HeaderFacts
<1>3. \A a \in HeaderSpot(next_free, e) : a \in Addresses
  BY <1>1, <1>2, HeaderSizes
<1>4. Header!Headers' = Header!Headers
  BY <1>1 DEF Header!Headers, Header!HeadersInUse
<1>5. Header!TypeOK'
  BY <1>1, <1>3, <1>4, HeaderMemory DEF HeaderInv, Header!TypeOK, Header!Steps
<1>6. HeaderEntry' /\ HeaderCopied'
  BY <1>1 DEF HeaderEntry, HeaderCopied
<1>7. HeaderNamed'
  BY <1>1, <1>4 DEF HeaderInv, HeaderNamed
<1> QED  BY <1>1, <1>5, <1>6, <1>7 DEF HeaderInv

(* Copying a word touches the new entry only, which no header reaches      *)
(* yet.                                                                    *)
LEMMA HeaderCopyWord ==
  ASSUME HeaderInv, Header!CopyWord
  PROVE  HeaderInv'
<1> DEFINE spot == HeaderSpot(next_free, entry)
           l == Header!Layout(entry)
<1>1. PICK a \in todo :
        /\ mem' = StoreWord(mem, a, l[a - next_free + 1])
        /\ todo' = todo \ {a}
  BY HeaderMemory DEF Header!CopyWord
<1>2. /\ pc = "copy" /\ writer' = writer /\ next_free' = next_free /\ pc' = pc
      /\ entry' = entry /\ log' = log /\ headers' = headers /\ next_header' = next_header
  BY DEF Header!CopyWord
<1> DEFINE w == l[a - next_free + 1]
<1>3. /\ mem \in Memory(HeaderWords) /\ next_free \in 0 .. ByteCount /\ ByteCount \in Nat
      /\ log \in Seq(Header!Entries) /\ entry \in Header!Entries
      /\ todo \subseteq spot
  BY <1>2, HeaderFacts DEF HeaderInv, HeaderCopied
<1>4. \A b \in spot : b \in Addresses /\ next_free <= b /\ l[b - next_free + 1] \in HeaderWords
  <2>1. HeaderEnd(writer, next_free, entry) <= ByteCount /\ next_free \in Nat
    BY <1>2, <1>3 DEF HeaderInv, HeaderCopied
  <2> QED  BY <1>3, <2>1, HeaderSizes
<1>5. a \in spot /\ a \in Addresses /\ next_free <= a /\ w \in HeaderWords
  BY <1>3, <1>4
<1> HIDE DEF w
<1>6. /\ mem' \in Memory(HeaderWords)
      /\ \A b \in Addresses : Cached(mem', b) = IF b = a THEN w ELSE Cached(mem, b)
      /\ \A b, v : b \in Addresses /\ b < next_free /\ Settled(mem, b, v) => Settled(mem', b, v)
  <2>1. mem' = StoreWord(mem, a, w)
    BY <1>1 DEF w
  <2>2. /\ mem' \in Memory(HeaderWords)
        /\ \A b \in Addresses : Cached(mem', b) = IF b = a THEN w ELSE Cached(mem, b)
    BY <1>3, <1>5, <2>1, StoreWordOps
  <2>3. Keeps(mem, mem', Addresses \ {a})
    BY <1>3, <1>5, <2>1, SettledKept
  <2>4. \A b \in Addresses : b < next_free => b \in Addresses \ {a}
    BY <1>3, <1>5, AddressParts
  <2> QED  BY <2>2, <2>3, <2>4 DEF Keeps
<1>7. Header!Headers' = Header!Headers
  BY <1>2 DEF Header!Headers, Header!HeadersInUse
<1>8. Header!TypeOK'
  BY <1>1, <1>2, <1>6, <1>7, HeaderMemory DEF HeaderInv, Header!TypeOK
<1>9. HeaderEntry'
  BY <1>2 DEF HeaderInv, HeaderEntry
<1>10. HeaderNamed'
  <2>1. Places(log, next_free, HeaderPlaces(writer, mem))
    BY <1>2 DEF HeaderInv, HeaderNamed
  <2>2. Places(log, next_free, HeaderPlaces(writer, mem'))
    BY <1>3, <1>6, <2>1, HeaderPlacesKept
  <2> QED  BY <1>2, <1>7, <2>2 DEF HeaderInv, HeaderNamed
<1>11. HeaderCopied'
  <2>1. ASSUME NEW b \in spot
        PROVE  b \in todo' \/ Cached(mem', b) = l[b - next_free + 1]
    <3>1. b \in todo \/ Cached(mem, b) = l[b - next_free + 1]
      BY <1>2 DEF HeaderInv, HeaderCopied
    <3>2. CASE b = a
      BY <1>4, <1>6, <3>2 DEF w
    <3>3. CASE b # a
      BY <1>1, <1>4, <1>6, <3>1, <3>3
    <3> QED  BY <3>2, <3>3
  <2>2. HeaderEnd(writer, next_free, entry) <= ByteCount /\ todo' \subseteq spot
    BY <1>1, <1>2, <1>3 DEF HeaderInv, HeaderCopied
  <2> QED  BY <1>2, <2>1, <2>2 DEF HeaderCopied
<1> QED  BY <1>2, <1>8, <1>9, <1>10, <1>11 DEF HeaderInv

(* After the first persist the new entry is settled.                       *)
LEMMA HeaderPersistEntry ==
  ASSUME HeaderInv, Header!PersistEntry
  PROVE  HeaderInv'
<1> DEFINE spot == HeaderSpot(next_free, entry)
           l == Header!Layout(entry)
<1>1. /\ pc = "copy" /\ todo = {} /\ mem' = PersistWords(mem, spot) /\ pc' = "header"
      /\ headers' = [h \in Header!Headers |-> SFence(headers[h])]
      /\ writer' = writer /\ next_free' = next_free /\ entry' = entry /\ todo' = todo
      /\ next_header' = next_header /\ log' = log
  BY HeaderMemory DEF Header!PersistEntry, HeaderSpot, Header!Region, Header!SFence, SFence
<1>2. /\ mem \in Memory(HeaderWords) /\ next_free \in 0 .. ByteCount /\ ByteCount \in Nat
      /\ log \in Seq(Header!Entries) /\ entry \in Header!Entries
      /\ headers \in [Header!Headers -> LineSet(0 .. ByteCount)]
  BY <1>1, HeaderFacts
<1>3. \A b \in spot : b \in Addresses
  <2>1. HeaderEnd(writer, next_free, entry) <= ByteCount /\ next_free \in Nat
    BY <1>1, <1>2 DEF HeaderInv, HeaderCopied
  <2> QED  BY <1>2, <2>1, HeaderSizes
<1>4. /\ mem' \in Memory(HeaderWords)
      /\ \A b, v : b \in Addresses /\ Settled(mem, b, v) => Settled(mem', b, v)
      /\ \A b \in spot : Settled(mem', b, Cached(mem, b))
  <2>1. mem' \in Memory(HeaderWords) /\ Keeps(mem, mem', Addresses)
    BY <1>1, <1>2, SettledKept, PersistOps
  <2>2. \A b \in spot : Settled(mem', b, Cached(mem, b))
    BY <1>1, <1>2, <1>3, PersistSettles
  <2> QED  BY <2>1, <2>2 DEF Keeps
<1>5. Laid(mem', next_free, l)
  <2>1. \A b \in spot : Settled(mem', b, l[b - next_free + 1])
    BY <1>1, <1>4 DEF HeaderInv, HeaderCopied
  <2>2. next_free \in Nat
    BY <1>2
  <2>3. spot = next_free .. next_free + Len(l) - 1
    BY <1>2, <2>2, HeaderSizes DEF HeaderSpot
  <2> QED  BY <2>1, <2>3 DEF Laid
<1>6. \A h \in Header!Headers : headers[h] \in LineSet(0 .. ByteCount) /\ Flat(headers[h])
  BY <1>1, <1>2 DEF HeaderInv, HeaderNamed
<1>7. headers' = headers
  <2>1. \A h \in Header!Headers : SFence(headers[h]) = headers[h]
    BY <1>6 DEF SFence, Flat, LineSet
  <2> QED  BY <1>1, <1>2, <2>1
<1>8. Header!Headers' = Header!Headers
  BY <1>1 DEF Header!Headers, Header!HeadersInUse
<1>9. Header!TypeOK'
  BY <1>1, <1>4, <1>7, <1>8, HeaderMemory DEF HeaderInv, Header!TypeOK, Header!Steps
<1>10. HeaderEntry'
  BY <1>1 DEF HeaderInv, HeaderEntry
<1>11. HeaderNamed'
  <2>1. Places(log, next_free, HeaderPlaces(writer, mem))
    BY <1>1 DEF HeaderInv, HeaderNamed
  <2>2. Places(log, next_free, HeaderPlaces(writer, mem'))
    BY <1>2, <1>4, <2>1, HeaderPlacesKept
  <2> QED  BY <1>1, <1>7, <1>8, <2>2 DEF HeaderInv, HeaderNamed
<1>12. HeaderCopied'
  BY <1>1, <1>5 DEF HeaderInv, HeaderCopied
<1> QED  BY <1>1, <1>9, <1>10, <1>11, <1>12 DEF HeaderInv

(* The header is stored over an old one and not over the one that counts,  *)
(* or over the same one with the larger end.                               *)
LEMMA HeaderSetHeader ==
  ASSUME HeaderInv, Header!SetHeader
  PROVE  HeaderInv'
<1> DEFINE end == HeaderEnd(writer, next_free, entry)
<1>1. /\ pc = "header" /\ next_free' = end /\ pc' = "persist_header"
      /\ headers' = [headers EXCEPT ![next_header] = Store(@, next_free')]
      /\ mem' = mem /\ writer' = writer /\ entry' = entry /\ todo' = todo
      /\ next_header' = next_header /\ log' = log
  BY HeaderMemory DEF Header!SetHeader, Header!Store, Store
<1>2. /\ next_free \in 0 .. ByteCount /\ ByteCount \in Nat /\ entry \in Header!Entries
      /\ headers \in [Header!Headers -> LineSet(0 .. ByteCount)]
      /\ next_header \in Header!Headers
  BY <1>1, HeaderFacts
<1>3. end \in 0 .. ByteCount
  <2>1. end <= ByteCount /\ next_free \in Nat
    BY <1>1, <1>2 DEF HeaderInv, HeaderCopied
  <2>2. end \in Nat
    BY <1>2, <2>1, HeaderSizes
  <2> HIDE DEF end
  <2> QED  BY <1>2, <2>1, <2>2
<1> HIDE DEF end
<1>4. Header!Headers' = Header!Headers
  BY <1>1 DEF Header!Headers, Header!HeadersInUse
<1>5. /\ headers' \in [Header!Headers -> LineSet(0 .. ByteCount)]
      /\ \A h \in Header!Headers \ {next_header} : headers'[h] = headers[h]
      /\ headers'[next_header].vol = end
      /\ headers'[next_header].fen = headers[next_header].fen
      /\ headers'[next_header].dur = headers[next_header].dur
  <2> DEFINE c == Store(headers[next_header], end)
  <2>1. headers[next_header] \in LineSet(0 .. ByteCount)
    BY <1>2
  <2>2. /\ c \in LineSet(0 .. ByteCount) /\ c.vol = end
        /\ c.fen = headers[next_header].fen /\ c.dur = headers[next_header].dur
    BY <1>3, <2>1, StoreOps, StoreFields
  <2>3. headers' = [headers EXCEPT ![next_header] = c]
    BY <1>1
  <2> HIDE DEF c
  <2> QED  BY <1>2, <2>2, <2>3
<1>6. Header!TypeOK'
  BY <1>1, <1>3, <1>4, <1>5, HeaderMemory
  DEF HeaderInv, Header!TypeOK, Header!Steps, Header!LineSet, LineSet

<1>7. PICK old \in 0 .. ByteCount : old = next_free
  BY <1>2
<1>8. HeaderSet(old)'
  <2>1. /\ Places(log, next_free, HeaderPlaces(writer, mem))
        /\ \A h \in Header!Headers : Flat(headers[h]) /\ headers[h].dur <= next_free
        /\ \E h \in Header!Headers : headers[h].dur = next_free
        /\ Laid(mem, next_free, Header!Layout(entry))
    BY <1>1 DEF HeaderInv, HeaderNamed, HeaderCopied
  <2>2. headers'[next_header].fen = headers'[next_header].dur /\ headers'[next_header].dur <= old
    BY <1>2, <1>5, <1>7, <2>1 DEF Flat
  <2>3. \A h \in Header!Headers : headers'[h].dur = headers[h].dur
    BY <1>5
  <2>4. \E h \in Header!Headers : headers'[h].dur = old
    BY <1>7, <2>1, <2>3
  <2>5. \A h \in Header!Headers \ {next_header} : Flat(headers'[h]) /\ headers'[h].dur <= old
    BY <1>5, <1>7, <2>1
  <2>6. HeaderEnd(writer, old, entry) = end
    BY <1>7 DEF end
  <2>7. /\ Places(log, old, HeaderPlaces(writer, mem))
        /\ Laid(mem, old, Header!Layout(entry))
    BY <1>7, <2>1
  <2> QED  BY <1>1, <1>4, <1>5, <2>2, <2>4, <2>5, <2>6, <2>7 DEF HeaderSet
<1>9. (\E o \in 0 .. ByteCount : HeaderSet(o))'
  BY <1>8
<1>10. HeaderEntry' /\ HeaderNamed' /\ HeaderCopied'
  BY <1>1 DEF HeaderInv, HeaderEntry, HeaderNamed, HeaderCopied
<1> QED  BY <1>6, <1>9, <1>10 DEF HeaderInv

(* The second persist makes the new end the largest durable one.           *)
LEMMA HeaderPersistHeader ==
  ASSUME HeaderInv, Header!PersistHeader
  PROVE  HeaderInv'
<1>1. /\ pc = "persist_header" /\ pc' = "idle"
      /\ headers' = [h \in Header!Headers |-> IF h = next_header THEN Persist(headers[h])
                                              ELSE SFence(headers[h])]
      /\ mem' = Fence(mem) /\ next_header' = (next_header + 1) % Header!HeadersInUse
      /\ log' = Append(log, entry) /\ entry' = <<>>
      /\ writer' = writer /\ next_free' = next_free /\ todo' = todo
  BY HeaderMemory DEF Header!PersistHeader, Header!Persist, Persist, Header!SFence, SFence,
                      Header!WriteBack, WriteBack
<1>2. /\ mem \in Memory(HeaderWords) /\ ByteCount \in Nat /\ next_free \in 0 .. ByteCount
      /\ log \in Seq(Header!Entries) /\ entry \in Header!Entries
      /\ headers \in [Header!Headers -> LineSet(0 .. ByteCount)]
      /\ next_header \in Header!Headers
  BY <1>1, HeaderFacts
<1>3. PICK old \in 0 .. ByteCount : HeaderSet(old)
  BY <1>1 DEF HeaderInv
<1>4. old \in Nat /\ old < next_free
  <2>1. old \in Nat /\ HeaderEnd(writer, old, entry) = next_free
    BY <1>2, <1>3 DEF HeaderSet
  <2>2. /\ Header!Size(entry) \in Nat \ {0, 1}
        /\ old + Header!Size(entry) <= HeaderEnd(writer, old, entry)
    BY <1>2, <2>1, HeaderSizes
  <2> QED  BY <1>2, <2>1, <2>2
<1>5. /\ mem' \in Memory(HeaderWords)
      /\ \A b, v : b \in Addresses /\ Settled(mem, b, v) => Settled(mem', b, v)
  BY <1>1, <1>2, FenceOps, SettledKept DEF Keeps
<1>6. Header!Headers' = Header!Headers
  BY <1>1 DEF Header!Headers, Header!HeadersInUse
<1>7. /\ headers' \in [Header!Headers -> LineSet(0 .. ByteCount)]
      /\ \A h \in Header!Headers : Flat(headers'[h]) /\ headers'[h].dur <= next_free
      /\ headers'[next_header].dur = next_free
  <2>1. /\ headers[next_header] \in LineSet(0 .. ByteCount)
        /\ headers[next_header].vol = next_free
    BY <1>2, <1>3 DEF HeaderSet
  <2>2. /\ Persist(headers[next_header]) \in LineSet(0 .. ByteCount)
        /\ Flat(Persist(headers[next_header]))
        /\ Persist(headers[next_header]).dur = next_free
    BY <2>1 DEF LineSet, Persist, SFence, WriteBack, Flat
  <2>3. ASSUME NEW h \in Header!Headers, h # next_header
        PROVE  /\ SFence(headers[h]) \in LineSet(0 .. ByteCount)
               /\ Flat(SFence(headers[h])) /\ SFence(headers[h]).dur <= next_free
    <3>1. headers[h] \in LineSet(0 .. ByteCount) /\ Flat(headers[h]) /\ headers[h].dur <= old
      BY <1>2, <1>3, <2>3 DEF HeaderSet
    <3>2. SFence(headers[h]) = headers[h]
      BY <3>1 DEF SFence, Flat, LineSet
    <3>3. headers[h].dur \in 0 .. ByteCount
      BY <3>1 DEF LineSet
    <3> QED  BY <1>2, <1>4, <3>1, <3>2, <3>3
  <2>4. next_free <= next_free
    BY <1>2
  <2> QED  BY <1>1, <1>2, <2>2, <2>3, <2>4
<1>8. Places(Append(log, entry), next_free, HeaderPlaces(writer, mem'))
  <2>1. Places(log, old, HeaderPlaces(writer, mem))
    BY <1>3 DEF HeaderSet
  <2>2. Places(log, old, HeaderPlaces(writer, mem'))
    BY <1>2, <1>5, <2>1, HeaderPlacesKept
  <2>3. /\ Laid(mem, old, Header!Layout(entry)) /\ HeaderEnd(writer, old, entry) = next_free
    BY <1>3 DEF HeaderSet
  <2>4. Laid(mem', old, Header!Layout(entry))
    <3>1. /\ Len(Header!Layout(entry)) \in Nat /\ old + Len(Header!Layout(entry)) <= next_free
      BY <1>2, <1>4, <2>3, HeaderSizes
    <3>2. next_free \in Nat /\ next_free <= ByteCount
      BY <1>2
    <3> QED  BY <1>4, <1>5, <2>3, <3>1, <3>2, LaidKept
  <2>5. <<old, entry, next_free>> \in HeaderPlaces(writer, mem')
    BY <1>2, <1>4, <2>3, <2>4 DEF HeaderPlaces
  <2>6. next_free \in Nat /\ old <= next_free
    BY <1>2, <1>4
  <2> QED  BY <1>2, <1>4, <2>2, <2>5, <2>6, PlacesAppend
<1>9. Header!TypeOK'
  <2>1. mem' \in [Header!LogLines -> Header!LineSet([Header!Slots -> Header!Words])]
    BY <1>5, HeaderMemory
  <2>2. headers' \in [Header!Headers' -> Header!LineSet(0 .. Header!ByteCount)]
    BY <1>6, <1>7, HeaderMemory DEF Header!LineSet, LineSet
  <2>3. next_header' \in Header!Headers
    BY <1>1, <1>2, HeaderNumbers
  <2>4. log' \in Seq(Header!Entries) /\ entry' \in Header!Entries \union {<<>>}
    BY <1>1, <1>2
  <2> QED  BY <1>1, <1>6, <2>1, <2>2, <2>3, <2>4 DEF HeaderInv, Header!TypeOK, Header!Steps
<1>10. HeaderNamed'
  BY <1>1, <1>2, <1>6, <1>7, <1>8 DEF HeaderNamed
<1>11. HeaderEntry' /\ HeaderCopied'
  BY <1>1 DEF HeaderEntry, HeaderCopied
<1> QED  BY <1>1, <1>9, <1>10, <1>11 DEF HeaderInv

(* The cache writes back a line of the log ...                             *)
LEMMA HeaderLineDrift ==
  ASSUME HeaderInv, mem' \in LineDrift(mem),
         UNCHANGED <<writer, headers, next_free, next_header, pc, entry, todo, log>>
  PROVE  HeaderInv'
<1>1. /\ writer' = writer /\ headers' = headers /\ next_free' = next_free
      /\ next_header' = next_header /\ pc' = pc /\ entry' = entry /\ todo' = todo /\ log' = log
      /\ mem' \in LineDrift(mem)
  OBVIOUS
<1>2. /\ mem \in Memory(HeaderWords) /\ ByteCount \in Nat /\ next_free \in 0 .. ByteCount
      /\ log \in Seq(Header!Entries) /\ todo \in SUBSET Addresses
  BY HeaderFacts
<1>3. /\ mem' \in Memory(HeaderWords)
      /\ \A b, v : b \in Addresses /\ Settled(mem, b, v) => Settled(mem', b, v)
      /\ \A b \in Addresses : Cached(mem', b) = Cached(mem, b)
  BY <1>1, <1>2, LineDriftOps, SettledKept DEF Keeps
<1>4. Header!Headers' = Header!Headers
  BY <1>1 DEF Header!Headers, Header!HeadersInUse
<1>5. ASSUME NEW end \in 0 .. ByteCount, Places(log, end, HeaderPlaces(writer, mem))
      PROVE  Places(log, end, HeaderPlaces(writer, mem'))
  BY <1>2, <1>3, <1>5, HeaderPlacesKept
<1>6. ASSUME NEW s \in Nat, pc # "idle", HeaderEnd(writer, s, entry) <= ByteCount,
             Laid(mem, s, Header!Layout(entry))
      PROVE  Laid(mem', s, Header!Layout(entry))
  <2> DEFINE n == Len(Header!Layout(entry))
  <2>1. entry \in Header!Entries
    BY <1>6, HeaderFacts
  <2>2. n \in Nat /\ s + n <= HeaderEnd(writer, s, entry) /\ HeaderEnd(writer, s, entry) \in Nat
    BY <1>6, <2>1, HeaderSizes
  <2> QED  BY <1>3, <1>6, <2>2, LaidKept
<1>7. Header!TypeOK'
  BY <1>1, <1>3, <1>4, HeaderMemory DEF HeaderInv, Header!TypeOK
<1>8. HeaderEntry'
  BY <1>1 DEF HeaderInv, HeaderEntry
<1>9. HeaderNamed'
  BY <1>1, <1>2, <1>4, <1>5 DEF HeaderInv, HeaderNamed
<1>10. HeaderCopied'
  <2>1. ASSUME pc = "copy", NEW b \in HeaderSpot(next_free, entry)
        PROVE  b \in todo \/ Cached(mem', b) = Header!Layout(entry)[b - next_free + 1]
    <3>1. /\ entry \in Header!Entries /\ next_free \in Nat
          /\ HeaderEnd(writer, next_free, entry) <= ByteCount
      BY <1>2, <2>1, HeaderFacts DEF HeaderInv, HeaderCopied
    <3>2. b \in Addresses
      BY <2>1, <3>1, HeaderSizes
    <3>3. b \in todo \/ Cached(mem, b) = Header!Layout(entry)[b - next_free + 1]
      BY <2>1 DEF HeaderInv, HeaderCopied
    <3> QED  BY <1>3, <3>2, <3>3
  <2>2. pc = "header" => Laid(mem', next_free, Header!Layout(entry))
    BY <1>2, <1>6 DEF HeaderInv, HeaderCopied
  <2> QED  BY <1>1, <2>1, <2>2 DEF HeaderInv, HeaderCopied
<1>11. ASSUME pc = "persist_header"
       PROVE  (\E o \in 0 .. ByteCount : HeaderSet(o))'
  <2>1. PICK old \in 0 .. ByteCount : HeaderSet(old)
    BY <1>11 DEF HeaderInv
  <2>2. Places(log, old, HeaderPlaces(writer, mem'))
    BY <1>5, <2>1 DEF HeaderSet
  <2>3. Laid(mem', old, Header!Layout(entry))
    BY <1>2, <1>6, <1>11, <2>1 DEF HeaderSet
  <2>4. HeaderSet(old)'
    BY <1>1, <1>4, <2>1, <2>2, <2>3 DEF HeaderSet
  <2> QED  BY <2>4
<1> QED  BY <1>1, <1>7, <1>8, <1>9, <1>10, <1>11 DEF HeaderInv

(* ... or a header.                                                        *)
LEMMA HeaderHeaderDrift ==
  ASSUME HeaderInv, NEW h \in Header!Headers, NEW c \in Header!WordDrift(headers[h]),
         headers' = [headers EXCEPT ![h] = c],
         UNCHANGED <<writer, mem, next_free, next_header, pc, entry, todo, log>>
  PROVE  HeaderInv' /\ pc = "persist_header"
<1>1. /\ writer' = writer /\ mem' = mem /\ next_free' = next_free
      /\ next_header' = next_header /\ pc' = pc /\ entry' = entry /\ todo' = todo /\ log' = log
  OBVIOUS
<1>2. /\ ByteCount \in Nat /\ next_free \in 0 .. ByteCount
      /\ headers \in [Header!Headers -> LineSet(0 .. ByteCount)]
      /\ next_header \in Header!Headers
  BY HeaderFacts
<1>3. headers[h].dur # headers[h].vol
  BY DEF Header!WordDrift, Header!Dirty
<1>4. pc = "persist_header"
  BY <1>3 DEF HeaderInv, HeaderNamed, Flat
<1>5. PICK old \in 0 .. ByteCount : HeaderSet(old)
  BY <1>4 DEF HeaderInv
<1>6. h = next_header
  BY <1>3, <1>5 DEF HeaderSet, Flat
<1>7. c = Evict(headers[h])
  BY <1>3 DEF Header!WordDrift, Header!Dirty, Header!Evict, Evict
<1>8. headers[h] \in LineSet(0 .. ByteCount) /\ headers[h].vol = next_free
  BY <1>2, <1>5, <1>6 DEF HeaderSet
<1>9. /\ c \in LineSet(0 .. ByteCount)
      /\ c.vol = next_free /\ c.fen = next_free /\ c.dur = next_free
  BY <1>7, <1>8 DEF LineSet, Evict
<1>10. /\ headers' \in [Header!Headers -> LineSet(0 .. ByteCount)]
       /\ headers'[next_header] = c
       /\ \A k \in Header!Headers \ {next_header} : headers'[k] = headers[k]
  BY <1>2, <1>6, <1>9
<1>11. Header!Headers' = Header!Headers
  BY <1>1 DEF Header!Headers, Header!HeadersInUse
<1>12. Header!TypeOK'
  BY <1>1, <1>10, <1>11, HeaderMemory DEF HeaderInv, Header!TypeOK, Header!LineSet, LineSet
<1>13. HeaderSet(old)'
  BY <1>1, <1>5, <1>9, <1>10, <1>11 DEF HeaderSet
<1>14. (\E o \in 0 .. ByteCount : HeaderSet(o))'
  BY <1>13
<1>15. HeaderEntry' /\ HeaderNamed' /\ HeaderCopied'
  BY <1>1, <1>4 DEF HeaderInv, HeaderEntry, HeaderNamed, HeaderCopied
<1> QED  BY <1>4, <1>12, <1>14, <1>15 DEF HeaderInv

(* A line the cache writes out on its own changes no settled word, and of  *)
(* a header it takes the old end or the new one.                           *)
LEMMA HeaderDrift ==
  ASSUME HeaderInv, Header!Drift
  PROVE  HeaderInv'
<1>1. UNCHANGED <<writer, next_free, next_header, pc, entry, todo, log>>
  BY DEF Header!Drift
<1>2. CASE mem' \in LineDrift(mem) /\ UNCHANGED headers
  BY <1>1, <1>2, HeaderLineDrift
<1>3. CASE /\ \E h \in Header!Headers : \E c \in Header!WordDrift(headers[h]) :
                headers' = [headers EXCEPT ![h] = c]
           /\ UNCHANGED mem
  <2>0. PICK h \in Header!Headers :
          \E c \in Header!WordDrift(headers[h]) : headers' = [headers EXCEPT ![h] = c]
    BY <1>3
  <2>1. PICK c \in Header!WordDrift(headers[h]) : headers' = [headers EXCEPT ![h] = c]
    BY <2>0
  <2>2. UNCHANGED <<writer, mem, next_free, next_header, pc, entry, todo, log>>
    BY <1>1, <1>3
  <2> QED  BY <2>1, <2>2, HeaderHeaderDrift
<1> QED  BY <1>2, <1>3, HeaderMemory DEF Header!Drift

(* A log that ends where a header says it ends is read as it was written.  *)
LEMMA HeaderReading ==
  ASSUME mem \in Memory(HeaderWords), NEW end \in 0 .. ByteCount, Header!EndOfLog = end,
         NEW found \in Seq(Header!Entries), Places(found, end, HeaderPlaces(writer, mem))
  PROVE  Header!Recovered = found
<1> DEFINE D(s) == Durable(mem, s)
           to(s) == HeaderAfter(writer, s, D(s) + 1)
           W == {s \in 0 .. ByteCount : s < ByteCount /\ s < end /\ to(s) <= ByteCount}
           P == [s \in W |-> [i \in 1 .. D(s) |-> D(s + i)]]
           N == [s \in W |-> to(s)]
           read == CHOOSE f : IsReading(f, ByteCount, W, P, N)
<1>1. ByteCount \in Nat /\ MaxPayload \in Nat /\ Value \subseteq Nat
  BY LogMemoryAssumption DEF ByteCount
<1>2. \A s \in 0 .. ByteCount : s < ByteCount => D(s) \in Nat
  <2>1. HeaderWords \subseteq Nat
    BY <1>1 DEF HeaderWords
  <2>2. \A s \in Addresses : D(s) \in HeaderWords
    BY WordTypes
  <2>3. \A s \in 0 .. ByteCount : s < ByteCount => s \in Addresses
    BY <1>1 DEF Addresses
  <2> HIDE DEF D
  <2> QED  BY <2>1, <2>2, <2>3
<1>3. Header!Recovered = read[0]
  <2> DEFINE F(s, f) ==
               IF s < Header!ByteCount /\ s < Header!EndOfLog
                    /\ Header!After(s, Header!Durable(mem, s) + 1) <= Header!ByteCount
               THEN <<[i \in 1 .. Header!Durable(mem, s) |-> Header!Durable(mem, s + i)]>>
                      \o f[Header!After(s, Header!Durable(mem, s) + 1)]
               ELSE <<>>
             G(f) == f = [s \in 0 .. Header!ByteCount |-> F(s, f)]
  <2>1. Header!Recovered = (CHOOSE f : G(f))[0]
    BY DEF Header!Recovered, Header!ReadLog
  <2>2. ASSUME NEW f
        PROVE  G(f) <=> IsReading(f, ByteCount, W, P, N)
    <3>1. ASSUME NEW s \in 0 .. ByteCount
          PROVE  F(s, f) = (IF s \in W THEN <<P[s]>> \o f[N[s]] ELSE <<>>)
      <4>1. /\ Header!ByteCount = ByteCount
            /\ \A a : Header!Durable(mem, a) = D(a)
            /\ Header!After(s, Header!Durable(mem, s) + 1) = to(s)
        BY HeaderMemory
      <4>2. [i \in 1 .. Header!Durable(mem, s) |-> Header!Durable(mem, s + i)]
              = [i \in 1 .. D(s) |-> D(s + i)]
        BY <4>1
      <4>3. CASE s \in W
        <5>1. P[s] = [i \in 1 .. D(s) |-> D(s + i)] /\ N[s] = to(s)
          BY <4>3
        <5>2. s < ByteCount /\ s < end /\ to(s) <= ByteCount
          BY <4>3
        <5> HIDE DEF W, P, N, D, to
        <5> QED  BY <4>1, <4>2, <4>3, <5>1, <5>2
      <4>4. CASE s \notin W
        <5>1. ~ (s < ByteCount /\ s < end /\ to(s) <= ByteCount)
          BY <4>4
        <5> HIDE DEF W, P, N, D, to
        <5> QED  BY <4>1, <4>4, <5>1
      <4> QED  BY <4>3, <4>4
    <3> QED  BY <3>1, HeaderMemory DEF IsReading
  <2> HIDE DEF G
  <2>3. (CHOOSE f : G(f)) = read
    BY <2>2
  <2> QED  BY <2>1, <2>3
<1>4. ASSUME NEW s \in W
      PROVE  N[s] \in s + 1 .. ByteCount
  <2>1. s \in Nat /\ s < ByteCount /\ D(s) \in Nat /\ to(s) <= ByteCount
    BY <1>1, <1>2
  <2>2. to(s) \in Nat /\ s + (D(s) + 1) <= to(s)
    <3> DEFINE d == D(s)
    <3> HIDE DEF d
    <3>1. d \in Nat
      BY <2>1 DEF d
    <3>2. RoundUp(s + (d + 1)) \in Nat /\ s + (d + 1) <= RoundUp(s + (d + 1))
      <4>1. s + (d + 1) \in Nat
        BY <2>1, <3>1
      <4> HIDE DEF d
      <4> QED  BY <4>1, RoundUpBounds, Zenon
    <3>3. HeaderAfter(writer, s, d + 1) \in Nat /\ s + (d + 1) <= HeaderAfter(writer, s, d + 1)
      BY <2>1, <3>1, <3>2 DEF HeaderAfter
    <3> QED  BY <3>3 DEF d
  <2>3. N[s] = to(s)
    OBVIOUS
  <2> HIDE DEF to, N, W, D
  <2> QED  BY <1>1, <2>1, <2>2, <2>3
<1>5. Reader(read, ByteCount, W, P, N)
  <2> HIDE DEF W, P, N
  <2>1. GoesForward(ByteCount, W, N)
    BY <1>4 DEF GoesForward
  <2> QED  BY <1>1, <2>1, ChosenReader
<1>6. ASSUME NEW s \in 0 .. end, NEW n \in 0 .. end, NEW e \in Header!Entries,
             <<s, e, n>> \in HeaderPlaces(writer, mem)
      PROVE  s \in W /\ P[s] = e /\ N[s] = n
  <2>1. n = HeaderEnd(writer, s, e) /\ Laid(mem, s, Header!Layout(e))
    BY <1>6 DEF HeaderPlaces
  <2> DEFINE l == Header!Layout(e)
             k == Len(e)
  <2>2. /\ s \in Nat /\ n \in Nat /\ n <= end /\ end <= ByteCount /\ end \in Nat
        /\ k \in Nat \ {0} /\ Header!Size(e) = k + 1 /\ e \in Seq(Nat)
        /\ s + (k + 1) <= n /\ Len(l) = k + 1
        /\ l[1] = k /\ \A i \in 1 .. k : l[i + 1] = e[i]
    <3>1. s \in Nat /\ n \in Nat /\ n <= end /\ end <= ByteCount /\ end \in Nat
      BY <1>1
    <3>2. /\ k \in Nat \ {0} /\ Header!Size(e) = k + 1 /\ e \in Seq(Nat)
          /\ s + Header!Size(e) <= HeaderEnd(writer, s, e) /\ Len(l) = Header!Size(e)
          /\ l[1] = k /\ \A i \in 1 .. k : l[i + 1] = e[i]
      BY <3>1, HeaderSizes
    <3> HIDE DEF k, l
    <3> QED  BY <2>1, <3>1, <3>2
  <2>3. \A a \in s .. s + k : D(a) = l[a - s + 1]
    <3>1. \A a \in s .. s + Len(l) - 1 : Settled(mem, a, l[a - s + 1])
      BY <2>1 DEF Laid
    <3>2. s + Len(l) - 1 = s + k
      BY <2>2
    <3> QED  BY <3>1, <3>2 DEF Settled
  <2>4. D(s) = k /\ \A i \in 1 .. k : D(s + i) = e[i]
    <3> HIDE DEF D, l, k
    <3>1. s \in s .. s + k /\ s - s + 1 = 1
      BY <2>2
    <3>2. ASSUME NEW i \in 1 .. k
          PROVE  s + i \in s .. s + k /\ (s + i) - s + 1 = i + 1
      BY <2>2
    <3> QED  BY <2>2, <2>3, <3>1, <3>2
  <2>5. to(s) = n
    BY <2>1, <2>2, <2>4 DEF HeaderEnd
  <2>6. s \in W
    <3> HIDE DEF to, k, D
    <3> QED  BY <1>1, <2>2, <2>5
  <2>7. P[s] = e
    <3>1. P[s] = [i \in 1 .. D(s) |-> D(s + i)]
      BY <2>6
    <3>2. e = [i \in 1 .. k |-> e[i]]
      BY <2>2
    <3> HIDE DEF P, D
    <3> QED  BY <2>4, <3>1, <3>2
  <2>8. N[s] = n
    BY <2>5, <2>6
  <2> QED  BY <2>6, <2>7, <2>8
<1>7. end \notin W /\ end \in Nat /\ end <= ByteCount
  BY <1>1
<1>8. read[0] = found
  <2> HIDE DEF W, P, N, read
  <2> QED  BY <1>1, <1>5, <1>6, <1>7, PlacesRead
<1> QED  BY <1>3, <1>8

\* What a power failure leaves of the log.
HeaderShown ==
  /\ Adding = IF pc = "idle" THEN <<>> ELSE <<entry>>
  /\ Recovered = IF pc = "persist_header" /\ headers[next_header].dur = next_free
                 THEN log \o Adding ELSE log

(* The largest durable end is where the log ends.                          *)
LEMMA HeaderEnds ==
  ASSUME NEW end \in Nat, \E h \in Header!Headers : headers[h].dur = end,
         \A h \in Header!Headers : headers[h].dur \in Nat /\ headers[h].dur <= end
  PROVE  Header!EndOfLog = end
<1> DEFINE S == {headers[h].dur : h \in Header!Headers}
<1>1. end \in S /\ \A x \in S : x \in Nat /\ x <= end
  OBVIOUS
<1> HIDE DEF S
<1>2. \A y \in S : (\A x \in S : y >= x) <=> y = end
  BY <1>1
<1>3. (CHOOSE y \in S : \A x \in S : y >= x) = end
  BY <1>1, <1>2
<1> QED  BY <1>3 DEF Header!EndOfLog, Header!Max, S

(* In every state what the recovery finds is the log, and while the        *)
(* header is on its way possibly the entry being added.                    *)
LEMMA HeaderIsFaithful ==
  HeaderInv => HeaderShown /\ Faithful
<1> SUFFICES ASSUME HeaderInv PROVE HeaderShown /\ Faithful
  OBVIOUS
<1>1. /\ mem \in Memory(HeaderWords) /\ ByteCount \in Nat
      /\ next_free \in 0 .. ByteCount /\ writer \in Header!Writers
      /\ headers \in [Header!Headers -> LineSet(0 .. ByteCount)]
      /\ next_header \in Header!Headers
      /\ log \in Seq(Header!Entries)
      /\ pc # "idle" => entry \in Header!Entries
  BY HeaderFacts
<1>2. writer \in Writers \ Classic!Writers
  BY <1>1 DEF Writers, Header!Writers, Classic!Writers
<1>3. /\ Recovered = Header!Recovered
      /\ Adding = IF pc = "idle" THEN <<>> ELSE <<entry>>
  BY <1>1, <1>2, Families
<1>4. \A h \in Header!Headers : headers[h].dur \in Nat
  <2>1. \A h \in Header!Headers : headers[h].dur \in 0 .. ByteCount
    BY <1>1 DEF LineSet
  <2> QED  BY <1>1, <2>1
<1>5. ASSUME pc # "persist_header"
      PROVE  Header!Recovered = log
  <2>1. Places(log, next_free, HeaderPlaces(writer, mem))
    BY <1>5 DEF HeaderInv, HeaderNamed
  <2>2. Header!EndOfLog = next_free
    BY <1>1, <1>4, <1>5, HeaderEnds DEF HeaderInv, HeaderNamed
  <2> QED  BY <1>1, <2>1, <2>2, HeaderReading
<1>6. ASSUME pc = "persist_header"
      PROVE  Header!Recovered = IF headers[next_header].dur = next_free
                                THEN Append(log, entry) ELSE log
  <2>1. PICK old \in 0 .. ByteCount : HeaderSet(old)
    BY <1>6 DEF HeaderInv
  <2>2. old \in Nat /\ next_free \in Nat
    BY <1>1
  <2>3. old < next_free /\ old + Len(Header!Layout(entry)) <= next_free
    <3>1. /\ Header!Size(entry) \in Nat \ {0, 1}
          /\ old + Header!Size(entry) <= HeaderEnd(writer, old, entry)
          /\ Len(Header!Layout(entry)) = Header!Size(entry)
      BY <1>1, <1>6, <2>2, HeaderSizes
    <3> QED  BY <2>1, <2>2, <3>1 DEF HeaderSet
  <2>4. \A h \in Header!Headers \ {next_header} : headers[h].dur <= old
    BY <2>1 DEF HeaderSet
  <2>5. CASE headers[next_header].dur = next_free
    <3>1. Header!EndOfLog = next_free
      BY <1>1, <1>4, <2>2, <2>3, <2>4, <2>5, HeaderEnds
    <3>2. <<old, entry, next_free>> \in HeaderPlaces(writer, mem)
      BY <1>1, <1>6, <2>1, <2>2 DEF HeaderPlaces, HeaderSet
    <3>3. Places(log, old, HeaderPlaces(writer, mem))
      BY <2>1 DEF HeaderSet
    <3>4. Places(Append(log, entry), next_free, HeaderPlaces(writer, mem))
      BY <1>1, <1>6, <2>2, <2>3, <3>2, <3>3, PlacesAppend
    <3>5. Append(log, entry) \in Seq(Header!Entries)
      BY <1>1, <1>6
    <3>6. Header!Recovered = Append(log, entry)
      BY <1>1, <3>1, <3>4, <3>5, HeaderReading
    <3> QED  BY <2>5, <3>6
  <2>6. CASE headers[next_header].dur # next_free
    <3>1. headers[next_header].dur <= old /\ \E h \in Header!Headers : headers[h].dur = old
      BY <2>1, <2>6 DEF HeaderSet
    <3>2. Header!EndOfLog = old
      BY <1>1, <1>4, <2>2, <2>4, <3>1, HeaderEnds
    <3>3. Places(log, old, HeaderPlaces(writer, mem))
      BY <2>1 DEF HeaderSet
    <3>4. Header!Recovered = log
      BY <1>1, <3>2, <3>3, HeaderReading
    <3> QED  BY <2>6, <3>4
  <2> QED  BY <2>5, <2>6
<1>7. pc # "idle" => Append(log, entry) = log \o <<entry>>
  BY <1>1
<1>8. HeaderShown
  BY <1>3, <1>5, <1>6, <1>7 DEF HeaderShown
<1>9. Faithful
  BY <1>8 DEF HeaderShown, Faithful
<1> QED  BY <1>8, <1>9

(* The same of the state after a step.                                     *)
LEMMA HeaderIsFaithfulNext ==
  HeaderInv' => HeaderShown' /\ Faithful'
<1>1. HeaderInv => HeaderShown /\ Faithful
  BY HeaderIsFaithful
<1> QED  BY <1>1, PTL

(* Every step of a header writer keeps the invariant and is a step of the  *)
(* abstract log.                                                           *)
LEMMA HeaderNext ==
  ASSUME HeaderInv, Header!Next
  PROVE  HeaderInv' /\ Faithful /\ Faithful' /\ (Begins \/ GoesOn \/ Returns \/ Rests)
<1>1. HeaderShown /\ Faithful
  BY HeaderIsFaithful
<1>2. HeaderInv'
  BY HeaderAddLogEntry, HeaderCopyWord, HeaderPersistEntry, HeaderSetHeader,
     HeaderPersistHeader, HeaderDrift DEF Header!Next
<1>3. HeaderShown' /\ Faithful'
  BY <1>2, HeaderIsFaithfulNext
<1>4. ASSUME NEW e \in Header!Entries, Header!AddLogEntry(e)
      PROVE  Begins
  <2>1. pc = "idle" /\ pc' = "copy" /\ log' = log
    BY <1>4 DEF Header!AddLogEntry
  <2> QED  BY <1>3, <2>1 DEF HeaderShown, Begins
<1>5. ASSUME pc # "idle", log \in Seq(Header!Entries)
      PROVE  log # log \o Adding
  <2>1. Len(Adding) = 1 /\ Adding = <<entry>> /\ entry \in Header!Entries
    BY <1>1, <1>5, HeaderFacts DEF HeaderShown, Faithful
  <2> QED  BY <1>5, <2>1
<1>6. ASSUME Header!CopyWord \/ Header!PersistEntry \/ Header!SetHeader
      PROVE  GoesOn
  <2>1. pc # "idle" /\ pc # "persist_header" /\ pc' # "idle" /\ log' = log /\ entry' = entry
    BY <1>6 DEF Header!CopyWord, Header!PersistEntry, Header!SetHeader
  <2>2. Adding' = Adding /\ Recovered = log /\ log # log \o Adding
    BY <1>1, <1>3, <1>5, <2>1, HeaderFacts DEF HeaderShown
  <2> QED  BY <2>1, <2>2 DEF GoesOn
<1>7. ASSUME Header!Drift, pc # "idle"
      PROVE  GoesOn
  <2>1. /\ pc' = pc /\ log' = log /\ entry' = entry /\ next_free' = next_free
        /\ next_header' = next_header
    BY <1>7 DEF Header!Drift
  <2>2. Adding' = Adding
    BY <1>1, <1>3, <2>1 DEF HeaderShown
  <2>3. ASSUME Recovered = log \o Adding
        PROVE  pc = "persist_header" /\ headers[next_header].dur = next_free
    BY <1>1, <1>5, <1>7, <2>3, HeaderFacts DEF HeaderShown
  <2>4. ASSUME pc = "persist_header", headers[next_header].dur = next_free
        PROVE  headers'[next_header].dur = next_free
    <3>1. headers[next_header].vol = next_free
      BY <2>4 DEF HeaderInv, HeaderSet
    <3>2. CASE headers' = headers
      BY <2>4, <3>2
    <3>3. CASE \E h \in Header!Headers : \E c \in Header!WordDrift(headers[h]) :
                 headers' = [headers EXCEPT ![h] = c]
      <4>1. PICK h \in Header!Headers :
              \E c \in Header!WordDrift(headers[h]) : headers' = [headers EXCEPT ![h] = c]
        BY <3>3
      <4>2. PICK c \in Header!WordDrift(headers[h]) : headers' = [headers EXCEPT ![h] = c]
        BY <4>1
      <4>3. headers[h].dur # headers[h].vol
        BY DEF Header!WordDrift, Header!Dirty
      <4>4. h # next_header
        BY <2>4, <3>1, <4>3
      <4> QED  BY <2>4, <4>2, <4>4, HeaderFacts
    <3> QED  BY <1>7, <3>2, <3>3 DEF Header!Drift
  <2>5. Recovered = log \o Adding => Recovered' = log \o Adding
    BY <1>3, <2>1, <2>2, <2>3, <2>4 DEF HeaderShown
  <2> QED  BY <1>7, <2>1, <2>2, <2>5 DEF GoesOn
<1>8. ASSUME Header!Drift, pc = "idle"
      PROVE  Rests
  BY <1>8 DEF Header!Drift, Rests
<1>9. ASSUME Header!PersistHeader
      PROVE  Returns
  <2>1. pc # "idle" /\ pc' = "idle" /\ log' = Append(log, entry)
    BY <1>9 DEF Header!PersistHeader
  <2>2. log \in Seq(Header!Entries) /\ entry \in Header!Entries /\ Adding = <<entry>>
    BY <1>1, <2>1, HeaderFacts DEF HeaderShown
  <2>3. log' = log \o Adding
    BY <2>1, <2>2
  <2> QED  BY <2>1, <2>3 DEF Returns
<1> QED  BY <1>1, <1>2, <1>3, <1>4, <1>6, <1>7, <1>8, <1>9 DEF Header!Next

-----------------------------------------------------------------------------
\* The zero writers.

ZeroWords == Nat \X Nat
ZeroAfter(w, s, n) == IF w # "Zero" THEN RoundUp(s + n) ELSE s + n
ZeroEnd(w, s, e) == ZeroAfter(w, s, Zero!Size(e))
ZeroSpot(s, e) == s .. s + Zero!Size(e) - 1

\* The words of an entry when its bit count is in the header.
ZeroFinal(e) == << <<Len(e), Zero!BitCount(e)>> >> \o e

(* The bit counts of the writer and of its recovery are the same           *)
(* function.                                                               *)
LEMMA ZeroNumbers ==
  /\ Zero!alex_PopCount = alex_PopCount
  /\ \A ns : Zero!Total(ns) = Total(ns)
<1>1. Zero!alex_PopCount = alex_PopCount
  BY DEF Zero!alex_PopCount, alex_PopCount
<1>2. ASSUME NEW ns
      PROVE  Zero!Total(ns) = Total(ns)
  BY DEF Zero!Total, Total, Zero!MapThenFoldSet, MapThenFoldSet,
         Zero!Max, Max
<1> QED  BY <1>1, <1>2

(* The instance's names are the ones of LogMemory.                         *)
LEMMA ZeroMemory ==
  /\ Zero!ByteCount = ByteCount /\ Zero!Addresses = Addresses
  /\ [Zero!LogLines -> Zero!LineSet([Zero!Slots -> Nat \X Nat])] = Memory(ZeroWords)
  /\ \A m, a, w : Zero!StoreWord(m, a, w) = StoreWord(m, a, w)
  /\ \A m, as : Zero!WriteBackWords(m, as) = WriteBackWords(m, as)
  /\ \A m, as : Zero!PersistWords(m, as) = PersistWords(m, as)
  /\ \A m, a : Zero!Durable(m, a) = Durable(m, a)
  /\ \A m, a : Zero!Cached(m, a) = Cached(m, a)
  /\ \A m : Zero!LineDrift(m) = LineDrift(m)
  /\ \A v : Zero!Filled(v) = Filled(v)
  /\ \A s, n : Zero!After(s, n) = ZeroAfter(writer, s, n)
  /\ \A s, e : Zero!After(s, Zero!Size(e)) = ZeroEnd(writer, s, e)
<1>1. /\ Zero!ByteCount = ByteCount /\ Zero!Addresses = Addresses
      /\ Zero!LogLines = LogLines /\ Zero!Slots = Slots
      /\ \A a : Zero!LineOf(a) = LineOf(a) /\ Zero!SlotOf(a) = SlotOf(a)
  BY DEF Zero!ByteCount, ByteCount, Zero!Addresses, Addresses, Zero!LogLines,
         LogLines, Zero!Slots, Slots, Zero!LineOf, LineOf, Zero!SlotOf, SlotOf
<1>2. [Zero!LogLines -> Zero!LineSet([Zero!Slots -> Nat \X Nat])] = Memory(ZeroWords)
  BY <1>1 DEF Zero!LineSet, LineSet, Memory, ZeroWords
<1>3. \A m, a, w : Zero!StoreWord(m, a, w) = StoreWord(m, a, w)
  BY <1>1 DEF Zero!StoreWord, StoreWord, Zero!Store, Store
<1>4. \A m : Zero!Fence(m) = Fence(m)
  BY <1>1 DEF Zero!Fence, Fence, Zero!SFence, SFence
<1>5. ASSUME NEW m, NEW as
      PROVE  Zero!WriteBackWords(m, as) = WriteBackWords(m, as)
  BY <1>1 DEF Zero!WriteBackWords, WriteBackWords, Zero!WriteBack, WriteBack
<1>6. \A m, as : Zero!PersistWords(m, as) = PersistWords(m, as)
  BY <1>4, <1>5 DEF Zero!PersistWords, PersistWords
<1>7. /\ \A m, a : Zero!Durable(m, a) = Durable(m, a)
      /\ \A m, a : Zero!Cached(m, a) = Cached(m, a)
  BY <1>1 DEF Zero!Durable, Durable, Zero!Cached, Cached
<1>8. ASSUME NEW m
      PROVE  Zero!LineDrift(m) = LineDrift(m)
  BY <1>1 DEF Zero!LineDrift, LineDrift, Zero!Evict, Evict, Zero!Dirty, Dirty
<1>9. ASSUME NEW v
      PROVE  Zero!Filled(v) = Filled(v)
  BY <1>1 DEF Zero!Filled, Filled, Zero!Line, Line
<1>10. ASSUME NEW n
      PROVE  Zero!RoundUp(n) = RoundUp(n)
  BY DEF Zero!RoundUp, RoundUp
<1>11. /\ \A s, n : Zero!After(s, n) = ZeroAfter(writer, s, n)
       /\ \A s, e : Zero!After(s, Zero!Size(e)) = ZeroEnd(writer, s, e)
  BY <1>10 DEF Zero!After, ZeroAfter, ZeroEnd, Zero!Aligned
<1> QED  BY <1>1, <1>2, <1>3, <1>5, <1>6, <1>7, <1>8, <1>9, <1>11

(* No bits are set in zero, and only there.                                *)
LEMMA ZeroBits ==
  ASSUME NEW w \in ZeroWords
  PROVE  Zero!Bits(w) \in Nat /\ (Zero!Bits(w) = 0 <=> w = Zero!Zero)
<1>1. w[1] \in Nat /\ w[2] \in Nat /\ w = <<w[1], w[2]>>
  BY DEF ZeroWords
<1>2. Zero!Bits(w) = alex_PopCount[w[1]] + alex_PopCount[w[2]]
  BY ZeroNumbers DEF Zero!Bits
<1>3. /\ alex_PopCount[w[1]] \in Nat /\ (alex_PopCount[w[1]] = 0 <=> w[1] = 0)
      /\ alex_PopCount[w[2]] \in Nat /\ (alex_PopCount[w[2]] = 0 <=> w[2] = 0)
  BY <1>1, PopCountZero
<1> DEFINE x == alex_PopCount[w[1]]
           y == alex_PopCount[w[2]]
<1>4. x + y \in Nat /\ (x + y = 0 <=> x = 0 /\ y = 0)
  <2>1. x \in Nat /\ y \in Nat
    BY <1>3
  <2> HIDE DEF x, y
  <2> QED  BY <2>1
<1> QED  BY <1>1, <1>2, <1>3, <1>4 DEF Zero!Zero

\* The bits of the words of an entry, the bit count apart.
BitsOf(e) == [i \in 1 .. Zero!Size(e) |-> Zero!Bits(Zero!Layout(e)[i])]

(* What a zero writer lays down: the word of length and count, the count   *)
(* still 0, and then the payload (MemCpyOutline of the entry).             *)
LEMMA ZeroLayout ==
  ASSUME NEW e \in Seq(ZeroWords)
  PROVE  /\ Len(e) \in Nat /\ Zero!Size(e) = Len(e) + 1
         /\ Zero!Layout(e) \in Seq(ZeroWords) /\ Len(Zero!Layout(e)) = Len(e) + 1
         /\ Zero!Layout(e)[1] = <<Len(e), 0>>
         /\ \A i \in 1 .. Len(e) : Zero!Layout(e)[i + 1] = e[i]
         /\ BitsOf(e) \in Seq(Nat) /\ Len(BitsOf(e)) = Len(e) + 1
         /\ Zero!BitCount(e) = Total(BitsOf(e)) /\ Zero!BitCount(e) \in Nat
         /\ Len(e) # 0 => Zero!BitCount(e) # 0
<1> DEFINE l == Zero!Layout(e)
           n == Len(e)
           x == <<n, 0>>
<1>1. n \in Nat /\ Zero!Size(e) = n + 1 /\ x \in ZeroWords
  BY DEF Zero!Size, ZeroWords
<1>2. l = <<x>> \o e
  BY DEF Zero!Layout
<1>3. l \in Seq(ZeroWords) /\ Len(l) = n + 1 /\ l[1] = x /\ \A i \in 1 .. n : l[i + 1] = e[i]
  <2> HIDE DEF l, x
  <2> QED  BY <1>1, <1>2, InFront
<1> HIDE DEF l
<1>4. \A i \in 1 .. n + 1 : Zero!Bits(l[i]) \in Nat
  BY <1>3, ZeroBits
<1>5. BitsOf(e) = [i \in 1 .. n + 1 |-> Zero!Bits(l[i])]
  BY <1>1 DEF BitsOf, l
<1>6. BitsOf(e) \in Seq(Nat) /\ Len(BitsOf(e)) = n + 1
  BY <1>1, <1>4, <1>5
<1>7. Zero!BitCount(e) = Total(BitsOf(e))
  BY ZeroNumbers DEF Zero!BitCount, BitsOf
<1>8. Total(BitsOf(e)) \in Nat /\ BitsOf(e)[1] <= Total(BitsOf(e))
  <2>1. 1 \in 1 .. Len(BitsOf(e))
    BY <1>1, <1>6
  <2> QED  BY <1>6, <2>1, TotalBounds
<1>9. n # 0 => Total(BitsOf(e)) # 0
  <2>1. BitsOf(e)[1] = Zero!Bits(x)
    <3>1. 1 \in 1 .. n + 1
      BY <1>1
    <3> QED  BY <1>3, <1>5, <3>1
  <2>2. n # 0 => Zero!Bits(x) # 0 /\ Zero!Bits(x) \in Nat
    BY <1>1, ZeroBits DEF Zero!Zero
  <2> HIDE DEF x
  <2> QED  BY <1>8, <2>1, <2>2
<1> QED  BY <1>1, <1>3, <1>6, <1>7, <1>8, <1>9 DEF l

(* A payload some words of which are still zero has fewer bits.            *)
LEMMA ZeroCounts ==
  ASSUME NEW e \in Seq(ZeroWords), NEW p \in Seq(ZeroWords), Len(p) = Len(e),
         \A i \in 1 .. Len(e) : p[i] \in {Zero!Zero, e[i]},
         Zero!BitCount(p) = Zero!BitCount(e)
  PROVE  p = e
<1> DEFINE n == Len(e)
           b == BitsOf(e)
           c == BitsOf(p)
<1>1. /\ n \in Nat /\ Len(p) = n
      /\ b \in Seq(Nat) /\ Len(b) = n + 1 /\ c \in Seq(Nat) /\ Len(c) = n + 1
      /\ Total(b) = Total(c)
  BY ZeroLayout
<1>2. \A i \in 1 .. n : b[i + 1] = Zero!Bits(e[i]) /\ c[i + 1] = Zero!Bits(p[i])
  <2> SUFFICES ASSUME NEW i \in 1 .. n
               PROVE  b[i + 1] = Zero!Bits(e[i]) /\ c[i + 1] = Zero!Bits(p[i])
    OBVIOUS
  <2>1. i + 1 \in 1 .. n + 1
    BY <1>1
  <2>2. Zero!Layout(e)[i + 1] = e[i] /\ Zero!Layout(p)[i + 1] = p[i]
    BY <1>1, ZeroLayout
  <2>3. Zero!Size(e) = n + 1 /\ Zero!Size(p) = n + 1
    BY <1>1, ZeroLayout
  <2> QED  BY <2>1, <2>2, <2>3 DEF BitsOf
<1>3. b[1] = c[1]
  <2>1. Zero!Layout(e)[1] = <<n, 0>> /\ Zero!Layout(p)[1] = <<n, 0>>
    BY <1>1, ZeroLayout
  <2>2. Zero!Size(e) = n + 1 /\ Zero!Size(p) = n + 1
    BY <1>1, ZeroLayout
  <2>3. 1 \in 1 .. n + 1
    BY <1>1
  <2> QED  BY <2>1, <2>2, <2>3 DEF BitsOf
<1>4. \A i \in 1 .. n : /\ Zero!Bits(e[i]) \in Nat /\ Zero!Bits(p[i]) \in Nat
                        /\ Zero!Bits(p[i]) <= Zero!Bits(e[i])
                        /\ Zero!Bits(p[i]) = Zero!Bits(e[i]) => p[i] = e[i]
  <2> SUFFICES ASSUME NEW i \in 1 .. n
               PROVE  /\ Zero!Bits(e[i]) \in Nat /\ Zero!Bits(p[i]) \in Nat
                      /\ Zero!Bits(p[i]) <= Zero!Bits(e[i])
                      /\ Zero!Bits(p[i]) = Zero!Bits(e[i]) => p[i] = e[i]
    OBVIOUS
  <2>1. e[i] \in ZeroWords /\ p[i] \in ZeroWords
    BY <1>1
  <2>2. /\ Zero!Bits(e[i]) \in Nat /\ Zero!Bits(p[i]) \in Nat
        /\ Zero!Bits(e[i]) = 0 <=> e[i] = Zero!Zero
        /\ Zero!Bits(p[i]) = 0 <=> p[i] = Zero!Zero
    BY <2>1, ZeroBits
  <2>3. p[i] = Zero!Zero \/ p[i] = e[i]
    OBVIOUS
  <2> QED  BY <2>2, <2>3
<1> HIDE DEF b, c
<1>5. \A k \in 1 .. n + 1 : c[k] <= b[k]
  <2> SUFFICES ASSUME NEW k \in 1 .. n + 1 PROVE c[k] <= b[k]
    OBVIOUS
  <2>1. CASE k = 1
    <3>1. b[1] \in Nat
      BY <1>1
    <3> QED  BY <1>3, <2>1, <3>1
  <2>2. CASE k # 1
    <3>1. k - 1 \in 1 .. n /\ (k - 1) + 1 = k
      BY <1>1, <2>2
    <3>2. c[(k - 1) + 1] <= b[(k - 1) + 1]
      BY <1>2, <1>4, <3>1
    <3> QED  BY <3>1, <3>2
  <2> QED  BY <2>1, <2>2
<1>6. \A k \in 1 .. n + 1 : c[k] = b[k]
  <2>1. \A k \in 1 .. Len(b) : c[k] <= b[k]
    BY <1>1, <1>5
  <2>2. \A k \in 1 .. Len(b) : c[k] = b[k]
    BY <1>1, <2>1, TotalGrows
  <2> QED  BY <1>1, <2>2
<1>7. \A i \in 1 .. n : p[i] = e[i]
  BY <1>1, <1>2, <1>4, <1>6
<1>8. p = [i \in 1 .. n |-> p[i]] /\ e = [i \in 1 .. n |-> e[i]]
  BY <1>1
<1> QED  BY <1>7, <1>8

(* An entry takes the words it has and no more than the memory.            *)
LEMMA ZeroSizes ==
  ASSUME NEW w, NEW s \in Nat, NEW e \in Zero!Entries
  PROVE  /\ e \in Seq(ZeroWords) /\ Len(e) \in Nat \ {0} /\ Zero!Size(e) = Len(e) + 1
         /\ Len(ZeroFinal(e)) = Zero!Size(e)
         /\ ZeroFinal(e)[1] = <<Len(e), Zero!BitCount(e)>>
         /\ Zero!BitCount(e) \in Nat \ {0} /\ Zero!Layout(e)[1] = <<Len(e), 0>>
         /\ \A i \in 1 .. Len(e) :
              Zero!Layout(e)[i + 1] = e[i] /\ ZeroFinal(e)[i + 1] = e[i]
         /\ ZeroEnd(w, s, e) \in Nat /\ s + Zero!Size(e) <= ZeroEnd(w, s, e)
         /\ s + Zero!Size(e) <= ByteCount <=> ZeroEnd(w, s, e) <= ByteCount
         /\ s \in ZeroSpot(s, e)
         /\ ZeroEnd(w, s, e) <= ByteCount =>
              \A a \in ZeroSpot(s, e) :
                /\ a \in Addresses /\ a \in Nat /\ s <= a /\ a < ZeroEnd(w, s, e)
                /\ a < s + Zero!Size(e)
                /\ a - s + 1 \in 1 .. Zero!Size(e)
                /\ Zero!Layout(e)[a - s + 1] \in ZeroWords
                /\ ZeroFinal(e)[a - s + 1] \in ZeroWords
                /\ a # s => ZeroFinal(e)[a - s + 1] = Zero!Layout(e)[a - s + 1]
<1> DEFINE l == Zero!Layout(e)
           f == ZeroFinal(e)
           k == Zero!Size(e)
           end == ZeroEnd(w, s, e)
           x == <<Len(e), Zero!BitCount(e)>>
<1>1. PICK n \in 1 .. MaxPayload : e \in [1 .. n -> Value \X {0}]
  BY DEF Zero!Entries, Zero!Payload
<1>2. MaxPayload \in Nat /\ LineWords \in Nat \ {0} /\ ByteCount \in Nat /\ Value \subseteq Nat
  BY LogMemoryAssumption DEF ByteCount
<1>3. n \in Nat \ {0}
  BY <1>2
<1>4. e \in Seq(ZeroWords) /\ Len(e) = n
  <2>1. ASSUME NEW i \in 1 .. n PROVE e[i] \in ZeroWords
    <3>1. e[i] \in Value \X {0}
      BY <1>1
    <3>2. PICK v \in Value : e[i] = <<v, 0>>
      BY <3>1
    <3>3. v \in Nat /\ 0 \in Nat
      BY <1>2
    <3> QED  BY <3>2, <3>3 DEF ZeroWords
  <2>2. e = [i \in 1 .. n |-> e[i]]
    BY <1>1
  <2>3. e \in [1 .. n -> ZeroWords]
    BY <2>1, <2>2
  <2> QED  BY <1>3, <2>3
<1>5. /\ k = n + 1 /\ l \in Seq(ZeroWords) /\ Len(l) = n + 1 /\ l[1] = <<Len(e), 0>>
      /\ \A i \in 1 .. n : l[i + 1] = e[i]
      /\ Zero!BitCount(e) \in Nat /\ Zero!BitCount(e) # 0
  <2> HIDE DEF l
  <2>1. /\ k = Len(e) + 1 /\ l \in Seq(ZeroWords) /\ Len(l) = Len(e) + 1 /\ l[1] = <<Len(e), 0>>
        /\ \A i \in 1 .. Len(e) : l[i + 1] = e[i]
    BY <1>4, ZeroLayout DEF l
  <2>2. Zero!BitCount(e) \in Nat /\ (Len(e) # 0 => Zero!BitCount(e) # 0)
    BY <1>4, ZeroLayout
  <2>3. Zero!BitCount(e) \in Nat /\ Zero!BitCount(e) # 0
    BY <1>3, <1>4, <2>2
  <2> HIDE DEF k
  <2> QED  BY <1>4, <2>1, <2>3
<1>6. f \in Seq(ZeroWords) /\ Len(f) = n + 1 /\ f[1] = x /\ \A i \in 1 .. n : f[i + 1] = e[i]
  <2>1. x \in ZeroWords
    BY <1>3, <1>4, <1>5 DEF ZeroWords
  <2>2. f = <<x>> \o e
    BY DEF ZeroFinal
  <2> HIDE DEF f, x
  <2> QED  BY <1>4, <2>1, <2>2, InFront
<1>7. end \in Nat /\ s + k <= end /\ (s + k <= ByteCount <=> end <= ByteCount)
  <2>1. end = IF w # "Zero" THEN RoundUp(s + k) ELSE s + k
    BY DEF ZeroEnd, ZeroAfter
  <2> HIDE DEF k, end
  <2>2. s + k \in Nat
    BY <1>3, <1>5
  <2>3. /\ RoundUp(s + k) \in Nat /\ s + k <= RoundUp(s + k)
        /\ s + k <= ByteCount => RoundUp(s + k) <= ByteCount
    BY <2>2, RoundUpBounds
  <2> QED  BY <1>2, <2>1, <2>2, <2>3
<1> HIDE DEF l, f, k, end, x
<1>8. s \in ZeroSpot(s, e)
  BY <1>3, <1>5 DEF ZeroSpot, k
<1>9. ASSUME end <= ByteCount, NEW a \in ZeroSpot(s, e)
      PROVE  /\ a \in Addresses /\ a \in Nat /\ s <= a /\ a < end /\ a < s + k
             /\ a - s + 1 \in 1 .. n + 1
             /\ a # s => a - s \in 1 .. n /\ (a - s) + 1 = a - s + 1
  <2>1. a \in s .. s + k - 1
    BY <1>9 DEF ZeroSpot, k
  <2> QED  BY <1>2, <1>3, <1>5, <1>7, <1>9, <2>1 DEF Addresses
<1>10. ASSUME end <= ByteCount, NEW a \in ZeroSpot(s, e)
       PROVE  /\ l[a - s + 1] \in ZeroWords /\ f[a - s + 1] \in ZeroWords
              /\ a # s => f[a - s + 1] = l[a - s + 1]
  <2>1. l[a - s + 1] \in ZeroWords /\ f[a - s + 1] \in ZeroWords
    BY <1>5, <1>6, <1>9, <1>10
  <2>2. ASSUME a # s
        PROVE  f[a - s + 1] = l[a - s + 1]
    <3>1. a - s \in 1 .. n /\ (a - s) + 1 = a - s + 1
      BY <1>9, <1>10, <2>2
    <3>2. f[(a - s) + 1] = l[(a - s) + 1]
      BY <1>5, <1>6, <3>1
    <3> QED  BY <3>1, <3>2
  <2> QED  BY <2>1, <2>2
<1> QED  BY <1>3, <1>4, <1>5, <1>6, <1>7, <1>8, <1>9, <1>10 DEF l, f, k, end, x

\* <<s, e, n>> such that the entry e lies at s and the next one goes to n.
ZeroPlaces(w, m) ==
  {t \in Nat \X Zero!Entries \X Nat :
     t[3] = ZeroEnd(w, t[1], t[2]) /\ Laid(m, t[1], ZeroFinal(t[2]))}

ZeroEntry ==
  IF pc = "idle" THEN entry = <<>>
  ELSE entry \in Zero!Entries /\ ZeroEnd(writer, next_free, entry) <= ByteCount

\* The words of the entry being added, each on its way from zero ...
ZeroCopied ==
  pc = "copy" =>
    /\ todo \subseteq ZeroSpot(next_free, entry)
    /\ \A a \in ZeroSpot(next_free, entry) :
         /\ Rising(mem, a, Zero!Zero, Zero!Layout(entry)[a - next_free + 1])
         /\ a \in todo \/ Cached(mem, a) = Zero!Layout(entry)[a - next_free + 1]

\* ... and its header a second time; a blocked writer has only the first line
\* left to write back.
ZeroCounted ==
  pc = "persist" =>
    \A a \in ZeroSpot(next_free, entry) :
      LET w == ZeroFinal(entry)[a - next_free + 1]
      IN /\ Cached(mem, a) = w
         /\ IF a = next_free
            THEN /\ Flushed(mem, a) \in {Zero!Zero, <<Len(entry), 0>>, w}
                 /\ Durable(mem, a) \in {Zero!Zero, <<Len(entry), 0>>, w}
                 /\ Durable(mem, a) = w => Flushed(mem, a) = w
            ELSE Rising(mem, a, Zero!Zero, w)
         /\ Zero!Blocked /\ a \notin Zero!FirstLine(next_free) => Flushed(mem, a) = w

ZeroRest ==
  \A a \in Addresses :
    a >= next_free => (pc # "idle" /\ a \in ZeroSpot(next_free, entry))
                      \/ Settled(mem, a, Zero!Zero)

ZeroInv ==
  /\ Zero!TypeOK
  /\ ZeroEntry
  /\ Places(log, next_free, ZeroPlaces(writer, mem))
  /\ ZeroCopied
  /\ ZeroCounted
  /\ ZeroRest

(* What the invariant says of the variables in every state.                *)
LEMMA ZeroFacts ==
  ASSUME ZeroInv
  PROVE  /\ mem \in Memory(ZeroWords) /\ ByteCount \in Nat /\ Zero!Zero \in ZeroWords
         /\ next_free \in 0 .. ByteCount /\ writer \in Zero!Writers
         /\ log \in Seq(Zero!Entries)
         /\ pc # "idle" => /\ entry \in Zero!Entries
                           /\ ZeroEnd(writer, next_free, entry) <= ByteCount
         /\ pc = "idle" => entry = <<>>
         /\ todo \in SUBSET Addresses /\ pc \in {"idle", "copy", "persist"}
<1>1. /\ mem \in Memory(ZeroWords)
      /\ next_free \in 0 .. ByteCount /\ writer \in Zero!Writers
      /\ log \in Seq(Zero!Entries)
      /\ todo \in SUBSET Addresses /\ pc \in {"idle", "copy", "persist"}
  BY ZeroMemory DEF ZeroInv, Zero!TypeOK, Zero!Steps
<1>2. ByteCount \in Nat /\ Zero!Zero \in ZeroWords
  BY LogMemoryAssumption DEF ByteCount, Zero!Zero, ZeroWords
<1> QED  BY <1>1, <1>2 DEF ZeroInv, ZeroEntry

(* What lies in front of an end stays there while words behind it change.  *)
LEMMA ZeroPlacesKept ==
  ASSUME NEW w, NEW m, NEW n, NEW end \in 0 .. ByteCount, NEW found \in Seq(Zero!Entries),
         Places(found, end, ZeroPlaces(w, m)),
         \A a, v : a \in Addresses /\ a < end /\ Settled(m, a, v) => Settled(n, a, v)
  PROVE  Places(found, end, ZeroPlaces(w, n))
<1>0. ByteCount \in Nat
  BY LogMemoryAssumption DEF ByteCount
<1>1. ASSUME NEW s \in 0 .. end, NEW to \in 0 .. end, NEW e \in Zero!Entries,
             <<s, e, to>> \in ZeroPlaces(w, m)
      PROVE  <<s, e, to>> \in ZeroPlaces(w, n)
  <2>1. to = ZeroEnd(w, s, e) /\ Laid(m, s, ZeroFinal(e))
    BY <1>1 DEF ZeroPlaces
  <2>2. s \in Nat /\ to \in Nat /\ end \in Nat /\ end <= ByteCount
    BY <1>0
  <2>3. Len(ZeroFinal(e)) \in Nat /\ s + Len(ZeroFinal(e)) <= end
    <3>1. /\ Len(e) \in Nat \ {0} /\ Zero!Size(e) = Len(e) + 1
          /\ Len(ZeroFinal(e)) = Zero!Size(e)
          /\ s + Zero!Size(e) <= ZeroEnd(w, s, e)
      BY <2>2, ZeroSizes
    <3>2. s + Zero!Size(e) <= to
      BY <2>1, <3>1
    <3> QED  BY <2>2, <3>1, <3>2
  <2>4. Laid(n, s, ZeroFinal(e))
    BY <2>1, <2>2, <2>3, LaidKept
  <2> QED  BY <2>1, <2>2, <2>4 DEF ZeroPlaces
<1>2. end \in Nat
  BY <1>0
<1> QED  BY <1>1, <1>2, PlacesKeep, Zenon

(* An empty log in zeroed memory.                                          *)
LEMMA ZeroInit ==
  ASSUME Zero!Init PROVE ZeroInv
<1>1. /\ writer \in Zero!Writers /\ mem = Filled(Zero!Zero) /\ next_free = 0
      /\ pc = "idle" /\ entry = <<>> /\ todo = {} /\ log = <<>>
  BY ZeroMemory DEF Zero!Init
<1>2. ByteCount \in Nat /\ Zero!Zero \in ZeroWords
  BY LogMemoryAssumption DEF ByteCount, Zero!Zero, ZeroWords
<1>3. mem \in Memory(ZeroWords) /\ \A a \in Addresses : Settled(mem, a, Zero!Zero)
  BY <1>1, <1>2, FilledOps
<1>4. Zero!TypeOK
  <2>1. mem \in [Zero!LogLines -> Zero!LineSet([Zero!Slots -> Nat \X Nat])]
    BY <1>3, ZeroMemory
  <2>2. next_free \in 0 .. Zero!ByteCount
    BY <1>1, <1>2, ZeroMemory
  <2>3. /\ log \in Seq(Zero!Entries) /\ entry \in Zero!Entries \union {<<>>}
        /\ todo \in SUBSET Zero!Addresses /\ pc \in Zero!Steps
    BY <1>1 DEF Zero!Steps
  <2> QED  BY <1>1, <2>1, <2>2, <2>3 DEF Zero!TypeOK
<1>5. Places(log, next_free, ZeroPlaces(writer, mem))
  BY <1>1, PlacesEmpty
<1>6. ZeroEntry /\ ZeroCopied /\ ZeroCounted /\ ZeroRest
  BY <1>1, <1>3 DEF ZeroEntry, ZeroCopied, ZeroCounted, ZeroRest
<1> QED  BY <1>4, <1>5, <1>6 DEF ZeroInv

(* The entry to be added lies where the memory is zero.                    *)
LEMMA ZeroAddLogEntry ==
  ASSUME ZeroInv, NEW e \in Zero!Entries, Zero!AddLogEntry(e)
  PROVE  ZeroInv'
<1>1. /\ pc = "idle" /\ ZeroEnd(writer, next_free, e) <= ByteCount
      /\ entry' = e /\ todo' = ZeroSpot(next_free, e) /\ pc' = "copy"
      /\ writer' = writer /\ mem' = mem /\ next_free' = next_free /\ log' = log
  BY ZeroMemory DEF Zero!AddLogEntry, ZeroSpot, Zero!Region
<1>2. next_free \in Nat
  BY ZeroFacts
<1>3. \A a \in ZeroSpot(next_free, e) : a \in Addresses /\ next_free <= a
  BY <1>1, <1>2, ZeroSizes
<1>4. Zero!TypeOK'
  BY <1>1, <1>3, ZeroMemory DEF ZeroInv, Zero!TypeOK, Zero!Steps
<1>5. ZeroEntry' /\ ZeroCounted'
  BY <1>1 DEF ZeroEntry, ZeroCounted
<1>6. \A a \in Addresses : a >= next_free => Settled(mem, a, Zero!Zero)
  BY <1>1 DEF ZeroInv, ZeroRest
<1>7. ZeroCopied'
  <2>1. ASSUME NEW a \in ZeroSpot(next_free, e)
        PROVE  Rising(mem, a, Zero!Zero, Zero!Layout(e)[a - next_free + 1])
    <3>1. Settled(mem, a, Zero!Zero)
      BY <1>2, <1>3, <1>6, AddressParts
    <3> QED  BY <3>1 DEF Settled, Rising
  <2> QED  BY <1>1, <2>1 DEF ZeroCopied
<1>8. ZeroRest'
  BY <1>1, <1>6 DEF ZeroRest
<1>9. Places(log, next_free, ZeroPlaces(writer, mem))'
  BY <1>1 DEF ZeroInv
<1> QED  BY <1>4, <1>5, <1>7, <1>8, <1>9 DEF ZeroInv

(* What the steps that store, write back or fence have in common: the log  *)
(* and the memory past the entry are left as they are.                     *)
LEMMA ZeroAround ==
  ASSUME ZeroInv, pc # "idle", NEW n,
         \A a, v : a \in Addresses /\ a \notin ZeroSpot(next_free, entry)
                     /\ Settled(mem, a, v) => Settled(n, a, v)
  PROVE  /\ Places(log, next_free, ZeroPlaces(writer, n))
         /\ \A a \in Addresses : a >= next_free =>
              a \in ZeroSpot(next_free, entry) \/ Settled(n, a, Zero!Zero)
<1>1. /\ next_free \in 0 .. ByteCount /\ ByteCount \in Nat /\ log \in Seq(Zero!Entries)
      /\ entry \in Zero!Entries /\ ZeroEnd(writer, next_free, entry) <= ByteCount
  BY ZeroFacts
<1>2. \A a \in ZeroSpot(next_free, entry) : a \in Nat /\ next_free <= a
  <2>1. next_free \in Nat
    BY <1>1
  <2> QED  BY <1>1, <2>1, ZeroSizes
<1>3. \A a, v : a \in Addresses /\ a < next_free /\ Settled(mem, a, v) => Settled(n, a, v)
  <2>1. \A a \in Addresses : a < next_free => a \notin ZeroSpot(next_free, entry)
    BY <1>1, <1>2
  <2> QED  BY <2>1
<1>4. Places(log, next_free, ZeroPlaces(writer, mem))
  BY DEF ZeroInv
<1>5. Places(log, next_free, ZeroPlaces(writer, n))
  BY <1>1, <1>3, <1>4, ZeroPlacesKept
<1>6. \A a \in Addresses : a >= next_free =>
        a \in ZeroSpot(next_free, entry) \/ Settled(mem, a, Zero!Zero)
  BY DEF ZeroInv, ZeroRest
<1> QED  BY <1>5, <1>6

(* A word of the entry is copied.                                          *)
LEMMA ZeroCopyWord ==
  ASSUME ZeroInv, Zero!CopyWord
  PROVE  ZeroInv'
<1> DEFINE spot == ZeroSpot(next_free, entry)
           l == Zero!Layout(entry)
<1>1. PICK a \in todo :
        /\ mem' = StoreWord(mem, a, l[a - next_free + 1])
        /\ todo' = todo \ {a}
  BY ZeroMemory DEF Zero!CopyWord
<1>2. /\ pc = "copy" /\ writer' = writer /\ next_free' = next_free /\ pc' = pc
      /\ entry' = entry /\ log' = log
  BY DEF Zero!CopyWord
<1> DEFINE w == l[a - next_free + 1]
<1>3. /\ mem \in Memory(ZeroWords) /\ next_free \in 0 .. ByteCount /\ ByteCount \in Nat
      /\ log \in Seq(Zero!Entries) /\ entry \in Zero!Entries
      /\ ZeroEnd(writer, next_free, entry) <= ByteCount
      /\ todo \subseteq spot
  BY <1>2, ZeroFacts DEF ZeroInv, ZeroCopied
<1>4. \A b \in spot : b \in Addresses /\ next_free <= b /\ l[b - next_free + 1] \in ZeroWords
  <2>1. next_free \in Nat
    BY <1>3
  <2> QED  BY <1>3, <2>1, ZeroSizes
<1>5. a \in spot /\ a \in Addresses /\ w \in ZeroWords
  BY <1>3, <1>4
<1>6. mem' = StoreWord(mem, a, w)
  BY <1>1
<1> HIDE DEF w
<1>7. /\ mem' \in Memory(ZeroWords)
      /\ Raises(mem, mem', Addresses \ {a}) /\ Cached(mem', a) = w
      /\ \A o : Rising(mem, a, o, w) => Rising(mem', a, o, w)
      /\ Keeps(mem, mem', Addresses \ {a})
  <2>1. mem' \in Memory(ZeroWords)
    BY <1>3, <1>5, <1>6, StoreWordOps
  <2>2. /\ Raises(mem, mem', Addresses \ {a}) /\ Cached(mem', a) = w
        /\ \A o : Rising(mem, a, o, w) => Rising(mem', a, o, w)
    BY <1>3, <1>5, <1>6, StoreRaises
  <2>3. Keeps(mem, mem', Addresses \ {a})
    BY <1>3, <1>5, <1>6, SettledKept
  <2> QED  BY <2>1, <2>2, <2>3
<1>8. /\ Places(log, next_free, ZeroPlaces(writer, mem'))
      /\ \A b \in Addresses : b >= next_free => b \in spot \/ Settled(mem', b, Zero!Zero)
  <2>1. \A b, v : b \in Addresses /\ b \notin spot /\ Settled(mem, b, v) => Settled(mem', b, v)
    BY <1>5, <1>7 DEF Keeps
  <2>2. pc # "idle"
    BY <1>2
  <2> HIDE DEF spot
  <2> QED  BY <2>1, <2>2, ZeroAround DEF spot
<1>9. Zero!TypeOK'
  BY <1>1, <1>2, <1>7, ZeroMemory DEF ZeroInv, Zero!TypeOK
<1>10. ZeroEntry' /\ ZeroCounted' /\ ZeroRest'
  BY <1>2, <1>8 DEF ZeroInv, ZeroEntry, ZeroCounted, ZeroRest
<1>11. ZeroCopied'
  <2>1. ASSUME NEW b \in spot
        PROVE  /\ Rising(mem', b, Zero!Zero, l[b - next_free + 1])
               /\ b \in todo' \/ Cached(mem', b) = l[b - next_free + 1]
    <3>1. /\ Rising(mem, b, Zero!Zero, l[b - next_free + 1])
          /\ b \in todo \/ Cached(mem, b) = l[b - next_free + 1]
      BY <1>2 DEF ZeroInv, ZeroCopied
    <3>2. CASE b = a
      BY <1>7, <3>1, <3>2 DEF w
    <3>3. CASE b # a
      <4>1. b \in Addresses \ {a}
        BY <1>4, <3>3
      <4>2. Rising(mem', b, Zero!Zero, l[b - next_free + 1]) /\ Cached(mem', b) = Cached(mem, b)
        BY <1>7, <3>1, <4>1 DEF Raises
      <4> QED  BY <1>1, <3>1, <3>3, <4>2
    <3> QED  BY <3>2, <3>3
  <2>2. todo' \subseteq spot
    BY <1>1, <1>3
  <2> QED  BY <1>2, <2>1, <2>2 DEF ZeroCopied
<1> QED  BY <1>2, <1>8, <1>9, <1>10, <1>11 DEF ZeroInv

(* The bit count goes into the header.                                     *)
LEMMA ZeroSetBitCount ==
  ASSUME ZeroInv, Zero!SetBitCount
  PROVE  ZeroInv'
<1> DEFINE spot == ZeroSpot(next_free, entry)
           l == Zero!Layout(entry)
           f == ZeroFinal(entry)
           x == <<Len(entry), Zero!BitCount(entry)>>
           rest == IF Zero!Blocked THEN spot \ Zero!FirstLine(next_free) ELSE {}
           back == WriteBackWords(mem, rest)
<1>1. /\ pc = "copy" /\ todo = {} /\ pc' = "persist" /\ writer' = writer
      /\ next_free' = next_free /\ entry' = entry /\ todo' = todo /\ log' = log
      /\ mem' = StoreWord(back, next_free, x)
  BY ZeroMemory DEF Zero!SetBitCount, ZeroSpot, Zero!Region
<1>2. /\ mem \in Memory(ZeroWords) /\ next_free \in 0 .. ByteCount /\ ByteCount \in Nat
      /\ log \in Seq(Zero!Entries) /\ entry \in Zero!Entries
      /\ ZeroEnd(writer, next_free, entry) <= ByteCount
  BY <1>1, ZeroFacts
<1>3. next_free \in Nat
  BY <1>2
<1>4. /\ \A b \in spot : /\ b \in Addresses /\ next_free <= b
                         /\ f[b - next_free + 1] \in ZeroWords
                         /\ b # next_free => f[b - next_free + 1] = l[b - next_free + 1]
      /\ next_free \in spot /\ l[1] = <<Len(entry), 0>> /\ f[1] = x
      /\ Zero!BitCount(entry) \in Nat \ {0} /\ Len(entry) \in Nat \ {0}
  BY <1>2, <1>3, ZeroSizes
<1>5. next_free \in Addresses /\ x \in ZeroWords /\ next_free - next_free + 1 = 1
  BY <1>3, <1>4 DEF ZeroWords
<1>6. /\ back \in Memory(ZeroWords) /\ Raises(mem, back, Addresses)
      /\ Keeps(mem, back, Addresses)
      /\ \A b \in Addresses :
           /\ Cached(back, b) = Cached(mem, b)
           /\ Flushed(back, b) = IF Touched(rest, b) THEN Cached(mem, b) ELSE Flushed(mem, b)
           /\ Durable(back, b) = Durable(mem, b)
  <2>1. Raises(mem, back, Addresses) /\ Keeps(mem, back, Addresses)
    BY <1>2, RisingKept, SettledKept
  <2>2. /\ back \in Memory(ZeroWords)
        /\ \A b \in Addresses :
           /\ Cached(back, b) = Cached(mem, b)
           /\ Flushed(back, b) = IF Touched(rest, b) THEN Cached(mem, b) ELSE Flushed(mem, b)
           /\ Durable(back, b) = Durable(mem, b)
    BY <1>2, WriteBackOps
  <2> QED  BY <2>1, <2>2
<1> HIDE DEF back, x, f
<1>7. /\ mem' \in Memory(ZeroWords)
      /\ \A b \in Addresses :
           /\ Cached(mem', b) = IF b = next_free THEN x ELSE Cached(back, b)
           /\ Flushed(mem', b) = Flushed(back, b)
           /\ Durable(mem', b) = Durable(back, b)
  BY <1>1, <1>5, <1>6, StoreWordOps
<1>8. /\ Raises(back, mem', Addresses \ {next_free})
      /\ Keeps(back, mem', Addresses \ {next_free})
  <2>1. Raises(back, mem', Addresses \ {next_free})
    BY <1>1, <1>5, <1>6, StoreRaises
  <2>2. Keeps(back, mem', Addresses \ {next_free})
    BY <1>1, <1>5, <1>6, SettledKept
  <2> QED  BY <2>1, <2>2
<1>9. /\ Places(log, next_free, ZeroPlaces(writer, mem'))
      /\ \A b \in Addresses : b >= next_free => b \in spot \/ Settled(mem', b, Zero!Zero)
  <2>1. \A b, v : b \in Addresses /\ b \notin spot /\ Settled(mem, b, v) => Settled(mem', b, v)
    BY <1>4, <1>6, <1>8 DEF Keeps
  <2>2. pc # "idle"
    BY <1>1
  <2> HIDE DEF spot
  <2> QED  BY <2>1, <2>2, ZeroAround DEF spot
<1>10. Zero!TypeOK'
  BY <1>1, <1>7, ZeroMemory DEF ZeroInv, Zero!TypeOK, Zero!Steps
<1>11. ZeroEntry' /\ ZeroCopied' /\ ZeroRest'
  BY <1>1, <1>9 DEF ZeroInv, ZeroEntry, ZeroCopied, ZeroRest
<1>12. \A b \in spot : /\ Rising(mem, b, Zero!Zero, l[b - next_free + 1])
                       /\ Cached(mem, b) = l[b - next_free + 1]
  BY <1>1 DEF ZeroInv, ZeroCopied
<1>13. ASSUME NEW b \in spot
       PROVE  /\ Cached(mem', b) = f[b - next_free + 1]
              /\ b # next_free => Rising(mem', b, Zero!Zero, f[b - next_free + 1])
  <2>1. CASE b = next_free
    BY <1>4, <1>5, <1>7, <2>1
  <2>2. CASE b # next_free
    <3>1. b \in Addresses \ {next_free} /\ f[b - next_free + 1] = l[b - next_free + 1]
      BY <1>4, <2>2
    <3>2. Rising(back, b, Zero!Zero, l[b - next_free + 1])
      BY <1>6, <1>12, <3>1 DEF Raises
    <3>3. Rising(mem', b, Zero!Zero, l[b - next_free + 1])
      BY <1>8, <3>1, <3>2 DEF Raises
    <3>4. Cached(mem', b) = l[b - next_free + 1]
      BY <1>6, <1>7, <1>12, <3>1
    <3> QED  BY <3>1, <3>3, <3>4
  <2> QED  BY <2>1, <2>2
<1>14. /\ Flushed(mem', next_free) \in {Zero!Zero, <<Len(entry), 0>>}
       /\ Durable(mem', next_free) \in {Zero!Zero, <<Len(entry), 0>>}
  <2>1. Rising(mem, next_free, Zero!Zero, <<Len(entry), 0>>)
    BY <1>4, <1>5, <1>12
  <2>2. Rising(back, next_free, Zero!Zero, <<Len(entry), 0>>)
    BY <1>5, <1>6, <2>1 DEF Raises
  <2> QED  BY <1>5, <1>7, <2>2 DEF Rising
<1>15. x # Zero!Zero /\ x # <<Len(entry), 0>>
  BY <1>4 DEF x, Zero!Zero
<1>16. ASSUME NEW b \in spot, Zero!Blocked, b \notin Zero!FirstLine(next_free)
       PROVE  Flushed(mem', b) = f[b - next_free + 1]
  <2>1. b \in rest /\ b \in Addresses
    BY <1>4, <1>16
  <2>2. Flushed(back, b) = Cached(mem, b)
    BY <1>6, <2>1 DEF Touched
  <2>3. next_free \in Zero!FirstLine(next_free)
    <3>1. LineWords \in Nat \ {0}
      BY LogMemoryAssumption
    <3> QED  BY <1>3, <3>1 DEF Zero!FirstLine, Zero!Region
  <2>4. f[b - next_free + 1] = l[b - next_free + 1]
    BY <1>4, <1>16, <2>3
  <2> QED  BY <1>7, <1>12, <2>1, <2>2, <2>4
<1>17. ZeroCounted'
  <2>1. Zero!Blocked' = Zero!Blocked /\ Zero!FirstLine(next_free)' = Zero!FirstLine(next_free)
    BY <1>1 DEF Zero!Blocked, Zero!FirstLine, Zero!Region
  <2>2. ASSUME NEW b \in spot
        PROVE  LET w == f[b - next_free + 1]
               IN /\ Cached(mem', b) = w
                  /\ IF b = next_free
                     THEN /\ Flushed(mem', b) \in {Zero!Zero, <<Len(entry), 0>>, w}
                          /\ Durable(mem', b) \in {Zero!Zero, <<Len(entry), 0>>, w}
                          /\ Durable(mem', b) = w => Flushed(mem', b) = w
                     ELSE Rising(mem', b, Zero!Zero, w)
                  /\ Zero!Blocked /\ b \notin Zero!FirstLine(next_free) => Flushed(mem', b) = w
    <3>1. b = next_free => f[b - next_free + 1] = x
      BY <1>4, <1>5
    <3> QED  BY <1>13, <1>14, <1>15, <1>16, <3>1
  <2> QED  BY <1>1, <2>1, <2>2 DEF ZeroCounted, f
<1> QED  BY <1>1, <1>9, <1>10, <1>11, <1>17 DEF ZeroInv

(* When the bit count says so, the words of the entry are all in NVM.      *)
LEMMA ZeroPersistEntry ==
  ASSUME ZeroInv, Zero!PersistEntry
  PROVE  ZeroInv'
<1> DEFINE spot == ZeroSpot(next_free, entry)
           f == ZeroFinal(entry)
           end == ZeroEnd(writer, next_free, entry)
           as == IF Zero!Blocked THEN Zero!FirstLine(next_free) ELSE spot
<1>1. /\ pc = "persist" /\ pc' = "idle" /\ writer' = writer
      /\ next_free' = end /\ entry' = <<>> /\ todo' = todo /\ log' = Append(log, entry)
      /\ mem' = PersistWords(mem, as)
  BY ZeroMemory DEF Zero!PersistEntry, ZeroSpot, Zero!Region
<1>2. /\ mem \in Memory(ZeroWords) /\ next_free \in 0 .. ByteCount /\ ByteCount \in Nat
      /\ log \in Seq(Zero!Entries) /\ entry \in Zero!Entries /\ end <= ByteCount
  BY <1>1, ZeroFacts
<1>3. next_free \in Nat
  BY <1>2
<1>4. /\ \A b \in spot : b \in Addresses /\ b < end
      /\ end \in Nat /\ next_free + Zero!Size(entry) <= end
      /\ Len(f) = Zero!Size(entry) /\ Zero!Size(entry) \in Nat
  <2>1. \A b \in spot : b \in Addresses /\ b < end
    BY <1>2, <1>3, ZeroSizes
  <2>2. /\ end \in Nat /\ next_free + Zero!Size(entry) <= end
        /\ Len(f) = Zero!Size(entry)
        /\ Zero!Size(entry) = Len(entry) + 1 /\ Len(entry) \in Nat
    BY <1>2, <1>3, ZeroSizes
  <2> HIDE DEF spot, end, f
  <2> QED  BY <2>1, <2>2
<1>5. mem' \in Memory(ZeroWords) /\ Keeps(mem, mem', Addresses)
  BY <1>1, <1>2, PersistOps, SettledKept
<1>6. ASSUME NEW b \in spot
      PROVE  Settled(mem', b, f[b - next_free + 1])
  <2>1. /\ Cached(mem, b) = f[b - next_free + 1] /\ b \in Addresses
        /\ Zero!Blocked /\ b \notin Zero!FirstLine(next_free) =>
             Flushed(mem, b) = f[b - next_free + 1]
    BY <1>1, <1>4 DEF ZeroInv, ZeroCounted
  <2>2. CASE b \in as
    BY <1>1, <1>2, <2>1, <2>2, PersistSettles
  <2>3. CASE b \notin as
    <3>1. Flushed(mem, b) = f[b - next_free + 1]
      BY <2>1, <2>3
    <3> HIDE DEF f, as
    <3>2. /\ Cached(mem', b) = Cached(mem, b)
          /\ Flushed(mem', b) \in {Cached(mem, b), Flushed(mem, b)}
          /\ Durable(mem', b) = Flushed(mem', b)
      BY <1>1, <1>2, <2>1, PersistOps
    <3> QED  BY <2>1, <3>1, <3>2 DEF Settled
  <2> QED  BY <2>2, <2>3
<1>7. Laid(mem', next_free, f)
  <2>1. spot = next_free .. next_free + Len(f) - 1
    BY <1>4 DEF ZeroSpot
  <2> QED  BY <1>6, <2>1 DEF Laid
<1>8. /\ Places(log, next_free, ZeroPlaces(writer, mem'))
      /\ \A b \in Addresses : b >= next_free => b \in spot \/ Settled(mem', b, Zero!Zero)
  <2>1. \A b, v : b \in Addresses /\ b \notin spot /\ Settled(mem, b, v) => Settled(mem', b, v)
    BY <1>5 DEF Keeps
  <2>2. pc # "idle"
    BY <1>1
  <2> HIDE DEF spot
  <2> QED  BY <2>1, <2>2, ZeroAround DEF spot
<1> HIDE DEF end, as
<1>9. <<next_free, entry, end>> \in ZeroPlaces(writer, mem')
  BY <1>2, <1>3, <1>4, <1>7 DEF ZeroPlaces, end
<1>10. next_free <= end
  <2> HIDE DEF f
  <2> QED  BY <1>3, <1>4
<1>11. Places(log, next_free, ZeroPlaces(writer, mem))'
  <2>1. Places(Append(log, entry), end, ZeroPlaces(writer, mem'))
    BY <1>2, <1>3, <1>4, <1>8, <1>9, <1>10, PlacesAppend
  <2> QED  BY <1>1, <2>1
<1>12. Zero!TypeOK'
  <2>1. end \in 0 .. ByteCount
    BY <1>2, <1>4
  <2>2. Append(log, entry) \in Seq(Zero!Entries)
    BY <1>2
  <2> QED  BY <1>1, <1>5, <2>1, <2>2, ZeroMemory DEF ZeroInv, Zero!TypeOK, Zero!Steps
<1>13. ZeroRest'
  <2>1. \A b \in Addresses : b >= end => b >= next_free /\ b \notin spot
    <3>1. \A b \in Addresses : b \in Nat
      BY AddressParts
    <3> HIDE DEF spot, f
    <3> QED  BY <1>3, <1>4, <1>10, <3>1
  <2> QED  BY <1>1, <1>8, <2>1 DEF ZeroRest
<1>14. ZeroEntry' /\ ZeroCopied' /\ ZeroCounted'
  BY <1>1 DEF ZeroEntry, ZeroCopied, ZeroCounted
<1> QED  BY <1>11, <1>12, <1>13, <1>14 DEF ZeroInv

(* A line the cache writes back has the words of the entry it holds.       *)
LEMMA ZeroDrift ==
  ASSUME ZeroInv, Zero!Drift
  PROVE  ZeroInv'
<1> DEFINE spot == ZeroSpot(next_free, entry)
<1>1. /\ mem' \in LineDrift(mem) /\ pc' = pc /\ writer' = writer
      /\ next_free' = next_free /\ entry' = entry /\ todo' = todo /\ log' = log
  BY ZeroMemory DEF Zero!Drift
<1>2. /\ mem \in Memory(ZeroWords) /\ next_free \in 0 .. ByteCount /\ ByteCount \in Nat
      /\ log \in Seq(Zero!Entries)
      /\ pc # "idle" => /\ entry \in Zero!Entries
                        /\ ZeroEnd(writer, next_free, entry) <= ByteCount
  BY ZeroFacts
<1>3. next_free \in Nat
  BY <1>2
<1>4. ASSUME pc # "idle", NEW b \in spot PROVE b \in Addresses
  <2>1. entry \in Zero!Entries /\ ZeroEnd(writer, next_free, entry) <= ByteCount
    BY <1>2, <1>4
  <2> QED  BY <1>3, <1>4, <2>1, ZeroSizes
<1>5. /\ mem' \in Memory(ZeroWords) /\ Keeps(mem, mem', Addresses)
      /\ Raises(mem, mem', Addresses)
      /\ \A b \in Addresses :
           /\ Cached(mem', b) = Cached(mem, b)
           /\ \/ Flushed(mem', b) = Flushed(mem, b) /\ Durable(mem', b) = Durable(mem, b)
              \/ Flushed(mem', b) = Cached(mem, b) /\ Durable(mem', b) = Cached(mem, b)
  <2>1. Keeps(mem, mem', Addresses) /\ Raises(mem, mem', Addresses)
    BY <1>1, <1>2, RisingKept, SettledKept
  <2> QED  BY <1>1, <1>2, <2>1, LineDriftOps
<1>6. Places(log, next_free, ZeroPlaces(writer, mem))'
  <2>1. \A a, v : a \in Addresses /\ a < next_free /\ Settled(mem, a, v) => Settled(mem', a, v)
    BY <1>5 DEF Keeps
  <2>2. Places(log, next_free, ZeroPlaces(writer, mem))
    BY DEF ZeroInv
  <2>3. Places(log, next_free, ZeroPlaces(writer, mem'))
    BY <1>2, <2>1, <2>2, ZeroPlacesKept
  <2> QED  BY <1>1, <2>3
<1>7. ZeroRest'
  BY <1>1, <1>5 DEF ZeroInv, ZeroRest, Keeps
<1>8. Zero!TypeOK'
  BY <1>1, <1>5, ZeroMemory DEF ZeroInv, Zero!TypeOK
<1>9. ZeroEntry'
  BY <1>1 DEF ZeroInv, ZeroEntry
<1>10. ZeroCopied'
  <2>1. ASSUME pc = "copy", NEW b \in spot
        PROVE  LET w == Zero!Layout(entry)[b - next_free + 1]
               IN Rising(mem', b, Zero!Zero, w) /\ (b \in todo \/ Cached(mem', b) = w)
    <3>1. LET w == Zero!Layout(entry)[b - next_free + 1]
          IN Rising(mem, b, Zero!Zero, w) /\ (b \in todo \/ Cached(mem, b) = w)
      BY <2>1 DEF ZeroInv, ZeroCopied
    <3>2. b \in Addresses
      BY <1>4, <2>1
    <3> QED  BY <1>5, <3>1, <3>2 DEF Raises
  <2>2. pc = "copy" => todo \subseteq spot
    BY DEF ZeroInv, ZeroCopied
  <2> QED  BY <1>1, <2>1, <2>2 DEF ZeroCopied
<1>11. ZeroCounted'
  <2>1. ASSUME pc = "persist", NEW b \in spot, NEW w, w = ZeroFinal(entry)[b - next_free + 1]
        PROVE  /\ Cached(mem', b) = w
               /\ IF b = next_free
                  THEN /\ Flushed(mem', b) \in {Zero!Zero, <<Len(entry), 0>>, w}
                       /\ Durable(mem', b) \in {Zero!Zero, <<Len(entry), 0>>, w}
                       /\ Durable(mem', b) = w => Flushed(mem', b) = w
                  ELSE Rising(mem', b, Zero!Zero, w)
               /\ Zero!Blocked /\ b \notin Zero!FirstLine(next_free) => Flushed(mem', b) = w
    <3>1. /\ Cached(mem, b) = w
          /\ IF b = next_free
             THEN /\ Flushed(mem, b) \in {Zero!Zero, <<Len(entry), 0>>, w}
                  /\ Durable(mem, b) \in {Zero!Zero, <<Len(entry), 0>>, w}
                  /\ Durable(mem, b) = w => Flushed(mem, b) = w
             ELSE Rising(mem, b, Zero!Zero, w)
          /\ Zero!Blocked /\ b \notin Zero!FirstLine(next_free) => Flushed(mem, b) = w
      BY <2>1 DEF ZeroInv, ZeroCounted
    <3>2. b \in Addresses
      BY <1>4, <2>1
    <3>3. CASE b = next_free
      BY <1>5, <3>1, <3>2, <3>3
    <3>4. CASE b # next_free
      <4>1. Rising(mem', b, Zero!Zero, w)
        BY <1>5, <3>1, <3>2, <3>4 DEF Raises
      <4> QED  BY <1>5, <3>1, <3>2, <3>4, <4>1
    <3> QED  BY <3>3, <3>4
  <2>2. Zero!Blocked' = Zero!Blocked /\ Zero!FirstLine(next_free)' = Zero!FirstLine(next_free)
    BY <1>1 DEF Zero!Blocked, Zero!FirstLine, Zero!Region
  <2> HIDE DEF spot
  <2> QED  BY <1>1, <2>1, <2>2 DEF ZeroCounted, spot
<1> QED  BY <1>6, <1>7, <1>8, <1>9, <1>10, <1>11 DEF ZeroInv

\* The entry at s has, in NVM, as many bits as its header says.
ZeroWhole(m, s) ==
  LET n == Durable(m, s)[1]
  IN /\ n > 0
     /\ s + n < ByteCount
     /\ Durable(m, s)[2] = Zero!BitCount([i \in 1 .. n |-> Durable(m, s + i)])

(* A log that ends where no entry is whole is read as it was written.      *)
LEMMA ZeroReading ==
  ASSUME mem \in Memory(ZeroWords), NEW end \in 0 .. ByteCount,
         end < ByteCount => ~ ZeroWhole(mem, end),
         NEW found \in Seq(Zero!Entries), Places(found, end, ZeroPlaces(writer, mem))
  PROVE  Zero!Recovered = found
<1> DEFINE D(s) == Durable(mem, s)
           n(s) == D(s)[1]
           p(s) == [i \in 1 .. n(s) |-> D(s + i)]
           to(s) == ZeroAfter(writer, s, n(s) + 1)
           whole(s) == n(s) > 0 /\ s + n(s) < ByteCount /\ D(s)[2] = Zero!BitCount(p(s))
           W == {s \in 0 .. ByteCount : s < ByteCount /\ whole(s)}
           P == [s \in W |-> p(s)]
           N == [s \in W |-> to(s)]
           read == CHOOSE f : IsReading(f, ByteCount, W, P, N)
<1>1. ByteCount \in Nat
  BY LogMemoryAssumption DEF ByteCount
<1>2. ASSUME NEW s \in 0 .. ByteCount, s < ByteCount
      PROVE  n(s) \in Nat
  <2>1. s \in Addresses
    BY <1>1, <1>2 DEF Addresses
  <2>2. D(s) \in Nat \X Nat
    BY <2>1, WordTypes DEF ZeroWords
  <2> HIDE DEF D
  <2> QED  BY <2>2
<1>3. Zero!Recovered = read[0]
  <2> DEFINE F(s, f) ==
               IF s < Zero!ByteCount
                    /\ /\ Zero!Durable(mem, s)[1] > 0
                       /\ s + Zero!Durable(mem, s)[1] < Zero!ByteCount
                       /\ Zero!Durable(mem, s)[2] =
                            Zero!BitCount([i \in 1 .. Zero!Durable(mem, s)[1] |->
                                             Zero!Durable(mem, s + i)])
               THEN <<[i \in 1 .. Zero!Durable(mem, s)[1] |-> Zero!Durable(mem, s + i)]>>
                      \o f[Zero!After(s, Zero!Durable(mem, s)[1] + 1)]
               ELSE <<>>
             G(f) == f = [s \in 0 .. Zero!ByteCount |-> F(s, f)]
  <2>1. Zero!Recovered = (CHOOSE f : G(f))[0]
    BY DEF Zero!Recovered, Zero!ReadLog
  <2>2. ASSUME NEW f
        PROVE  G(f) <=> IsReading(f, ByteCount, W, P, N)
    <3>1. ASSUME NEW s \in 0 .. ByteCount
          PROVE  F(s, f) = (IF s \in W THEN <<P[s]>> \o f[N[s]] ELSE <<>>)
      <4>1. /\ Zero!ByteCount = ByteCount
            /\ \A a : Zero!Durable(mem, a) = D(a)
            /\ Zero!After(s, n(s) + 1) = to(s)
        BY ZeroMemory
      <4>2. [i \in 1 .. Zero!Durable(mem, s)[1] |-> Zero!Durable(mem, s + i)] = p(s)
        BY <4>1
      <4>3. Zero!Durable(mem, s)[1] = n(s) /\ Zero!Durable(mem, s)[2] = D(s)[2]
        BY <4>1
      <4>4. s \in W => P[s] = p(s) /\ N[s] = to(s)
        OBVIOUS
      <4>5. s \in W <=> s < ByteCount /\ whole(s)
        OBVIOUS
      <4>6. F(s, f) = IF s < ByteCount /\ whole(s) THEN <<p(s)>> \o f[to(s)] ELSE <<>>
        <5> HIDE DEF D, n, p, to, W, P, N
        <5> QED  BY <4>1, <4>2, <4>3
      <4> HIDE DEF D, n, p, to, W, P, N, whole, F
      <4> QED  BY <4>4, <4>5, <4>6
    <3> QED  BY <3>1, ZeroMemory DEF IsReading
  <2> HIDE DEF G
  <2>3. (CHOOSE f : G(f)) = read
    BY <2>2
  <2> QED  BY <2>1, <2>3
<1>4. ASSUME NEW s \in W
      PROVE  N[s] \in s + 1 .. ByteCount
  <2>1. s \in Nat /\ s < ByteCount /\ n(s) \in Nat /\ s + n(s) < ByteCount
    BY <1>1, <1>2
  <2> DEFINE d == n(s)
  <2>2. N[s] = ZeroAfter(writer, s, d + 1)
    OBVIOUS
  <2> HIDE DEF d
  <2>3. d \in Nat /\ s + d < ByteCount
    BY <2>1 DEF d
  <2>4. /\ RoundUp(s + (d + 1)) \in Nat /\ s + (d + 1) <= RoundUp(s + (d + 1))
        /\ s + (d + 1) <= ByteCount => RoundUp(s + (d + 1)) <= ByteCount
    <3>1. s + (d + 1) \in Nat
      BY <2>1, <2>3
    <3> QED  BY <3>1, RoundUpBounds, Zenon
  <2>5. ZeroAfter(writer, s, d + 1) \in s + 1 .. ByteCount
    BY <1>1, <2>1, <2>3, <2>4 DEF ZeroAfter
  <2> QED  BY <2>2, <2>5
<1>5. Reader(read, ByteCount, W, P, N)
  <2> HIDE DEF W, P, N
  <2>1. GoesForward(ByteCount, W, N)
    BY <1>4 DEF GoesForward
  <2> QED  BY <1>1, <2>1, ChosenReader
<1>6. ASSUME NEW s \in 0 .. end, NEW t \in 0 .. end, NEW e \in Zero!Entries,
             <<s, e, t>> \in ZeroPlaces(writer, mem)
      PROVE  s \in W /\ P[s] = e /\ N[s] = t
  <2>1. t = ZeroEnd(writer, s, e) /\ Laid(mem, s, ZeroFinal(e))
    BY <1>6 DEF ZeroPlaces
  <2> DEFINE l == ZeroFinal(e)
             k == Len(e)
  <2>2. s \in Nat /\ t \in Nat /\ t <= ByteCount
    BY <1>1
  <2>3. /\ k \in Nat \ {0} /\ Zero!Size(e) = k + 1 /\ e \in Seq(ZeroWords)
        /\ s + (k + 1) <= t /\ Len(l) = k + 1
        /\ l[1] = <<k, Zero!BitCount(e)>> /\ \A i \in 1 .. k : l[i + 1] = e[i]
    <3>1. /\ k \in Nat \ {0} /\ Zero!Size(e) = k + 1 /\ e \in Seq(ZeroWords)
          /\ s + Zero!Size(e) <= ZeroEnd(writer, s, e) /\ Len(l) = Zero!Size(e)
          /\ l[1] = <<k, Zero!BitCount(e)>> /\ \A i \in 1 .. k : l[i + 1] = e[i]
      BY <2>2, ZeroSizes
    <3> HIDE DEF k, l
    <3> QED  BY <2>1, <3>1
  <2>4. \A a \in s .. s + k : D(a) = l[a - s + 1]
    <3>1. \A a \in s .. s + Len(l) - 1 : Settled(mem, a, l[a - s + 1])
      BY <2>1 DEF Laid
    <3>2. s + Len(l) - 1 = s + k
      BY <2>2, <2>3
    <3> QED  BY <3>1, <3>2 DEF Settled
  <2>5. D(s) = <<k, Zero!BitCount(e)>> /\ \A i \in 1 .. k : D(s + i) = e[i]
    <3> HIDE DEF D, l, k
    <3>1. s \in s .. s + k /\ s - s + 1 = 1
      BY <2>2, <2>3
    <3>2. ASSUME NEW i \in 1 .. k
          PROVE  s + i \in s .. s + k /\ (s + i) - s + 1 = i + 1
      BY <2>2, <2>3
    <3> QED  BY <2>3, <2>4, <3>1, <3>2
  <2>6. n(s) = k /\ p(s) = e
    <3>1. e = [i \in 1 .. k |-> e[i]]
      BY <2>3
    <3>2. n(s) = k
      BY <2>5
    <3> HIDE DEF D, n, k
    <3> QED  BY <2>5, <3>1, <3>2
  <2>7. to(s) = t
    BY <2>1, <2>3, <2>6 DEF ZeroEnd
  <2>8. whole(s) /\ s < ByteCount
    <3>1. D(s)[2] = Zero!BitCount(e)
      BY <2>5
    <3> HIDE DEF D, n, k, p, l
    <3> QED  BY <1>1, <2>2, <2>3, <2>6, <3>1
  <2>9. s \in W
    BY <1>1, <2>2, <2>8
  <2> QED  BY <2>6, <2>7, <2>9
<1>7. end \notin W /\ end \in Nat /\ end <= ByteCount
  BY <1>1 DEF ZeroWhole
<1>8. read[0] = found
  <2> HIDE DEF W, P, N, read
  <2> QED  BY <1>1, <1>5, <1>6, <1>7, PlacesRead
<1> QED  BY <1>3, <1>8

(* An entry not all of which has arrived is not whole.                     *)
LEMMA ZeroStops ==
  ASSUME mem \in Memory(ZeroWords), NEW s \in Nat, NEW e \in Zero!Entries,
         s + Len(e) < ByteCount,
         \/ Durable(mem, s) \in {Zero!Zero, <<Len(e), 0>>}
         \/ /\ Durable(mem, s) = <<Len(e), Zero!BitCount(e)>>
            /\ \A i \in 1 .. Len(e) : Durable(mem, s + i) \in {Zero!Zero, e[i]}
            /\ \E i \in 1 .. Len(e) : Durable(mem, s + i) # e[i]
  PROVE  ~ ZeroWhole(mem, s)
<1> DEFINE d == Durable(mem, s)
           k == Len(e)
           p == [i \in 1 .. k |-> Durable(mem, s + i)]
<1>1. e \in Seq(ZeroWords) /\ k \in Nat \ {0}
  BY ZeroSizes
<1>2. p \in Seq(ZeroWords) /\ Len(p) = k
  <2>1. ASSUME NEW i \in 1 .. k
        PROVE  Durable(mem, s + i) \in ZeroWords
    <3>1. ByteCount \in Nat
      BY LogMemoryAssumption DEF ByteCount
    <3>2. s + i \in Addresses
      BY <1>1, <2>1, <3>1 DEF Addresses
    <3> QED  BY <3>2, WordTypes
  <2> HIDE DEF k
  <2> QED  BY <1>1, <2>1
<1>3. CASE d = Zero!Zero
  <2>1. d[1] = 0
    BY <1>3 DEF Zero!Zero
  <2> QED  BY <2>1 DEF ZeroWhole
<1>4. CASE d = <<k, 0>>
  <2>1. Zero!BitCount(p) # 0
    BY <1>1, <1>2, ZeroLayout
  <2>2. d[1] = k /\ d[2] = 0
    BY <1>4
  <2> QED  BY <2>1, <2>2 DEF ZeroWhole
<1>5. CASE /\ d = <<k, Zero!BitCount(e)>>
           /\ \A i \in 1 .. k : Durable(mem, s + i) \in {Zero!Zero, e[i]}
           /\ \E i \in 1 .. k : Durable(mem, s + i) # e[i]
  <2>1. p # e
    BY <1>5
  <2>2. \A i \in 1 .. k : p[i] \in {Zero!Zero, e[i]}
    BY <1>5
  <2> HIDE DEF p
  <2>3. Zero!BitCount(p) # Zero!BitCount(e)
    BY <1>1, <1>2, <2>1, <2>2, ZeroCounts
  <2>4. d[1] = k /\ d[2] = Zero!BitCount(e)
    BY <1>5
  <2> QED  BY <2>3, <2>4 DEF ZeroWhole, p
<1> QED  BY <1>3, <1>4, <1>5

\* The entry being added is in NVM, bit count and all.
ZeroArrived == pc = "persist" /\ Laid(mem, next_free, ZeroFinal(entry))

\* What a power failure leaves of the log.
ZeroShown ==
  /\ Adding = IF pc = "idle" THEN <<>> ELSE <<entry>>
  /\ Recovered = IF ZeroArrived THEN log \o Adding ELSE log

(* It leaves the entries added, and the one being added once it is there.  *)
LEMMA ZeroIsFaithful ==
  ZeroInv => ZeroShown /\ Faithful
<1> SUFFICES ASSUME ZeroInv PROVE ZeroShown /\ Faithful
  OBVIOUS
<1>1. /\ mem \in Memory(ZeroWords) /\ ByteCount \in Nat
      /\ next_free \in 0 .. ByteCount /\ writer \in Zero!Writers
      /\ log \in Seq(Zero!Entries) /\ pc \in {"idle", "copy", "persist"}
      /\ pc # "idle" => /\ entry \in Zero!Entries
                        /\ ZeroEnd(writer, next_free, entry) <= ByteCount
  BY ZeroFacts
<1>2. writer \in Writers \ Classic!Writers
  BY <1>1 DEF Writers, Zero!Writers, Classic!Writers
<1>3. /\ Recovered = Zero!Recovered
      /\ Adding = IF pc = "idle" THEN <<>> ELSE <<entry>>
  BY <1>1, <1>2, Families
<1>4. next_free \in Nat /\ Places(log, next_free, ZeroPlaces(writer, mem))
  BY <1>1 DEF ZeroInv
<1>5. ASSUME next_free < ByteCount => ~ ZeroWhole(mem, next_free)
      PROVE  Zero!Recovered = log
  BY <1>1, <1>4, <1>5, ZeroReading
<1>6. CASE pc = "idle"
  <2>1. ASSUME next_free < ByteCount PROVE ~ ZeroWhole(mem, next_free)
    <3>1. next_free \in Addresses
      BY <1>1, <2>1 DEF Addresses
    <3>2. Durable(mem, next_free) = Zero!Zero
      BY <1>4, <1>6, <3>1 DEF ZeroInv, ZeroRest, Settled
    <3> QED  BY <3>2 DEF ZeroWhole, Zero!Zero
  <2> QED  BY <1>3, <1>5, <1>6, <2>1 DEF ZeroShown, Faithful, ZeroArrived
<1>7. CASE pc # "idle"
  <2> DEFINE s == next_free
             k == Len(entry)
             f == ZeroFinal(entry)
             end == ZeroEnd(writer, next_free, entry)
             spot == ZeroSpot(next_free, entry)
  <2>1. entry \in Zero!Entries /\ end <= ByteCount
    BY <1>1, <1>7
  <2>2. /\ k \in Nat \ {0} /\ Zero!Size(entry) = k + 1 /\ s + Zero!Size(entry) <= end
        /\ end \in Nat /\ Zero!BitCount(entry) \in Nat \ {0}
        /\ Len(f) = Zero!Size(entry) /\ f[1] = <<k, Zero!BitCount(entry)>>
        /\ Zero!Layout(entry)[1] = <<k, 0>>
        /\ \A i \in 1 .. k : f[i + 1] = entry[i]
        /\ s \in spot
    BY <1>4, <2>1, ZeroSizes
  <2>3. s + k < end /\ s < end /\ s + k < ByteCount /\ s < ByteCount
    <3> HIDE DEF end, k
    <3> QED  BY <1>1, <1>4, <2>1, <2>2
  <2>4. s - s + 1 = 1 /\ \A i \in 1 .. k : s + i \in spot /\ s + i # s /\ (s + i) - s + 1 = i + 1
    <3>1. spot = s .. s + (k + 1) - 1
      BY <2>2 DEF ZeroSpot
    <3> HIDE DEF spot, k
    <3> QED  BY <1>4, <2>2, <3>1
  <2>5. log \o <<entry>> = Append(log, entry) /\ Append(log, entry) \in Seq(Zero!Entries)
    BY <1>1, <2>1
  <2>6. Adding = <<entry>>
    BY <1>3, <1>7
  <2>7. CASE pc = "copy"
    <3>1. Rising(mem, s, Zero!Zero, <<k, 0>>)
      BY <2>2, <2>4, <2>7 DEF ZeroInv, ZeroCopied
    <3>2. Durable(mem, s) \in {Zero!Zero, <<k, 0>>}
      BY <3>1 DEF Rising
    <3>3. ~ ZeroWhole(mem, s)
      BY <1>1, <1>4, <2>1, <2>3, <3>2, ZeroStops
    <3>4. Recovered = log
      BY <1>3, <1>5, <3>3
    <3> QED  BY <1>7, <2>6, <2>7, <3>4 DEF ZeroShown, Faithful, ZeroArrived
  <2>8. CASE pc = "persist"
    <3>1. /\ Cached(mem, s) = f[1]
          /\ Durable(mem, s) \in {Zero!Zero, <<k, 0>>, f[1]}
          /\ Durable(mem, s) = f[1] => Flushed(mem, s) = f[1]
      BY <2>2, <2>4, <2>8 DEF ZeroInv, ZeroCounted
    <3>2. \A i \in 1 .. k : /\ Rising(mem, s + i, Zero!Zero, entry[i])
      BY <2>2, <2>4, <2>8 DEF ZeroInv, ZeroCounted
    <3>3. Laid(mem, s, f) <=> /\ Settled(mem, s, f[1])
                              /\ \A i \in 1 .. k : Settled(mem, s + i, entry[i])
      <4>1. Laid(mem, s, f) <=> \A a \in s .. s + k : Settled(mem, a, f[a - s + 1])
        <5>1. s + Len(f) - 1 = s + k
          BY <1>4, <2>2
        <5> QED  BY <5>1 DEF Laid
      <4>2. ASSUME NEW a \in s .. s + k
            PROVE  a = s \/ \E i \in 1 .. k : a = s + i
        <5>1. a # s => a - s \in 1 .. k /\ a = s + (a - s)
          BY <1>4, <2>2
        <5> QED  BY <5>1
      <4>3. s \in s .. s + k /\ \A i \in 1 .. k : s + i \in s .. s + k
        BY <1>4, <2>2
      <4>4. \A i \in 1 .. k : f[(s + i) - s + 1] = entry[i]
        BY <2>2, <2>4
      <4> HIDE DEF f, k
      <4>5. ASSUME Settled(mem, s, f[1]), \A i \in 1 .. k : Settled(mem, s + i, entry[i]),
                   NEW a \in s .. s + k
            PROVE  Settled(mem, a, f[a - s + 1])
        <5>1. CASE a = s
          BY <2>4, <4>5, <5>1
        <5>2. CASE \E i \in 1 .. k : a = s + i
          BY <4>4, <4>5, <5>2
        <5> QED  BY <4>2, <5>1, <5>2
      <4>6. ASSUME \A a \in s .. s + k : Settled(mem, a, f[a - s + 1])
            PROVE  Settled(mem, s, f[1]) /\ \A i \in 1 .. k : Settled(mem, s + i, entry[i])
        BY <2>4, <4>3, <4>4, <4>6
      <4> QED  BY <4>1, <4>5, <4>6
    <3>4. ASSUME ~ Laid(mem, s, f)
          PROVE  ~ ZeroWhole(mem, s)
      <4>1. CASE Durable(mem, s) # f[1]
        <5>1. Durable(mem, s) \in {Zero!Zero, <<k, 0>>}
          BY <3>1, <4>1
        <5> QED  BY <1>1, <1>4, <2>1, <2>3, <5>1, ZeroStops
      <4>2. CASE Durable(mem, s) = f[1]
        <5>1. Settled(mem, s, f[1])
          BY <3>1, <4>2 DEF Settled
        <5>2. PICK i \in 1 .. k : ~ Settled(mem, s + i, entry[i])
          BY <3>3, <3>4, <5>1
        <5>3. Durable(mem, s + i) # entry[i]
          BY <3>2, <5>2, SettledRises
        <5>4. \A j \in 1 .. k : Durable(mem, s + j) \in {Zero!Zero, entry[j]}
          BY <3>2 DEF Rising
        <5>5. Durable(mem, s) = <<k, Zero!BitCount(entry)>>
          BY <2>2, <4>2
        <5> QED  BY <1>1, <1>4, <2>1, <2>3, <5>3, <5>4, <5>5, ZeroStops
      <4> QED  BY <4>1, <4>2
    <3>5. ASSUME ~ Laid(mem, s, f)
          PROVE  Recovered = log
      BY <1>3, <1>5, <3>4, <3>5
    <3>6. ASSUME Laid(mem, s, f)
          PROVE  Recovered = log \o <<entry>>
      <4>1. <<s, entry, end>> \in ZeroPlaces(writer, mem)
        BY <1>4, <2>1, <2>2, <3>6 DEF ZeroPlaces
      <4> HIDE DEF end, f, k, spot
      <4>2. Places(Append(log, entry), end, ZeroPlaces(writer, mem))
        <5>1. s <= end
          BY <1>4, <2>2, <2>3
        <5> QED  BY <1>1, <1>4, <2>1, <2>2, <4>1, <5>1, PlacesAppend
      <4>3. ASSUME end < ByteCount PROVE ~ ZeroWhole(mem, end)
        <5>1. end \in Addresses
          BY <1>1, <2>2, <4>3 DEF Addresses
        <5>2. end \notin spot
          <6>1. spot = s .. s + (k + 1) - 1
            BY <2>2 DEF ZeroSpot, spot
          <6> QED  BY <1>4, <2>2, <2>3, <6>1
        <5>3. Settled(mem, end, Zero!Zero)
          BY <1>4, <2>2, <2>3, <5>1, <5>2 DEF ZeroInv, ZeroRest, spot
        <5> QED  BY <5>3 DEF ZeroWhole, Zero!Zero, Settled
      <4>4. end \in 0 .. ByteCount
        BY <1>1, <2>1, <2>2
      <4>5. Zero!Recovered = Append(log, entry)
        BY <1>1, <2>5, <4>2, <4>3, <4>4, ZeroReading
      <4> QED  BY <1>3, <2>5, <4>5
    <3> HIDE DEF f, k, end, spot
    <3>7. ZeroArrived <=> Laid(mem, s, f)
      BY <2>8 DEF ZeroArrived, f
    <3> QED  BY <1>7, <2>6, <3>5, <3>6, <3>7 DEF ZeroShown, Faithful
  <2> QED  BY <1>1, <1>7, <2>7, <2>8
<1> QED  BY <1>6, <1>7

(* The same of the state after a step.                                     *)
LEMMA ZeroIsFaithfulNext ==
  ZeroInv' => ZeroShown' /\ Faithful'
<1>1. ZeroInv => ZeroShown /\ Faithful
  BY ZeroIsFaithful
<1> QED  BY <1>1, PTL

(* Every step of a zero writer is a step of the abstract log.              *)
LEMMA ZeroNext ==
  ASSUME ZeroInv, Zero!Next
  PROVE  ZeroInv' /\ Faithful /\ Faithful' /\ (Begins \/ GoesOn \/ Returns \/ Rests)
<1>1. ZeroShown /\ Faithful
  BY ZeroIsFaithful
<1>2. ZeroInv'
  BY ZeroAddLogEntry, ZeroCopyWord, ZeroSetBitCount, ZeroPersistEntry, ZeroDrift
  DEF Zero!Next
<1>3. ZeroShown' /\ Faithful'
  BY <1>2, ZeroIsFaithfulNext
<1>4. ASSUME NEW e \in Zero!Entries, Zero!AddLogEntry(e)
      PROVE  Begins
  <2>1. pc = "idle" /\ pc' = "copy" /\ log' = log
    BY <1>4 DEF Zero!AddLogEntry
  <2>2. ~ ZeroArrived'
    BY <2>1 DEF ZeroArrived
  <2> QED  BY <1>3, <2>1, <2>2 DEF ZeroShown, Begins
<1>5. ASSUME pc # "idle"
      PROVE  log # log \o Adding
  <2>1. Adding = <<entry>> /\ entry \in Zero!Entries /\ log \in Seq(Zero!Entries)
    BY <1>1, <1>5, ZeroFacts DEF ZeroShown
  <2> QED  BY <2>1
<1>6. ASSUME Zero!CopyWord \/ Zero!SetBitCount
      PROVE  GoesOn
  <2>1. pc = "copy" /\ pc' # "idle" /\ log' = log /\ entry' = entry
    BY <1>6 DEF Zero!CopyWord, Zero!SetBitCount
  <2>2. ~ ZeroArrived
    BY <2>1 DEF ZeroArrived
  <2>3. Adding' = Adding /\ Recovered = log /\ log # log \o Adding
    BY <1>1, <1>3, <1>5, <2>1, <2>2 DEF ZeroShown
  <2> QED  BY <2>1, <2>3 DEF GoesOn
<1>7. ASSUME Zero!Drift, pc # "idle"
      PROVE  GoesOn
  <2>1. pc' = pc /\ log' = log /\ entry' = entry /\ next_free' = next_free
    BY <1>7 DEF Zero!Drift
  <2>2. Adding' = Adding
    BY <1>1, <1>3, <2>1 DEF ZeroShown
  <2>3. ASSUME ZeroArrived PROVE ZeroArrived'
    <3>1. mem \in Memory(ZeroWords) /\ mem' \in LineDrift(mem)
      BY <1>7, ZeroFacts, ZeroMemory DEF Zero!Drift
    <3>2. Keeps(mem, mem', Addresses)
      BY <3>1, SettledKept
    <3>3. /\ entry \in Zero!Entries /\ next_free \in Nat /\ ByteCount \in Nat
          /\ ZeroEnd(writer, next_free, entry) <= ByteCount
      <4>1. /\ entry \in Zero!Entries /\ next_free \in 0 .. ByteCount /\ ByteCount \in Nat
            /\ ZeroEnd(writer, next_free, entry) <= ByteCount
        BY <1>7, ZeroFacts
      <4> QED  BY <4>1
    <3>4. /\ Len(ZeroFinal(entry)) = Zero!Size(entry)
          /\ Len(entry) \in Nat \ {0} /\ Zero!Size(entry) = Len(entry) + 1
          /\ next_free + Zero!Size(entry) <= ZeroEnd(writer, next_free, entry)
          /\ ZeroEnd(writer, next_free, entry) \in Nat
      BY <3>3, ZeroSizes
    <3> DEFINE l == ZeroFinal(entry)
               end == ZeroEnd(writer, next_free, entry)
    <3>5. Len(l) \in Nat /\ next_free + Len(l) <= end /\ end \in Nat /\ end <= ByteCount
      BY <3>3, <3>4
    <3>6. Laid(mem, next_free, l)
      BY <2>3 DEF ZeroArrived
    <3> HIDE DEF l, end
    <3>7. Laid(mem', next_free, l)
      <4>1. \A a, v : a \in Addresses /\ a < end /\ Settled(mem, a, v) => Settled(mem', a, v)
        BY <3>2 DEF Keeps
      <4> QED  BY <3>3, <3>5, <3>6, <4>1, LaidKept
    <3> QED  BY <2>1, <2>3, <3>7 DEF ZeroArrived, l
  <2>4. Recovered = log \o Adding => Recovered' = log \o Adding
    BY <1>1, <1>3, <1>5, <1>7, <2>1, <2>2, <2>3 DEF ZeroShown
  <2> QED  BY <1>7, <2>1, <2>2, <2>4 DEF GoesOn
<1>8. ASSUME Zero!Drift, pc = "idle"
      PROVE  Rests
  BY <1>8 DEF Zero!Drift, Rests
<1>9. ASSUME Zero!PersistEntry
      PROVE  Returns
  <2>1. pc # "idle" /\ pc' = "idle" /\ log' = Append(log, entry)
    BY <1>9 DEF Zero!PersistEntry
  <2>2. log \in Seq(Zero!Entries) /\ entry \in Zero!Entries /\ Adding = <<entry>>
    BY <1>1, <2>1, ZeroFacts DEF ZeroShown
  <2>3. log' = log \o Adding
    BY <2>1, <2>2
  <2> QED  BY <2>1, <2>3 DEF Returns
<1> QED  BY <1>1, <1>2, <1>3, <1>4, <1>6, <1>7, <1>8, <1>9 DEF Zero!Next

(* The bits of the entry being added are its own.                          *)
LEMMA ZeroIsRest ==
  ASSUME ZeroInv PROVE Zero!RestIsZero
<1> DEFINE used == next_free + (IF pc = "idle" THEN 0 ELSE Zero!Size(entry))
<1>1. /\ next_free \in 0 .. ByteCount /\ ByteCount \in Nat
      /\ pc # "idle" => entry \in Zero!Entries
  BY ZeroFacts
<1>2. next_free \in Nat
  BY <1>1
<1>3. pc # "idle" => Zero!Size(entry) \in Nat \ {0}
  <2>1. pc # "idle" => Zero!Size(entry) = Len(entry) + 1 /\ Len(entry) \in Nat
    BY <1>1, <1>2, ZeroSizes
  <2> QED  BY <2>1
<1>4. ASSUME NEW a \in Addresses, a >= used
      PROVE  Settled(mem, a, Zero!Zero)
  <2>1. a \in Nat
    BY AddressParts
  <2>2. a >= next_free /\ (pc # "idle" => a \notin ZeroSpot(next_free, entry))
    BY <1>2, <1>3, <1>4, <2>1 DEF ZeroSpot
  <2> QED  BY <2>2 DEF ZeroInv, ZeroRest
<1> HIDE DEF used
<1>5. /\ Zero!Addresses = Addresses
      /\ \A a : Zero!Durable(mem, a) = Durable(mem, a) /\ Zero!Cached(mem, a) = Cached(mem, a)
  BY ZeroMemory
<1>6. \A a \in Addresses : a >= used => Durable(mem, a) = Zero!Zero /\ Cached(mem, a) = Zero!Zero
  BY <1>4 DEF Settled
<1> QED  BY <1>5, <1>6 DEF Zero!RestIsZero, used

=============================================================================
