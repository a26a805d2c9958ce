------------------------- MODULE InplaceBenchProofs -------------------------
(***************************************************************************)
(* Proofs about InplaceBench, for any number of entries, iterations, words *)
(* and bits of a word, and for whatever the entries are filled with.       *)
(*                                                                         *)
(* Four parts follow one another.  First what the schemes do to a single   *)
(* entry: bits and powers of two, the groups of words and their meta       *)
(* blocks, a write of the sliding and of the high-bit scheme read back,    *)
(* old states rolled back to, the two copies of copy on write.  Then the   *)
(* cycle: the operations are a permutation of the entries that is one      *)
(* cycle, so that following it from entry 0 visits all.  Then the          *)
(* inductive invariant, Inv: BenchInv is about the loops of RunExperiment, *)
(* CellInv says of each entry how far its update has come in the cache and *)
(* in NVM.  At last recovery, RecoveryInv: LogInv is about every word of   *)
(* the log that is written, AckedInv about the calls that have returned,   *)
(* and together they say exactly what a power failure leaves (SurvivorIs), *)
(* which is what the refinement needs.                                     *)
(***************************************************************************)
EXTENDS InplaceBench, FiniteSetTheorems, NaturalsInduction, WellFoundedInduction, TLAPS

Power2 == InPlace!Power2
Bit(n, k) == InPlace!Bit(n, k)
WithBit(n, k, b) == InPlace!WithBit(n, k, b)

-----------------------------------------------------------------------------
\* Numbers.

(* Every nonempty set of natural numbers has a least one.                  *)
LEMMA LeastNumber ==
  ASSUME NEW T \in SUBSET Nat, T # {}
  PROVE  \E x \in T : \A y \in T : x <= y
<1> DEFINE R == OpToRel(<, Nat)
<1>1. IsWellFoundedOn(R, Nat)
  BY NatLessThanWellFounded
<1>2. PICK x \in T : \A y \in T : ~(<<y, x>> \in R)
  <2> HIDE DEF R
  <2> QED  BY <1>1, WFMin
<1>3. ASSUME NEW y \in T
      PROVE  x <= y
  <2>1. ~(<<y, x>> \in R)
    BY <1>2
  <2>2. ~(y < x)
    BY <2>1 DEF OpToRel
  <2> QED  BY <2>2
<1> QED  BY <1>3

(* Induction over the natural numbers, the property given by its set.      *)
LEMMA Induction ==
  ASSUME NEW S, 0 \in S, \A n \in Nat : n \in S => n + 1 \in S
  PROVE  \A n \in Nat : n \in S
<1>1. SUFFICES ASSUME NEW m \in Nat, m \notin S PROVE FALSE
  OBVIOUS
<1>2. PICK x \in Nat \ S : \A y \in Nat \ S : x <= y
  <2>1. Nat \ S \in SUBSET Nat /\ Nat \ S # {}
    BY <1>1
  <2> QED  BY <2>1, LeastNumber
<1>3. x # 0 /\ x - 1 \in Nat
  BY <1>2
<1>4. x - 1 \in S
  BY <1>2, <1>3
<1>5. (x - 1) + 1 \in S
  BY <1>3, <1>4
<1> QED  BY <1>2, <1>3, <1>5

(* Power2 computes what its recursive definition says.                     *)
LEMMA PowerUnfolds ==
  /\ Power2 \in [Nat -> Nat \ {0}]
  /\ Power2[0] = 1
  /\ \A n \in Nat : Power2[n + 1] = 2 * Power2[n]
<1> DEFINE D(n) == 0 .. n
           Doubles(f, n) == f[0] = 1 /\ \A k \in 1 .. n : f[k] = 2 * f[k - 1]
           S == {n \in Nat : \E f \in [0 .. n -> Nat \ {0}] : Doubles(f, n)}
<1>1. 0 \in S
  <2>1. [k \in 0 .. 0 |-> 1] \in [0 .. 0 -> Nat \ {0}] /\ Doubles([k \in 0 .. 0 |-> 1], 0)
    OBVIOUS
  <2> QED  BY <2>1
<1>2. ASSUME NEW n \in Nat, n \in S
      PROVE  n + 1 \in S
  <2>1. PICK f \in [0 .. n -> Nat \ {0}] : Doubles(f, n)
    BY <1>2
  <2> DEFINE h == [k \in 0 .. n + 1 |-> IF k = n + 1 THEN 2 * f[n] ELSE f[k]]
  <2>2. h \in [0 .. n + 1 -> Nat \ {0}]
    OBVIOUS
  <2>3. Doubles(h, n + 1)
    BY <2>1
  <2> HIDE DEF h, Doubles
  <2> QED  BY <2>2, <2>3
<1>3. \A n \in Nat : n \in S
  <2> HIDE DEF S
  <2> QED  BY <1>1, <1>2, Induction
<1> DEFINE G(n) == CHOOSE f \in [0 .. n -> Nat \ {0}] : Doubles(f, n)
           F == [n \in Nat |-> G(n)[n]]
<1>4. \A n \in Nat : G(n) \in [0 .. n -> Nat \ {0}] /\ Doubles(G(n), n)
  BY <1>3
<1>5. ASSUME NEW m \in Nat, NEW n \in Nat, m <= n, NEW f, Doubles(f, m), NEW h, Doubles(h, n)
      PROVE  f[m] = h[m]
  <2> DEFINE Q == {k \in Nat : k <= m => f[k] = h[k]}
  <2>1. 0 \in Q
    BY <1>5
  <2>2. ASSUME NEW k \in Nat, k \in Q
        PROVE  k + 1 \in Q
    <3>1. SUFFICES ASSUME k + 1 <= m PROVE f[k + 1] = h[k + 1]
      OBVIOUS
    <3>2. k + 1 \in 1 .. m /\ k + 1 \in 1 .. n /\ (k + 1) - 1 = k /\ f[k] = h[k]
      BY <1>5, <2>2, <3>1
    <3> QED  BY <1>5, <3>2
  <2>3. \A k \in Nat : k \in Q
    <3> HIDE DEF Q
    <3> QED  BY <2>1, <2>2, Induction
  <2> QED  BY <2>3
<1>6. ASSUME NEW n \in Nat
      PROVE  F[n] \in Nat \ {0} /\ F[n] = IF n = 0 THEN 1 ELSE 2 * F[n - 1]
  <2>1. G(n) \in [0 .. n -> Nat \ {0}] /\ Doubles(G(n), n)
    <3> HIDE DEF G, Doubles
    <3> QED  BY <1>4
  <2>2. F[n] \in Nat \ {0}
    <3> HIDE DEF G, Doubles
    <3> QED  BY <2>1
  <2>3. CASE n = 0
    <3> HIDE DEF G
    <3> QED  BY <2>1, <2>2, <2>3
  <2>4. CASE n # 0
    <3>1. n - 1 \in Nat /\ n - 1 <= n /\ n \in 1 .. n
      BY <2>4
    <3>2. G(n - 1) \in [0 .. n - 1 -> Nat \ {0}] /\ Doubles(G(n - 1), n - 1)
      <4> HIDE DEF G, Doubles
      <4> QED  BY <1>4, <3>1
    <3>3. G(n - 1)[n - 1] = G(n)[n - 1]
      <4> HIDE DEF G, Doubles
      <4> QED  BY <1>5, <2>1, <3>1, <3>2
    <3>4. G(n)[n] = 2 * G(n)[n - 1]
      <4> HIDE DEF G
      <4> QED  BY <2>1, <3>1
    <3> HIDE DEF G, Doubles
    <3> QED  BY <2>2, <2>4, <3>1, <3>3, <3>4
  <2> QED  BY <2>3, <2>4
<1>7. F = [n \in Nat |-> IF n = 0 THEN 1 ELSE 2 * F[n - 1]]
  <2>1. F = [n \in Nat |-> F[n]]
    <3> HIDE DEF G
    <3> QED  OBVIOUS
  <2> HIDE DEF F
  <2> QED  BY <1>6, <2>1
<1>8. Power2 = [n \in Nat |-> IF n = 0 THEN 1 ELSE 2 * Power2[n - 1]]
  <2> HIDE DEF F
  <2> QED  BY <1>7 DEF Power2, InPlace!Power2
<1>9. \A n \in Nat : Power2[n] = F[n]
  <2> DEFINE Q == {k \in Nat : Power2[k] = F[k]}
  <2> HIDE DEF F
  <2>1. 0 \in Q
    BY <1>6, <1>8
  <2>2. ASSUME NEW k \in Nat, k \in Q
        PROVE  k + 1 \in Q
    <3>1. k + 1 \in Nat /\ k + 1 # 0 /\ (k + 1) - 1 = k
      OBVIOUS
    <3>2. Power2[k + 1] = 2 * Power2[k] /\ F[k + 1] = 2 * F[k]
      BY <1>6, <1>8, <3>1
    <3> QED  BY <2>2, <3>2
  <2>3. \A k \in Nat : k \in Q
    <3> HIDE DEF Q
    <3> QED  BY <2>1, <2>2, Induction
  <2> QED  BY <2>3
<1> HIDE DEF F
<1>10. \A n \in Nat : Power2[n] \in Nat \ {0}
  BY <1>6, <1>9
<1>11. \A n \in Nat : n + 1 \in Nat /\ n + 1 # 0 /\ (n + 1) - 1 = n
  OBVIOUS
<1>12. Power2[0] = 1 /\ \A n \in Nat : Power2[n + 1] = 2 * Power2[n]
  BY <1>8, <1>11
<1>13. Power2 \in [Nat -> Nat \ {0}]
  BY <1>8, <1>10
<1> QED  BY <1>12, <1>13

(* There is one quotient and one remainder.                                *)
LEMMA OneQuotient ==
  ASSUME NEW d \in Nat \ {0}, NEW q \in Nat, NEW r \in 0 .. d - 1, NEW n, n = q * d + r
  PROVE  n \in Nat /\ n \div d = q /\ n % d = r
<1>1. q * d \in Nat
  OBVIOUS
<1>2. n \in Nat
  BY <1>1
<1> QED  BY <1>2

(* A number is its quotient times the divisor and its remainder.           *)
LEMMA Divide ==
  ASSUME NEW d \in Nat \ {0}, NEW n \in Nat
  PROVE  /\ n \div d \in Nat /\ n % d \in 0 .. d - 1
         /\ n = (n \div d) * d + (n % d)
OBVIOUS

(* A higher power of two is a multiple of twice a lower one.               *)
LEMMA HigherPower ==
  ASSUME NEW k \in Nat, NEW m \in Nat, k < m
  PROVE  \E t \in Nat \ {0} : Power2[m] = (2 * t) * Power2[k]
<1> DEFINE S == {e \in Nat : \E t \in Nat \ {0} : Power2[(k + 1) + e] = (2 * t) * Power2[k]}
<1>1. 0 \in S
  <2>1. Power2[(k + 1) + 0] = (2 * 1) * Power2[k]
    BY PowerUnfolds
  <2> QED  BY <2>1
<1>2. ASSUME NEW e \in Nat, e \in S
      PROVE  e + 1 \in S
  <2>1. PICK t \in Nat \ {0} : Power2[(k + 1) + e] = (2 * t) * Power2[k]
    BY <1>2
  <2>2. (k + 1) + (e + 1) = ((k + 1) + e) + 1 /\ (k + 1) + e \in Nat
    OBVIOUS
  <2>3. Power2[(k + 1) + (e + 1)] = 2 * ((2 * t) * Power2[k])
    BY <2>1, <2>2, PowerUnfolds
  <2>4. PICK r \in Nat \ {0} : r = 2 * t
    OBVIOUS
  <2>5. PICK p \in Nat : p = Power2[k]
    BY PowerUnfolds
  <2>6. 2 * (r * p) = (2 * r) * p
    OBVIOUS
  <2>7. Power2[(k + 1) + (e + 1)] = (2 * r) * Power2[k]
    BY <2>3, <2>4, <2>5, <2>6
  <2> QED  BY <2>7
<1>3. \A e \in Nat : e \in S
  <2> HIDE DEF S
  <2> QED  BY <1>1, <1>2, Induction
<1>4. m - (k + 1) \in Nat /\ (k + 1) + (m - (k + 1)) = m
  OBVIOUS
<1>5. m - (k + 1) \in S
  BY <1>3, <1>4
<1> QED  BY <1>4, <1>5

(* A bit is 0 or 1.                                                        *)
LEMMA BitType ==
  ASSUME NEW n \in Nat, NEW k \in Nat
  PROVE  Bit(n, k) \in {0, 1}
<1>1. Power2[k] \in Nat \ {0}
  BY PowerUnfolds
<1>2. n \div Power2[k] \in Nat
  BY <1>1, Divide
<1>3. \A x \in Nat : x % 2 \in {0, 1}
  OBVIOUS
<1>4. (n \div Power2[k]) % 2 \in {0, 1}
  BY <1>2, <1>3
<1> QED  BY <1>4 DEF Bit, InPlace!Bit, Power2

(* What a bit is, from the number around it.                               *)
LEMMA BitIs ==
  ASSUME NEW k \in Nat, NEW high \in Nat, NEW b \in {0, 1}, NEW low \in 0 .. Power2[k] - 1,
         NEW n, n = (2 * high + b) * Power2[k] + low
  PROVE  n \in Nat /\ Bit(n, k) = b
<1>1. Power2[k] \in Nat \ {0}
  BY PowerUnfolds
<1>2. PICK d \in Nat \ {0} : d = Power2[k]
  BY <1>1
<1>3. PICK q \in Nat : q = 2 * high + b
  OBVIOUS
<1>4. n \in Nat /\ n \div d = q
  BY <1>2, <1>3, OneQuotient
<1>5. q % 2 = b
  BY <1>3
<1> QED  BY <1>2, <1>4, <1>5 DEF Bit, InPlace!Bit, Power2

(* A number around one of its bits.                                        *)
LEMMA AroundBit ==
  ASSUME NEW n \in Nat, NEW k \in Nat
  PROVE  \E high \in Nat, low \in 0 .. Power2[k] - 1 :
           n = (2 * high + Bit(n, k)) * Power2[k] + low
<1>1. PICK d \in Nat \ {0} : d = Power2[k]
  BY PowerUnfolds
<1>2. PICK q \in Nat : q = n \div d
  BY <1>1, Divide
<1>3. PICK low \in 0 .. d - 1 : low = n % d
  BY <1>1, Divide
<1>4. n = q * d + low
  BY <1>2, <1>3, Divide
<1>5. q \div 2 \in Nat /\ q = 2 * (q \div 2) + (q % 2)
  OBVIOUS
<1>6. Bit(n, k) = q % 2
  BY <1>1, <1>2 DEF Bit, InPlace!Bit, Power2
<1> QED  BY <1>1, <1>4, <1>5, <1>6

(* Setting a bit sets this bit,                                            *)
LEMMA WithBitOps ==
  ASSUME NEW n \in Nat, NEW k \in Nat, NEW b \in {0, 1}
  PROVE  /\ WithBit(n, k, b) \in Nat
         /\ Bit(WithBit(n, k, b), k) = b
         /\ WithBit(n, k, Bit(n, k)) = n
         /\ \A c \in {0, 1} : WithBit(WithBit(n, k, b), k, c) = WithBit(n, k, c)
<1>1. PICK high \in Nat, low \in 0 .. Power2[k] - 1 :
        n = (2 * high + Bit(n, k)) * Power2[k] + low
  BY AroundBit
<1>2. PICK d \in Nat \ {0} : d = Power2[k]
  BY PowerUnfolds
<1>3. Bit(n, k) \in {0, 1}
  BY BitType
<1>4. PICK old \in {0, 1} : old = Bit(n, k)
  BY <1>3
<1>5. ASSUME NEW c \in {0, 1}
      PROVE  WithBit(n, k, c) = (2 * high + c) * d + low
  <2>1. WithBit(n, k, c) = n - old * d + c * d
    BY <1>2, <1>4 DEF WithBit, InPlace!WithBit, Bit, Power2
  <2>2. n = (2 * high + old) * d + low
    BY <1>1, <1>2, <1>4
  <2>3. ((2 * high + old) * d + low) - old * d + c * d = (2 * high + c) * d + low
    <3>1. PICK m \in Nat : m = high * d
      OBVIOUS
    <3>2. (2 * high + old) * d = 2 * m + old * d /\ (2 * high + c) * d = 2 * m + c * d
      BY <3>1
    <3>3. old * d \in Nat /\ c * d \in Nat
      OBVIOUS
    <3> QED  BY <3>2, <3>3
  <2> QED  BY <2>1, <2>2, <2>3
<1>6. ASSUME NEW c \in {0, 1}
      PROVE  WithBit(n, k, c) \in Nat /\ Bit(WithBit(n, k, c), k) = c
  BY <1>2, <1>5, BitIs
<1>7. WithBit(n, k, Bit(n, k)) = n
  BY <1>1, <1>2, <1>4, <1>5
<1>8. ASSUME NEW c \in {0, 1}
      PROVE  WithBit(WithBit(n, k, b), k, c) = WithBit(n, k, c)
  <2>1. PICK m \in Nat : m = WithBit(n, k, b)
    BY <1>6
  <2>2. m = (2 * high + b) * d + low /\ Bit(m, k) = b
    BY <1>5, <1>6, <2>1
  <2>3. WithBit(m, k, c) = m - b * d + c * d
    BY <1>2, <2>2 DEF WithBit, InPlace!WithBit, Bit, Power2
  <2>4. ((2 * high + b) * d + low) - b * d + c * d = (2 * high + c) * d + low
    <3>1. PICK h \in Nat : h = high * d
      OBVIOUS
    <3>2. (2 * high + b) * d = 2 * h + b * d /\ (2 * high + c) * d = 2 * h + c * d
      BY <3>1
    <3>3. b * d \in Nat /\ c * d \in Nat
      OBVIOUS
    <3> QED  BY <3>2, <3>3
  <2> QED  BY <1>5, <2>1, <2>2, <2>3, <2>4
<1> QED  BY <1>6, <1>7, <1>8

(* A higher bit on top of a small number is that bit,                      *)
LEMMA TopBit ==
  ASSUME NEW m \in Nat, NEW low \in 0 .. Power2[m] - 1, NEW b \in {0, 1}
  PROVE  low + b * Power2[m] \in Nat /\ Bit(low + b * Power2[m], m) = b
<1>1. PICK d \in Nat \ {0} : d = Power2[m]
  BY PowerUnfolds
<1>2. low + b * d = (2 * 0 + b) * d + low
  BY <1>1
<1>3. PICK n : n = low + b * Power2[m]
  OBVIOUS
<1>4. n = (2 * 0 + b) * Power2[m] + low
  BY <1>1, <1>2, <1>3
<1>5. n \in Nat /\ Bit(n, m) = b
  BY <1>4, BitIs
<1> QED  BY <1>3, <1>5

(* ... and leaves those below as they are.                                 *)
LEMMA LowerBits ==
  ASSUME NEW m \in Nat, NEW low \in Nat, NEW b \in {0, 1}, NEW k \in Nat, k < m
  PROVE  Bit(low + b * Power2[m], k) = Bit(low, k)
<1>1. PICK t \in Nat \ {0} : Power2[m] = (2 * t) * Power2[k]
  BY HigherPower
<1>2. PICK d \in Nat \ {0} : d = Power2[k]
  BY PowerUnfolds
<1>3. PICK high \in Nat, rest \in 0 .. Power2[k] - 1 :
        low = (2 * high + Bit(low, k)) * Power2[k] + rest
  BY AroundBit
<1>4. PICK c \in {0, 1} : c = Bit(low, k)
  BY BitType
<1>5. low + b * Power2[m] = (2 * (high + b * t) + c) * d + rest
  <2>1. low = (2 * high + c) * d + rest
    BY <1>2, <1>3, <1>4
  <2>2. b * ((2 * t) * d) = (2 * (b * t)) * d
    OBVIOUS
  <2>3. PICK s \in Nat : s = b * t
    OBVIOUS
  <2>4. (2 * high + c) * d + (2 * s) * d = (2 * (high + s) + c) * d
    OBVIOUS
  <2>5. (2 * high + c) * d \in Nat /\ (2 * s) * d \in Nat
    OBVIOUS
  <2> QED  BY <1>1, <1>2, <2>1, <2>2, <2>3, <2>4, <2>5
<1>6. PICK more \in Nat : more = high + b * t
  OBVIOUS
<1>7. PICK n : n = low + b * Power2[m]
  OBVIOUS
<1>8. n = (2 * more + c) * Power2[k] + rest
  BY <1>2, <1>5, <1>6, <1>7
<1>9. Bit(n, k) = c
  BY <1>8, BitIs
<1> QED  BY <1>4, <1>7, <1>9

(* The same of setting a bit a small number does not have.                 *)
LEMMA BelowTheBit ==
  ASSUME NEW m \in Nat, NEW n \in 0 .. Power2[m] - 1, NEW b \in {0, 1}, NEW k \in Nat, k < m
  PROVE  Bit(WithBit(n, m, b), k) = Bit(n, k)
<1>1. PICK d \in Nat \ {0} : d = Power2[m]
  BY PowerUnfolds
<1>2. n \in Nat /\ n = (2 * 0 + 0) * Power2[m] + n
  BY <1>1
<1>3. Bit(n, m) = 0
  <2>1. 0 \in {0, 1} /\ 0 \in Nat
    OBVIOUS
  <2> QED  BY <1>2, <2>1, BitIs
<1>4. WithBit(n, m, b) = n - 0 * d + b * d
  BY <1>1, <1>3 DEF WithBit, InPlace!WithBit, Bit, Power2
<1>5. n - 0 * d + b * d = n + b * d
  BY <1>2
<1> QED  BY <1>1, <1>2, <1>4, <1>5, LowerBits

-----------------------------------------------------------------------------
\* Sums.

\* fold[s] is what comes of s with the elements c takes out of it, in the
\* reverse of the order in which c takes them, for sets of up to k.
Folds(fold, F, base, c, T, k) ==
  \A s \in SUBSET T : Cardinality(s) <= k =>
    fold[s] = IF s = {} THEN base ELSE F[<<fold[s \ {c[s]}], c[s]>>]

(* A finite set without one of its elements is smaller by one.             *)
LEMMA Without ==
  ASSUME NEW T, IsFiniteSet(T), NEW s \in SUBSET T
  PROVE  /\ Cardinality(s) \in Nat /\ Cardinality(s) <= Cardinality(T)
         /\ Cardinality(s) = 0 <=> s = {}
         /\ \A x \in s : Cardinality(s \ {x}) = Cardinality(s) - 1
<1>1. IsFiniteSet(s) /\ Cardinality(s) <= Cardinality(T)
  BY FS_Subset
<1>2. Cardinality(s) \in Nat /\ (Cardinality(s) = 0 <=> s = {})
  BY <1>1, FS_CardinalityType, FS_EmptySet
<1>3. \A x \in s : Cardinality(s \ {x}) = Cardinality(s) - 1
  BY <1>1, FS_RemoveElement
<1> QED  BY <1>1, <1>2, <1>3

FoldsAll(fold, F, base, c, T) ==
  \A s \in SUBSET T : fold[s] = IF s = {} THEN base ELSE F[<<fold[s \ {c[s]}], c[s]>>]

\* What a fold takes out of a set is an element of it.
Chooses(c, T) == \A s \in SUBSET T : s # {} => c[s] \in s

(* What the folds of the community modules define exists: a function on    *)
(* the subsets of a finite set that takes one element after the other.     *)
LEMMA FoldExists ==
  ASSUME NEW T, IsFiniteSet(T), NEW D, NEW base \in D, NEW F \in [D \X T -> D],
         NEW c, Chooses(c, T)
  PROVE  \E fold \in [SUBSET T -> D] : FoldsAll(fold, F, base, c, T)
<1> DEFINE Folded(k) == \E fold \in [SUBSET T -> D] : Folds(fold, F, base, c, T, k)
           S == {k \in Nat : Folded(k)}
<1>0. \A s \in SUBSET T : s # {} => c[s] \in s
  BY DEF Chooses
<1>1. Folded(0)
  <2> DEFINE fold == [s \in SUBSET T |-> base]
  <2>1. fold \in [SUBSET T -> D]
    OBVIOUS
  <2>2. ASSUME NEW s \in SUBSET T, Cardinality(s) <= 0
        PROVE  s = {}
    <3>1. Cardinality(s) \in Nat /\ (Cardinality(s) = 0 <=> s = {})
      BY Without
    <3> QED  BY <2>2, <3>1
  <2>3. Folds(fold, F, base, c, T, 0)
    BY <2>2 DEF Folds
  <2> HIDE DEF fold
  <2> QED  BY <2>1, <2>3
<1>2. ASSUME NEW k \in Nat, Folded(k)
      PROVE  Folded(k + 1)
  <2>1. PICK part \in [SUBSET T -> D] : Folds(part, F, base, c, T, k)
    BY <1>2
  <2> DEFINE fold == [s \in SUBSET T |->
               IF s = {} THEN base ELSE F[<<part[s \ {c[s]}], c[s]>>]]
  <2>2. ASSUME NEW s \in SUBSET T
        PROVE  fold[s] \in D
    <3>1. CASE s = {}
      BY <3>1
    <3>2. CASE s # {}
      <4>1. c[s] \in T /\ s \ {c[s]} \in SUBSET T
        BY <1>0, <3>2
      <4>2. part[s \ {c[s]}] \in D
        BY <4>1
      <4>3. <<part[s \ {c[s]}], c[s]>> \in D \X T
        BY <4>1, <4>2
      <4>4. F[<<part[s \ {c[s]}], c[s]>>] \in D
        BY <4>3
      <4> QED  BY <3>2, <4>4
    <3> QED  BY <3>1, <3>2
  <2>3. fold \in [SUBSET T -> D]
    <3>1. fold = [s \in SUBSET T |-> fold[s]]
      OBVIOUS
    <3> HIDE DEF fold
    <3> QED  BY <2>2, <3>1
  <2>4. ASSUME NEW s \in SUBSET T, Cardinality(s) <= k
        PROVE  part[s] = fold[s]
    BY <2>1, <2>4 DEF Folds
  <2>5. ASSUME NEW s \in SUBSET T, Cardinality(s) <= k + 1
        PROVE  fold[s] = IF s = {} THEN base ELSE F[<<fold[s \ {c[s]}], c[s]>>]
    <3>1. CASE s = {}
      BY <3>1
    <3>2. CASE s # {}
      <4>1. c[s] \in s /\ s \ {c[s]} \in SUBSET T
        BY <1>0, <3>2
      <4>2. Cardinality(s) \in Nat /\ Cardinality(s \ {c[s]}) = Cardinality(s) - 1
        BY <4>1, Without
      <4>3. Cardinality(s \ {c[s]}) <= k
        BY <2>5, <4>2
      <4>4. part[s \ {c[s]}] = fold[s \ {c[s]}]
        BY <2>4, <4>1, <4>3
      <4>5. fold[s] = F[<<part[s \ {c[s]}], c[s]>>]
        BY <3>2
      <4> HIDE DEF fold
      <4> QED  BY <3>2, <4>4, <4>5
    <3> QED  BY <3>1, <3>2
  <2>6. Folds(fold, F, base, c, T, k + 1)
    <3> HIDE DEF fold
    <3> QED  BY <2>5 DEF Folds
  <2> HIDE DEF fold
  <2> QED  BY <2>3, <2>6
<1>3. \A k \in Nat : k \in S
  <2>1. 0 \in S /\ \A k \in Nat : k \in S => k + 1 \in S
    <3> HIDE DEF Folded
    <3> QED  BY <1>1, <1>2
  <2> HIDE DEF S
  <2> QED  BY <2>1, Induction
<1>4. Cardinality(T) \in Nat
  BY FS_CardinalityType
<1>5. Folded(Cardinality(T))
  <2> HIDE DEF Folded
  <2> QED  BY <1>3, <1>4
<1>6. PICK fold \in [SUBSET T -> D] : Folds(fold, F, base, c, T, Cardinality(T))
  BY <1>5
<1>7. ASSUME NEW s \in SUBSET T
      PROVE  fold[s] = IF s = {} THEN base ELSE F[<<fold[s \ {c[s]}], c[s]>>]
  <2>1. Cardinality(s) <= Cardinality(T)
    BY Without
  <2> QED  BY <1>6, <2>1 DEF Folds
<1> QED  BY <1>7 DEF FoldsAll

\* The sum of w over every part of T, as the fold of the community modules
\* takes it: in an order of its own.
Sums(fold, w, T) ==
  \A s \in SUBSET T :
    fold[s] = IF s = {} THEN 0
              ELSE w[CHOOSE x \in s : TRUE] + fold[s \ {CHOOSE x \in s : TRUE}]

IsSum(fold, w, T) ==
  /\ IsFiniteSet(T) /\ w \in [T -> Nat] /\ fold \in [SUBSET T -> Nat]
  /\ Sums(fold, w, T)

\* Any element of a part may be the last that is added.
AnyLast(fold, w, T) == \A s \in SUBSET T : \A x \in s : fold[s] = w[x] + fold[s \ {x}]

(* There are such sums,                                                    *)
LEMMA SumExists ==
  ASSUME NEW T, IsFiniteSet(T), NEW w \in [T -> Nat]
  PROVE  \E fold \in [SUBSET T -> Nat] : Sums(fold, w, T)
<1> DEFINE F == [p \in Nat \X T |-> w[p[2]] + p[1]]
           c == [s \in SUBSET T |-> CHOOSE x \in s : TRUE]
<1>1. F \in [Nat \X T -> Nat]
  OBVIOUS
<1>2. Chooses(c, T)
  BY DEF Chooses
<1>3. \E fold \in [SUBSET T -> Nat] : FoldsAll(fold, F, 0, c, T)
  <2> HIDE DEF F, c
  <2> QED  BY <1>1, <1>2, FoldExists
<1>4. PICK fold \in [SUBSET T -> Nat] : FoldsAll(fold, F, 0, c, T)
  <2> HIDE DEF F, c
  <2> QED  BY <1>3
<1>5. ASSUME NEW s \in SUBSET T
      PROVE  fold[s] = IF s = {} THEN 0
                       ELSE w[CHOOSE x \in s : TRUE] + fold[s \ {CHOOSE x \in s : TRUE}]
  <2>1. CASE s = {}
    <3>1. fold[s] = 0
      <4> HIDE DEF F, c
      <4> QED  BY <1>4, <2>1 DEF FoldsAll
    <3> QED  BY <2>1, <3>1
  <2>2. CASE s # {}
    <3>1. PICK x : x = CHOOSE y \in s : TRUE
      OBVIOUS
    <3>2. x \in s /\ c[s] = x
      BY <2>2, <3>1
    <3>3. fold[s] = F[<<fold[s \ {x}], x>>]
      <4> HIDE DEF F, c
      <4> QED  BY <1>4, <2>2, <3>2 DEF FoldsAll
    <3>4. fold[s \ {x}] \in Nat /\ x \in T
      BY <3>2
    <3>5. F[<<fold[s \ {x}], x>>] = w[x] + fold[s \ {x}]
      BY <3>4
    <3> HIDE DEF F, c
    <3> QED  BY <2>2, <3>1, <3>3, <3>5
  <2> QED  BY <2>1, <2>2
<1>6. Sums(fold, w, T)
  <2> HIDE DEF F, c
  <2> QED  BY <1>5 DEF Sums
<1> QED  BY <1>6

(* ... in which the order does not matter,                                 *)
LEMMA SumsRemove ==
  ASSUME NEW T, NEW w, NEW fold, IsSum(fold, w, T)
  PROVE  AnyLast(fold, w, T)
<1>0. /\ IsFiniteSet(T) /\ w \in [T -> Nat] /\ fold \in [SUBSET T -> Nat]
      /\ Sums(fold, w, T)
  BY DEF IsSum
<1> DEFINE Removes(k) == \A s \in SUBSET T : Cardinality(s) = k =>
                           \A x \in s : fold[s] = w[x] + fold[s \ {x}]
           S == {k \in Nat : Removes(k)}
<1>1. Removes(0)
  <2>1. \A s \in SUBSET T : Cardinality(s) = 0 => s = {}
    BY <1>0, Without
  <2> QED  BY <2>1
<1>2. ASSUME NEW k \in Nat, Removes(k)
      PROVE  Removes(k + 1)
  <2> SUFFICES ASSUME NEW s \in SUBSET T, Cardinality(s) = k + 1, NEW x \in s
               PROVE  fold[s] = w[x] + fold[s \ {x}]
    OBVIOUS
  <2>1. PICK c : c = CHOOSE y \in s : TRUE
    OBVIOUS
  <2>2. c \in s
    BY <2>1
  <2>3. fold[s] = w[c] + fold[s \ {c}]
    BY <1>0, <2>1, <2>2 DEF Sums
  <2>4. CASE x = c
    BY <2>3, <2>4
  <2>5. CASE x # c
    <3>1. \A y \in s : Cardinality(s \ {y}) = Cardinality(s) - 1
      BY <1>0, Without
    <3>2. Cardinality(s \ {c}) = k /\ Cardinality(s \ {x}) = k
      BY <2>2, <3>1
    <3>3. s \ {c} \in SUBSET T /\ s \ {x} \in SUBSET T /\ x \in s \ {c} /\ c \in s \ {x}
      BY <2>2, <2>5
    <3>4. /\ fold[s \ {c}] = w[x] + fold[(s \ {c}) \ {x}]
          /\ fold[s \ {x}] = w[c] + fold[(s \ {x}) \ {c}]
      BY <1>2, <3>2, <3>3
    <3>5. (s \ {x}) \ {c} = (s \ {c}) \ {x}
      OBVIOUS
    <3>6. PICK rest \in Nat, a \in Nat, b \in Nat :
            rest = fold[(s \ {c}) \ {x}] /\ a = w[c] /\ b = w[x]
      <4>1. (s \ {c}) \ {x} \in SUBSET T /\ c \in T /\ x \in T
        BY <2>2
      <4> QED  BY <1>0, <4>1
    <3>7. fold[s \ {c}] = b + rest /\ fold[s \ {x}] = a + rest /\ fold[s] = a + fold[s \ {c}]
      BY <2>3, <3>4, <3>5, <3>6
    <3> QED  BY <3>6, <3>7
  <2> QED  BY <2>4, <2>5
<1>3. \A k \in Nat : k \in S
  <2>1. 0 \in S /\ \A k \in Nat : k \in S => k + 1 \in S
    <3> HIDE DEF Removes
    <3> QED  BY <1>1, <1>2
  <2> HIDE DEF S
  <2> QED  BY <2>1, Induction
<1>4. \A k \in Nat : Removes(k)
  <2> HIDE DEF Removes
  <2> QED  BY <1>3
<1>5. \A s \in SUBSET T : Cardinality(s) \in Nat
  BY <1>0, Without
<1> QED  BY <1>4, <1>5 DEF AnyLast

(* ... and a part has no other sum than that.                              *)
LEMMA SumsAgree ==
  ASSUME NEW T, NEW w, NEW fold, IsSum(fold, w, T),
         NEW part, part \in SUBSET T, NEW iter, Sums(iter, w, part)
  PROVE  iter[part] = fold[part]
<1>0. /\ IsFiniteSet(T) /\ w \in [T -> Nat] /\ fold \in [SUBSET T -> Nat]
      /\ Sums(fold, w, T)
  BY DEF IsSum
<1> DEFINE Agrees(k) == \A s \in SUBSET part : Cardinality(s) = k => iter[s] = fold[s]
           S == {k \in Nat : Agrees(k)}
<1>1. Agrees(0)
  <2>1. \A s \in SUBSET part : Cardinality(s) = 0 => s = {}
    BY <1>0, Without
  <2>2. iter[{}] = 0 /\ fold[{}] = 0
    BY <1>0 DEF Sums
  <2> QED  BY <2>1, <2>2
<1>2. ASSUME NEW k \in Nat, Agrees(k)
      PROVE  Agrees(k + 1)
  <2> SUFFICES ASSUME NEW s \in SUBSET part, Cardinality(s) = k + 1
               PROVE  iter[s] = fold[s]
    OBVIOUS
  <2>1. s \in SUBSET T /\ s # {}
    <3>1. s \in SUBSET T
      OBVIOUS
    <3>2. Cardinality(s) = 0 <=> s = {}
      BY <1>0, <3>1, Without
    <3> QED  BY <3>1, <3>2
  <2>2. PICK c : c = CHOOSE y \in s : TRUE
    OBVIOUS
  <2>3. c \in s
    BY <2>1, <2>2
  <2>4. fold[s] = w[c] + fold[s \ {c}] /\ iter[s] = w[c] + iter[s \ {c}]
    BY <1>0, <2>1, <2>2 DEF Sums
  <2>5. Cardinality(s \ {c}) = k /\ s \ {c} \in SUBSET part
    <3>1. \A y \in s : Cardinality(s \ {y}) = Cardinality(s) - 1
      BY <1>0, <2>1, Without
    <3> QED  BY <2>3, <3>1
  <2>6. iter[s \ {c}] = fold[s \ {c}]
    BY <1>2, <2>5
  <2> QED  BY <2>4, <2>6
<1>3. \A k \in Nat : k \in S
  <2>1. 0 \in S /\ \A k \in Nat : k \in S => k + 1 \in S
    <3> HIDE DEF Agrees
    <3> QED  BY <1>1, <1>2
  <2> HIDE DEF S
  <2> QED  BY <2>1, Induction
<1>4. \A k \in Nat : Agrees(k)
  <2> HIDE DEF Agrees
  <2> QED  BY <1>3
<1>5. \A s \in SUBSET part : Cardinality(s) \in Nat
  <2>1. \A s \in SUBSET part : s \in SUBSET T
    OBVIOUS
  <2> QED  BY <1>0, <2>1, Without
<1> QED  BY <1>4, <1>5

(* The sum over the empty set is 0.                                        *)
LEMMA SumOfNothing ==
  ASSUME NEW T, NEW w, NEW fold, IsSum(fold, w, T)
  PROVE  fold[{}] = 0 /\ \A s \in SUBSET T : fold[s] \in Nat
BY DEF IsSum, Sums

(* A sum of numbers none of which is larger is no larger, and smaller if   *)
(* one of them is.                                                         *)
LEMMA SumsCompare ==
  ASSUME NEW T, NEW w, NEW fold, IsSum(fold, w, T),
         NEW v, NEW other, IsSum(other, v, T), \A x \in T : w[x] <= v[x]
  PROVE  /\ fold[T] <= other[T]
         /\ fold[T] = other[T] => \A x \in T : w[x] = v[x]
<1>0. /\ IsFiniteSet(T) /\ w \in [T -> Nat] /\ fold \in [SUBSET T -> Nat]
      /\ v \in [T -> Nat] /\ other \in [SUBSET T -> Nat]
  BY DEF IsSum
<1>1. AnyLast(fold, w, T) /\ AnyLast(other, v, T)
  BY SumsRemove
<1> DEFINE Less(s) == /\ fold[s] <= other[s]
                      /\ fold[s] = other[s] => \A x \in s : w[x] = v[x]
           S == {k \in Nat : \A s \in SUBSET T : Cardinality(s) = k => Less(s)}
<1>2. 0 \in S
  <2>1. ASSUME NEW s \in SUBSET T, Cardinality(s) = 0
        PROVE  Less(s)
    <3>1. s = {}
      BY <1>0, <2>1, Without
    <3> QED  BY <3>1, SumOfNothing
  <2> HIDE DEF Less
  <2> QED  BY <2>1
<1>3. ASSUME NEW k \in Nat, k \in S
      PROVE  k + 1 \in S
  <2>1. ASSUME NEW s \in SUBSET T, Cardinality(s) = k + 1
        PROVE  Less(s)
    <3>1. PICK x \in s : TRUE
      BY <1>0, <2>1, Without
    <3>2. PICK rest \in SUBSET T : rest = s \ {x}
      OBVIOUS
    <3>3. Cardinality(rest) = k
      <4>1. Cardinality(s \ {x}) = Cardinality(s) - 1
        BY <1>0, Without
      <4> QED  BY <2>1, <3>2, <4>1
    <3>4. Less(rest)
      <4> HIDE DEF Less
      <4> QED  BY <1>3, <3>3
    <3>5. fold[s] = w[x] + fold[rest] /\ other[s] = v[x] + other[rest]
      BY <1>1, <3>2 DEF AnyLast
    <3>6. w[x] \in Nat /\ v[x] \in Nat /\ fold[rest] \in Nat /\ other[rest] \in Nat /\ w[x] <= v[x]
      BY <1>0
    <3>7. fold[s] <= other[s] /\ (fold[s] = other[s] => w[x] = v[x] /\ fold[rest] = other[rest])
      BY <3>4, <3>5, <3>6
    <3>8. \A y \in s : y = x \/ y \in rest
      BY <3>2
    <3> QED  BY <3>4, <3>7, <3>8
  <2> HIDE DEF Less
  <2> QED  BY <2>1
<1>4. \A k \in Nat : k \in S
  <2> HIDE DEF S
  <2> QED  BY <1>2, <1>3, Induction
<1>5. Less(T)
  <2>1. Cardinality(T) \in Nat
    BY <1>0, FS_CardinalityType
  <2> HIDE DEF Less
  <2> QED  BY <1>4, <2>1
<1> QED  BY <1>5

\* What the words T give to a meta block: the bit of each, at a place of its
\* own, as a sum.
Packs(fold, bit, pos, T, G) ==
  /\ pos \in [T -> Nat] /\ bit \in [T -> {0, 1}]
  /\ \A a, b \in T : pos[a] = pos[b] => a = b
  /\ \A a \in T : pos[a] < G
  /\ IsSum(fold, [a \in T |-> bit[a] * Power2[pos[a]]], T)

(* Such a sum is small, and has every bit at its place.                    *)
LEMMA PackedBits ==
  ASSUME NEW T, NEW bit, NEW pos, NEW G \in Nat, NEW fold, Packs(fold, bit, pos, T, G)
  PROVE  /\ fold[T] \in 0 .. Power2[G] - 1
         /\ \A a \in T : Bit(fold[T], pos[a]) = bit[a]
<1> DEFINE w == [a \in T |-> bit[a] * Power2[pos[a]]]
           Below(p) == {a \in T : pos[a] < p}
           Packed(p) == /\ fold[Below(p)] \in 0 .. Power2[p] - 1
                        /\ \A a \in Below(p) : Bit(fold[Below(p)], pos[a]) = bit[a]
           S == {p \in Nat : Packed(p)}
<1>0. /\ pos \in [T -> Nat] /\ bit \in [T -> {0, 1}]
      /\ \A a, b \in T : pos[a] = pos[b] => a = b
      /\ \A a \in T : pos[a] < G
      /\ IsSum(fold, w, T)
  BY DEF Packs
<1>1. AnyLast(fold, w, T) /\ fold[{}] = 0 /\ \A s \in SUBSET T : fold[s] \in Nat
  <2> HIDE DEF w
  <2> QED  BY <1>0, SumsRemove, SumOfNothing
<1>2. 0 \in S
  <2>1. Below(0) = {}
    BY <1>0
  <2>2. 0 \in 0 .. Power2[0] - 1
    BY PowerUnfolds
  <2> HIDE DEF Below
  <2> QED  BY <1>1, <2>1, <2>2
<1>3. ASSUME NEW p \in Nat, p \in S
      PROVE  p + 1 \in S
  <2>1. PICK low \in 0 .. Power2[p] - 1 : low = fold[Below(p)]
    BY <1>3
  <2>2. Power2[p] \in Nat \ {0} /\ Power2[p + 1] = 2 * Power2[p]
    BY PowerUnfolds
  <2>3. \A a \in Below(p) : Bit(low, pos[a]) = bit[a]
    BY <1>3, <2>1
  <2>4. CASE \E a \in T : pos[a] = p
    <3>1. PICK a \in T : pos[a] = p
      BY <2>4
    <3>2. Below(p + 1) \in SUBSET T /\ a \in Below(p + 1)
      BY <3>1, <1>0
    <3>3. Below(p + 1) \ {a} = Below(p)
      <4>1. ASSUME NEW b \in T
            PROVE  b \in Below(p + 1) \ {a} <=> b \in Below(p)
        <5>1. pos[b] \in Nat /\ (pos[b] = p => b = a)
          BY <1>0, <3>1
        <5>2. pos[b] < p + 1 <=> pos[b] < p \/ pos[b] = p
          BY <5>1
        <5> QED  BY <3>1, <5>1, <5>2
      <4> QED  BY <4>1
    <3>4. fold[Below(p + 1)] = w[a] + fold[Below(p)]
      <4> HIDE DEF w, Below
      <4> QED  BY <1>1, <3>2, <3>3 DEF AnyLast
    <3>5. PICK b \in {0, 1} : b = bit[a]
      BY <1>0
    <3>6. fold[Below(p + 1)] = low + b * Power2[p]
      <4>1. w[a] = b * Power2[p]
        BY <3>1, <3>5
      <4>2. b * Power2[p] \in Nat /\ low \in Nat
        BY <2>2
      <4> HIDE DEF w, Below
      <4> QED  BY <2>1, <3>4, <4>1, <4>2
    <3>7. low + b * Power2[p] \in 0 .. Power2[p + 1] - 1
      BY <2>2
    <3>8. ASSUME NEW c \in Below(p + 1)
          PROVE  Bit(low + b * Power2[p], pos[c]) = bit[c]
      <4>1. CASE c = a
        BY <3>1, <3>5, <4>1, TopBit
      <4>2. CASE c # a
        <5>1. c \in Below(p)
          BY <3>3, <4>2
        <5>2. pos[c] \in Nat /\ pos[c] < p /\ low \in Nat
          BY <1>0, <5>1, <2>2
        <5>3. Bit(low + b * Power2[p], pos[c]) = Bit(low, pos[c])
          BY <5>2, LowerBits
        <5> QED  BY <2>3, <5>1, <5>3
      <4> QED  BY <4>1, <4>2
    <3> HIDE DEF Below
    <3> QED  BY <3>6, <3>7, <3>8
  <2>5. CASE ~ \E a \in T : pos[a] = p
    <3>1. Below(p + 1) = Below(p)
      <4>1. \A a \in T : pos[a] \in Nat /\ pos[a] # p
        BY <1>0, <2>5
      <4>2. \A a \in T : pos[a] < p + 1 <=> pos[a] < p
        BY <4>1
      <4> QED  BY <4>2
    <3>2. low \in 0 .. Power2[p + 1] - 1
      BY <2>2
    <3> HIDE DEF Below
    <3> QED  BY <2>1, <2>3, <3>1, <3>2
  <2> QED  BY <2>4, <2>5
<1>4. \A p \in Nat : p \in S
  <2> HIDE DEF S
  <2> QED  BY <1>2, <1>3, Induction
<1>5. Below(G) = T
  BY <1>0
<1>6. Packed(G)
  <2> HIDE DEF Packed
  <2> QED  BY <1>4
<1> HIDE DEF Below
<1> QED  BY <1>5, <1>6

-----------------------------------------------------------------------------
\* Where the blocks of an entry are.

Group == Width - 1
GroupNumber(w) == w \div Group

(* The sizes.                                                              *)
LEMMA Sizes ==
  /\ WordCount \in Nat \ {0} /\ Width \in Nat /\ Group \in Nat \ {0} /\ Group + 1 = Width
  /\ Words = 0 .. WordCount - 1 /\ InPlace!Words = Words /\ IsFiniteSet(Words)
  /\ InPlace!Group = Group
  /\ ENTRY_COUNT \in Nat \ {0, 1} /\ ITERATION_COUNT \in Nat \ {0}
  /\ Ids = 0 .. ENTRY_COUNT - 1 /\ IsFiniteSet(Ids)
<1>1. /\ WordCount \in Nat \ {0} /\ Width \in Nat \ {0, 1}
      /\ ENTRY_COUNT \in Nat \ {0, 1} /\ ITERATION_COUNT \in Nat \ {0}
  BY InplaceBenchAssumption
<1>2. IsFiniteSet(0 .. WordCount - 1) /\ IsFiniteSet(0 .. ENTRY_COUNT - 1)
  BY <1>1, FS_Interval
<1> QED  BY <1>1, <1>2 DEF Group, Words, Ids, InPlace!Words, InPlace!Group

(* Two numbers that differ by less than the step of a grid are on it at    *)
(* the same place.                                                         *)
LEMMA OnGrid ==
  ASSUME NEW d \in Nat \ {0}, NEW p \in Nat, NEW q \in Nat,
         NEW r \in 0 .. d - 1, NEW s \in 0 .. d - 1, p * d + r = q * d + s
  PROVE  p = q /\ r = s
<1>1. PICK n : n = p * d + r
  OBVIOUS
<1>2. n \div d = p /\ n % d = r
  BY <1>1, OneQuotient
<1>3. n = q * d + s
  BY <1>1
<1>4. n \div d = q /\ n % d = s
  BY <1>3, OneQuotient
<1> QED  BY <1>2, <1>4

(* A word is where its group and its position in it say.                   *)
LEMMA WordPlace ==
  ASSUME NEW w \in Words
  PROVE  /\ GroupNumber(w) \in Nat /\ InPlace!Position(w) \in 0 .. Group - 1
         /\ w = GroupNumber(w) * Group + InPlace!Position(w)
         /\ InPlace!FirstBlock(w) = GroupNumber(w) * (Group + 1)
         /\ InPlace!CountOf(w) = WordCount - GroupNumber(w) * Group
         /\ InPlace!CountOf(w) \in Nat /\ InPlace!Position(w) < InPlace!CountOf(w)
<1>1. w \in Nat /\ w < WordCount /\ Group \in Nat \ {0} /\ WordCount \in Nat /\ InPlace!Group = Group
  BY Sizes
<1>2. /\ w \div Group \in Nat /\ w % Group \in 0 .. Group - 1
      /\ w = (w \div Group) * Group + (w % Group)
  BY <1>1, Divide
<1>3. GroupNumber(w) = w \div Group /\ InPlace!Position(w) = w % Group
  BY <1>1 DEF GroupNumber, InPlace!Position
<1>4. InPlace!FirstBlock(w) = GroupNumber(w) * (Group + 1)
  BY <1>1, <1>3 DEF InPlace!FirstBlock
<1>5. InPlace!CountOf(w) = WordCount - GroupNumber(w) * Group
  BY <1>1, <1>3 DEF InPlace!CountOf
<1>6. PICK m \in Nat : m = GroupNumber(w) * Group
  BY <1>1, <1>2, <1>3
<1>7. InPlace!CountOf(w) = WordCount - m /\ w = m + InPlace!Position(w) /\ InPlace!Position(w) \in Nat
  BY <1>2, <1>3, <1>5, <1>6
<1>8. InPlace!CountOf(w) \in Nat /\ InPlace!Position(w) < InPlace!CountOf(w)
  BY <1>1, <1>6, <1>7
<1> QED  BY <1>2, <1>3, <1>4, <1>5, <1>8

(* Words with the same first block have the same meta block, and different *)
(* positions.                                                              *)
LEMMA SameGroup ==
  ASSUME NEW v \in Words, NEW w \in Words
  PROVE  /\ InPlace!FirstBlock(v) = InPlace!FirstBlock(w) <=> GroupNumber(v) = GroupNumber(w)
         /\ GroupNumber(v) = GroupNumber(w) =>
              /\ InPlace!MetaBlock(v) = InPlace!MetaBlock(w)
              /\ InPlace!GroupOf(v) = InPlace!GroupOf(w)
              /\ InPlace!Position(v) = InPlace!Position(w) => v = w
<1>1. GroupNumber(v) \in Nat /\ GroupNumber(w) \in Nat /\ Group + 1 \in Nat \ {0}
  <2>1. GroupNumber(v) \in Nat /\ GroupNumber(w) \in Nat
    BY WordPlace
  <2>2. Group \in Nat
    BY Sizes
  <2>3. Group + 1 \in Nat \ {0}
    BY <2>2
  <2> QED  BY <2>1, <2>3
<1>2. /\ InPlace!FirstBlock(v) = GroupNumber(v) * (Group + 1)
      /\ InPlace!FirstBlock(w) = GroupNumber(w) * (Group + 1)
      /\ v = GroupNumber(v) * Group + InPlace!Position(v) /\ w = GroupNumber(w) * Group + InPlace!Position(w)
      /\ InPlace!CountOf(v) = WordCount - GroupNumber(v) * Group
      /\ InPlace!CountOf(w) = WordCount - GroupNumber(w) * Group
  BY WordPlace
<1>3. GroupNumber(v) * (Group + 1) = GroupNumber(w) * (Group + 1) => GroupNumber(v) = GroupNumber(w)
  <2>1. SUFFICES ASSUME GroupNumber(v) * (Group + 1) = GroupNumber(w) * (Group + 1)
                 PROVE  GroupNumber(v) = GroupNumber(w)
    OBVIOUS
  <2>2. PICK p \in Nat, q \in Nat, d \in Nat \ {0} : p = GroupNumber(v) /\ q = GroupNumber(w) /\ d = Group + 1
    BY <1>1
  <2>3. PICK z \in 0 .. d - 1 : z = 0
    OBVIOUS
  <2>4. p * d + z = q * d + z
    BY <2>1, <2>2
  <2>5. p = q
    BY <2>4, OnGrid
  <2> QED  BY <2>2, <2>5
<1>4. ASSUME GroupNumber(v) = GroupNumber(w)
      PROVE  /\ InPlace!MetaBlock(v) = InPlace!MetaBlock(w)
             /\ InPlace!GroupOf(v) = InPlace!GroupOf(w)
             /\ InPlace!Position(v) = InPlace!Position(w) => v = w
  BY <1>2, <1>4 DEF InPlace!MetaBlock, InPlace!GroupOf
<1> QED  BY <1>2, <1>3, <1>4

\* The block behind the words of a group, counted from its first block.
MetaPlace(w) == IF InPlace!CountOf(w) >= Width THEN Group ELSE InPlace!CountOf(w)

(* The number of groups, and of blocks.                                    *)
LEMMA GroupCount ==
  \E groups \in Nat :
    /\ WordCount <= groups * Group
    /\ \A g \in Nat : g * Group < WordCount <=> g < groups
    /\ InPlace!BlockCount = WordCount + groups
    /\ InPlace!Blocks = 0 .. WordCount + groups - 1
<1>1. WordCount \in Nat \ {0} /\ Group \in Nat \ {0} /\ InPlace!Group = Group
  BY Sizes
<1>2. PICK n \in Nat : n = WordCount + Group - 1
  BY <1>1
<1>3. PICK C \in Nat, r \in 0 .. Group - 1 : C = n \div Group /\ r = n % Group
  BY <1>1, Divide
<1>4. n = C * Group + r
  BY <1>1, <1>3, Divide
<1>5. WordCount <= C * Group /\ C * Group < WordCount + Group
  <2>1. PICK m \in Nat : m = C * Group
    BY <1>1
  <2> QED  BY <1>1, <1>2, <1>3, <1>4, <2>1
<1>6. ASSUME NEW g \in Nat
      PROVE  g * Group < WordCount <=> g < C
  <2>1. CASE g < C
    <3>1. PICK d \in Nat : C = g + 1 + d
      <4>1. C - (g + 1) \in Nat /\ C = g + 1 + (C - (g + 1))
        BY <2>1
      <4> QED  BY <4>1
    <3>2. C * Group = g * Group + Group + d * Group
      BY <1>1, <3>1
    <3>3. g * Group \in Nat /\ d * Group \in Nat
      BY <1>1
    <3>4. g * Group < WordCount
      BY <1>1, <1>5, <3>2, <3>3
    <3> QED  BY <2>1, <3>4
  <2>2. CASE ~ (g < C)
    <3>1. PICK d \in Nat : g = C + d
      <4>1. g - C \in Nat /\ g = C + (g - C)
        BY <2>2
      <4> QED  BY <4>1
    <3>2. g * Group = C * Group + d * Group
      BY <1>1, <3>1
    <3>3. d * Group \in Nat /\ C * Group \in Nat
      BY <1>1
    <3>4. ~ (g * Group < WordCount)
      BY <1>1, <1>5, <3>2, <3>3
    <3> QED  BY <2>2, <3>4
  <2> QED  BY <2>1, <2>2
<1>7. InPlace!BlockCount = WordCount + C
  BY <1>1, <1>2, <1>3 DEF InPlace!BlockCount
<1>8. InPlace!Blocks = 0 .. WordCount + C - 1
  BY <1>1, <1>3, <1>7 DEF InPlace!Blocks
<1>9. \A g \in Nat : g * Group < WordCount <=> g < C
  BY <1>6
<1> QED  BY <1>3, <1>5, <1>7, <1>8, <1>9

(* A word's place in the blocks, written out.                              *)
LEMMA BlocksOfWord ==
  ASSUME NEW w \in Words
  PROVE  /\ InPlace!SlidingBlock(w) = GroupNumber(w) * (Group + 1) + InPlace!Position(w)
         /\ InPlace!MetaBlock(w) = GroupNumber(w) * (Group + 1) + MetaPlace(w)
         /\ InPlace!HighBlock(w) = GroupNumber(w) * (Group + 1) + (1 + InPlace!Position(w))
         /\ InPlace!MetaSource(w) = GroupNumber(w) * (Group + 1) + InPlace!CountOf(w)
         /\ MetaPlace(w) \in 1 .. Group /\ InPlace!Position(w) < MetaPlace(w)
         /\ MetaPlace(w) <= InPlace!CountOf(w)
         /\ GroupNumber(w) * (Group + 1) + InPlace!CountOf(w) \in InPlace!Blocks
         /\ \A r \in 0 .. InPlace!CountOf(w) : GroupNumber(w) * (Group + 1) + r \in InPlace!Blocks
<1>1. PICK g \in Nat, p \in Nat, count \in Nat, first \in Nat :
        /\ g = GroupNumber(w) /\ p = InPlace!Position(w) /\ count = InPlace!CountOf(w)
        /\ first = g * (Group + 1)
  <2>0. Group \in Nat
    BY Sizes
  <2>1. GroupNumber(w) \in Nat /\ InPlace!Position(w) \in Nat /\ InPlace!CountOf(w) \in Nat
    BY <2>0, WordPlace
  <2>2. GroupNumber(w) * (Group + 1) \in Nat
    BY <2>0, <2>1
  <2> QED  BY <2>1, <2>2
<1>2. /\ p < Group /\ p < count /\ InPlace!FirstBlock(w) = first /\ count = WordCount - g * Group
      /\ w = g * Group + p
  <2>1. /\ InPlace!Position(w) \in 0 .. Group - 1
        /\ w = GroupNumber(w) * Group + InPlace!Position(w)
        /\ InPlace!FirstBlock(w) = GroupNumber(w) * (Group + 1)
        /\ InPlace!CountOf(w) = WordCount - GroupNumber(w) * Group
        /\ InPlace!Position(w) < InPlace!CountOf(w)
    BY WordPlace
  <2>2. Group \in Nat
    BY Sizes
  <2>3. \A x \in 0 .. Group - 1 : x < Group
    BY <2>2
  <2> QED  BY <1>1, <2>1, <2>3
<1>3. WordCount \in Nat /\ Group \in Nat \ {0} /\ Width = Group + 1 /\ InPlace!Group = Group
  BY Sizes
<1>4. MetaPlace(w) \in 1 .. Group /\ p < MetaPlace(w) /\ MetaPlace(w) <= count /\ MetaPlace(w) \in Nat
  BY <1>1, <1>2, <1>3 DEF MetaPlace
<1>5. /\ InPlace!SlidingBlock(w) = first + p
      /\ InPlace!MetaBlock(w) = first + MetaPlace(w)
      /\ InPlace!MetaSource(w) = first + count
  BY <1>1, <1>2, <1>3
     DEF InPlace!SlidingBlock, InPlace!MetaBlock, InPlace!MetaSource, MetaPlace
<1>6. InPlace!HighBlock(w) = first + (1 + p)
  <2>1. InPlace!HighBlock(w) = first + 1 + p
    BY <1>1, <1>2 DEF InPlace!HighBlock
  <2> QED  BY <2>1
<1>7. PICK groups \in Nat : /\ \A h \in Nat : h * Group < WordCount <=> h < groups
                            /\ InPlace!Blocks = 0 .. WordCount + groups - 1
  BY GroupCount
<1>8. g < groups
  <2>1. PICK m \in Nat : m = g * Group
    BY <1>3
  <2>2. m < WordCount
    BY <1>2, <1>3, <2>1
  <2> QED  BY <1>7, <2>1, <2>2
<1>9. first + count = g + WordCount
  <2>1. PICK m \in Nat : m = g * Group
    BY <1>3
  <2>2. g * (Group + 1) = m + g
    BY <1>3, <2>1
  <2> QED  BY <1>1, <1>2, <1>3, <2>1, <2>2
<1>10. ASSUME NEW r \in 0 .. count
       PROVE  first + r \in InPlace!Blocks
  BY <1>3, <1>7, <1>8, <1>9
<1> QED  BY <1>1, <1>2, <1>4, <1>5, <1>6, <1>10

(* No two words, and no word and no group, share a block.                  *)
LEMMA BlocksApart ==
  ASSUME NEW v \in Words, NEW w \in Words
  PROVE  /\ InPlace!SlidingBlock(v) = InPlace!SlidingBlock(w) => v = w
         /\ InPlace!HighBlock(v) = InPlace!HighBlock(w) => v = w
         /\ InPlace!SlidingBlock(v) # InPlace!MetaBlock(w)
         /\ InPlace!FirstBlock(v) # InPlace!HighBlock(w)
         /\ InPlace!MetaBlock(v) = InPlace!MetaBlock(w) => GroupNumber(v) = GroupNumber(w)
         /\ InPlace!FirstBlock(v) = InPlace!FirstBlock(w) => GroupNumber(v) = GroupNumber(w)
<1>1. PICK d \in Nat \ {0} : d = Group + 1
  <2>1. Group \in Nat
    BY Sizes
  <2>2. Group + 1 \in Nat \ {0}
    BY <2>1
  <2> QED  BY <2>2
<1>2. ASSUME NEW x \in Words
      PROVE  /\ GroupNumber(x) \in Nat
             /\ InPlace!Position(x) \in 0 .. d - 1 /\ 1 + InPlace!Position(x) \in 0 .. d - 1
             /\ MetaPlace(x) \in 0 .. d - 1
             /\ InPlace!SlidingBlock(x) = GroupNumber(x) * d + InPlace!Position(x)
             /\ InPlace!MetaBlock(x) = GroupNumber(x) * d + MetaPlace(x)
             /\ InPlace!HighBlock(x) = GroupNumber(x) * d + (1 + InPlace!Position(x))
             /\ InPlace!Position(x) < MetaPlace(x)
  <2>1. Group \in Nat /\ d - 1 = Group
    BY <1>1, Sizes
  <2>2. GroupNumber(x) \in Nat /\ InPlace!Position(x) \in 0 .. Group - 1
    BY WordPlace
  <2>3. MetaPlace(x) \in 1 .. Group
    BY BlocksOfWord
  <2>4. InPlace!Position(x) \in 0 .. d - 1 /\ 1 + InPlace!Position(x) \in 0 .. d - 1
        /\ MetaPlace(x) \in 0 .. d - 1
    BY <2>1, <2>2, <2>3
  <2> QED  BY <1>1, <2>2, <2>4, BlocksOfWord
<1>3. ASSUME InPlace!SlidingBlock(v) = InPlace!SlidingBlock(w)
      PROVE  v = w
  <2>1. GroupNumber(v) = GroupNumber(w) /\ InPlace!Position(v) = InPlace!Position(w)
    BY <1>2, <1>3, OnGrid
  <2> QED  BY <2>1, SameGroup
<1>4. ASSUME InPlace!HighBlock(v) = InPlace!HighBlock(w)
      PROVE  v = w
  <2>1. PICK p \in 0 .. d - 1, q \in 0 .. d - 1 : p = 1 + InPlace!Position(v) /\ q = 1 + InPlace!Position(w)
    BY <1>2
  <2>2. GroupNumber(v) = GroupNumber(w) /\ p = q
    BY <1>2, <1>4, <2>1, OnGrid
  <2>3. InPlace!Position(v) = InPlace!Position(w)
    BY <1>2, <2>1, <2>2
  <2> QED  BY <2>2, <2>3, SameGroup
<1>5. ASSUME InPlace!SlidingBlock(v) = InPlace!MetaBlock(w)
      PROVE  FALSE
  <2>0. PICK a \in Nat, b \in Nat, r \in 0 .. d - 1, s \in 0 .. d - 1 :
          /\ a = GroupNumber(v) /\ b = GroupNumber(w)
          /\ r = InPlace!Position(v) /\ s = MetaPlace(w)
    BY <1>2
  <2>1. GroupNumber(v) = GroupNumber(w) /\ InPlace!Position(v) = MetaPlace(w)
    <3>1. a * d + r = b * d + s
      BY <1>2, <1>5, <2>0
    <3>2. a = b /\ r = s
      BY <3>1, OnGrid
    <3> QED  BY <2>0, <3>2
  <2>2. MetaPlace(v) = MetaPlace(w)
    BY <2>1, WordPlace DEF MetaPlace
  <2> QED  BY <1>2, <2>1, <2>2
<1>6. ASSUME InPlace!FirstBlock(v) = InPlace!HighBlock(w)
      PROVE  FALSE
  <2>1. PICK z \in 0 .. d - 1, q \in 0 .. d - 1 : z = 0 /\ q = 1 + InPlace!Position(w)
    <3>1. 0 \in 0 .. d - 1
      OBVIOUS
    <3>2. 1 + InPlace!Position(w) \in 0 .. d - 1
      BY <1>2
    <3> QED  BY <3>1, <3>2
  <2>0. PICK a \in Nat, b \in Nat : a = GroupNumber(v) /\ b = GroupNumber(w)
    BY <1>2
  <2>2. InPlace!FirstBlock(v) = a * d + z
    <3>1. InPlace!FirstBlock(v) = a * d
      BY <1>1, <2>0, WordPlace
    <3>2. a * d + z = a * d
      BY <2>1
    <3> QED  BY <3>1, <3>2
  <2>3. InPlace!HighBlock(w) = b * d + q
    BY <1>2, <2>0, <2>1
  <2>4. a * d + z = b * d + q
    BY <1>6, <2>2, <2>3
  <2>5. z = q
    BY <2>4, OnGrid
  <2>6. InPlace!Position(w) \in Nat
    BY <1>2
  <2> QED  BY <2>1, <2>5, <2>6
<1>7. ASSUME InPlace!MetaBlock(v) = InPlace!MetaBlock(w)
      PROVE  GroupNumber(v) = GroupNumber(w)
  BY <1>2, <1>7, OnGrid
<1> QED  BY <1>3, <1>4, <1>5, <1>6, <1>7, SameGroup

(* The first block of a group is that of its first word.                   *)
LEMMA FirstOfGroup ==
  ASSUME NEW w \in Words
  PROVE  \E v \in Words : /\ InPlace!SlidingBlock(v) = InPlace!FirstBlock(w)
                          /\ InPlace!FirstBlock(v) = InPlace!FirstBlock(w)
                          /\ InPlace!Position(v) = 0 /\ GroupNumber(v) = GroupNumber(w)
<1>1. PICK g \in Nat, G \in Nat \ {0} : g = GroupNumber(w) /\ G = Group
  BY WordPlace, Sizes
<1>2. PICK v : v = g * G
  OBVIOUS
<1>3. v \in Words
  <2>1. w = v + InPlace!Position(w) /\ InPlace!Position(w) \in Nat
    BY <1>1, <1>2, WordPlace
  <2>2. v \in Nat
    BY <1>2
  <2> QED  BY <2>1, <2>2, Sizes
<1>4. v \div G = g /\ v % G = 0
  <2>1. PICK z \in 0 .. G - 1 : z = 0
    OBVIOUS
  <2>2. v = g * G + z
    BY <1>2, <2>1
  <2> QED  BY <2>1, <2>2, OneQuotient
<1>5. GroupNumber(v) = g /\ InPlace!Position(v) = 0
  BY <1>1, <1>4, Sizes DEF GroupNumber, InPlace!Position
<1>6. InPlace!FirstBlock(v) = InPlace!FirstBlock(w)
  BY <1>1, <1>3, <1>5, SameGroup
<1>7. InPlace!SlidingBlock(v) = InPlace!FirstBlock(w)
  <2>1. PICK f \in Nat : f = InPlace!FirstBlock(w)
    <3>1. g * (G + 1) \in Nat
      OBVIOUS
    <3> QED  BY <1>1, <3>1, WordPlace
  <2> QED  BY <1>5, <1>6, <2>1 DEF InPlace!SlidingBlock
<1> QED  BY <1>1, <1>3, <1>5, <1>6, <1>7

(* Every block belongs to a word or a group, in either scheme.             *)
LEMMA AllBlocks ==
  ASSUME NEW k \in InPlace!Blocks
  PROVE  /\ \E w \in Words : k \in {InPlace!SlidingBlock(w), InPlace!MetaBlock(w)}
         /\ \E w \in Words : k \in {InPlace!FirstBlock(w), InPlace!HighBlock(w)}
<1>1. PICK groups \in Nat : /\ WordCount <= groups * Group
                            /\ \A h \in Nat : h * Group < WordCount <=> h < groups
                            /\ InPlace!Blocks = 0 .. WordCount + groups - 1
  BY GroupCount
<1>2. PICK G \in Nat \ {0} : G = Group
  BY Sizes
<1>3. WordCount \in Nat /\ Width = G + 1 /\ InPlace!Group = G /\ Words = 0 .. WordCount - 1
  BY <1>2, Sizes
<1>4. k \in Nat /\ k < WordCount + groups
  BY <1>1, <1>3
<1>5. PICK q \in Nat, r \in 0 .. G : k = q * (G + 1) + r
  <2>1. PICK d \in Nat \ {0} : d = G + 1
    OBVIOUS
  <2>2. k \div d \in Nat /\ k % d \in 0 .. d - 1 /\ k = (k \div d) * d + (k % d)
    BY <1>4, Divide
  <2>3. d - 1 = G
    BY <2>1
  <2> QED  BY <2>1, <2>2, <2>3
<1>6. PICK m \in Nat : m = q * G
  OBVIOUS
<1>7. k = m + q + r
  BY <1>5, <1>6
<1>8. q < groups
  <2>1. SUFFICES ASSUME ~ (q < groups) PROVE FALSE
    OBVIOUS
  <2>2. PICK d \in Nat : q = groups + d
    <3>1. q - groups \in Nat /\ q = groups + (q - groups)
      BY <2>1
    <3> QED  BY <3>1
  <2>3. m = groups * G + d * G /\ groups * G \in Nat /\ d * G \in Nat
    BY <1>6, <2>2
  <2>4. m >= WordCount
    BY <1>1, <1>2, <1>3, <2>3
  <2> QED  BY <1>3, <1>4, <1>7, <2>2, <2>4
<1>9. m < WordCount
  BY <1>1, <1>2, <1>6, <1>8
<1>10. m + r <= WordCount
  <2>1. CASE q + 1 < groups
    <3>1. (q + 1) * G < WordCount
      <4>1. q + 1 \in Nat
        OBVIOUS
      <4> QED  BY <1>1, <1>2, <2>1, <4>1
    <3>2. (q + 1) * G = m + G
      BY <1>6
    <3> QED  BY <1>3, <3>1, <3>2
  <2>2. CASE ~ (q + 1 < groups)
    <3>1. groups = q + 1
      BY <1>8, <2>2
    <3> QED  BY <1>3, <1>4, <1>7, <3>1
  <2> QED  BY <2>1, <2>2
<1>11. ASSUME NEW s \in 0 .. G - 1, m + s < WordCount
       PROVE  /\ m + s \in Words /\ GroupNumber(m + s) = q /\ InPlace!Position(m + s) = s
              /\ InPlace!CountOf(m + s) = WordCount - m
  <2>1. PICK w : w = m + s
    OBVIOUS
  <2>2. w \in Words
    BY <1>3, <1>11, <2>1
  <2>3. w = q * G + s
    BY <1>6, <2>1
  <2>4. w \div G = q /\ w % G = s
    BY <2>3, OneQuotient
  <2>5. GroupNumber(w) = q /\ InPlace!Position(w) = s
    BY <1>2, <1>3, <2>4 DEF GroupNumber, InPlace!Position
  <2>6. InPlace!CountOf(w) = WordCount - m
    BY <1>2, <1>6, <2>2, <2>5, WordPlace
  <2> QED  BY <2>1, <2>2, <2>5, <2>6
<1>12. \E w \in Words : k \in {InPlace!SlidingBlock(w), InPlace!MetaBlock(w)}
  <2>1. CASE r < G /\ m + r < WordCount
    <3>1. r \in 0 .. G - 1
      BY <2>1
    <3>2. PICK w \in Words : GroupNumber(w) = q /\ InPlace!Position(w) = r
      BY <1>11, <2>1, <3>1
    <3>3. InPlace!SlidingBlock(w) = k
      BY <1>2, <1>5, <3>2, BlocksOfWord
    <3> QED  BY <3>3
  <2>2. CASE ~ (r < G /\ m + r < WordCount)
    <3>1. PICK w \in Words : GroupNumber(w) = q /\ InPlace!CountOf(w) = WordCount - m
      <4>1. 0 \in 0 .. G - 1 /\ m + 0 < WordCount
        BY <1>9
      <4> QED  BY <1>11, <4>1
    <3>2. MetaPlace(w) = r
      BY <1>2, <1>3, <1>9, <1>10, <2>2, <3>1 DEF MetaPlace
    <3>3. InPlace!MetaBlock(w) = k
      BY <1>2, <1>5, <3>1, <3>2, BlocksOfWord
    <3> QED  BY <3>3
  <2> QED  BY <2>1, <2>2
<1>13. \E w \in Words : k \in {InPlace!FirstBlock(w), InPlace!HighBlock(w)}
  <2>1. CASE r = 0
    <3>1. PICK w \in Words : GroupNumber(w) = q
      <4>1. 0 \in 0 .. G - 1 /\ m + 0 < WordCount
        BY <1>9
      <4> QED  BY <1>11, <4>1
    <3>2. InPlace!FirstBlock(w) = q * (G + 1)
      BY <1>2, <3>1, WordPlace
    <3>3. q * (G + 1) + 0 = q * (G + 1)
      OBVIOUS
    <3> QED  BY <1>5, <2>1, <3>2, <3>3
  <2>2. CASE r # 0
    <3>1. r - 1 \in 0 .. G - 1 /\ m + (r - 1) < WordCount /\ 1 + (r - 1) = r
      BY <1>3, <1>10, <2>2
    <3>2. PICK w \in Words : GroupNumber(w) = q /\ InPlace!Position(w) = r - 1
      BY <1>11, <3>1
    <3>3. InPlace!HighBlock(w) = q * (G + 1) + (1 + (r - 1))
      BY <1>2, <3>2, BlocksOfWord
    <3> QED  BY <1>5, <3>1, <3>3
  <2> QED  BY <2>1, <2>2
<1> QED  BY <1>12, <1>13

(* high_bits has of every word of the group the bit its version displaces. *)
LEMMA DisplacedOps ==
  ASSUME NEW w \in Words, NEW input \in [Words -> Nat]
  PROVE  /\ InPlace!DisplacedBits(input, w) \in 0 .. Power2[Group] - 1
         /\ \A a \in InPlace!GroupOf(w) :
              Bit(InPlace!DisplacedBits(input, w), InPlace!Position(a)) = Bit(input[a], InPlace!Position(a))
<1> DEFINE T == InPlace!GroupOf(w)
           bit == [a \in T |-> Bit(input[a], InPlace!Position(a))]
           pos == [a \in T |-> InPlace!Position(a)]
           weight == [a \in T |-> bit[a] * Power2[pos[a]]]
           iter[s \in SUBSET T] ==
             IF s = {} THEN 0
             ELSE InPlace!Bit(input[CHOOSE x \in s : TRUE], InPlace!Position(CHOOSE x \in s : TRUE))
                    * InPlace!Power2[InPlace!Position(CHOOSE x \in s : TRUE)]
                  + iter[s \ {CHOOSE x \in s : TRUE}]
<1>1. T \in SUBSET Words /\ IsFiniteSet(T) /\ w \in T
  <2>1. T \in SUBSET Words /\ w \in T
    BY Sizes DEF InPlace!GroupOf
  <2> HIDE DEF T
  <2> QED  BY <2>1, Sizes, FS_Subset
<1>2. Group \in Nat
  BY Sizes
<1>3. ASSUME NEW a \in T
      PROVE  Bit(input[a], InPlace!Position(a)) \in {0, 1} /\ InPlace!Position(a) \in Nat /\ InPlace!Position(a) < Group
  <2>1. a \in Words /\ input[a] \in Nat
    BY <1>1
  <2>2. InPlace!Position(a) \in 0 .. Group - 1
    BY <2>1, WordPlace
  <2> QED  BY <1>2, <2>1, <2>2, BitType
<1>4. bit \in [T -> {0, 1}] /\ pos \in [T -> Nat]
  <2> HIDE DEF T
  <2> QED  BY <1>3
<1>5. weight \in [T -> Nat]
  <2>1. \A a \in T : bit[a] \in {0, 1} /\ Power2[pos[a]] \in Nat
    <3> HIDE DEF T, bit, pos
    <3> QED  BY <1>4, PowerUnfolds
  <2>2. \A a \in T : bit[a] * Power2[pos[a]] \in Nat
    <3> HIDE DEF T, bit, pos
    <3> QED  BY <2>1
  <2> HIDE DEF T, bit, pos
  <2> QED  BY <2>2
<1>6. PICK fold \in [SUBSET T -> Nat] : Sums(fold, weight, T)
  <2> HIDE DEF T, weight
  <2> QED  BY <1>1, <1>5, SumExists
<1>7. IsSum(fold, weight, T)
  <2> HIDE DEF T, weight
  <2> QED  BY <1>1, <1>5, <1>6 DEF IsSum
<1>8. \A a, b \in T : pos[a] = pos[b] => a = b
  <2>1. ASSUME NEW a \in T, NEW b \in T, InPlace!Position(a) = InPlace!Position(b)
        PROVE  a = b
    <3>1. a \in Words /\ b \in Words
      BY <1>1
    <3>2. InPlace!FirstBlock(a) = InPlace!FirstBlock(b)
      BY DEF InPlace!GroupOf
    <3> QED  BY <2>1, <3>1, <3>2, SameGroup
  <2> HIDE DEF T
  <2> QED  BY <2>1
<1>9. Packs(fold, bit, pos, T, Group)
  <2>1. \A a \in T : pos[a] < Group
    <3> HIDE DEF T
    <3> QED  BY <1>3
  <2>2. IsSum(fold, [a \in T |-> bit[a] * Power2[pos[a]]], T)
    <3> HIDE DEF T, bit, pos
    <3> QED  BY <1>7
  <2> HIDE DEF T, bit, pos
  <2> QED  BY <1>4, <1>8, <2>1, <2>2 DEF Packs
<1>10. fold[T] \in 0 .. Power2[Group] - 1 /\ \A a \in T : Bit(fold[T], pos[a]) = bit[a]
  <2> HIDE DEF T, bit, pos
  <2> QED  BY <1>2, <1>9, PackedBits
<1>11. InPlace!DisplacedBits(input, w) = iter[T]
  BY DEF InPlace!DisplacedBits, InPlace!MapThenSumSet, InPlace!MapThenFoldSet
<1>12. PICK some : some = [s \in SUBSET T |-> fold[s]]
  OBVIOUS
<1>13. ASSUME NEW a \in T
       PROVE  weight[a] = InPlace!Bit(input[a], InPlace!Position(a)) * InPlace!Power2[InPlace!Position(a)]
  <2>1. Bit(input[a], InPlace!Position(a)) = InPlace!Bit(input[a], InPlace!Position(a))
    BY DEF Bit, Group, InPlace!Group
  <2> HIDE DEF T
  <2> QED  BY <2>1 DEF Power2
<1> DEFINE g == [a \in T |-> InPlace!Bit(input[a], InPlace!Position(a)) * InPlace!Power2[InPlace!Position(a)]]
<1>14. some = [s \in SUBSET T |->
             IF s = {} THEN 0
             ELSE InPlace!Bit(input[CHOOSE x \in s : TRUE], InPlace!Position(CHOOSE x \in s : TRUE))
                    * InPlace!Power2[InPlace!Position(CHOOSE x \in s : TRUE)]
                  + some[s \ {CHOOSE x \in s : TRUE}]]
  <2>1. ASSUME NEW s \in SUBSET T
        PROVE  some[s] = IF s = {} THEN 0
             ELSE InPlace!Bit(input[CHOOSE x \in s : TRUE], InPlace!Position(CHOOSE x \in s : TRUE))
                    * InPlace!Power2[InPlace!Position(CHOOSE x \in s : TRUE)]
                  + some[s \ {CHOOSE x \in s : TRUE}]
    <3>1. some[s] = fold[s]
      <4> HIDE DEF T, weight
      <4> QED  BY <1>12
    <3>2. CASE s = {}
      <4> HIDE DEF T, weight
      <4> QED  BY <1>6, <3>1, <3>2 DEF Sums
    <3>3. CASE s # {}
      <4>1. PICK x : x = CHOOSE y \in s : TRUE
        OBVIOUS
      <4>2. x \in s
        BY <3>3, <4>1
      <4>3. x \in T /\ s \ {x} \in SUBSET T
        <5> HIDE DEF T
        <5> QED  BY <4>2
      <4>4. fold[s] = weight[x] + fold[s \ {x}] /\ some[s \ {x}] = fold[s \ {x}]
        <5> HIDE DEF T, weight
        <5> QED  BY <1>6, <1>12, <3>3, <4>1, <4>3 DEF Sums
      <4>5. weight[x] = InPlace!Bit(input[x], InPlace!Position(x)) * InPlace!Power2[InPlace!Position(x)]
        <5> HIDE DEF T, weight
        <5> QED  BY <1>13, <4>3
      <4> HIDE DEF T, weight
      <4> QED  BY <3>1, <3>3, <4>1, <4>4, <4>5
    <3> HIDE DEF T, weight
    <3> QED  BY <3>2, <3>3
  <2>2. some = [s \in SUBSET T |-> some[s]]
    <3> HIDE DEF T
    <3> QED  BY <1>12
  <2> HIDE DEF T, weight
  <2> QED  BY <2>1, <2>2
<1>15. iter = [s \in SUBSET T |->
             IF s = {} THEN 0
             ELSE InPlace!Bit(input[CHOOSE x \in s : TRUE], InPlace!Position(CHOOSE x \in s : TRUE))
                    * InPlace!Power2[InPlace!Position(CHOOSE x \in s : TRUE)]
                  + iter[s \ {CHOOSE x \in s : TRUE}]]
  <2> HIDE DEF T, weight
  <2> QED  BY <1>14
<1> HIDE DEF iter
<1>16. Sums(iter, weight, T)
  <2>1. ASSUME NEW s \in SUBSET T
        PROVE  iter[s] = IF s = {} THEN 0
                         ELSE weight[CHOOSE x \in s : TRUE] + iter[s \ {CHOOSE x \in s : TRUE}]
    <3>1. CASE s = {}
      <4> HIDE DEF T, weight
      <4> QED  BY <1>15, <3>1
    <3>2. CASE s # {}
      <4>1. PICK x : x = CHOOSE y \in s : TRUE
        OBVIOUS
      <4>2. x \in s
        BY <3>2, <4>1
      <4>3. x \in T
        <5> HIDE DEF T
        <5> QED  BY <4>2
      <4>4. iter[s] = InPlace!Bit(input[x], InPlace!Position(x)) * InPlace!Power2[InPlace!Position(x)] + iter[s \ {x}]
        <5> HIDE DEF T, weight
        <5> QED  BY <1>15, <3>2, <4>1
      <4>5. weight[x] = InPlace!Bit(input[x], InPlace!Position(x)) * InPlace!Power2[InPlace!Position(x)]
        <5> HIDE DEF T, weight
        <5> QED  BY <1>13, <4>3
      <4> HIDE DEF T, weight
      <4> QED  BY <3>2, <4>1, <4>4, <4>5
    <3> HIDE DEF T, weight
    <3> QED  BY <3>1, <3>2
  <2> HIDE DEF T, weight
  <2> QED  BY <2>1 DEF Sums
<1>17. iter[T] = fold[T]
  <2>1. T \in SUBSET T
    OBVIOUS
  <2> HIDE DEF T, weight
  <2> QED  BY <1>7, <1>16, <2>1, SumsAgree
<1>18. \A a \in T : Bit(iter[T], InPlace!Position(a)) = Bit(input[a], InPlace!Position(a))
  <2>1. \A a \in T : pos[a] = InPlace!Position(a) /\ bit[a] = Bit(input[a], InPlace!Position(a))
    <3> HIDE DEF T
    <3> QED  OBVIOUS
  <2> HIDE DEF T, bit, pos
  <2> QED  BY <1>10, <1>17, <2>1
<1> HIDE DEF T, bit, pos, weight
<1> QED  BY <1>10, <1>11, <1>17, <1>18 DEF T

(* currentHighBits has of every word of the group the highest bit.         *)
LEMMA HighOps ==
  ASSUME NEW w \in Words, NEW input \in [Words -> Nat]
  PROVE  /\ InPlace!HighBits(input, w) \in 0 .. Power2[Group] - 1
         /\ \A a \in InPlace!GroupOf(w) :
              Bit(InPlace!HighBits(input, w), InPlace!Position(a)) = Bit(input[a], Group)
<1> DEFINE T == InPlace!GroupOf(w)
           bit == [a \in T |-> Bit(input[a], Group)]
           pos == [a \in T |-> InPlace!Position(a)]
           weight == [a \in T |-> bit[a] * Power2[pos[a]]]
           iter[s \in SUBSET T] ==
             IF s = {} THEN 0
             ELSE InPlace!Bit(input[CHOOSE x \in s : TRUE], InPlace!Group)
                    * InPlace!Power2[InPlace!Position(CHOOSE x \in s : TRUE)]
                  + iter[s \ {CHOOSE x \in s : TRUE}]
<1>1. T \in SUBSET Words /\ IsFiniteSet(T) /\ w \in T
  <2>1. T \in SUBSET Words /\ w \in T
    BY Sizes DEF InPlace!GroupOf
  <2> HIDE DEF T
  <2> QED  BY <2>1, Sizes, FS_Subset
<1>2. Group \in Nat
  BY Sizes
<1>3. ASSUME NEW a \in T
      PROVE  Bit(input[a], Group) \in {0, 1} /\ InPlace!Position(a) \in Nat /\ InPlace!Position(a) < Group
  <2>1. a \in Words /\ input[a] \in Nat
    BY <1>1
  <2>2. InPlace!Position(a) \in 0 .. Group - 1
    BY <2>1, WordPlace
  <2> QED  BY <1>2, <2>1, <2>2, BitType
<1>4. bit \in [T -> {0, 1}] /\ pos \in [T -> Nat]
  <2> HIDE DEF T
  <2> QED  BY <1>3
<1>5. weight \in [T -> Nat]
  <2>1. \A a \in T : bit[a] \in {0, 1} /\ Power2[pos[a]] \in Nat
    <3> HIDE DEF T, bit, pos
    <3> QED  BY <1>4, PowerUnfolds
  <2>2. \A a \in T : bit[a] * Power2[pos[a]] \in Nat
    <3> HIDE DEF T, bit, pos
    <3> QED  BY <2>1
  <2> HIDE DEF T, bit, pos
  <2> QED  BY <2>2
<1>6. PICK fold \in [SUBSET T -> Nat] : Sums(fold, weight, T)
  <2> HIDE DEF T, weight
  <2> QED  BY <1>1, <1>5, SumExists
<1>7. IsSum(fold, weight, T)
  <2> HIDE DEF T, weight
  <2> QED  BY <1>1, <1>5, <1>6 DEF IsSum
<1>8. \A a, b \in T : pos[a] = pos[b] => a = b
  <2>1. ASSUME NEW a \in T, NEW b \in T, InPlace!Position(a) = InPlace!Position(b)
        PROVE  a = b
    <3>1. a \in Words /\ b \in Words
      BY <1>1
    <3>2. InPlace!FirstBlock(a) = InPlace!FirstBlock(b)
      BY DEF InPlace!GroupOf
    <3> QED  BY <2>1, <3>1, <3>2, SameGroup
  <2> HIDE DEF T
  <2> QED  BY <2>1
<1>9. Packs(fold, bit, pos, T, Group)
  <2>1. \A a \in T : pos[a] < Group
    <3> HIDE DEF T
    <3> QED  BY <1>3
  <2>2. IsSum(fold, [a \in T |-> bit[a] * Power2[pos[a]]], T)
    <3> HIDE DEF T, bit, pos
    <3> QED  BY <1>7
  <2> HIDE DEF T, bit, pos
  <2> QED  BY <1>4, <1>8, <2>1, <2>2 DEF Packs
<1>10. fold[T] \in 0 .. Power2[Group] - 1 /\ \A a \in T : Bit(fold[T], pos[a]) = bit[a]
  <2> HIDE DEF T, bit, pos
  <2> QED  BY <1>2, <1>9, PackedBits
<1>11. InPlace!HighBits(input, w) = iter[T]
  BY DEF InPlace!HighBits, InPlace!MapThenSumSet, InPlace!MapThenFoldSet
<1>12. PICK some : some = [s \in SUBSET T |-> fold[s]]
  OBVIOUS
<1>13. ASSUME NEW a \in T
       PROVE  weight[a] = InPlace!Bit(input[a], InPlace!Group) * InPlace!Power2[InPlace!Position(a)]
  <2>1. Bit(input[a], Group) = InPlace!Bit(input[a], InPlace!Group)
    BY DEF Bit, Group, InPlace!Group
  <2> HIDE DEF T
  <2> QED  BY <2>1 DEF Power2
<1> DEFINE g == [a \in T |-> InPlace!Bit(input[a], InPlace!Group) * InPlace!Power2[InPlace!Position(a)]]
<1>14. some = [s \in SUBSET T |->
             IF s = {} THEN 0
             ELSE InPlace!Bit(input[CHOOSE x \in s : TRUE], InPlace!Group)
                    * InPlace!Power2[InPlace!Position(CHOOSE x \in s : TRUE)]
                  + some[s \ {CHOOSE x \in s : TRUE}]]
  <2>1. ASSUME NEW s \in SUBSET T
        PROVE  some[s] = IF s = {} THEN 0
             ELSE InPlace!Bit(input[CHOOSE x \in s : TRUE], InPlace!Group)
                    * InPlace!Power2[InPlace!Position(CHOOSE x \in s : TRUE)]
                  + some[s \ {CHOOSE x \in s : TRUE}]
    <3>1. some[s] = fold[s]
      <4> HIDE DEF T, weight
      <4> QED  BY <1>12
    <3>2. CASE s = {}
      <4> HIDE DEF T, weight
      <4> QED  BY <1>6, <3>1, <3>2 DEF Sums
    <3>3. CASE s # {}
      <4>1. PICK x : x = CHOOSE y \in s : TRUE
        OBVIOUS
      <4>2. x \in s
        BY <3>3, <4>1
      <4>3. x \in T /\ s \ {x} \in SUBSET T
        <5> HIDE DEF T
        <5> QED  BY <4>2
      <4>4. fold[s] = weight[x] + fold[s \ {x}] /\ some[s \ {x}] = fold[s \ {x}]
        <5> HIDE DEF T, weight
        <5> QED  BY <1>6, <1>12, <3>3, <4>1, <4>3 DEF Sums
      <4>5. weight[x] = InPlace!Bit(input[x], InPlace!Group) * InPlace!Power2[InPlace!Position(x)]
        <5> HIDE DEF T, weight
        <5> QED  BY <1>13, <4>3
      <4> HIDE DEF T, weight
      <4> QED  BY <3>1, <3>3, <4>1, <4>4, <4>5
    <3> HIDE DEF T, weight
    <3> QED  BY <3>2, <3>3
  <2>2. some = [s \in SUBSET T |-> some[s]]
    <3> HIDE DEF T
    <3> QED  BY <1>12
  <2> HIDE DEF T, weight
  <2> QED  BY <2>1, <2>2
<1>15. iter = [s \in SUBSET T |->
             IF s = {} THEN 0
             ELSE InPlace!Bit(input[CHOOSE x \in s : TRUE], InPlace!Group)
                    * InPlace!Power2[InPlace!Position(CHOOSE x \in s : TRUE)]
                  + iter[s \ {CHOOSE x \in s : TRUE}]]
  <2> HIDE DEF T, weight
  <2> QED  BY <1>14
<1> HIDE DEF iter
<1>16. Sums(iter, weight, T)
  <2>1. ASSUME NEW s \in SUBSET T
        PROVE  iter[s] = IF s = {} THEN 0
                         ELSE weight[CHOOSE x \in s : TRUE] + iter[s \ {CHOOSE x \in s : TRUE}]
    <3>1. CASE s = {}
      <4> HIDE DEF T, weight
      <4> QED  BY <1>15, <3>1
    <3>2. CASE s # {}
      <4>1. PICK x : x = CHOOSE y \in s : TRUE
        OBVIOUS
      <4>2. x \in s
        BY <3>2, <4>1
      <4>3. x \in T
        <5> HIDE DEF T
        <5> QED  BY <4>2
      <4>4. iter[s] = InPlace!Bit(input[x], InPlace!Group) * InPlace!Power2[InPlace!Position(x)] + iter[s \ {x}]
        <5> HIDE DEF T, weight
        <5> QED  BY <1>15, <3>2, <4>1
      <4>5. weight[x] = InPlace!Bit(input[x], InPlace!Group) * InPlace!Power2[InPlace!Position(x)]
        <5> HIDE DEF T, weight
        <5> QED  BY <1>13, <4>3
      <4> HIDE DEF T, weight
      <4> QED  BY <3>2, <4>1, <4>4, <4>5
    <3> HIDE DEF T, weight
    <3> QED  BY <3>1, <3>2
  <2> HIDE DEF T, weight
  <2> QED  BY <2>1 DEF Sums
<1>17. iter[T] = fold[T]
  <2>1. T \in SUBSET T
    OBVIOUS
  <2> HIDE DEF T, weight
  <2> QED  BY <1>7, <1>16, <2>1, SumsAgree
<1>18. \A a \in T : Bit(iter[T], InPlace!Position(a)) = Bit(input[a], Group)
  <2>1. \A a \in T : pos[a] = InPlace!Position(a) /\ bit[a] = Bit(input[a], Group)
    <3> HIDE DEF T
    <3> QED  OBVIOUS
  <2> HIDE DEF T, bit, pos
  <2> QED  BY <1>10, <1>17, <2>1
<1> HIDE DEF T, bit, pos, weight
<1> QED  BY <1>10, <1>11, <1>17, <1>18 DEF T

\* The blocks of either scheme, and the states a reader takes of them.
SlidingBlockSet == [old : Nat, new : Nat]
HighBlockSet == [version : 0 .. 3, old : Nat, new : Nat]
News(b) == [k \in InPlace!Blocks |-> b[k].new]
Olds(b) == [k \in InPlace!Blocks |-> b[k].old]

(* The next version bit is a bit.                                          *)
LEMMA NextVersionBitOps ==
  ASSUME NEW b \in [InPlace!Blocks -> SlidingBlockSet], NEW w \in Words
  PROVE  /\ InPlace!NextVersionBit(b, w) \in {0, 1}
         /\ InPlace!NextVersionBit(b, w) = 1 - Bit(b[InPlace!FirstBlock(w)].old, 0)
         /\ InPlace!FirstBlock(w) \in InPlace!Blocks
<1>1. InPlace!FirstBlock(w) \in InPlace!Blocks
  <2>1. PICK v \in Words : /\ InPlace!SlidingBlock(v) = InPlace!FirstBlock(w)
                           /\ InPlace!Position(v) = 0 /\ GroupNumber(v) = GroupNumber(w)
    BY FirstOfGroup
  <2>2. 0 \in 0 .. InPlace!CountOf(v)
    BY WordPlace
  <2> QED  BY <2>1, <2>2, BlocksOfWord
<1>2. b[InPlace!FirstBlock(w)].old \in Nat
  BY <1>1 DEF SlidingBlockSet
<1>3. PICK c \in {0, 1} : c = Bit(b[InPlace!FirstBlock(w)].old, 0)
  BY <1>2, BitType
<1>4. InPlace!NextVersionBit(b, w) = 1 - c
  BY <1>3 DEF InPlace!NextVersionBit, Bit
<1> QED  BY <1>1, <1>3, <1>4

(* WriteRec of the sliding scheme writes every word into its own block and *)
(* what the words give up into the meta block of their group.              *)
LEMMA SlidingWritten ==
  ASSUME NEW b \in [InPlace!Blocks -> SlidingBlockSet], NEW x \in [Words -> Nat]
  PROVE  /\ InPlace!WriteSliding(b, x) \in [InPlace!Blocks -> SlidingBlockSet]
         /\ \A w \in Words :
              LET data == InPlace!WriteSliding(b, x)[InPlace!SlidingBlock(w)]
                  meta == InPlace!WriteSliding(b, x)[InPlace!MetaBlock(w)]
              IN /\ InPlace!SlidingBlock(w) \in InPlace!Blocks /\ InPlace!MetaBlock(w) \in InPlace!Blocks
                 /\ data.old = b[InPlace!SlidingBlock(w)].new
                 /\ data.new = WithBit(x[w], InPlace!Position(w), InPlace!NextVersionBit(b, w))
                 /\ meta.old = b[InPlace!MetaSource(w)].new
                 /\ Bit(meta.new, InPlace!Position(w)) = Bit(x[w], InPlace!Position(w))
                 /\ Bit(meta.new, Group) = InPlace!NextVersionBit(b, w)
<1> DEFINE d == InPlace!WriteSliding(b, x)
           chosen(k) == CHOOSE v \in InPlace!Words : k \in {InPlace!SlidingBlock(v), InPlace!MetaBlock(v)}
<1>0. InPlace!Words = Words /\ Group \in Nat /\ InPlace!Group = Group
  BY Sizes
<1>1. ASSUME NEW w \in Words
      PROVE  /\ InPlace!SlidingBlock(w) \in InPlace!Blocks /\ InPlace!MetaBlock(w) \in InPlace!Blocks
             /\ InPlace!MetaSource(w) \in InPlace!Blocks
             /\ InPlace!Position(w) \in Nat /\ InPlace!Position(w) < Group
             /\ x[w] \in Nat
  <2>1. InPlace!Position(w) \in 0 .. Group - 1 /\ InPlace!CountOf(w) \in Nat
        /\ InPlace!Position(w) < InPlace!CountOf(w)
    BY WordPlace
  <2>2. MetaPlace(w) \in 1 .. Group /\ MetaPlace(w) <= InPlace!CountOf(w)
    BY BlocksOfWord
  <2>3. InPlace!Position(w) \in 0 .. InPlace!CountOf(w) /\ MetaPlace(w) \in 0 .. InPlace!CountOf(w)
    BY <1>0, <2>1, <2>2
  <2> QED  BY <1>0, <2>1, <2>3, BlocksOfWord
<1>2. ASSUME NEW k \in InPlace!Blocks
      PROVE  /\ chosen(k) \in Words /\ k \in {InPlace!SlidingBlock(chosen(k)), InPlace!MetaBlock(chosen(k))}
             /\ d[k] = IF k = InPlace!SlidingBlock(chosen(k)) THEN InPlace!WriteWord(b, x, chosen(k))
                       ELSE InPlace!WriteMeta(b, x, chosen(k))
  <2>1. \E v \in Words : k \in {InPlace!SlidingBlock(v), InPlace!MetaBlock(v)}
    BY AllBlocks
  <2> QED  BY <1>0, <2>1 DEF InPlace!WriteSliding
<1> HIDE DEF chosen
<1>3. ASSUME NEW v \in Words
      PROVE  /\ InPlace!WriteWord(b, x, v) =
                  [old |-> b[InPlace!SlidingBlock(v)].new,
                   new |-> WithBit(x[v], InPlace!Position(v), InPlace!NextVersionBit(b, v))]
             /\ InPlace!WriteWord(b, x, v) \in SlidingBlockSet
  <2>1. InPlace!WriteWord(b, x, v) =
                  [old |-> b[InPlace!SlidingBlock(v)].new,
                   new |-> WithBit(x[v], InPlace!Position(v), InPlace!NextVersionBit(b, v))]
    BY DEF InPlace!WriteWord, WithBit
  <2>2. InPlace!NextVersionBit(b, v) \in {0, 1}
    BY NextVersionBitOps
  <2>3. WithBit(x[v], InPlace!Position(v), InPlace!NextVersionBit(b, v)) \in Nat
    BY <1>1, <2>2, WithBitOps
  <2>4. b[InPlace!SlidingBlock(v)].new \in Nat
    BY <1>1 DEF SlidingBlockSet
  <2> QED  BY <2>1, <2>3, <2>4 DEF SlidingBlockSet
<1>4. ASSUME NEW v \in Words
      PROVE  LET meta == InPlace!WriteMeta(b, x, v)
             IN /\ meta \in SlidingBlockSet
                /\ meta.old = b[InPlace!MetaSource(v)].new
                /\ Bit(meta.new, Group) = InPlace!NextVersionBit(b, v)
                /\ \A a \in InPlace!GroupOf(v) :
                     Bit(meta.new, InPlace!Position(a)) = Bit(x[a], InPlace!Position(a))
  <2>1. PICK D \in 0 .. Power2[Group] - 1 :
          /\ D = InPlace!DisplacedBits(x, v)
          /\ \A a \in InPlace!GroupOf(v) : Bit(D, InPlace!Position(a)) = Bit(x[a], InPlace!Position(a))
    BY DisplacedOps
  <2>2. PICK c \in {0, 1} : c = InPlace!NextVersionBit(b, v)
    BY NextVersionBitOps
  <2>3. InPlace!WriteMeta(b, x, v) = [old |-> b[InPlace!MetaSource(v)].new, new |-> WithBit(D, Group, c)]
    BY <1>0, <2>1, <2>2 DEF InPlace!WriteMeta, WithBit
  <2>4. D \in Nat /\ WithBit(D, Group, c) \in Nat /\ Bit(WithBit(D, Group, c), Group) = c
    <3>1. D \in Nat
      BY <1>0, PowerUnfolds
    <3> QED  BY <1>0, <3>1, WithBitOps
  <2>5. b[InPlace!MetaSource(v)].new \in Nat
    BY <1>1 DEF SlidingBlockSet
  <2>6. ASSUME NEW a \in InPlace!GroupOf(v)
        PROVE  Bit(WithBit(D, Group, c), InPlace!Position(a)) = Bit(x[a], InPlace!Position(a))
    <3>1. a \in Words
      BY <1>0 DEF InPlace!GroupOf
    <3>2. InPlace!Position(a) \in Nat /\ InPlace!Position(a) < Group
      BY <1>1, <3>1
    <3>3. Bit(WithBit(D, Group, c), InPlace!Position(a)) = Bit(D, InPlace!Position(a))
      BY <1>0, <3>2, BelowTheBit
    <3> QED  BY <2>1, <3>3
  <2> QED  BY <2>2, <2>3, <2>4, <2>5, <2>6 DEF SlidingBlockSet
<1>5. ASSUME NEW k \in InPlace!Blocks
      PROVE  d[k] \in SlidingBlockSet
  <2>1. InPlace!WriteWord(b, x, chosen(k)) \in SlidingBlockSet
    BY <1>2, <1>3
  <2>2. InPlace!WriteMeta(b, x, chosen(k)) \in SlidingBlockSet
    BY <1>2, <1>4
  <2> HIDE DEF d
  <2> QED  BY <1>2, <2>1, <2>2
<1>6. d \in [InPlace!Blocks -> SlidingBlockSet]
  <2>1. d = [k \in InPlace!Blocks |-> d[k]]
    BY DEF InPlace!WriteSliding
  <2> HIDE DEF d
  <2> QED  BY <1>5, <2>1
<1>7. ASSUME NEW w \in Words
      PROVE  /\ d[InPlace!SlidingBlock(w)].old = b[InPlace!SlidingBlock(w)].new
             /\ d[InPlace!SlidingBlock(w)].new =
                  WithBit(x[w], InPlace!Position(w), InPlace!NextVersionBit(b, w))
  <2>1. PICK k \in InPlace!Blocks : k = InPlace!SlidingBlock(w)
    BY <1>1
  <2>2. chosen(k) \in Words /\ k \in {InPlace!SlidingBlock(chosen(k)), InPlace!MetaBlock(chosen(k))}
    BY <1>2
  <2>3. chosen(k) = w
    BY <2>1, <2>2, BlocksApart
  <2>4. d[k] = InPlace!WriteWord(b, x, w)
    <3> HIDE DEF d
    <3> QED  BY <1>2, <2>1, <2>3
  <2> HIDE DEF d
  <2> QED  BY <1>3, <2>1, <2>4
<1>8. ASSUME NEW w \in Words
      PROVE  /\ d[InPlace!MetaBlock(w)].old = b[InPlace!MetaSource(w)].new
             /\ Bit(d[InPlace!MetaBlock(w)].new, InPlace!Position(w)) = Bit(x[w], InPlace!Position(w))
             /\ Bit(d[InPlace!MetaBlock(w)].new, Group) = InPlace!NextVersionBit(b, w)
  <2>1. PICK k \in InPlace!Blocks : k = InPlace!MetaBlock(w)
    BY <1>1
  <2>2. PICK v \in Words : v = chosen(k) /\ k \in {InPlace!SlidingBlock(v), InPlace!MetaBlock(v)}
    BY <1>2
  <2>3. k # InPlace!SlidingBlock(v) /\ k = InPlace!MetaBlock(v)
    BY <2>1, <2>2, BlocksApart
  <2>4. GroupNumber(v) = GroupNumber(w)
    BY <2>1, <2>3, BlocksApart
  <2>5. InPlace!GroupOf(v) = InPlace!GroupOf(w) /\ InPlace!FirstBlock(v) = InPlace!FirstBlock(w)
    BY <2>4, SameGroup
  <2>6. InPlace!MetaSource(v) = InPlace!MetaSource(w) /\ InPlace!NextVersionBit(b, v) = InPlace!NextVersionBit(b, w)
    <3>1. InPlace!CountOf(v) = InPlace!CountOf(w)
      BY <2>4, WordPlace
    <3> QED  BY <2>5, <3>1 DEF InPlace!MetaSource, InPlace!NextVersionBit
  <2>7. w \in InPlace!GroupOf(v)
    BY <1>0, <2>5 DEF InPlace!GroupOf
  <2>8. d[k] = InPlace!WriteMeta(b, x, v)
    <3> HIDE DEF d
    <3> QED  BY <1>2, <2>2, <2>3
  <2>9. /\ InPlace!WriteMeta(b, x, v).old = b[InPlace!MetaSource(v)].new
        /\ Bit(InPlace!WriteMeta(b, x, v).new, Group) = InPlace!NextVersionBit(b, v)
        /\ Bit(InPlace!WriteMeta(b, x, v).new, InPlace!Position(w)) = Bit(x[w], InPlace!Position(w))
    BY <1>4, <2>7
  <2> HIDE DEF d
  <2> QED  BY <2>1, <2>6, <2>8, <2>9
<1> HIDE DEF d
<1>9. \A w \in Words : InPlace!SlidingBlock(w) \in InPlace!Blocks /\ InPlace!MetaBlock(w) \in InPlace!Blocks
  BY <1>1
<1> QED  BY <1>6, <1>7, <1>8, <1>9 DEF d

(* A bit that is written twice is as it was written last, and writing what *)
(* it is changes nothing.                                                  *)
LEMMA WithBitBack ==
  ASSUME NEW n \in Nat, NEW k \in Nat, NEW b \in {0, 1}
  PROVE  WithBit(WithBit(n, k, b), k, Bit(n, k)) = n
<1>1. PICK e \in {0, 1} : e = Bit(n, k)
  BY BitType
<1>2. \A c \in {0, 1} : WithBit(WithBit(n, k, b), k, c) = WithBit(n, k, c)
  BY WithBitOps
<1>3. WithBit(WithBit(n, k, b), k, e) = WithBit(n, k, e)
  BY <1>2
<1>4. WithBit(n, k, Bit(n, k)) = n
  BY WithBitOps
<1> QED  BY <1>1, <1>3, <1>4

(* ... so that ReadRec puts the words together again.                      *)
LEMMA SlidingReadsBack ==
  ASSUME NEW b \in [InPlace!Blocks -> SlidingBlockSet], NEW x \in [Words -> Nat], NEW w \in Words
  PROVE  InPlace!WordOf(News(InPlace!WriteSliding(b, x)), w) = x[w]
<1>1. PICK d : d = InPlace!WriteSliding(b, x)
  OBVIOUS
<1>2. PICK c \in {0, 1}, p \in Nat :
        /\ c = InPlace!NextVersionBit(b, w) /\ p = InPlace!Position(w)
  <2>1. InPlace!Position(w) \in 0 .. Group - 1 /\ Group \in Nat
    BY WordPlace, Sizes
  <2> QED  BY <2>1, NextVersionBitOps
<1>3. /\ InPlace!SlidingBlock(w) \in InPlace!Blocks /\ InPlace!MetaBlock(w) \in InPlace!Blocks
      /\ d[InPlace!SlidingBlock(w)].new = WithBit(x[w], p, c)
      /\ Bit(d[InPlace!MetaBlock(w)].new, p) = Bit(x[w], p)
  BY <1>1, <1>2, SlidingWritten
<1>4. News(d)[InPlace!SlidingBlock(w)] = WithBit(x[w], p, c) /\ Bit(News(d)[InPlace!MetaBlock(w)], p) = Bit(x[w], p)
  BY <1>3 DEF News
<1>5. x[w] \in Nat
  OBVIOUS
<1>6. Bit(x[w], p) \in {0, 1}
  BY <1>5, BitType
<1>7. WithBit(WithBit(x[w], p, c), p, Bit(x[w], p)) = x[w]
  BY <1>5, WithBitBack
<1>8. InPlace!WordOf(News(d), w) = WithBit(News(d)[InPlace!SlidingBlock(w)], p, Bit(News(d)[InPlace!MetaBlock(w)], p))
  BY <1>2 DEF InPlace!WordOf, WithBit, Bit
<1> QED  BY <1>1, <1>4, <1>7, <1>8

(* WriteRec of the high-bit scheme does the same with the highest bits.    *)
LEMMA HighWritten ==
  ASSUME NEW b \in [InPlace!Blocks -> HighBlockSet], NEW x \in [Words -> Nat]
  PROVE  /\ InPlace!WriteHigh(b, x) \in [InPlace!Blocks -> HighBlockSet]
         /\ \A k \in InPlace!Blocks :
              /\ InPlace!WriteHigh(b, x)[k].version = (b[k].version + 1) % 4
              /\ InPlace!WriteHigh(b, x)[k].old = b[k].new
         /\ \A w \in Words : InPlace!HighWordOf(News(InPlace!WriteHigh(b, x)), w) = x[w]
<1> DEFINE d == InPlace!WriteHigh(b, x)
           chosen(k) == CHOOSE v \in InPlace!Words : k \in {InPlace!FirstBlock(v), InPlace!HighBlock(v)}
<1>0. InPlace!Words = Words /\ Group \in Nat /\ InPlace!Group = Group
  BY Sizes
<1>1. ASSUME NEW w \in Words
      PROVE  /\ InPlace!FirstBlock(w) \in InPlace!Blocks /\ InPlace!HighBlock(w) \in InPlace!Blocks
             /\ InPlace!Position(w) \in Nat /\ InPlace!Position(w) < Group
             /\ x[w] \in Nat
  <2>1. InPlace!Position(w) \in 0 .. Group - 1 /\ InPlace!CountOf(w) \in Nat
        /\ InPlace!Position(w) < InPlace!CountOf(w)
    BY WordPlace
  <2>2. 0 \in 0 .. InPlace!CountOf(w) /\ 1 + InPlace!Position(w) \in 0 .. InPlace!CountOf(w)
    BY <1>0, <2>1
  <2>3. InPlace!HighBlock(w) \in InPlace!Blocks
    BY <2>2, BlocksOfWord
  <2>4. InPlace!FirstBlock(w) \in InPlace!Blocks
    <3>1. GroupNumber(w) * (Group + 1) + 0 \in InPlace!Blocks
      BY <2>2, BlocksOfWord
    <3>2. InPlace!FirstBlock(w) = GroupNumber(w) * (Group + 1) /\ GroupNumber(w) \in Nat
      BY WordPlace
    <3>3. PICK f \in Nat : f = GroupNumber(w) * (Group + 1)
      BY <1>0, <3>2
    <3> QED  BY <3>1, <3>2, <3>3
  <2> QED  BY <1>0, <2>1, <2>3, <2>4
<1>2. ASSUME NEW k \in InPlace!Blocks
      PROVE  /\ chosen(k) \in Words /\ k \in {InPlace!FirstBlock(chosen(k)), InPlace!HighBlock(chosen(k))}
             /\ d[k] = [version |-> (b[k].version + 1) % 4, old |-> b[k].new,
                        new |-> IF k = InPlace!FirstBlock(chosen(k)) THEN InPlace!HighBits(x, chosen(k))
                                ELSE WithBit(x[chosen(k)], Group, 0)]
  <2>1. \E v \in Words : k \in {InPlace!FirstBlock(v), InPlace!HighBlock(v)}
    BY AllBlocks
  <2> QED  BY <1>0, <2>1 DEF InPlace!WriteHigh, InPlace!NextVersion, WithBit
<1> HIDE DEF chosen, d
<1>3. ASSUME NEW v \in Words
      PROVE  /\ InPlace!HighBits(x, v) \in Nat
             /\ \A a \in InPlace!GroupOf(v) : Bit(InPlace!HighBits(x, v), InPlace!Position(a)) = Bit(x[a], Group)
             /\ WithBit(x[v], Group, 0) \in Nat
             /\ WithBit(WithBit(x[v], Group, 0), Group, Bit(x[v], Group)) = x[v]
  <2>1. /\ InPlace!HighBits(x, v) \in 0 .. Power2[Group] - 1
        /\ \A a \in InPlace!GroupOf(v) : Bit(InPlace!HighBits(x, v), InPlace!Position(a)) = Bit(x[a], Group)
    BY HighOps
  <2>2. InPlace!HighBits(x, v) \in Nat
    BY <1>0, <2>1, PowerUnfolds
  <2>3. x[v] \in Nat /\ Bit(x[v], Group) \in {0, 1}
    BY <1>0, BitType
  <2>4. WithBit(x[v], Group, 0) \in Nat
        /\ WithBit(WithBit(x[v], Group, 0), Group, Bit(x[v], Group)) = x[v]
    <3>1. 0 \in {0, 1}
      OBVIOUS
    <3> QED  BY <1>0, <2>3, <3>1, WithBitOps, WithBitBack
  <2> QED  BY <2>1, <2>2, <2>4
<1>21. ASSUME NEW k \in InPlace!Blocks, NEW v, v = chosen(k)
       PROVE  /\ v \in Words /\ k \in {InPlace!FirstBlock(v), InPlace!HighBlock(v)}
              /\ d[k].version = (b[k].version + 1) % 4 /\ d[k].old = b[k].new
              /\ k = InPlace!FirstBlock(v) => d[k].new = InPlace!HighBits(x, v)
              /\ k # InPlace!FirstBlock(v) => d[k].new = WithBit(x[v], Group, 0)
              /\ d[k] = [version |-> d[k].version, old |-> d[k].old, new |-> d[k].new]
  <2>1. PICK version, old, new :
          /\ version = (b[k].version + 1) % 4 /\ old = b[k].new
          /\ new = IF k = InPlace!FirstBlock(v) THEN InPlace!HighBits(x, v)
                   ELSE WithBit(x[v], Group, 0)
    OBVIOUS
  <2>2. d[k] = [version |-> version, old |-> old, new |-> new]
    BY <1>2, <1>21, <2>1
  <2>3. v \in Words /\ k \in {InPlace!FirstBlock(v), InPlace!HighBlock(v)}
    BY <1>2, <1>21
  <2> QED  BY <2>1, <2>2, <2>3
<1>4. ASSUME NEW k \in InPlace!Blocks
      PROVE  d[k] \in HighBlockSet /\ d[k].version = (b[k].version + 1) % 4 /\ d[k].old = b[k].new
  <2>1. b[k].version \in 0 .. 3 /\ b[k].new \in Nat
    BY DEF HighBlockSet
  <2>2. (b[k].version + 1) % 4 \in 0 .. 3
    BY <2>1
  <2>3. PICK v : v = chosen(k)
    OBVIOUS
  <2>4. v \in Words
    BY <1>21, <2>3
  <2>5. InPlace!HighBits(x, v) \in Nat /\ WithBit(x[v], Group, 0) \in Nat
    BY <1>3, <2>4
  <2>6. d[k].version = (b[k].version + 1) % 4 /\ d[k].old = b[k].new /\ d[k].new \in Nat
    BY <1>21, <2>3, <2>5
  <2>7. d[k] = [version |-> d[k].version, old |-> d[k].old, new |-> d[k].new]
    BY <1>21, <2>3
  <2>8. [version |-> d[k].version, old |-> d[k].old, new |-> d[k].new] \in HighBlockSet
    BY <2>1, <2>2, <2>6 DEF HighBlockSet
  <2> QED  BY <2>6, <2>7, <2>8
<1>5. d \in [InPlace!Blocks -> HighBlockSet]
  <2>1. d = [k \in InPlace!Blocks |-> d[k]]
    BY DEF InPlace!WriteHigh, d
  <2> QED  BY <1>4, <2>1
<1>6. ASSUME NEW w \in Words
      PROVE  InPlace!HighWordOf(News(d), w) = x[w]
  <2>1. d[InPlace!HighBlock(w)].new = WithBit(x[w], Group, 0)
    <3>1. PICK k \in InPlace!Blocks : k = InPlace!HighBlock(w)
      BY <1>1
    <3>2. PICK v \in Words : v = chosen(k) /\ k \in {InPlace!FirstBlock(v), InPlace!HighBlock(v)}
      BY <1>2
    <3>3. k # InPlace!FirstBlock(v) /\ v = w
      BY <3>1, <3>2, BlocksApart
    <3>4. d[k].new = WithBit(x[v], Group, 0)
      BY <1>21, <3>2, <3>3
    <3> QED  BY <3>1, <3>3, <3>4
  <2>2. Bit(d[InPlace!FirstBlock(w)].new, InPlace!Position(w)) = Bit(x[w], Group)
    <3>1. PICK k \in InPlace!Blocks : k = InPlace!FirstBlock(w)
      BY <1>1
    <3>2. PICK v \in Words : v = chosen(k) /\ k \in {InPlace!FirstBlock(v), InPlace!HighBlock(v)}
      BY <1>2
    <3>3. k = InPlace!FirstBlock(v)
      BY <3>1, <3>2, BlocksApart
    <3>4. InPlace!GroupOf(v) = InPlace!GroupOf(w)
      BY <3>1, <3>3, SameGroup
    <3>5. w \in InPlace!GroupOf(v)
      BY <1>0, <3>4 DEF InPlace!GroupOf
    <3>6. d[k].new = InPlace!HighBits(x, v)
      BY <1>21, <3>2, <3>3
    <3> QED  BY <1>3, <3>1, <3>5, <3>6
  <2>3. /\ News(d)[InPlace!HighBlock(w)] = d[InPlace!HighBlock(w)].new
        /\ News(d)[InPlace!FirstBlock(w)] = d[InPlace!FirstBlock(w)].new
    BY <1>1 DEF News
  <2>4. InPlace!HighWordOf(News(d), w) =
          WithBit(News(d)[InPlace!HighBlock(w)], Group, Bit(News(d)[InPlace!FirstBlock(w)], InPlace!Position(w)))
    BY <1>0 DEF InPlace!HighWordOf, WithBit, Bit
  <2> QED  BY <1>3, <2>1, <2>2, <2>3, <2>4
<1> QED  BY <1>4, <1>5, <1>6 DEF d

-----------------------------------------------------------------------------
\* The loops of RunExperiment.

\* ops is a single cycle: h lists the entries in the order in which they
\* refer to one another.
Cycle(ops, h) ==
  /\ h \in [Ids -> Ids] /\ ops \in [Ids -> Ids]
  /\ \A i, j \in Ids : h[i] = h[j] => i = j
  /\ \A i \in Ids : \E p \in Ids : h[p] = i
  /\ \A p \in Ids : (p + 1) % ENTRY_COUNT \in Ids /\ ops[h[p]] = h[(p + 1) % ENTRY_COUNT]

(* Every remainder is an id.                                               *)
LEMMA Around ==
  ASSUME NEW n \in Nat
  PROVE  n % ENTRY_COUNT \in Ids
<1>1. PICK N \in Nat \ {0} : N = ENTRY_COUNT
  BY Sizes
<1>2. n % N \in 0 .. N - 1
  BY Divide
<1> QED  BY <1>1, <1>2, Sizes

(* A list of the entries without repetitions has all of them.              *)
LEMMA EveryIdListed ==
  ASSUME NEW h \in [Ids -> Ids], \A i, j \in Ids : h[i] = h[j] => i = j, NEW i \in Ids
  PROVE  \E p \in Ids : h[p] = i
<1>1. h \in Injection(Ids, Ids)
  BY DEF Injection, IsInjective
<1>2. h \in Surjection(Ids, Ids)
  BY <1>1, Sizes, FS_Injection
<1> QED  BY <1>2 DEF Surjection

(* PrepareSequentialOperations and PrepareRandomOperations make a cycle.   *)
LEMMA OperationsAreACycle ==
  ASSUME NEW ops \in {SequentialOperations} \union RandomOperations
  PROVE  \E h : Cycle(ops, h)
<1>0. \A p \in Ids : p \in Nat /\ (p + 1) % ENTRY_COUNT \in Ids
  <2>1. \A p \in Ids : p \in Nat /\ p + 1 \in Nat
    BY Sizes
  <2> QED  BY <2>1, Around
<1>1. CASE ops = SequentialOperations
  <2>1. PICK h : h = [i \in Ids |-> i]
    OBVIOUS
  <2>2. \A p \in Ids : ops[h[p]] = h[(p + 1) % ENTRY_COUNT]
    BY <1>0, <1>1, <2>1 DEF SequentialOperations
  <2>3. ops \in [Ids -> Ids]
    BY <1>0, <1>1 DEF SequentialOperations
  <2> QED  BY <1>0, <2>1, <2>2, <2>3 DEF Cycle
<1>2. CASE ops \in RandomOperations
  <2>1. PICK h \in [Ids -> Ids] :
          /\ \A i, j \in Ids : h[i] = h[j] => i = j
          /\ ops = [i \in Ids |-> LET position == CHOOSE p \in Ids : h[p] = i
                                  IN h[(position + 1) % ENTRY_COUNT]]
    BY <1>2 DEF RandomOperations
  <2>2. \A i \in Ids : \E p \in Ids : h[p] = i
    BY <2>1, EveryIdListed
  <2>3. ASSUME NEW p \in Ids
        PROVE  ops[h[p]] = h[(p + 1) % ENTRY_COUNT]
    <3>1. PICK q : q = CHOOSE k \in Ids : h[k] = h[p]
      OBVIOUS
    <3>2. q \in Ids /\ h[q] = h[p]
      BY <3>1
    <3>3. q = p
      BY <2>1, <3>2
    <3>4. h[p] \in Ids
      OBVIOUS
    <3>5. ops[h[p]] = h[(q + 1) % ENTRY_COUNT]
      BY <2>1, <3>1, <3>4
    <3> QED  BY <3>3, <3>5
  <2>4. ops \in [Ids -> Ids]
    <3>1. ASSUME NEW i \in Ids
          PROVE  h[((CHOOSE p \in Ids : h[p] = i) + 1) % ENTRY_COUNT] \in Ids
      <4>1. PICK q : q = CHOOSE k \in Ids : h[k] = i
        OBVIOUS
      <4>2. q \in Ids
        BY <2>2, <4>1
      <4> QED  BY <1>0, <4>1, <4>2
    <3> QED  BY <2>1, <3>1
  <2> QED  BY <1>0, <2>1, <2>2, <2>3, <2>4 DEF Cycle
<1> QED  BY <1>1, <1>2

(* What RunExperiment keeps to, and how far a pass has come: the updates   *)
(* done, the entries read, and the way along the cycle.                    *)
CycleInv ==
  \E h : \E first \in Ids :
    /\ Cycle(operations, h) /\ h[first] = 0
    /\ pass = "dependent_reads" =>
         /\ next_id = h[(first + u) % ENTRY_COUNT]
         /\ visited = {h[(first + k) % ENTRY_COUNT] : k \in 0 .. u - 1}

BenchInv ==
  /\ scheme \in Tried
  /\ operations \in [Ids -> Ids]
  /\ pc \in {"idle", "begun", "log", "data", "fence"}
  /\ pass \in {"updates", "reads", "dependent_updates", "dependent_reads", "done"}
  /\ iteration \in 0 .. ITERATION_COUNT - 1
  /\ u \in 0 .. ENTRY_COUNT
  /\ next_id \in Ids
  /\ visited \subseteq Ids
  /\ acked \in [Ids -> Payloads]
  /\ updated \subseteq Ids
  /\ pc # "idle" => pass \in {"updates", "dependent_updates"} /\ u < ENTRY_COUNT
  /\ pass = "reads" => visited = {operations[k] : k \in 0 .. u - 1}
  /\ pass = "dependent_updates" => \A k \in Ids : k < u => acked[k] = Operation(k)
  /\ pass = "dependent_reads" => \A k \in Ids : acked[k] = Operation(k)
  /\ CycleInv

(* The updates are well-formed entries, and the target is an entry.        *)
LEMMA OperationOps ==
  ASSUME BenchInv, NEW k \in Ids
  PROVE  Operation(k) \in Payloads /\ Operation(k)[0] = operations[k] /\ operations[k] \in Ids
         /\ 0 \in Words
<1>1. operations[k] \in Ids /\ Data[k] \in WordValues
  BY InplaceBenchAssumption DEF BenchInv
<1>2. operations[k] \in WordValues
  <2>1. PICK p : p = InPlace!Power2[Width]
    OBVIOUS
  <2>2. p \in Nat
    BY <2>1, PowerUnfolds, Sizes DEF Power2
  <2>3. ENTRY_COUNT <= p
    BY <2>1, InplaceBenchAssumption
  <2> QED  BY <1>1, <2>1, <2>2, <2>3, Sizes DEF WordValues
<1>3. 0 \in Words
  BY Sizes
<1> QED  BY <1>1, <1>2, <1>3 DEF Operation, Payloads

(* An update on its way is for an entry.                                   *)
LEMMA TargetOps ==
  ASSUME BenchInv, u < ENTRY_COUNT
  PROVE  u \in Ids /\ Target \in Ids
<1>1. u \in 0 .. ENTRY_COUNT
  BY DEF BenchInv
<1>2. u \in Ids
  BY <1>1, Sizes
<1> QED  BY <1>2 DEF BenchInv, Target, TargetIn

(* Remainders below and just above the divisor.                            *)
LEMMA Wrap ==
  ASSUME NEW N \in Nat \ {0}, NEW n \in Nat, NEW q \in Nat, q < N, n = q \/ n = N + q
  PROVE  n % N = q
<1>1. PICK t \in {0, 1} : n = t * N + q
  <2>1. n = 0 * N + q \/ n = 1 * N + q
    OBVIOUS
  <2> QED  BY <2>1
<1>2. t \in Nat /\ q \in 0 .. N - 1
  OBVIOUS
<1> QED  BY <1>1, <1>2, OneQuotient

(* At the end of a pass of reads, every entry has been read.               *)
LEMMA AllVisited ==
  ASSUME BenchInv, pass \in {"reads", "dependent_reads"}, u = ENTRY_COUNT
  PROVE  visited = Ids
<1>1. PICK N \in Nat \ {0} : N = ENTRY_COUNT
  BY Sizes
<1>2. PICK h : \E first \in Ids :
         /\ Cycle(operations, h) /\ h[first] = 0
         /\ pass = "dependent_reads" =>
              /\ next_id = h[(first + u) % ENTRY_COUNT]
              /\ visited = {h[(first + k) % ENTRY_COUNT] : k \in 0 .. u - 1}
  BY DEF BenchInv, CycleInv
<1>3. PICK first \in Ids :
         /\ Cycle(operations, h)
         /\ pass = "dependent_reads" => visited = {h[(first + k) % ENTRY_COUNT] : k \in 0 .. u - 1}
  BY <1>2
<1>4. Ids = 0 .. N - 1
  BY <1>1, Sizes
<1>40. N \in Nat
  BY <1>1
<1>41. 0 .. u - 1 = Ids
  BY <1>1, <1>4
<1>42. first \in Nat /\ first < N
  <2>1. first \in Ids
    OBVIOUS
  <2>2. first \in 0 .. N - 1
    BY <2>1, <1>4
  <2> QED BY <2>2, <1>40
<1>5. CASE pass = "reads"
  <2>1. visited = {operations[k] : k \in Ids}
    BY <1>41, <1>5 DEF BenchInv
  <2>2. ASSUME NEW i \in Ids
        PROVE  \E k \in Ids : operations[k] = i
    <3>1. PICK q \in Ids : h[q] = i
      BY <1>3 DEF Cycle
    <3>11. q \in Nat /\ q < N
      BY <1>1, <1>4
    <3>2. PICK p \in Ids : (p + 1) % N = q
      <4>1. PICK p : p = IF q = 0 THEN N - 1 ELSE q - 1
        OBVIOUS
      <4>2. p \in Nat /\ p < N /\ (p + 1 = q \/ p + 1 = N + q)
        BY <1>1, <3>11, <4>1
      <4>3. p \in Ids
        BY <1>1, <1>4, <4>2
      <4>4. (p + 1) % N = q
        BY <1>1, <3>11, <4>2, Wrap
      <4> QED  BY <4>3, <4>4
    <3>3. h[p] \in Ids /\ operations[h[p]] = i
      BY <1>1, <1>3, <3>1, <3>2 DEF Cycle
    <3> QED  BY <3>3
  <2>3. \A k \in Ids : operations[k] \in Ids
    BY DEF BenchInv
  <2> QED  BY <2>1, <2>2, <2>3
<1>6. CASE pass = "dependent_reads"
  <2>1. visited = {h[(first + k) % N] : k \in Ids}
    BY <1>1, <1>3, <1>41, <1>6
  <2>2. ASSUME NEW i \in Ids
        PROVE  \E k \in Ids : h[(first + k) % N] = i
    <3>1. PICK q \in Ids : h[q] = i
      BY <1>3 DEF Cycle
    <3>11. q \in Nat /\ q < N
      BY <1>1, <1>4
    <3>2. PICK k : k = IF first <= q THEN q - first ELSE N + q - first
      OBVIOUS
    <3>3. k \in Nat /\ k < N /\ first + k \in Nat /\ (first + k = q \/ first + k = N + q)
      BY <1>1, <1>42, <3>11, <3>2
    <3>4. k \in Ids
      BY <1>1, <1>4, <3>3
    <3>5. (first + k) % N = q
      BY <1>1, <3>11, <3>3, Wrap
    <3> QED  BY <3>1, <3>4, <3>5
  <2>3. ASSUME NEW k \in Ids
        PROVE  h[(first + k) % N] \in Ids
    <3>1. first + k \in Nat
      <4>1. k \in Nat
        BY <1>1, <1>4
      <4> QED  BY <1>42, <4>1
    <3>2. (first + k) % N \in Ids
      BY <1>1, <3>1, Around
    <3> QED  BY <1>3, <3>2 DEF Cycle
  <2> QED  BY <2>1, <2>2, <2>3
<1> QED  BY <1>5, <1>6

(* The first state.                                                        *)
LEMMA InitBench ==
  ASSUME Init
  PROVE  BenchInv
<1>1. PICK h : Cycle(operations, h)
  BY OperationsAreACycle DEF Init
<1>2. 0 \in Ids /\ 0 \in 0 .. ITERATION_COUNT - 1 /\ 0 \in 0 .. ENTRY_COUNT
  BY Sizes
<1>3. PICK first \in Ids : h[first] = 0
  BY <1>1, <1>2 DEF Cycle
<1>4. pass = "updates" /\ pass # "dependent_reads"
  BY DEF Init
<1>5. CycleInv
  BY <1>1, <1>3, <1>4 DEF CycleInv
<1>6. operations \in [Ids -> Ids]
  BY <1>1 DEF Cycle
<1>7. acked \in [Ids -> Payloads]
  <2>1. Filler \in WordValues
    BY InplaceBenchAssumption
  <2>2. [w \in Words |-> Filler] \in Payloads
    BY <2>1 DEF Payloads
  <2> QED  BY <2>2 DEF Init, ValidationInit
<1> QED  BY <1>2, <1>4, <1>5, <1>6, <1>7 DEF Init, BenchInv

(* The loops stay as they are while an update goes through its steps.      *)
LEMMA SameBench ==
  ASSUME BenchInv, UNCHANGED bench_vars,
         pc' \in {"idle", "begun", "log", "data", "fence"},
         pc' # "idle" => pass \in {"updates", "dependent_updates"} /\ u < ENTRY_COUNT
  PROVE  BenchInv'
<1>1. /\ operations' = operations /\ pass' = pass /\ u' = u /\ next_id' = next_id /\ visited' = visited
      /\ acked' = acked /\ updated' = updated /\ iteration' = iteration /\ scheme' = scheme
  BY DEF bench_vars
<1>2. CycleInv'
  <2>1. CycleInv
    BY DEF BenchInv
  <2> QED  BY <1>1, <2>1 DEF CycleInv
<1>3. \A k \in Ids : Operation(k)' = Operation(k)
  BY <1>1 DEF Operation
<1> QED  BY <1>1, <1>2, <1>3 DEF BenchInv

(* DoUpdate returns.                                                       *)
LEMMA EndBench ==
  ASSUME BenchInv, EndUpdate
  PROVE  BenchInv'
<1>1. pc # "idle" /\ pass \in {"updates", "dependent_updates"} /\ u < ENTRY_COUNT
  BY DEF BenchInv, EndUpdate
<1>2. u \in Ids /\ Target \in Ids
  BY <1>1, TargetOps
<1>3. Operation(u) \in Payloads
  BY <1>2, OperationOps
<1>4. /\ operations' = operations /\ pass' = pass /\ u' = u + 1 /\ next_id' = next_id /\ visited' = visited
      /\ acked' = [acked EXCEPT ![Target] = Operation(u)] /\ updated' = updated \union {Target}
      /\ iteration' = iteration /\ scheme' = scheme /\ pc' = "idle"
  BY DEF EndUpdate, ValidationUpdate
<1>5. acked' \in [Ids -> Payloads] /\ updated' \subseteq Ids
  BY <1>2, <1>3, <1>4 DEF BenchInv
<1>6. u' \in 0 .. ENTRY_COUNT
  <2>1. u \in 0 .. ENTRY_COUNT
    BY DEF BenchInv
  <2> QED  BY <1>1, <1>4, <2>1, Sizes
<1>7. \A k \in Ids : Operation(k)' = Operation(k)
  BY <1>4 DEF Operation
<1>8. CycleInv'
  <2>1. CycleInv /\ pass' # "dependent_reads"
    BY <1>1, <1>4 DEF BenchInv
  <2> QED  BY <1>4, <2>1 DEF CycleInv
<1>9. ASSUME pass = "dependent_updates", NEW k \in Ids, k < u + 1
      PROVE  acked'[k] = Operation(k)
  <2>1. Target = u
    BY <1>9 DEF Target, TargetIn
  <2>2. k = u \/ k < u
    BY <1>2, <1>9, Sizes
  <2>3. CASE k = u
    BY <1>2, <1>4, <2>1, <2>3 DEF BenchInv
  <2>4. CASE k # u /\ k < u
    <3>1. acked[k] = Operation(k)
      BY <1>9, <2>4 DEF BenchInv
    <3> QED  BY <1>4, <2>1, <2>4, <3>1 DEF BenchInv
  <2> QED  BY <1>2, <2>2, <2>3, <2>4
<1>10. pass' # "reads" /\ pass' # "dependent_reads"
  BY <1>1, <1>4
<1>11. pass' = "dependent_updates" => \A k \in Ids : k < u' => acked'[k] = Operation(k)'
  BY <1>4, <1>7, <1>9
<1>12. /\ scheme' \in Tried /\ operations' \in [Ids -> Ids] /\ iteration' \in 0 .. ITERATION_COUNT - 1
       /\ next_id' \in Ids /\ visited' \subseteq Ids
       /\ pass' \in {"updates", "reads", "dependent_updates", "dependent_reads", "done"}
  BY <1>4 DEF BenchInv
<1> QED  BY <1>4, <1>5, <1>6, <1>8, <1>10, <1>11, <1>12 DEF BenchInv

(* A read of the first kind.                                               *)
LEMMA ReadOneBench ==
  ASSUME BenchInv, ReadOne
  PROVE  BenchInv'
<1>1. /\ operations' = operations /\ pass' = pass /\ u' = u + 1 /\ next_id' = next_id
      /\ visited' = visited \union {operations[u]} /\ pc' = pc
      /\ acked' = acked /\ updated' = updated /\ iteration' = iteration /\ scheme' = scheme
      /\ pass = "reads" /\ u < ENTRY_COUNT
  BY DEF ReadOne, cell_vars
<1>2. u \in Ids
  BY <1>1, TargetOps
<1>3. u' \in 0 .. ENTRY_COUNT
  BY <1>1, <1>2, Sizes
<1>4. visited' = {operations[k] : k \in 0 .. u' - 1}
  <2>1. visited = {operations[k] : k \in 0 .. u - 1}
    BY <1>1 DEF BenchInv
  <2>2. 0 .. u' - 1 = (0 .. u - 1) \union {u}
    BY <1>1, <1>2, Sizes
  <2> QED  BY <1>1, <2>1, <2>2
<1>5. visited' \subseteq Ids
  BY <1>1, <1>2 DEF BenchInv
<1>6. CycleInv'
  <2>1. CycleInv /\ pass' # "dependent_reads"
    BY <1>1 DEF BenchInv
  <2> QED  BY <1>1, <2>1 DEF CycleInv
<1>7. pass' # "dependent_updates" /\ pass' # "dependent_reads" /\ pc' = "idle"
  BY <1>1 DEF BenchInv
<1>8. /\ scheme' \in Tried /\ operations' \in [Ids -> Ids] /\ iteration' \in 0 .. ITERATION_COUNT - 1
      /\ next_id' \in Ids /\ acked' \in [Ids -> Payloads] /\ updated' \subseteq Ids
      /\ pass' \in {"updates", "reads", "dependent_updates", "dependent_reads", "done"}
  BY <1>1 DEF BenchInv
<1> QED  BY <1>3, <1>4, <1>5, <1>6, <1>7, <1>8, <1>1 DEF BenchInv

(* A dependent read finds the next entry of the cycle, when what it reads  *)
(* is the last update.                                                     *)
LEMMA ReadNextBench ==
  ASSUME BenchInv, ReadNext, Read(next_id) = acked[next_id]
  PROVE  BenchInv'
<1>1. /\ operations' = operations /\ pass' = pass /\ u' = u + 1 /\ next_id' = Read(next_id)[0]
      /\ visited' = visited \union {next_id} /\ pc' = pc
      /\ acked' = acked /\ updated' = updated /\ iteration' = iteration /\ scheme' = scheme
      /\ pass = "dependent_reads" /\ u < ENTRY_COUNT
  BY DEF ReadNext, cell_vars
<1>2. u \in Ids
  BY <1>1, TargetOps
<1>21. u \in Nat
  BY <1>2, Sizes
<1>3. u' \in 0 .. ENTRY_COUNT
  BY <1>1, <1>2, Sizes
<1>4. next_id \in Ids /\ acked[next_id] = Operation(next_id)
  BY <1>1 DEF BenchInv
<1>5. next_id' = operations[next_id] /\ next_id' \in Ids
  <2>1. Operation(next_id)[0] = operations[next_id] /\ operations[next_id] \in Ids
    BY <1>4, OperationOps
  <2> QED  BY <1>1, <1>4, <2>1
<1>6. CycleInv'
  <2>1. CycleInv
    BY DEF BenchInv
  <2>2. PICK h : \E first \in Ids :
           /\ Cycle(operations, h) /\ h[first] = 0
           /\ next_id = h[(first + u) % ENTRY_COUNT]
           /\ visited = {h[(first + k) % ENTRY_COUNT] : k \in 0 .. u - 1}
    BY <1>1, <2>1 DEF CycleInv
  <2>3. PICK first \in Ids :
           /\ Cycle(operations, h) /\ h[first] = 0
           /\ next_id = h[(first + u) % ENTRY_COUNT]
           /\ visited = {h[(first + k) % ENTRY_COUNT] : k \in 0 .. u - 1}
    BY <2>2
  <2>4. first \in Nat /\ first + u \in Nat
    BY <1>21, Sizes
  <2>5. PICK p \in Ids : p = (first + u) % ENTRY_COUNT
    BY <2>4, Around
  <2>6. next_id' = h[(p + 1) % ENTRY_COUNT]
    BY <1>5, <2>3, <2>5 DEF Cycle
  <2>7. (p + 1) % ENTRY_COUNT = (first + (u + 1)) % ENTRY_COUNT
    <3>1. PICK N \in Nat \ {0}, n \in Nat : N = ENTRY_COUNT /\ n = first + u
      BY <2>4, Sizes
    <3>2. PICK q \in Nat : n = q * N + (n % N)
      BY <3>1, Divide
    <3>3. p = n % N /\ p \in 0 .. N - 1
      BY <2>5, <3>1, Sizes
    <3>4. CASE p + 1 < N
      <4>1. (n + 1) % N = p + 1
        <5>1. PICK r \in 0 .. N - 1 : r = p + 1
          BY <3>1, <3>3, <3>4
        <5>2. n + 1 = q * N + r
          <6>1. PICK m \in Nat : m = q * N
            BY <3>1, <3>2
          <6>2. n = m + p /\ p \in Nat
            BY <3>1, <3>2, <3>3, <6>1
          <6>3. n + 1 = m + r
            BY <5>1, <6>1, <6>2
          <6> QED  BY <6>1, <6>3
        <5>3. PICK after \in Nat : after = n + 1
          BY <3>1
        <5>4. after % N = r
          <6>1. after = q * N + r
            BY <5>2, <5>3
          <6>2. N \in Nat \ {0} /\ q \in Nat /\ r \in 0 .. N - 1
            BY <3>1, <3>2, <5>1
          <6> QED  BY <6>1, <6>2, OneQuotient
        <5> QED  BY <5>1, <5>3, <5>4
      <4>2. (p + 1) % N = p + 1
        BY <3>1, <3>3, <3>4, Wrap
      <4>3. n + 1 = first + (u + 1)
        BY <1>21, <2>4, <3>1
      <4> QED  BY <3>1, <4>1, <4>2, <4>3
    <3>5. CASE ~ p + 1 < N
      <4>1. p + 1 = N
        BY <3>1, <3>3, <3>5
      <4>2. (n + 1) % N = 0
        <5>1. PICK q1 \in Nat, z \in 0 .. N - 1 : q1 = q + 1 /\ z = 0
          BY <3>1, <3>2
        <5>2. n + 1 = q1 * N + z
          <6>1. PICK m \in Nat : m = q * N
            BY <3>1, <3>2
          <6>2. n = m + p
            BY <3>2, <3>3, <6>1
          <6>0. p \in Nat /\ N \in Nat
            BY <3>1, <3>3
          <6>3. n + 1 = m + N
            BY <4>1, <6>0, <6>1, <6>2
          <6>4. q1 * N = m + N
            BY <3>1, <3>2, <5>1, <6>1
          <6>5. n + 1 = q1 * N
            BY <6>3, <6>4
          <6>6. q1 * N \in Nat
            BY <3>1, <5>1
          <6> QED  BY <5>1, <6>5, <6>6
        <5>3. PICK after \in Nat : after = n + 1
          BY <3>1
        <5>4. after % N = z
          <6>1. after = q1 * N + z
            BY <5>2, <5>3
          <6>2. N \in Nat \ {0} /\ q1 \in Nat /\ z \in 0 .. N - 1
            BY <3>1, <5>1
          <6> QED  BY <6>1, <6>2, OneQuotient
        <5> QED  BY <5>1, <5>3, <5>4
      <4>3. (p + 1) % N = 0
        <5>1. PICK z \in Nat, m \in Nat : z = 0 /\ m = p + 1
          BY <3>1, <4>1
        <5>2. z < N /\ m = N + z
          BY <3>1, <4>1, <5>1
        <5>3. m % N = z
          BY <3>1, <5>2, Wrap
        <5> QED  BY <5>1, <5>3
      <4>4. n + 1 = first + (u + 1)
        BY <1>21, <2>4, <3>1
      <4> QED  BY <3>1, <4>2, <4>3, <4>4
    <3> QED  BY <3>4, <3>5
  <2>8. visited' = {h[(first + k) % ENTRY_COUNT] : k \in 0 .. u' - 1}
    <3>1. 0 .. u' - 1 = (0 .. u - 1) \union {u}
      BY <1>1, <1>21
    <3> QED  BY <1>1, <2>3, <3>1
  <2>9. next_id' = h[(first + u') % ENTRY_COUNT]
    BY <1>1, <2>6, <2>7
  <2> QED  BY <1>1, <2>3, <2>8, <2>9 DEF CycleInv
<1>7. \A k \in Ids : Operation(k)' = Operation(k)
  BY <1>1 DEF Operation
<1>8. visited' \subseteq Ids
  BY <1>1, <1>4 DEF BenchInv
<1>9. pass' = "dependent_reads" /\ pc' = "idle"
  BY <1>1 DEF BenchInv
<1>10. \A k \in Ids : acked'[k] = Operation(k)'
  BY <1>1, <1>7 DEF BenchInv
<1>11. /\ scheme' \in Tried /\ operations' \in [Ids -> Ids] /\ iteration' \in 0 .. ITERATION_COUNT - 1
       /\ acked' \in [Ids -> Payloads] /\ updated' \subseteq Ids
  BY <1>1 DEF BenchInv
<1> QED  BY <1>3, <1>5, <1>6, <1>8, <1>9, <1>10, <1>11 DEF BenchInv

(* The next pass.                                                          *)
LEMMA NextPassBench ==
  ASSUME BenchInv, NextPass
  PROVE  BenchInv'
<1> DEFINE again == iteration + 1 < ITERATION_COUNT
<1>1. /\ operations' = operations /\ u' = 0 /\ next_id' = 0 /\ visited' = {} /\ pc' = pc
      /\ acked' = acked /\ updated' = updated /\ scheme' = scheme
      /\ pass # "done" /\ u = ENTRY_COUNT
      /\ iteration' = IF pass = "dependent_updates" THEN iteration
                      ELSE IF again THEN iteration + 1 ELSE 0
      /\ pass' = CASE pass = "updates" -> IF again THEN pass ELSE "reads"
                   [] pass = "reads" -> IF again THEN pass ELSE "dependent_updates"
                   [] pass = "dependent_updates" -> "dependent_reads"
                   [] OTHER -> IF again THEN "dependent_updates" ELSE "done"
  BY DEF NextPass, cell_vars
<1>2. 0 \in Ids /\ 0 \in 0 .. ENTRY_COUNT /\ 0 .. 0 - 1 = {} /\ \A k \in Ids : k < ENTRY_COUNT /\ ~ k < 0
  BY Sizes
<1>3. iteration' \in 0 .. ITERATION_COUNT - 1
  <2>1. iteration \in 0 .. ITERATION_COUNT - 1 /\ ITERATION_COUNT \in Nat \ {0}
    BY Sizes DEF BenchInv
  <2>2. iteration' \in {iteration, iteration + 1, 0} /\ (iteration' = iteration + 1 => again)
    BY <1>1, <2>1
  <2> QED  BY <2>1, <2>2
<1>4. pass' \in {"updates", "reads", "dependent_updates", "dependent_reads", "done"}
  <2> HIDE DEF again
  <2> QED  BY <1>1
<1>5. pc' = "idle"
  <2>1. ~ u < ENTRY_COUNT
    BY <1>1, Sizes
  <2> QED  BY <1>1, <2>1 DEF BenchInv
<1>6. pass' = "dependent_reads" => pass = "dependent_updates"
  <2>1. pass \in {"updates", "reads", "dependent_updates", "dependent_reads", "done"}
    BY DEF BenchInv
  <2> HIDE DEF again
  <2> QED  BY <1>1, <2>1
<1>7. \A k \in Ids : Operation(k)' = Operation(k)
  BY <1>1 DEF Operation
<1>8. pass' = "dependent_reads" => \A k \in Ids : acked'[k] = Operation(k)'
  <2>1. pass = "dependent_updates" => \A k \in Ids : acked[k] = Operation(k)
    BY <1>1, <1>2 DEF BenchInv
  <2> QED  BY <1>1, <1>6, <1>7, <2>1
<1>9. pass' = "reads" => visited' = {operations'[k] : k \in 0 .. u' - 1}
  BY <1>1, <1>2
<1>10. CycleInv'
  <2>1. CycleInv
    BY DEF BenchInv
  <2>2. PICK h : \E first \in Ids : Cycle(operations, h) /\ h[first] = 0
    BY <2>1 DEF CycleInv
  <2>3. PICK first \in Ids : Cycle(operations, h) /\ h[first] = 0
    BY <2>2
  <2>4. first + u' = first /\ first \in Nat
    BY <1>1, Sizes
  <2>5. first % ENTRY_COUNT = first
    <3>1. PICK N \in Nat \ {0} : N = ENTRY_COUNT /\ first < N
      BY Sizes
    <3> QED  BY <2>4, <3>1, Wrap
  <2>6. next_id' = h[(first + u') % ENTRY_COUNT]
    BY <1>1, <2>3, <2>4, <2>5
  <2>7. visited' = {h[(first + k) % ENTRY_COUNT] : k \in 0 .. u' - 1}
    BY <1>1, <1>2
  <2> QED  BY <1>1, <2>3, <2>6, <2>7 DEF CycleInv
<1>11. pass' = "dependent_updates" => \A k \in Ids : k < u' => acked'[k] = Operation(k)'
  BY <1>1, <1>2
<1>12. /\ scheme' \in Tried /\ operations' \in [Ids -> Ids]
       /\ acked' \in [Ids -> Payloads] /\ updated' \subseteq Ids
       /\ next_id' \in Ids /\ visited' \subseteq Ids /\ u' \in 0 .. ENTRY_COUNT
  BY <1>1, <1>2 DEF BenchInv
<1> QED  BY <1>3, <1>4, <1>5, <1>8, <1>9, <1>10, <1>11, <1>12 DEF BenchInv

-----------------------------------------------------------------------------
\* Stretches of memory.

MemLine(V) == [vol : V, fen : V, dur : V]
Vol(c) == [x \in DOMAIN c |-> c[x].vol]
Dur(c) == [x \in DOMAIN c |-> c[x].dur]
Stored(c, v) == [x \in DOMAIN c |-> IF x \in DOMAIN v THEN [c[x] EXCEPT !.vol = v[x]] ELSE c[x]]
SentBack(c, ws) == [x \in DOMAIN c |-> IF x \in ws THEN [c[x] EXCEPT !.fen = c[x].vol] ELSE c[x]]
Fenced(c) == [x \in DOMAIN c |-> [c[x] EXCEPT !.dur = c[x].fen]]

\* A word in which nothing is on its way to NVM.
Settled(line) == line.fen = line.vol /\ line.dur = line.vol

(* The three schemes use the same memory.                                  *)
LEMMA SameMemory ==
  ASSUME NEW c, NEW v, NEW ws
  PROVE  /\ Log!Volatile(c) = Vol(c) /\ Cow!Volatile(c) = Vol(c) /\ InPlace!Volatile(c) = Vol(c)
         /\ Log!Surviving(c) = Dur(c)
         /\ Log!FenceWords(c) = Fenced(c) /\ Cow!FenceWords(c) = Fenced(c)
         /\ Cow!StoreWords(c, v) = Stored(c, v) /\ Cow!WriteBackWords(c, ws) = SentBack(c, ws)
         /\ Log!FastCopyAndWriteBack(c, v) = SentBack(Stored(c, v), DOMAIN v)
         /\ Cow!FastCopyAndWriteBack(c, v) = SentBack(Stored(c, v), DOMAIN v)
         /\ InPlace!FastCopyAndWriteBack(c, v) = SentBack(Stored(c, v), DOMAIN v)
<1>1. Log!Volatile(c) = Vol(c) /\ Cow!Volatile(c) = Vol(c) /\ InPlace!Volatile(c) = Vol(c)
  BY DEF Log!Volatile, Cow!Volatile, InPlace!Volatile, Vol
<1>2. Log!Surviving(c) = Dur(c)
  BY DEF Log!Surviving, Dur
<1>3. Log!FenceWords(c) = Fenced(c) /\ Cow!FenceWords(c) = Fenced(c)
  BY DEF Log!FenceWords, Cow!FenceWords, Fenced, Log!SFence, Cow!SFence
<1>4. \A d, t : /\ Cow!StoreWords(d, t) = Stored(d, t)
                /\ Log!StoreWords(d, t) = Stored(d, t)
                /\ InPlace!StoreWords(d, t) = Stored(d, t)
  BY DEF Cow!StoreWords, Log!StoreWords, InPlace!StoreWords, Cow!Store, Log!Store, InPlace!Store, Stored
<1>5. \A d, t : /\ Cow!WriteBackWords(d, t) = SentBack(d, t)
                /\ Log!WriteBackWords(d, t) = SentBack(d, t)
                /\ InPlace!WriteBackWords(d, t) = SentBack(d, t)
  BY DEF Cow!WriteBackWords, Log!WriteBackWords, InPlace!WriteBackWords, Cow!WriteBack, Log!WriteBack,
         InPlace!WriteBack, SentBack
<1> QED  BY <1>1, <1>2, <1>3, <1>4, <1>5
         DEF Log!FastCopyAndWriteBack, Cow!FastCopyAndWriteBack, InPlace!FastCopyAndWriteBack

(* Plain stores change what a load returns and nothing else.               *)
LEMMA StoredWords ==
  ASSUME NEW U, NEW V, NEW c \in [U -> MemLine(V)], NEW v, \A x \in DOMAIN v : v[x] \in V
  PROVE  /\ Stored(c, v) \in [U -> MemLine(V)]
         /\ \A x \in U : /\ Stored(c, v)[x].vol = IF x \in DOMAIN v THEN v[x] ELSE c[x].vol
                         /\ Stored(c, v)[x].fen = c[x].fen /\ Stored(c, v)[x].dur = c[x].dur
<1>1. ASSUME NEW x \in U
      PROVE  /\ Stored(c, v)[x] \in MemLine(V)
             /\ Stored(c, v)[x].vol = IF x \in DOMAIN v THEN v[x] ELSE c[x].vol
             /\ Stored(c, v)[x].fen = c[x].fen /\ Stored(c, v)[x].dur = c[x].dur
  <2>1. PICK line \in MemLine(V) : line = c[x]
    OBVIOUS
  <2>2. Stored(c, v)[x] = IF x \in DOMAIN v THEN [line EXCEPT !.vol = v[x]] ELSE line
    BY <2>1 DEF Stored
  <2>3. x \in DOMAIN v => [line EXCEPT !.vol = v[x]] = [vol |-> v[x], fen |-> line.fen, dur |-> line.dur]
    BY DEF MemLine
  <2> QED  BY <2>1, <2>2, <2>3 DEF MemLine
<1>2. Stored(c, v) = [x \in U |-> Stored(c, v)[x]]
  BY DEF Stored
<1> QED  BY <1>1, <1>2

(* A write-back sends what a load returns on its way.                      *)
LEMMA SentBackWords ==
  ASSUME NEW U, NEW V, NEW c \in [U -> MemLine(V)], NEW ws
  PROVE  /\ SentBack(c, ws) \in [U -> MemLine(V)]
         /\ \A x \in U : /\ SentBack(c, ws)[x].vol = c[x].vol /\ SentBack(c, ws)[x].dur = c[x].dur
                         /\ SentBack(c, ws)[x].fen = IF x \in ws THEN c[x].vol ELSE c[x].fen
<1>1. ASSUME NEW x \in U
      PROVE  /\ SentBack(c, ws)[x] \in MemLine(V)
             /\ SentBack(c, ws)[x].vol = c[x].vol /\ SentBack(c, ws)[x].dur = c[x].dur
             /\ SentBack(c, ws)[x].fen = IF x \in ws THEN c[x].vol ELSE c[x].fen
  <2>1. PICK line \in MemLine(V) : line = c[x]
    OBVIOUS
  <2>2. SentBack(c, ws)[x] = IF x \in ws THEN [line EXCEPT !.fen = line.vol] ELSE line
    BY <2>1 DEF SentBack
  <2>3. [line EXCEPT !.fen = line.vol] = [vol |-> line.vol, fen |-> line.vol, dur |-> line.dur]
    BY DEF MemLine
  <2> QED  BY <2>1, <2>2, <2>3 DEF MemLine
<1>2. SentBack(c, ws) = [x \in U |-> SentBack(c, ws)[x]]
  BY DEF SentBack
<1> QED  BY <1>1, <1>2

(* A copy that is written back.                                            *)
LEMMA CopiedWords ==
  ASSUME NEW U, NEW V, NEW c \in [U -> MemLine(V)], NEW v, \A x \in DOMAIN v : v[x] \in V
  PROVE  /\ SentBack(Stored(c, v), DOMAIN v) \in [U -> MemLine(V)]
         /\ \A x \in U : /\ SentBack(Stored(c, v), DOMAIN v)[x].vol = IF x \in DOMAIN v THEN v[x] ELSE c[x].vol
                         /\ SentBack(Stored(c, v), DOMAIN v)[x].fen = IF x \in DOMAIN v THEN v[x] ELSE c[x].fen
                         /\ SentBack(Stored(c, v), DOMAIN v)[x].dur = c[x].dur
<1>1. PICK d \in [U -> MemLine(V)] : d = Stored(c, v)
  BY StoredWords
<1>2. \A x \in U : /\ d[x].vol = IF x \in DOMAIN v THEN v[x] ELSE c[x].vol
                   /\ d[x].fen = c[x].fen /\ d[x].dur = c[x].dur
  BY <1>1, StoredWords
<1>3. SentBack(d, DOMAIN v) \in [U -> MemLine(V)]
      /\ \A x \in U : /\ SentBack(d, DOMAIN v)[x].vol = d[x].vol /\ SentBack(d, DOMAIN v)[x].dur = d[x].dur
                      /\ SentBack(d, DOMAIN v)[x].fen = IF x \in DOMAIN v THEN d[x].vol ELSE d[x].fen
  BY SentBackWords
<1> QED  BY <1>1, <1>2, <1>3

(* A fence makes durable what is on its way.                               *)
LEMMA FencedWords ==
  ASSUME NEW U, NEW V, NEW c \in [U -> MemLine(V)]
  PROVE  /\ Fenced(c) \in [U -> MemLine(V)]
         /\ \A x \in U : /\ Fenced(c)[x].vol = c[x].vol /\ Fenced(c)[x].fen = c[x].fen
                         /\ Fenced(c)[x].dur = c[x].fen
<1>1. ASSUME NEW x \in U
      PROVE  /\ Fenced(c)[x] \in MemLine(V)
             /\ Fenced(c)[x].vol = c[x].vol /\ Fenced(c)[x].fen = c[x].fen /\ Fenced(c)[x].dur = c[x].fen
  <2>1. PICK line \in MemLine(V) : line = c[x]
    OBVIOUS
  <2>2. Fenced(c)[x] = [line EXCEPT !.dur = line.fen]
    BY <2>1 DEF Fenced
  <2>3. [line EXCEPT !.dur = line.fen] = [vol |-> line.vol, fen |-> line.fen, dur |-> line.fen]
    BY DEF MemLine
  <2> QED  BY <2>1, <2>2, <2>3 DEF MemLine
<1>2. Fenced(c) = [x \in U |-> Fenced(c)[x]]
  BY DEF Fenced
<1> QED  BY <1>1, <1>2

(* The cache may write back one of the words that NVM has not got yet.     *)
LEMMA EarlyWord ==
  ASSUME NEW U, NEW V, NEW c \in [U -> MemLine(V)], NEW d \in Log!EarlyWords(c)
  PROVE  /\ d \in [U -> MemLine(V)]
         /\ \A x \in U : /\ d[x].vol = c[x].vol
                         /\ \/ d[x].fen = c[x].fen /\ d[x].dur = c[x].dur
                            \/ d[x].fen = c[x].vol /\ d[x].dur = c[x].vol
<1>1. PICK w \in U : d = [c EXCEPT ![w] = Log!Evict(c[w])]
  BY DEF Log!EarlyWords
<1>2. PICK line \in MemLine(V) : line = c[w]
  OBVIOUS
<1>3. /\ Log!Evict(line) \in MemLine(V) /\ Log!Evict(line).vol = line.vol
      /\ Log!Evict(line).fen = line.vol /\ Log!Evict(line).dur = line.vol
  BY DEF MemLine, Log!Evict
<1>4. PICK e \in MemLine(V) : e = Log!Evict(line) /\ e.vol = line.vol /\ e.fen = line.vol /\ e.dur = line.vol
  BY <1>3
<1>5. d \in [U -> MemLine(V)] /\ d = [c EXCEPT ![w] = e]
  BY <1>1, <1>2, <1>4
<1>6. ASSUME NEW x \in U
      PROVE  /\ d[x].vol = c[x].vol
             /\ \/ d[x].fen = c[x].fen /\ d[x].dur = c[x].dur
                \/ d[x].fen = c[x].vol /\ d[x].dur = c[x].vol
  <2>1. CASE x = w
    <3>1. d[x] = e
      BY <1>5, <2>1
    <3> QED  BY <1>2, <1>4, <2>1, <3>1
  <2>2. CASE x # w
    BY <1>5, <2>2
  <2> QED  BY <2>1, <2>2
<1> QED  BY <1>5, <1>6

(* A settled word has nothing to write back.                               *)
LEMMA NotEarly ==
  ASSUME NEW U, NEW V, NEW c \in [U -> MemLine(V)], NEW d \in Log!EarlyWords(c), NEW x \in U, Settled(c[x])
  PROVE  d[x] = c[x]
BY DEF Log!EarlyWords, Log!Dirty, Settled

(* ... and a stretch of settled words none at all.                         *)
LEMMA NoEarlyWords ==
  ASSUME NEW U, NEW V, NEW c \in [U -> MemLine(V)], \A x \in U : Settled(c[x])
  PROVE  Log!EarlyWords(c) = {}
BY DEF Log!EarlyWords, Log!Dirty, Settled

-----------------------------------------------------------------------------
\* An entry of LogBasedUpdates, that has payload a, and during the update to x
\* while DoUpdate stands at p.
LogCellOk(c, a, x, p) ==
  /\ c \in [Words -> MemLine(Nat)]
  /\ p \in {"idle", "begun", "log", "fence"}
  /\ p # "fence" => \A w \in Words : c[w].vol = a[w] /\ Settled(c[w])
  /\ p = "fence" => \A w \in Words : c[w].vol = x[w] /\ c[w].fen = x[w]

(* The payloads are made of numbers.                                       *)
LEMMA PayloadNumbers ==
  ASSUME NEW a \in Payloads, NEW w \in Words
  PROVE  a[w] \in Nat /\ DOMAIN a = Words
<1>1. Power2[Width] \in Nat \ {0}
  BY Sizes, PowerUnfolds
<1>2. a[w] \in 0 .. Power2[Width] - 1
  BY DEF Payloads, WordValues, Power2
<1> QED  BY <1>1, <1>2 DEF Payloads

(* The update is copied over the entry ...                                 *)
LEMMA LogCellCopied ==
  ASSUME NEW c, NEW a, NEW x \in Payloads, LogCellOk(c, a, x, "log")
  PROVE  LogCellOk(Log!FastCopyAndWriteBack(c, x), a, x, "fence")
<1>1. c \in [Words -> MemLine(Nat)] /\ DOMAIN x = Words /\ \A w \in DOMAIN x : x[w] \in Nat
  <2>1. DOMAIN x = Words
    BY DEF Payloads
  <2> QED  BY <2>1, PayloadNumbers DEF LogCellOk
<1>2. PICK d : d = SentBack(Stored(c, x), DOMAIN x)
  OBVIOUS
<1>3. d \in [Words -> MemLine(Nat)] /\ \A w \in Words : d[w].vol = x[w] /\ d[w].fen = x[w]
  BY <1>1, <1>2, CopiedWords
<1>4. Log!FastCopyAndWriteBack(c, x) = d
  BY <1>2, SameMemory
<1>5. LogCellOk(d, a, x, "fence")
  BY <1>3 DEF LogCellOk
<1> QED  BY <1>4, <1>5

(* ... and the fence makes it the entry.                                   *)
LEMMA LogCellFenced ==
  ASSUME NEW c, NEW a, NEW x, NEW y, LogCellOk(c, a, x, "fence")
  PROVE  LogCellOk(Log!FenceWords(c), x, y, "idle")
<1>1. c \in [Words -> MemLine(Nat)] /\ \A w \in Words : c[w].vol = x[w] /\ c[w].fen = x[w]
  BY DEF LogCellOk
<1>2. PICK d : d = Fenced(c)
  OBVIOUS
<1>3. d \in [Words -> MemLine(Nat)] /\ \A w \in Words : d[w].vol = x[w] /\ d[w].fen = x[w] /\ d[w].dur = x[w]
  BY <1>1, <1>2, FencedWords
<1>4. Log!FenceWords(c) = d
  BY <1>2, SameMemory
<1>5. LogCellOk(d, x, y, "idle")
  BY <1>3 DEF LogCellOk, Settled
<1> QED  BY <1>4, <1>5

(* The cache may write back words of the copy.                             *)
LEMMA LogCellDrifts ==
  ASSUME NEW c, NEW a, NEW x, NEW p, LogCellOk(c, a, x, p), NEW d \in Log!EarlyWords(c)
  PROVE  LogCellOk(d, a, x, p)
<1>1. c \in [Words -> MemLine(Nat)] /\ p \in {"idle", "begun", "log", "fence"}
  BY DEF LogCellOk
<1>2. /\ d \in [Words -> MemLine(Nat)]
      /\ \A w \in Words : d[w].vol = c[w].vol /\ (d[w].fen = c[w].fen \/ d[w].fen = c[w].vol)
  BY <1>1, EarlyWord
<1>3. CASE p = "fence"
  BY <1>1, <1>2, <1>3 DEF LogCellOk
<1>4. CASE p # "fence"
  <2>1. \A w \in Words : Settled(c[w])
    BY <1>4 DEF LogCellOk
  <2> QED  BY <1>1, <2>1, NoEarlyWords
<1> QED  BY <1>3, <1>4

-----------------------------------------------------------------------------
\* An InplaceCow, whose byte is one when a is the entry.
ActiveIf(one, n) == IF n = one THEN "a" ELSE "b"

CowCellOk(c, a, x, p, one) ==
  LET act == ActiveIf(one, c[Cow!id].vol)
      oth == Cow!Other(act)
  IN /\ c \in [Cow!Units -> MemLine(Nat)]
     /\ p \in {"idle", "begun", "data", "fence"}
     /\ c[Cow!id].vol \in {0, 1}
     /\ p # "fence" => /\ Settled(c[Cow!id])
                       /\ \A w \in Words : c[<<act, w>>].vol = a[w] /\ Settled(c[<<act, w>>])
     /\ p \in {"idle", "begun"} => \A w \in Words : Settled(c[<<oth, w>>])
     /\ p = "data" => \A w \in Words : c[<<oth, w>>].vol = x[w] /\ c[<<oth, w>>].fen = x[w]
     /\ p = "fence" => /\ c[Cow!id].fen = c[Cow!id].vol /\ c[Cow!id].dur \in {0, 1}
                       /\ \A w \in Words : /\ c[<<act, w>>].vol = x[w] /\ Settled(c[<<act, w>>])
                                           /\ c[<<oth, w>>].vol = a[w] /\ Settled(c[<<oth, w>>])

(* The byte and the words of the versions are all there is.                *)
LEMMA UnitOps ==
  /\ Cow!id \in Cow!Units
  /\ \A v \in {"a", "b"} : \A w \in Words : <<v, w>> \in Cow!Units /\ <<v, w>> # Cow!id
  /\ \A y \in Cow!Units : y = Cow!id \/ \E v \in {"a", "b"} : \E w \in Words : y = <<v, w>>
  /\ \A v \in {"a", "b"} : \A y : y \in Cow!Version(v) <=> \E w \in Words : y = <<v, w>>
<1>1. Cow!Units = {Cow!id} \union ({"a"} \X Words) \union ({"b"} \X Words)
  BY DEF Cow!Units, Cow!OneLine, Cow!Version
<1>2. \A w : <<"a", w>> # <<"id", 0>> /\ <<"b", w>> # <<"id", 0>>
  OBVIOUS
<1> QED  BY <1>1, <1>2 DEF Cow!id, Cow!Version

(* The versions take turns.                                                *)
LEMMA ActiveOps ==
  ASSUME NEW one \in {0, 1}, NEW n \in {0, 1}
  PROVE  /\ ActiveIf(one, n) \in {"a", "b"} /\ Cow!Other(ActiveIf(one, n)) \in {"a", "b"}
         /\ ActiveIf(one, 1 - n) = Cow!Other(ActiveIf(one, n))
         /\ Cow!Other(Cow!Other(ActiveIf(one, n))) = ActiveIf(one, n)
         /\ Cow!Other(ActiveIf(one, n)) # ActiveIf(one, n)
BY DEF ActiveIf, Cow!Other

(* Which value of the byte means a.                                        *)
LEMMA CowByte ==
  /\ Cow!AIs \in {0, 1}
  /\ \A value : Cow!Active(value) = ActiveIf(Cow!AIs, value[Cow!id])
BY DEF Cow!AIs, Cow!Active, ActiveIf

(* InplaceCow::Write of every specialisation fills the inactive version    *)
(* and writes it back, perhaps with words that have nothing to write back. *)
LEMMA WriteVersionOps ==
  ASSUME NEW c, NEW x, scheme \in Cow!Schemes, Cow!Target(c) \in {"a", "b"}
  PROVE  \E ws : /\ Cow!Version(Cow!Target(c)) \subseteq ws
                 /\ Cow!WriteVersion(c, x) = SentBack(Stored(c, Cow!Into(Cow!Target(c), x)), ws)
<1> DEFINE v == Cow!Target(c)
           into == Cow!Into(v, x)
<1>1. DOMAIN into = Cow!Version(v)
  BY DEF Cow!Into
<1>2. Cow!FastCopyAndWriteBack(c, into) = SentBack(Stored(c, into), Cow!Version(v))
  BY <1>1, SameMemory
<1>3. Cow!WriteBackWords(Cow!StoreWords(c, into), Cow!OneLine) = SentBack(Stored(c, into), Cow!OneLine)
  BY SameMemory
<1>4. Cow!WriteBackWords(Cow!StoreWords(c, into), Cow!FirstLine) = SentBack(Stored(c, into), Cow!FirstLine)
  BY SameMemory
<1>5. Cow!Version(v) \subseteq Cow!OneLine
  BY DEF Cow!OneLine
<1>6. v = "a" => Cow!Version(v) \subseteq Cow!FirstLine
  BY DEF Cow!FirstLine
<1> HIDE DEF v, into
<1>7. CASE scheme = "cow"
  <2>1. Cow!WriteVersion(c, x) = SentBack(Stored(c, into), Cow!Version(v))
    BY <1>2, <1>7 DEF Cow!WriteVersion, Cow!WriteInactive, v, into
  <2> QED  BY <2>1 DEF v, into
<1>8. CASE scheme = "cow16"
  <2>1. Cow!WriteVersion(c, x) = SentBack(Stored(c, into), Cow!OneLine)
    BY <1>3, <1>8 DEF Cow!WriteVersion, Cow!WriteInactive16, v, into
  <2> QED  BY <1>5, <2>1 DEF v, into
<1>9. CASE scheme \in {"cow32", "cow48"}
  <2>1. Cow!WriteVersion(c, x) = Cow!WriteInactive32(c, x)
    BY <1>9 DEF Cow!WriteVersion, Cow!WriteInactive48
  <2>2. CASE v = "b"
    <3>1. Cow!WriteVersion(c, x) = SentBack(Stored(c, into), Cow!Version(v))
      BY <1>2, <2>1, <2>2 DEF Cow!WriteInactive32, v, into
    <3> QED  BY <3>1 DEF v, into
  <2>3. CASE v = "a"
    <3>1. Cow!WriteVersion(c, x) = SentBack(Stored(c, into), Cow!FirstLine)
      BY <1>4, <2>1, <2>3 DEF Cow!WriteInactive32, v, into
    <3> QED  BY <1>6, <2>3, <3>1 DEF v, into
  <2> QED  BY <2>2, <2>3 DEF v
<1> QED  BY <1>7, <1>8, <1>9 DEF Cow!Schemes

(* Write fills the inactive version.                                       *)
LEMMA CowCellWritten ==
  ASSUME scheme \in Cow!Schemes, NEW c, NEW a, NEW x \in Payloads, CowCellOk(c, a, x, "begun", Cow!AIs)
  PROVE  CowCellOk(Cow!WriteVersion(c, x), a, x, "data", Cow!AIs)
<1>1. /\ c \in [Cow!Units -> MemLine(Nat)] /\ c[Cow!id].vol \in {0, 1} /\ Cow!id \in Cow!Units
  BY UnitOps DEF CowCellOk
<1>2. PICK n \in {0, 1}, act \in {"a", "b"}, oth \in {"a", "b"} :
        /\ n = c[Cow!id].vol /\ act = ActiveIf(Cow!AIs, n) /\ oth = Cow!Other(act) /\ oth # act
  BY <1>1, ActiveOps, CowByte
<1>3. Cow!Target(c) = oth
  <2>1. Cow!Volatile(c)[Cow!id] = n
    <3>1. Vol(c)[Cow!id] = n
      BY <1>1, <1>2 DEF Vol
    <3> QED  BY <3>1, SameMemory
  <2> QED  BY <1>2, <2>1, CowByte DEF Cow!Target
<1>4. PICK ws : /\ Cow!Version(oth) \subseteq ws
                /\ Cow!WriteVersion(c, x) = SentBack(Stored(c, Cow!Into(oth, x)), ws)
  BY <1>3, WriteVersionOps
<1>5. PICK into : into = Cow!Into(oth, x)
  OBVIOUS
<1>6. /\ \A y : y \in DOMAIN into <=> \E w \in Words : y = <<oth, w>>
      /\ \A w \in Words : into[<<oth, w>>] = x[w]
      /\ \A y \in DOMAIN into : into[y] \in Nat
  <2>1. DOMAIN into = Cow!Version(oth) /\ \A y \in Cow!Version(oth) : into[y] = x[y[2]]
    BY <1>5 DEF Cow!Into
  <2>2. \A y : y \in Cow!Version(oth) <=> \E w \in Words : y = <<oth, w>>
    BY <1>2, UnitOps
  <2> QED  BY <2>1, <2>2, PayloadNumbers
<1>7. PICK d \in [Cow!Units -> MemLine(Nat)] : d = Stored(c, into)
  BY <1>1, <1>6, StoredWords
<1>8. \A y \in Cow!Units : /\ d[y].vol = IF y \in DOMAIN into THEN into[y] ELSE c[y].vol
                           /\ d[y].fen = c[y].fen /\ d[y].dur = c[y].dur
  BY <1>1, <1>6, <1>7, StoredWords
<1>9. PICK e \in [Cow!Units -> MemLine(Nat)] : e = SentBack(d, ws)
  BY SentBackWords
<1>10. \A y \in Cow!Units : /\ e[y].vol = d[y].vol /\ e[y].dur = d[y].dur
                            /\ e[y].fen = IF y \in ws THEN d[y].vol ELSE d[y].fen
  BY <1>9, SentBackWords
<1>11. ASSUME NEW y \in Cow!Units, y \notin DOMAIN into, Settled(c[y])
       PROVE  e[y].vol = c[y].vol /\ Settled(e[y])
  BY <1>8, <1>10, <1>11 DEF Settled
<1>12. e[Cow!id].vol = n /\ Settled(e[Cow!id])
  <2>1. Cow!id \notin DOMAIN into
    BY <1>2, <1>6, UnitOps
  <2>2. Settled(c[Cow!id])
    BY DEF CowCellOk
  <2> QED  BY <1>1, <1>2, <1>11, <2>1, <2>2
<1>13. ASSUME NEW w \in Words
       PROVE  e[<<act, w>>].vol = a[w] /\ Settled(e[<<act, w>>])
  <2>1. <<act, w>> \in Cow!Units
    BY <1>2, UnitOps
  <2>2. <<act, w>> \notin DOMAIN into
    BY <1>2, <1>6
  <2>3. c[<<act, w>>].vol = a[w] /\ Settled(c[<<act, w>>])
    BY <1>2 DEF CowCellOk
  <2> QED  BY <1>11, <2>1, <2>2, <2>3
<1>14. ASSUME NEW w \in Words
       PROVE  e[<<oth, w>>].vol = x[w] /\ e[<<oth, w>>].fen = x[w]
  <2>1. <<oth, w>> \in Cow!Units /\ <<oth, w>> \in DOMAIN into /\ into[<<oth, w>>] = x[w] /\ <<oth, w>> \in ws
    <3>1. <<oth, w>> \in Cow!Version(oth)
      BY <1>2, UnitOps
    <3> QED  BY <1>2, <1>4, <1>6, <3>1, UnitOps
  <2> QED  BY <1>8, <1>10, <2>1
<1>15. CowCellOk(e, a, x, "data", Cow!AIs)
  BY <1>2, <1>12, <1>13, <1>14 DEF CowCellOk
<1> QED  BY <1>4, <1>5, <1>7, <1>9, <1>15

(* The fence and the turned byte.                                          *)
LEMMA CowCellTurned ==
  ASSUME scheme \in Cow!Schemes, NEW c, NEW a, NEW x \in Payloads, CowCellOk(c, a, x, "data", Cow!AIs)
  PROVE  CowCellOk(Cow!TurnId(Cow!FenceWords(c)), a, x, "fence", Cow!AIs)
<1>1. /\ c \in [Cow!Units -> MemLine(Nat)] /\ c[Cow!id].vol \in {0, 1} /\ Cow!id \in Cow!Units
      /\ Settled(c[Cow!id])
  BY UnitOps DEF CowCellOk
<1>2. PICK n \in {0, 1}, act \in {"a", "b"}, oth \in {"a", "b"} :
        /\ n = c[Cow!id].vol /\ act = ActiveIf(Cow!AIs, n) /\ oth = Cow!Other(act) /\ oth # act
        /\ oth = ActiveIf(Cow!AIs, 1 - n) /\ act = Cow!Other(oth)
  BY <1>1, ActiveOps, CowByte
<1>3. \A w \in Words : /\ c[<<act, w>>].vol = a[w] /\ c[<<act, w>>].fen = a[w]
                       /\ c[<<oth, w>>].vol = x[w] /\ c[<<oth, w>>].fen = x[w]
  BY <1>2 DEF CowCellOk, Settled
<1>40. Cow!FenceWords(c) = Fenced(c)
  BY SameMemory
<1>4. PICK f \in [Cow!Units -> MemLine(Nat)] : f = Cow!FenceWords(c)
  BY <1>1, <1>40, FencedWords
<1>5. \A y \in Cow!Units : f[y].vol = c[y].vol /\ f[y].fen = c[y].fen /\ f[y].dur = c[y].fen
  BY <1>1, <1>4, <1>40, FencedWords
<1>6. PICK into : into = [y \in {Cow!id} |-> 1 - f[Cow!id].vol]
  OBVIOUS
<1>7. DOMAIN into = {Cow!id} /\ into[Cow!id] = 1 - n /\ 1 - n \in {0, 1}
  BY <1>1, <1>2, <1>5, <1>6
<1>8. PICK d \in [Cow!Units -> MemLine(Nat)] : d = Stored(f, into)
  <2>1. \A y \in DOMAIN into : into[y] \in Nat
    BY <1>7
  <2> QED  BY <2>1, StoredWords
<1>9. \A y \in Cow!Units : /\ d[y].vol = IF y = Cow!id THEN 1 - n ELSE f[y].vol
                           /\ d[y].fen = f[y].fen /\ d[y].dur = f[y].dur
  <2>1. \A y \in DOMAIN into : into[y] \in Nat
    BY <1>7
  <2> QED  BY <1>7, <1>8, <2>1, StoredWords
<1>10. PICK e \in [Cow!Units -> MemLine(Nat)] : e = SentBack(d, Cow!LineOfId)
  BY SentBackWords
<1>11. \A y \in Cow!Units : /\ e[y].vol = d[y].vol /\ e[y].dur = d[y].dur
                            /\ e[y].fen = IF y \in Cow!LineOfId THEN d[y].vol ELSE d[y].fen
  BY <1>10, SentBackWords
<1>12. Cow!TurnId(Cow!FenceWords(c)) = e
  <2>1. Cow!TurnId(f) = Cow!WriteBackWords(Cow!StoreWords(f, into), Cow!LineOfId)
    BY <1>6 DEF Cow!TurnId
  <2>2. Cow!StoreWords(f, into) = d
    BY <1>8, SameMemory
  <2>3. Cow!WriteBackWords(d, Cow!LineOfId) = e
    BY <1>10, SameMemory
  <2> QED  BY <1>4, <2>1, <2>2, <2>3
<1>13. Cow!id \in Cow!LineOfId
  BY DEF Cow!LineOfId, Cow!OneLine, Cow!FirstLine
<1>14. e[Cow!id].vol = 1 - n /\ e[Cow!id].fen = 1 - n /\ e[Cow!id].dur = n
  BY <1>1, <1>2, <1>5, <1>9, <1>11, <1>13 DEF Settled
<1>15. ASSUME NEW y \in Cow!Units, y # Cow!id, c[y].fen = c[y].vol
       PROVE  e[y].vol = c[y].vol /\ Settled(e[y])
  BY <1>5, <1>9, <1>11, <1>15 DEF Settled
<1>16. ASSUME NEW w \in Words
       PROVE  /\ e[<<oth, w>>].vol = x[w] /\ Settled(e[<<oth, w>>])
              /\ e[<<act, w>>].vol = a[w] /\ Settled(e[<<act, w>>])
  <2>1. /\ <<oth, w>> \in Cow!Units /\ <<oth, w>> # Cow!id
        /\ <<act, w>> \in Cow!Units /\ <<act, w>> # Cow!id
    BY <1>2, UnitOps
  <2> QED  BY <1>3, <1>15, <2>1
<1>17. CowCellOk(e, a, x, "fence", Cow!AIs)
  BY <1>2, <1>7, <1>14, <1>16 DEF CowCellOk
<1> QED  BY <1>12, <1>17

(* The last fence.                                                         *)
LEMMA CowCellFenced ==
  ASSUME NEW c, NEW a, NEW x, NEW y, NEW one \in {0, 1}, CowCellOk(c, a, x, "fence", one)
  PROVE  CowCellOk(Log!FenceWords(c), x, y, "idle", one)
<1>1. /\ c \in [Cow!Units -> MemLine(Nat)] /\ c[Cow!id].vol \in {0, 1} /\ Cow!id \in Cow!Units
      /\ c[Cow!id].fen = c[Cow!id].vol
  BY UnitOps DEF CowCellOk
<1>2. PICK n \in {0, 1}, act \in {"a", "b"}, oth \in {"a", "b"} :
        /\ n = c[Cow!id].vol /\ act = ActiveIf(one, n) /\ oth = Cow!Other(act)
  BY <1>1, ActiveOps
<1>3. PICK f \in [Cow!Units -> MemLine(Nat)] : f = Log!FenceWords(c)
  BY <1>1, FencedWords, SameMemory
<1>4. \A z \in Cow!Units : f[z].vol = c[z].vol /\ f[z].fen = c[z].fen /\ f[z].dur = c[z].fen
  BY <1>1, <1>3, FencedWords, SameMemory
<1>5. f[Cow!id].vol = n /\ Settled(f[Cow!id])
  BY <1>1, <1>2, <1>4 DEF Settled
<1>6. ASSUME NEW w \in Words
      PROVE  /\ f[<<act, w>>].vol = x[w] /\ Settled(f[<<act, w>>])
             /\ Settled(f[<<oth, w>>])
  <2>1. <<oth, w>> \in Cow!Units /\ <<act, w>> \in Cow!Units
    BY <1>2, UnitOps
  <2>2. c[<<act, w>>].vol = x[w] /\ Settled(c[<<act, w>>]) /\ Settled(c[<<oth, w>>])
    BY <1>2 DEF CowCellOk
  <2> QED  BY <1>4, <2>1, <2>2 DEF Settled
<1>7. CowCellOk(f, x, y, "idle", one)
  BY <1>2, <1>5, <1>6 DEF CowCellOk
<1> QED  BY <1>3, <1>7

(* The cache may write back the inactive version or the turned byte.       *)
LEMMA CowCellDrifts ==
  ASSUME NEW c, NEW a, NEW x, NEW p, NEW one \in {0, 1}, CowCellOk(c, a, x, p, one),
         NEW d \in Log!EarlyWords(c)
  PROVE  CowCellOk(d, a, x, p, one)
<1>1. /\ c \in [Cow!Units -> MemLine(Nat)] /\ c[Cow!id].vol \in {0, 1} /\ Cow!id \in Cow!Units
      /\ p \in {"idle", "begun", "data", "fence"}
  BY UnitOps DEF CowCellOk
<1>2. PICK n \in {0, 1}, act \in {"a", "b"}, oth \in {"a", "b"} :
        /\ n = c[Cow!id].vol /\ act = ActiveIf(one, n) /\ oth = Cow!Other(act)
  BY <1>1, ActiveOps
<1>3. \A w \in Words : <<act, w>> \in Cow!Units /\ <<oth, w>> \in Cow!Units
  BY <1>2, UnitOps
<1>4. /\ d \in [Cow!Units -> MemLine(Nat)]
      /\ \A z \in Cow!Units : /\ d[z].vol = c[z].vol
                              /\ \/ d[z].fen = c[z].fen /\ d[z].dur = c[z].dur
                                 \/ d[z].fen = c[z].vol /\ d[z].dur = c[z].vol
  BY <1>1, EarlyWord
<1>5. ASSUME NEW z \in Cow!Units, Settled(c[z])
      PROVE  d[z].vol = c[z].vol /\ Settled(d[z])
  BY <1>4, <1>5 DEF Settled
<1>6. d[Cow!id].vol = n
  BY <1>1, <1>2, <1>4
<1>7. CASE p # "fence"
  <2>1. Settled(d[Cow!id])
    BY <1>1, <1>5, <1>7 DEF CowCellOk
  <2>2. \A w \in Words : d[<<act, w>>].vol = a[w] /\ Settled(d[<<act, w>>])
    <3>1. \A w \in Words : c[<<act, w>>].vol = a[w] /\ Settled(c[<<act, w>>])
      BY <1>2, <1>7 DEF CowCellOk
    <3> QED  BY <1>3, <1>5, <3>1
  <2>3. p \in {"idle", "begun"} => \A w \in Words : Settled(d[<<oth, w>>])
    <3>1. p \in {"idle", "begun"} => \A w \in Words : Settled(c[<<oth, w>>])
      BY <1>2 DEF CowCellOk
    <3> QED  BY <1>3, <1>5, <3>1
  <2>4. p = "data" => \A w \in Words : d[<<oth, w>>].vol = x[w] /\ d[<<oth, w>>].fen = x[w]
    <3>1. p = "data" => \A w \in Words : c[<<oth, w>>].vol = x[w] /\ c[<<oth, w>>].fen = x[w]
      BY <1>2 DEF CowCellOk
    <3> QED  BY <1>3, <1>4, <3>1
  <2> QED  BY <1>1, <1>2, <1>4, <1>6, <1>7, <2>1, <2>2, <2>3, <2>4 DEF CowCellOk
<1>8. CASE p = "fence"
  <2>1. d[Cow!id].fen = n /\ d[Cow!id].dur \in {0, 1}
    <3>1. c[Cow!id].fen = n /\ c[Cow!id].dur \in {0, 1}
      BY <1>2, <1>8 DEF CowCellOk
    <3> QED  BY <1>1, <1>2, <1>4, <3>1
  <2>2. \A w \in Words : /\ d[<<act, w>>].vol = x[w] /\ Settled(d[<<act, w>>])
                         /\ d[<<oth, w>>].vol = a[w] /\ Settled(d[<<oth, w>>])
    <3>1. \A w \in Words : /\ c[<<act, w>>].vol = x[w] /\ Settled(c[<<act, w>>])
                           /\ c[<<oth, w>>].vol = a[w] /\ Settled(c[<<oth, w>>])
      BY <1>2, <1>8 DEF CowCellOk
    <3> QED  BY <1>3, <1>5, <3>1
  <2> QED  BY <1>2, <1>4, <1>6, <1>8, <2>1, <2>2 DEF CowCellOk
<1> QED  BY <1>7, <1>8

-----------------------------------------------------------------------------
\* The two version schemes side by side.
BlockSetOf(s) == IF s = "sliding" THEN SlidingBlockSet ELSE HighBlockSet
Rewritten(s, b, x) == IF s = "sliding" THEN InPlace!WriteSliding(b, x) ELSE InPlace!WriteHigh(b, x)
Spelled(s, state, w) == IF s = "sliding" THEN InPlace!WordOf(state, w) ELSE InPlace!HighWordOf(state, w)
Spells(s, b, a) == \A w \in Words : Spelled(s, News(b), w) = a[w]
PhaseAt(s, b, k) == IF s = "sliding" THEN InPlace!Phase(b[k], InPlace!VersionBit(k)) ELSE b[k].version
InPhase(s, b, q) == \A k \in InPlace!Blocks : PhaseAt(s, b, k) = q
Aligned(s, b) == \E q \in 0 .. 3 : InPhase(s, b, q)

\* The sliding scheme finds the old state of its meta block only in the first
\* group of an entry.
Recoverable(s) == s = "sliding" => WordCount < Width

(* A write gives the blocks what is read from them.                        *)
LEMMA RewrittenOps ==
  ASSUME NEW s, s \in InPlace!Schemes, NEW b \in [InPlace!Blocks -> BlockSetOf(s)], NEW x \in [Words -> Nat]
  PROVE  Rewritten(s, b, x) \in [InPlace!Blocks -> BlockSetOf(s)] /\ Spells(s, Rewritten(s, b, x), x)
<1>1. CASE s = "sliding"
  <2>1. b \in [InPlace!Blocks -> SlidingBlockSet]
    BY <1>1 DEF BlockSetOf
  <2>2. InPlace!WriteSliding(b, x) \in [InPlace!Blocks -> SlidingBlockSet]
    BY <2>1, SlidingWritten
  <2>3. \A w \in Words : InPlace!WordOf(News(InPlace!WriteSliding(b, x)), w) = x[w]
    BY <2>1, SlidingReadsBack
  <2> QED  BY <1>1, <2>2, <2>3 DEF BlockSetOf, Rewritten, Spells, Spelled
<1>2. CASE s # "sliding"
  <2>1. b \in [InPlace!Blocks -> HighBlockSet]
    BY <1>2 DEF BlockSetOf
  <2>2. /\ InPlace!WriteHigh(b, x) \in [InPlace!Blocks -> HighBlockSet]
        /\ \A w \in Words : InPlace!HighWordOf(News(InPlace!WriteHigh(b, x)), w) = x[w]
    BY <2>1, HighWritten
  <2> QED  BY <1>2, <2>2 DEF BlockSetOf, Rewritten, Spells, Spelled
<1> QED  BY <1>1, <1>2

(* GetVersionNoCheck looks at the bit of a block its word has its version  *)
(* in, and at the highest one of a meta block.                             *)
LEMMA VersionBitOps ==
  ASSUME NEW w \in Words
  PROVE  /\ InPlace!VersionBit(InPlace!SlidingBlock(w)) = InPlace!Position(w)
         /\ InPlace!VersionBit(InPlace!MetaBlock(w)) = Group
<1>0. InPlace!Words = Words /\ InPlace!Group = Group
  BY Sizes
<1>1. InPlace!VersionBit(InPlace!MetaBlock(w)) = Group
  BY <1>0 DEF InPlace!VersionBit
<1>2. InPlace!VersionBit(InPlace!SlidingBlock(w)) = InPlace!Position(w)
  <2>1. ~ \E v \in Words : InPlace!SlidingBlock(w) = InPlace!MetaBlock(v)
    BY BlocksApart
  <2>2. PICK v : v = CHOOSE y \in Words : InPlace!SlidingBlock(w) = InPlace!SlidingBlock(y)
    OBVIOUS
  <2>3. v \in Words /\ InPlace!SlidingBlock(w) = InPlace!SlidingBlock(v)
    BY <2>2
  <2>4. v = w
    BY <2>3, BlocksApart
  <2> QED  BY <1>0, <2>1, <2>2, <2>4 DEF InPlace!VersionBit
<1> QED  BY <1>1, <1>2

(* The number of a pair of version bits says which they are.               *)
LEMMA PhaseOps ==
  ASSUME NEW block, NEW i, NEW o \in {0, 1}, NEW n \in {0, 1}, Bit(block.old, i) = o, Bit(block.new, i) = n
  PROVE  InPlace!Phase(block, i) = IF o = 0 THEN n ELSE 3 - n
BY DEF InPlace!Phase, Bit

(* In a version of the sliding scheme every block has the same two bits.   *)
LEMMA PhaseBits ==
  ASSUME NEW block \in SlidingBlockSet, NEW i \in Nat
  PROVE  /\ Bit(block.old, i) \in {0, 1} /\ Bit(block.new, i) \in {0, 1}
         /\ InPlace!Phase(block, i) = IF Bit(block.old, i) = 0 THEN Bit(block.new, i) ELSE 3 - Bit(block.new, i)
<1>1. block.old \in Nat /\ block.new \in Nat
  BY DEF SlidingBlockSet
<1>2. Bit(block.old, i) \in {0, 1} /\ Bit(block.new, i) \in {0, 1}
  BY <1>1, BitType
<1> QED  BY <1>2, PhaseOps

(* A write takes every block of an entry one version further, and what was *)
(* its new state becomes its old one.                                      *)
LEMMA RewrittenAhead ==
  ASSUME NEW s, s \in InPlace!Schemes, Recoverable(s),
         NEW b \in [InPlace!Blocks -> BlockSetOf(s)], NEW x \in [Words -> Nat],
         NEW q \in 0 .. 3, InPhase(s, b, q)
  PROVE  /\ InPhase(s, Rewritten(s, b, x), (q + 1) % 4)
         /\ \A k \in InPlace!Blocks : Rewritten(s, b, x)[k].old = b[k].new
<1>1. CASE s = "sliding"
  <2>1. b \in [InPlace!Blocks -> SlidingBlockSet] /\ WordCount < Width
    BY <1>1 DEF BlockSetOf, Recoverable
  <2>2. PICK d : d = InPlace!WriteSliding(b, x)
    OBVIOUS
  <2>3. d \in [InPlace!Blocks -> SlidingBlockSet]
    BY <2>1, <2>2, SlidingWritten
  <2>4. PICK o \in {0, 1}, n \in {0, 1} : q = IF o = 0 THEN n ELSE 3 - n
    <3>1. CASE q = 0
      BY <3>1
    <3>2. CASE q = 1
      BY <3>2
    <3>3. CASE q = 2
      BY <3>3
    <3>4. CASE q = 3
      BY <3>4
    <3> QED  BY <3>1, <3>2, <3>3, <3>4
  <2>5. ASSUME NEW k \in InPlace!Blocks, InPlace!VersionBit(k) \in Nat
        PROVE  Bit(b[k].old, InPlace!VersionBit(k)) = o /\ Bit(b[k].new, InPlace!VersionBit(k)) = n
    <3>1. PICK block \in SlidingBlockSet, i \in Nat : block = b[k] /\ i = InPlace!VersionBit(k)
      BY <2>1, <2>5
    <3>2. InPlace!Phase(block, i) = q
      BY <1>1, <3>1 DEF InPhase, PhaseAt
    <3>3. PICK e \in {0, 1}, f \in {0, 1} : e = Bit(block.old, i) /\ f = Bit(block.new, i)
      BY PhaseBits
    <3>4. q = IF e = 0 THEN f ELSE 3 - f
      BY <3>2, <3>3, PhaseBits
    <3>5. e = o /\ f = n
      BY <2>4, <3>4
    <3> QED  BY <3>1, <3>3, <3>5
  <2>6. ASSUME NEW w \in Words
        PROVE  /\ InPlace!SlidingBlock(w) \in InPlace!Blocks /\ InPlace!MetaBlock(w) \in InPlace!Blocks
               /\ InPlace!Position(w) \in Nat /\ Group \in Nat /\ x[w] \in Nat
               /\ InPlace!NextVersionBit(b, w) = 1 - o
               /\ InPlace!MetaSource(w) = InPlace!MetaBlock(w)
    <3>1. InPlace!SlidingBlock(w) \in InPlace!Blocks /\ InPlace!MetaBlock(w) \in InPlace!Blocks
      BY <2>1, SlidingWritten
    <3>2. InPlace!Position(w) \in Nat /\ Group \in Nat
      <4>1. InPlace!Position(w) \in 0 .. Group - 1 /\ Group \in Nat
        BY WordPlace, Sizes
      <4> QED  BY <4>1
    <3>3. InPlace!NextVersionBit(b, w) = 1 - o
      <4>1. PICK v \in Words : InPlace!SlidingBlock(v) = InPlace!FirstBlock(w) /\ InPlace!Position(v) = 0
        BY FirstOfGroup
      <4>2. InPlace!VersionBit(InPlace!FirstBlock(w)) = 0
        BY <4>1, VersionBitOps
      <4>3. InPlace!FirstBlock(w) \in InPlace!Blocks
        BY <2>1, NextVersionBitOps
      <4>4. Bit(b[InPlace!FirstBlock(w)].old, 0) = o
        BY <2>5, <4>2, <4>3
      <4> QED  BY <2>1, <4>4, NextVersionBitOps
    <3>4. InPlace!MetaSource(w) = InPlace!MetaBlock(w)
      <4>1. InPlace!CountOf(w) = WordCount - GroupNumber(w) * Group /\ GroupNumber(w) \in Nat
        BY WordPlace
      <4>2. PICK m \in Nat : m = GroupNumber(w) * Group
        BY <3>2, <4>1
      <4>3. ~ InPlace!CountOf(w) >= Width
        BY <2>1, <4>1, <4>2, Sizes
      <4> QED  BY <4>3 DEF InPlace!MetaSource, InPlace!MetaBlock
    <3> QED  BY <3>1, <3>2, <3>3, <3>4
  <2>7. ASSUME NEW k \in InPlace!Blocks
        PROVE  /\ d[k].old = b[k].new
               /\ InPlace!VersionBit(k) \in Nat
               /\ Bit(d[k].old, InPlace!VersionBit(k)) = n /\ Bit(d[k].new, InPlace!VersionBit(k)) = 1 - o
    <3>1. PICK w \in Words : k \in {InPlace!SlidingBlock(w), InPlace!MetaBlock(w)}
      BY AllBlocks
    <3>2. PICK c \in {0, 1}, p \in Nat : c = 1 - o /\ p = InPlace!Position(w)
      BY <2>4, <2>6
    <3>3. CASE k = InPlace!SlidingBlock(w)
      <4>1. InPlace!VersionBit(k) = p
        BY <3>2, <3>3, VersionBitOps
      <4>2. d[k].old = b[k].new /\ d[k].new = WithBit(x[w], p, c)
        BY <2>1, <2>2, <2>6, <3>2, <3>3, SlidingWritten
      <4>3. Bit(WithBit(x[w], p, c), p) = c
        BY <2>6, WithBitOps
      <4>4. Bit(b[k].new, p) = n
        BY <2>5, <4>1
      <4> QED  BY <3>2, <4>1, <4>2, <4>3, <4>4
    <3>4. CASE k = InPlace!MetaBlock(w)
      <4>1. InPlace!VersionBit(k) = Group /\ Group \in Nat
        BY <2>6, <3>4, VersionBitOps
      <4>2. d[k].old = b[k].new /\ Bit(d[k].new, Group) = c
        BY <2>1, <2>2, <2>6, <3>2, <3>4, SlidingWritten
      <4>3. Bit(b[k].new, Group) = n
        BY <2>5, <4>1
      <4> QED  BY <3>2, <4>1, <4>2, <4>3
    <3> QED  BY <3>1, <3>3, <3>4
  <2>8. ASSUME NEW k \in InPlace!Blocks
        PROVE  PhaseAt(s, d, k) = (q + 1) % 4
    <3>1. PICK c \in {0, 1} : c = 1 - o
      BY <2>4
    <3>2. InPlace!Phase(d[k], InPlace!VersionBit(k)) = IF n = 0 THEN c ELSE 3 - c
      BY <2>7, <3>1, PhaseOps
    <3>3. (q + 1) % 4 = IF n = 0 THEN c ELSE 3 - c
      <4>1. CASE o = 0 /\ n = 0
        BY <2>4, <3>1, <4>1
      <4>2. CASE o = 0 /\ n = 1
        BY <2>4, <3>1, <4>2
      <4>3. CASE o = 1 /\ n = 0
        BY <2>4, <3>1, <4>3
      <4>4. CASE o = 1 /\ n = 1
        BY <2>4, <3>1, <4>4
      <4> QED  BY <4>1, <4>2, <4>3, <4>4
    <3> QED  BY <1>1, <3>2, <3>3 DEF PhaseAt
  <2> QED  BY <1>1, <2>2, <2>7, <2>8 DEF InPhase, Rewritten
<1>2. CASE s # "sliding"
  <2>1. b \in [InPlace!Blocks -> HighBlockSet]
    BY <1>2 DEF BlockSetOf
  <2>2. \A k \in InPlace!Blocks : /\ InPlace!WriteHigh(b, x)[k].version = (b[k].version + 1) % 4
                                  /\ InPlace!WriteHigh(b, x)[k].old = b[k].new
    BY <2>1, HighWritten
  <2>3. \A k \in InPlace!Blocks : b[k].version = q
    BY <1>2 DEF InPhase, PhaseAt
  <2> QED  BY <1>2, <2>2, <2>3 DEF InPhase, PhaseAt, Rewritten
<1> QED  BY <1>1, <1>2

(* What the constructors make: an entry full of 'a', its blocks in phase.  *)
LEMMA ConstructedOps ==
  ASSUME scheme \in InPlace!Schemes, NEW filler \in Nat, NEW b \in InPlace!Constructed(filler)
  PROVE  /\ b \in [InPlace!Blocks -> BlockSetOf(scheme)]
         /\ Spells(scheme, b, [w \in Words |-> filler])
         /\ Recoverable(scheme) => Aligned(scheme, b)
         /\ InPlace!ResetBlocks \in [InPlace!Blocks -> BlockSetOf(scheme)]
<1>1. PICK x \in [Words -> Nat] : x = [w \in Words |-> filler] /\ x = [w \in InPlace!Words |-> filler]
  BY Sizes
<1>2. PICK r : r = InPlace!ResetBlocks
  OBVIOUS
<1>3. \A d : InPlace!Write(d, x) = Rewritten(scheme, d, x)
  BY DEF InPlace!Write, Rewritten
<1>4. b = Rewritten(scheme, r, x) \/ b = Rewritten(scheme, Rewritten(scheme, r, x), x)
  BY <1>1, <1>2, <1>3 DEF InPlace!Constructed
<1>5. r \in [InPlace!Blocks -> BlockSetOf(scheme)]
  <2>1. CASE scheme = "sliding"
    BY <1>2, <2>1 DEF InPlace!ResetBlocks, BlockSetOf, SlidingBlockSet
  <2>2. CASE scheme # "sliding"
    BY <1>2, <2>2 DEF InPlace!ResetBlocks, BlockSetOf, HighBlockSet
  <2> QED  BY <2>1, <2>2
<1>6. PICK once \in [InPlace!Blocks -> BlockSetOf(scheme)] : once = Rewritten(scheme, r, x)
  BY <1>5, RewrittenOps
<1>7. b \in [InPlace!Blocks -> BlockSetOf(scheme)] /\ Spells(scheme, b, x)
  <2>1. Spells(scheme, once, x)
    BY <1>5, <1>6, RewrittenOps
  <2>2. Rewritten(scheme, once, x) \in [InPlace!Blocks -> BlockSetOf(scheme)]
        /\ Spells(scheme, Rewritten(scheme, once, x), x)
    BY RewrittenOps
  <2> QED  BY <1>4, <1>6, <2>1, <2>2
<1>8. InPhase(scheme, r, 0)
  <2>1. CASE scheme = "sliding"
    <3>1. ASSUME NEW k \in InPlace!Blocks
          PROVE  InPlace!Phase(r[k], InPlace!VersionBit(k)) = 0
      <4>1. PICK w \in Words : k \in {InPlace!SlidingBlock(w), InPlace!MetaBlock(w)}
        BY AllBlocks
      <4>2. InPlace!Position(w) \in 0 .. Group - 1 /\ Group \in Nat
        BY WordPlace, Sizes
      <4>3. InPlace!VersionBit(k) \in Nat
        <5>1. InPlace!VersionBit(k) = InPlace!Position(w) \/ InPlace!VersionBit(k) = Group
          BY <4>1, VersionBitOps
        <5> QED  BY <4>2, <5>1
      <4>4. r[k].old = 0 /\ r[k].new = 0
        BY <1>2, <2>1 DEF InPlace!ResetBlocks
      <4>5. PICK i \in Nat, z \in {0, 1} : i = InPlace!VersionBit(k) /\ z = 0
        BY <4>3
      <4>6. Bit(0, i) = z
        <5>1. PICK p \in Nat \ {0} : p = Power2[i]
          BY PowerUnfolds
        <5>2. 0 \div p = 0
          BY <5>1
        <5>3. 0 % 2 = 0
          OBVIOUS
        <5> QED  BY <4>5, <5>1, <5>2, <5>3 DEF Bit, InPlace!Bit, Power2
      <4> QED  BY <4>4, <4>5, <4>6, PhaseOps
    <3> QED  BY <2>1, <3>1 DEF InPhase, PhaseAt
  <2>2. CASE scheme # "sliding"
    BY <1>2, <2>2 DEF InPlace!ResetBlocks, InPhase, PhaseAt
  <2> QED  BY <2>1, <2>2
<1>9. ASSUME Recoverable(scheme)
      PROVE  Aligned(scheme, b)
  <2>1. PICK p0 \in 0 .. 3, p1 \in 0 .. 3, p2 \in 0 .. 3 : p0 = 0 /\ p1 = (p0 + 1) % 4 /\ p2 = (p1 + 1) % 4
    OBVIOUS
  <2>2. InPhase(scheme, once, p1)
    BY <1>5, <1>6, <1>8, <1>9, <2>1, RewrittenAhead
  <2>3. InPhase(scheme, Rewritten(scheme, once, x), p2)
    BY <1>9, <2>1, <2>2, RewrittenAhead
  <2> QED  BY <1>4, <1>6, <2>2, <2>3 DEF Aligned
<1> QED  BY <1>1, <1>2, <1>5, <1>7, <1>9

\* The blocks of an entry on their way from b to the write of x.
Flight(c, b, a, x, done, s) ==
  /\ b \in [InPlace!Blocks -> BlockSetOf(s)]
  /\ Spells(s, b, a)
  /\ Recoverable(s) => Aligned(s, b)
  /\ \A k \in InPlace!Blocks :
       /\ c[k].vol = Rewritten(s, b, x)[k] /\ c[k].fen = Rewritten(s, b, x)[k]
       /\ done => c[k].dur \in {b[k], Rewritten(s, b, x)[k]}

\* An entry of a version scheme; done says that it has been updated before,
\* so that the file does not hold the zeroes of a new one.
VersionCellOk(c, a, x, p, done, s) ==
  /\ c \in [InPlace!Blocks -> MemLine(BlockSetOf(s))]
  /\ p \in {"idle", "begun", "fence"}
  /\ p # "fence" => /\ Spells(s, Vol(c), a)
                    /\ Recoverable(s) => Aligned(s, Vol(c))
                    /\ done => \A k \in InPlace!Blocks : Settled(c[k])
  /\ p = "fence" => \E b : Flight(c, b, a, x, done, s)

(* A load from the memory of an entry gives blocks.                        *)
LEMMA VolOps ==
  ASSUME NEW U, NEW V, NEW c \in [U -> MemLine(V)]
  PROVE  Vol(c) \in [U -> V] /\ Dur(c) \in [U -> V]
         /\ \A k \in U : Vol(c)[k] = c[k].vol /\ Dur(c)[k] = c[k].dur
BY DEF Vol, Dur, MemLine

(* An entry as its constructor leaves it.                                  *)
LEMMA VersionCellInit ==
  ASSUME scheme \in InPlace!Schemes, NEW filler \in Nat, NEW c \in InPlace!InitialCells(filler), NEW x
  PROVE  VersionCellOk(c, [w \in Words |-> filler], x, "idle", FALSE, scheme)
<1>1. PICK b \in InPlace!Constructed(filler) :
        c = [k \in InPlace!Blocks |-> InPlace!Store(InPlace!Line(InPlace!ResetBlocks[k]), b[k])]
  BY DEF InPlace!InitialCells
<1>2. /\ b \in [InPlace!Blocks -> BlockSetOf(scheme)]
      /\ Spells(scheme, b, [w \in Words |-> filler])
      /\ Recoverable(scheme) => Aligned(scheme, b)
      /\ InPlace!ResetBlocks \in [InPlace!Blocks -> BlockSetOf(scheme)]
  BY ConstructedOps
<1>3. PICK r \in [InPlace!Blocks -> BlockSetOf(scheme)] : r = InPlace!ResetBlocks
  BY <1>2
<1>4. ASSUME NEW k \in InPlace!Blocks
      PROVE  c[k] \in MemLine(BlockSetOf(scheme)) /\ c[k].vol = b[k]
  <2>1. PICK old \in BlockSetOf(scheme), new \in BlockSetOf(scheme) : old = r[k] /\ new = b[k]
    BY <1>2
  <2>2. c[k] = InPlace!Store(InPlace!Line(old), new)
    BY <1>1, <1>3, <2>1
  <2>3. InPlace!Store(InPlace!Line(old), new) = [vol |-> new, fen |-> old, dur |-> old]
    BY DEF InPlace!Store, InPlace!Line
  <2> QED  BY <2>1, <2>2, <2>3 DEF MemLine
<1>5. c = [k \in InPlace!Blocks |-> c[k]]
  BY <1>1
<1>6. c \in [InPlace!Blocks -> MemLine(BlockSetOf(scheme))]
  BY <1>4, <1>5
<1>7. Vol(c) = b
  <2>1. Vol(c) = [k \in InPlace!Blocks |-> c[k].vol]
    BY <1>5 DEF Vol
  <2>2. b = [k \in InPlace!Blocks |-> b[k]]
    BY <1>2
  <2> QED  BY <1>4, <2>1, <2>2
<1> QED  BY <1>2, <1>6, <1>7 DEF VersionCellOk

(* Every block is stored once.                                             *)
LEMMA VersionCellWritten ==
  ASSUME scheme \in InPlace!Schemes, NEW c, NEW a, NEW x \in Payloads, NEW done,
         VersionCellOk(c, a, x, "begun", done, scheme)
  PROVE  VersionCellOk(InPlace!FastCopyAndWriteBack(c, InPlace!Write(InPlace!Volatile(c), x)), a, x, "fence",
                       done, scheme)
<1>1. c \in [InPlace!Blocks -> MemLine(BlockSetOf(scheme))]
  BY DEF VersionCellOk
<1>2. PICK b \in [InPlace!Blocks -> BlockSetOf(scheme)] : b = Vol(c)
  BY <1>1, VolOps
<1>3. x \in [Words -> Nat]
  <2>1. x = [w \in Words |-> x[w]]
    BY DEF Payloads
  <2> QED  BY <2>1, PayloadNumbers
<1>4. PICK d \in [InPlace!Blocks -> BlockSetOf(scheme)] : d = Rewritten(scheme, b, x)
  BY <1>3, RewrittenOps
<1>5. InPlace!Write(InPlace!Volatile(c), x) = d
  <2>1. InPlace!Volatile(c) = b
    BY <1>2, SameMemory
  <2> QED  BY <1>4, <2>1 DEF InPlace!Write, Rewritten
<1>6. PICK e : e = SentBack(Stored(c, d), DOMAIN d)
  OBVIOUS
<1>7. InPlace!FastCopyAndWriteBack(c, d) = e
  BY <1>6, SameMemory
<1>8. /\ e \in [InPlace!Blocks -> MemLine(BlockSetOf(scheme))]
      /\ \A k \in InPlace!Blocks : e[k].vol = d[k] /\ e[k].fen = d[k] /\ e[k].dur = c[k].dur
  <2>1. \A k \in DOMAIN d : d[k] \in BlockSetOf(scheme)
    OBVIOUS
  <2> QED  BY <1>1, <1>6, <2>1, CopiedWords
<1>9. Spells(scheme, b, a) /\ (Recoverable(scheme) => Aligned(scheme, b))
  BY <1>2 DEF VersionCellOk
<1>10. done => \A k \in InPlace!Blocks : e[k].dur = b[k]
  <2>1. done => \A k \in InPlace!Blocks : Settled(c[k])
    BY DEF VersionCellOk
  <2>2. \A k \in InPlace!Blocks : b[k] = c[k].vol
    BY <1>1, <1>2, VolOps
  <2> QED  BY <1>8, <2>1, <2>2 DEF Settled
<1>11. Flight(e, b, a, x, done, scheme)
  BY <1>4, <1>8, <1>9, <1>10 DEF Flight
<1>12. VersionCellOk(e, a, x, "fence", done, scheme)
  BY <1>8, <1>11 DEF VersionCellOk
<1> QED  BY <1>5, <1>7, <1>12

(* The fence.                                                              *)
LEMMA VersionCellFenced ==
  ASSUME NEW s, s \in InPlace!Schemes, NEW c, NEW a, NEW x \in Payloads, NEW y, NEW done,
         VersionCellOk(c, a, x, "fence", done, s)
  PROVE  VersionCellOk(Log!FenceWords(c), x, y, "idle", TRUE, s)
<1>1. c \in [InPlace!Blocks -> MemLine(BlockSetOf(s))]
  BY DEF VersionCellOk
<1>2. PICK b : Flight(c, b, a, x, done, s)
  BY DEF VersionCellOk
<1>3. b \in [InPlace!Blocks -> BlockSetOf(s)]
  BY <1>2 DEF Flight
<1>4. x \in [Words -> Nat]
  <2>1. x = [w \in Words |-> x[w]]
    BY DEF Payloads
  <2> QED  BY <2>1, PayloadNumbers
<1>5. PICK d \in [InPlace!Blocks -> BlockSetOf(s)] : d = Rewritten(s, b, x) /\ Spells(s, d, x)
  BY <1>3, <1>4, RewrittenOps
<1>6. Recoverable(s) => Aligned(s, d)
  <2>1. SUFFICES ASSUME Recoverable(s) PROVE Aligned(s, d)
    OBVIOUS
  <2>2. PICK q \in 0 .. 3 : InPhase(s, b, q)
    BY <1>2, <2>1 DEF Flight, Aligned
  <2>3. InPhase(s, d, (q + 1) % 4)
    BY <1>3, <1>4, <1>5, <2>1, <2>2, RewrittenAhead
  <2>4. (q + 1) % 4 \in 0 .. 3
    OBVIOUS
  <2> QED  BY <2>3, <2>4 DEF Aligned
<1>7. PICK f \in [InPlace!Blocks -> MemLine(BlockSetOf(s))] : f = Fenced(c)
  BY <1>1, FencedWords
<1>8. \A k \in InPlace!Blocks : f[k].vol = d[k] /\ Settled(f[k])
  <2>1. \A k \in InPlace!Blocks : f[k].vol = c[k].vol /\ f[k].fen = c[k].fen /\ f[k].dur = c[k].fen
    BY <1>1, <1>7, FencedWords
  <2>2. \A k \in InPlace!Blocks : c[k].vol = d[k] /\ c[k].fen = d[k]
    BY <1>2, <1>5 DEF Flight
  <2> QED  BY <2>1, <2>2 DEF Settled
<1>9. Vol(f) = d
  <2>1. Vol(f) = [k \in InPlace!Blocks |-> f[k].vol] /\ d = [k \in InPlace!Blocks |-> d[k]]
    BY DEF Vol
  <2> QED  BY <1>8, <2>1
<1>10. VersionCellOk(f, x, y, "idle", TRUE, s)
  BY <1>5, <1>6, <1>8, <1>9 DEF VersionCellOk
<1>11. Log!FenceWords(c) = f
  BY <1>7, SameMemory
<1> QED  BY <1>10, <1>11

(* The cache may write back blocks in any order.                           *)
LEMMA VersionCellDrifts ==
  ASSUME NEW s, NEW c, NEW a, NEW x, NEW p, NEW done, VersionCellOk(c, a, x, p, done, s),
         NEW d \in Log!EarlyWords(c)
  PROVE  VersionCellOk(d, a, x, p, done, s)
<1>1. c \in [InPlace!Blocks -> MemLine(BlockSetOf(s))] /\ p \in {"idle", "begun", "fence"}
  BY DEF VersionCellOk
<1>2. /\ d \in [InPlace!Blocks -> MemLine(BlockSetOf(s))]
      /\ \A k \in InPlace!Blocks : /\ d[k].vol = c[k].vol
                                   /\ \/ d[k].fen = c[k].fen /\ d[k].dur = c[k].dur
                                      \/ d[k].fen = c[k].vol /\ d[k].dur = c[k].vol
  BY <1>1, EarlyWord
<1>3. CASE p # "fence"
  <2>1. Vol(d) = Vol(c)
    <3>1. Vol(c) = [k \in InPlace!Blocks |-> c[k].vol] /\ Vol(d) = [k \in InPlace!Blocks |-> d[k].vol]
      BY <1>1, <1>2 DEF Vol
    <3> QED  BY <1>2, <3>1
  <2>2. done => \A k \in InPlace!Blocks : Settled(d[k])
    <3>1. done => \A k \in InPlace!Blocks : Settled(c[k])
      BY <1>3 DEF VersionCellOk
    <3> QED  BY <1>2, <3>1 DEF Settled
  <2> QED  BY <1>1, <1>2, <1>3, <2>1, <2>2 DEF VersionCellOk
<1>4. CASE p = "fence"
  <2>1. PICK b : Flight(c, b, a, x, done, s)
    BY <1>4 DEF VersionCellOk
  <2>2. Flight(d, b, a, x, done, s)
    BY <1>2, <2>1 DEF Flight
  <2> QED  BY <1>2, <1>4, <2>2 DEF VersionCellOk
<1> QED  BY <1>3, <1>4

-----------------------------------------------------------------------------
\* What a power failure leaves of the blocks.

(* Blocks that are all in the same version keep their new states.          *)
LEMMA RolledBackInPhase ==
  ASSUME scheme \in InPlace!Schemes, NEW b \in [InPlace!Blocks -> BlockSetOf(scheme)],
         NEW q \in 0 .. 3, InPhase(scheme, b, q)
  PROVE  InPlace!RolledBack(b) = News(b)
<1>1. \A k \in InPlace!Blocks : InPlace!PhaseOf(b, k) = q
  BY DEF InPhase, PhaseAt, InPlace!PhaseOf
<1>2. q # (q + 1) % 4
  <2>1. q = 0 \/ q = 1 \/ q = 2 \/ q = 3
    OBVIOUS
  <2> QED  BY <2>1
<1>3. \A k \in InPlace!Blocks : ~ \E other \in InPlace!Blocks :
                                    InPlace!PhaseOf(b, k) = (InPlace!PhaseOf(b, other) + 1) % 4
  BY <1>1, <1>2
<1> QED  BY <1>3 DEF InPlace!RolledBack, News

(* Blocks some of which are a version ahead: they go back, unless all are. *)
LEMMA RolledBackBetween ==
  ASSUME scheme \in InPlace!Schemes, NEW b \in [InPlace!Blocks -> BlockSetOf(scheme)],
         NEW d \in [InPlace!Blocks -> BlockSetOf(scheme)], NEW t \in [InPlace!Blocks -> BlockSetOf(scheme)],
         NEW q \in 0 .. 3, InPhase(scheme, b, q), InPhase(scheme, d, (q + 1) % 4),
         \A k \in InPlace!Blocks : d[k].old = b[k].new,
         \A k \in InPlace!Blocks : t[k] = b[k] \/ t[k] = d[k]
  PROVE  \/ t = d /\ InPlace!RolledBack(t) = News(d)
         \/ t # d /\ InPlace!RolledBack(t) = News(b)
<1>1. PICK next \in 0 .. 3 : next = (q + 1) % 4
  OBVIOUS
<1>2. CASE t = d
  BY <1>1, <1>2, RolledBackInPhase
<1>3. CASE t # d
  <2>1. PICK last \in InPlace!Blocks : t[last] = b[last] /\ t[last] # d[last]
    <3>1. \E k \in InPlace!Blocks : t[k] # d[k]
      BY <1>3
    <3> QED  BY <3>1
  <2>2. \A k \in InPlace!Blocks : /\ t[k] = b[k] => InPlace!PhaseOf(t, k) = q
                                  /\ t[k] = d[k] => InPlace!PhaseOf(t, k) = next
    BY <1>1 DEF InPhase, PhaseAt, InPlace!PhaseOf
  <2>3. next # q /\ q # (next + 1) % 4 /\ q # (q + 1) % 4
    <3>1. CASE q = 0
      BY <1>1, <3>1
    <3>2. CASE q = 1
      BY <1>1, <3>2
    <3>3. CASE q = 2
      BY <1>1, <3>3
    <3>4. CASE q = 3
      BY <1>1, <3>4
    <3> QED  BY <3>1, <3>2, <3>3, <3>4
  <2>4. ASSUME NEW k \in InPlace!Blocks
        PROVE  InPlace!RolledBack(t)[k] = b[k].new
    <3>1. CASE t[k] = b[k]
      <4>1. \A other \in InPlace!Blocks : InPlace!PhaseOf(t, k) # (InPlace!PhaseOf(t, other) + 1) % 4
        BY <2>2, <2>3, <3>1
      <4> QED  BY <3>1, <4>1 DEF InPlace!RolledBack
    <3>2. CASE t[k] = d[k]
      <4>1. InPlace!PhaseOf(t, k) = (InPlace!PhaseOf(t, last) + 1) % 4
        BY <1>1, <2>1, <2>2, <3>2
      <4> QED  BY <3>2, <4>1 DEF InPlace!RolledBack
    <3> QED  BY <3>1, <3>2
  <2>5. InPlace!RolledBack(t) = [k \in InPlace!Blocks |-> InPlace!RolledBack(t)[k]]
    BY DEF InPlace!RolledBack
  <2> QED  BY <1>3, <2>4, <2>5 DEF News
<1> QED  BY <1>2, <1>3

(* What is read of blocks that spell a payload is that payload.            *)
LEMMA SpelledOut ==
  ASSUME scheme \in InPlace!Schemes, NEW b, NEW a \in Payloads, Spells(scheme, b, a), NEW t,
         InPlace!RolledBack(t) = News(b)
  PROVE  InPlace!Survivor(t) = a
<1>1. \A w \in Words : Spelled(scheme, News(b), w) = a[w]
  BY DEF Spells
<1>2. InPlace!Survivor(t) = [w \in Words |-> Spelled(scheme, News(b), w)]
  BY Sizes DEF InPlace!Survivor, Spelled
<1>3. a = [w \in Words |-> a[w]]
  BY DEF Payloads
<1> QED  BY <1>1, <1>2, <1>3

(* An entry at rest survives ...                                           *)
LEMMA VersionCellKept ==
  ASSUME scheme \in InPlace!Schemes, Recoverable(scheme), NEW c, NEW a \in Payloads, NEW x, NEW p \in {"idle", "begun"},
         VersionCellOk(c, a, x, p, TRUE, scheme)
  PROVE  InPlace!Survivor(Dur(c)) = a
<1>1. c \in [InPlace!Blocks -> MemLine(BlockSetOf(scheme))]
  BY DEF VersionCellOk
<1>2. PICK b \in [InPlace!Blocks -> BlockSetOf(scheme)] : b = Vol(c)
  BY <1>1, VolOps
<1>3. Spells(scheme, b, a) /\ Aligned(scheme, b) /\ \A k \in InPlace!Blocks : Settled(c[k])
  BY <1>2 DEF VersionCellOk
<1>4. Dur(c) = b
  <2>1. Dur(c) = [k \in InPlace!Blocks |-> c[k].dur] /\ b = [k \in InPlace!Blocks |-> c[k].vol]
    BY <1>1, <1>2 DEF Dur, Vol
  <2> QED  BY <1>3, <2>1 DEF Settled
<1>5. PICK q \in 0 .. 3 : InPhase(scheme, b, q)
  BY <1>3 DEF Aligned
<1>6. InPlace!RolledBack(b) = News(b)
  BY <1>5, RolledBackInPhase
<1> QED  BY <1>3, <1>4, <1>6, SpelledOut

(* ... and one on its way as it was or as it will be, the latter when all  *)
(* its blocks are in NVM and in no other case, so that there is no way     *)
(* back.                                                                   *)
LEMMA VersionCellBetween ==
  ASSUME scheme \in InPlace!Schemes, Recoverable(scheme), NEW c, NEW a \in Payloads, NEW x \in Payloads,
         VersionCellOk(c, a, x, "fence", TRUE, scheme)
  PROVE  InPlace!Survivor(Dur(c)) = IF Dur(c) = Vol(c) THEN x ELSE a
<1>1. c \in [InPlace!Blocks -> MemLine(BlockSetOf(scheme))]
  BY DEF VersionCellOk
<1>2. PICK b : Flight(c, b, a, x, TRUE, scheme)
  BY DEF VersionCellOk
<1>3. b \in [InPlace!Blocks -> BlockSetOf(scheme)] /\ Spells(scheme, b, a) /\ Aligned(scheme, b)
  BY <1>2 DEF Flight
<1>4. x \in [Words -> Nat]
  <2>1. x = [w \in Words |-> x[w]]
    BY DEF Payloads
  <2> QED  BY <2>1, PayloadNumbers
<1>5. PICK d \in [InPlace!Blocks -> BlockSetOf(scheme)] : d = Rewritten(scheme, b, x) /\ Spells(scheme, d, x)
  BY <1>3, <1>4, RewrittenOps
<1>6. PICK q \in 0 .. 3 : InPhase(scheme, b, q)
  BY <1>3 DEF Aligned
<1>7. InPhase(scheme, d, (q + 1) % 4) /\ \A k \in InPlace!Blocks : d[k].old = b[k].new
  BY <1>3, <1>4, <1>5, <1>6, RewrittenAhead
<1>8. PICK t \in [InPlace!Blocks -> BlockSetOf(scheme)] :
        t = Dur(c) /\ \A k \in InPlace!Blocks : t[k] = c[k].dur
  BY <1>1, VolOps
<1>9. \A k \in InPlace!Blocks : t[k] = b[k] \/ t[k] = d[k]
  <2>1. \A k \in InPlace!Blocks : c[k].dur \in {b[k], d[k]}
    BY <1>2, <1>5 DEF Flight
  <2>2. \A k \in InPlace!Blocks : t[k] = c[k].dur
    BY <1>8
  <2> QED  BY <2>1, <2>2
<1>10. Vol(c) = d
  <2>1. Vol(c) = [k \in InPlace!Blocks |-> c[k].vol] /\ d = [k \in InPlace!Blocks |-> d[k]]
    BY <1>1 DEF Vol
  <2>2. \A k \in InPlace!Blocks : c[k].vol = d[k]
    BY <1>2, <1>5 DEF Flight
  <2> QED  BY <2>1, <2>2
<1>11. \/ t = d /\ InPlace!RolledBack(t) = News(d)
       \/ t # d /\ InPlace!RolledBack(t) = News(b)
  BY <1>3, <1>6, <1>7, <1>9, RolledBackBetween
<1>12. CASE t = d
  <2>1. InPlace!Survivor(t) = x
    BY <1>5, <1>11, <1>12, SpelledOut
  <2> QED  BY <1>8, <1>10, <1>12, <2>1
<1>13. CASE t # d
  <2>1. InPlace!Survivor(t) = a
    BY <1>3, <1>11, <1>13, SpelledOut
  <2> QED  BY <1>8, <1>10, <1>13, <2>1
<1> QED  BY <1>12, <1>13

-----------------------------------------------------------------------------
\* The entries of every scheme.
OneIs(s) == IF s = "cow" THEN 1 ELSE 0

CellOk(s, c, a, x, p, done) ==
  /\ s = "log" => LogCellOk(c, a, x, p)
  /\ s \in Cow!Schemes => CowCellOk(c, a, x, p, OneIs(s))
  /\ s \in InPlace!Schemes => VersionCellOk(c, a, x, p, done, s)

\* Where DoUpdate stands with an entry.
Stage(i) == IF pc # "idle" /\ i = Target THEN pc ELSE "idle"

CellInv ==
  /\ DOMAIN cells = Ids
  /\ cells = [i \in Ids |-> cells[i]]
  /\ \A i \in Ids : CellOk(scheme, cells[i], acked[i], Operation(u), Stage(i), i \in updated)

(* The schemes are different ones.                                         *)
LEMMA SchemesApart ==
  ASSUME BenchInv
  PROVE  /\ scheme = "log" \/ scheme \in Cow!Schemes \/ scheme \in InPlace!Schemes
         /\ scheme \in Cow!Schemes => scheme # "log" /\ scheme \notin InPlace!Schemes
         /\ scheme \in InPlace!Schemes => scheme # "log" /\ scheme \notin Cow!Schemes
         /\ OneIs(scheme) \in {0, 1} /\ OneIs(scheme) = Cow!AIs
<1>1. scheme \in Schemes
  BY InplaceBenchAssumption DEF BenchInv
<1>2. OneIs(scheme) \in {0, 1} /\ OneIs(scheme) = Cow!AIs
  BY DEF OneIs, Cow!AIs
<1> QED  BY <1>1, <1>2 DEF Schemes, Cow!Schemes, InPlace!Schemes

(* An entry nothing is done with does not depend on the next update.       *)
LEMMA IdleCell ==
  ASSUME NEW s, NEW c, NEW a, NEW x, NEW done, CellOk(s, c, a, x, "idle", done), NEW y
  PROVE  CellOk(s, c, a, y, "idle", done) /\ CellOk(s, c, a, y, "begun", done)
<1>1. s = "log" => LogCellOk(c, a, y, "idle") /\ LogCellOk(c, a, y, "begun")
  BY DEF CellOk, LogCellOk
<1>2. s \in Cow!Schemes => CowCellOk(c, a, y, "idle", OneIs(s)) /\ CowCellOk(c, a, y, "begun", OneIs(s))
  BY DEF CellOk, CowCellOk
<1>3. s \in InPlace!Schemes => VersionCellOk(c, a, y, "idle", done, s) /\ VersionCellOk(c, a, y, "begun", done, s)
  BY DEF CellOk, VersionCellOk
<1> QED  BY <1>1, <1>2, <1>3 DEF CellOk

(* A word or a block of an entry may reach NVM early.                      *)
LEMMA CellDrifts ==
  ASSUME BenchInv, NEW c, NEW a, NEW x, NEW p, NEW done, CellOk(scheme, c, a, x, p, done),
         NEW d \in Log!EarlyWords(c)
  PROVE  CellOk(scheme, d, a, x, p, done)
<1>1. scheme = "log" => LogCellOk(d, a, x, p)
  BY LogCellDrifts DEF CellOk
<1>2. scheme \in Cow!Schemes => CowCellOk(d, a, x, p, OneIs(scheme))
  <2>1. OneIs(scheme) \in {0, 1}
    BY SchemesApart
  <2> QED  BY <2>1, CowCellDrifts DEF CellOk
<1>3. scheme \in InPlace!Schemes => VersionCellOk(d, a, x, p, done, scheme)
  BY VersionCellDrifts DEF CellOk
<1> QED  BY <1>1, <1>2, <1>3 DEF CellOk

(* The last fence of a DoUpdate.                                           *)
LEMMA CellFenced ==
  ASSUME BenchInv, NEW c, NEW a, NEW x \in Payloads, NEW y, NEW done, CellOk(scheme, c, a, x, "fence", done)
  PROVE  CellOk(scheme, Log!FenceWords(c), x, y, "idle", TRUE)
<1>1. scheme = "log" => LogCellOk(Log!FenceWords(c), x, y, "idle")
  BY LogCellFenced DEF CellOk
<1>2. scheme \in Cow!Schemes => CowCellOk(Log!FenceWords(c), x, y, "idle", OneIs(scheme))
  <2>1. OneIs(scheme) \in {0, 1}
    BY SchemesApart
  <2> QED  BY <2>1, CowCellFenced DEF CellOk
<1>3. scheme \in InPlace!Schemes => VersionCellOk(Log!FenceWords(c), x, y, "idle", TRUE, scheme)
  BY VersionCellFenced DEF CellOk
<1> QED  BY <1>1, <1>2, <1>3 DEF CellOk

(* ReadSingleResult of an entry at rest.                                   *)
LEMMA ReadOps ==
  ASSUME BenchInv, CellInv, pc = "idle", NEW i \in Ids
  PROVE  Read(i) = acked[i]
<1>1. CellOk(scheme, cells[i], acked[i], Operation(u), "idle", i \in updated)
  BY DEF CellInv, Stage
<1>20. PICK a \in Payloads : a = acked[i]
  <2>1. acked \in [Ids -> Payloads]
    BY DEF BenchInv
  <2> QED  BY <2>1
<1>2. PICK c, x : c = cells[i] /\ a = acked[i] /\ x = Operation(u)
  BY <1>20
<1>3. a = [w \in Words |-> a[w]]
  BY DEF Payloads
<1>4. CASE scheme = "log"
  <2>1. LogCellOk(c, a, x, "idle")
    BY <1>1, <1>2, <1>4 DEF CellOk
  <2>2. c \in [Words -> MemLine(Nat)] /\ \A w \in Words : c[w].vol = a[w]
    BY <2>1 DEF LogCellOk
  <2>3. Vol(c) = [w \in Words |-> c[w].vol]
    BY <2>2 DEF Vol
  <2>4. Vol(c) = a
    BY <1>3, <2>2, <2>3
  <2>5. Log!Volatile(c) = Vol(c)
    BY SameMemory
  <2>6. Read(i) = Log!Volatile(cells[i])
    BY <1>4, SchemesApart DEF Read
  <2> QED  BY <1>2, <2>4, <2>5, <2>6
<1>5. CASE scheme \in Cow!Schemes
  <2>1. CowCellOk(c, a, x, "idle", OneIs(scheme)) /\ scheme # "log"
    BY <1>1, <1>2, <1>5, SchemesApart DEF CellOk
  <2>2. c \in [Cow!Units -> MemLine(Nat)] /\ c[Cow!id].vol \in {0, 1} /\ Cow!id \in Cow!Units
    BY <2>1, UnitOps DEF CowCellOk
  <2>3. PICK act \in {"a", "b"} : act = ActiveIf(OneIs(scheme), c[Cow!id].vol)
    BY DEF ActiveIf
  <2>4. \A w \in Words : c[<<act, w>>].vol = a[w]
    BY <2>1, <2>3 DEF CowCellOk
  <2>5. Vol(c)[Cow!id] = c[Cow!id].vol /\ \A w \in Words : Vol(c)[<<act, w>>] = c[<<act, w>>].vol
    BY <2>2, <2>3, UnitOps DEF Vol
  <2>6. Cow!Active(Vol(c)) = act
    <3>1. Cow!Active(Vol(c)) = ActiveIf(Cow!AIs, Vol(c)[Cow!id])
      BY CowByte
    <3> QED  BY <2>3, <2>5, <3>1, SchemesApart
  <2>7. Cow!Read(Vol(c)) = [w \in Words |-> Vol(c)[<<act, w>>]]
    BY <2>6 DEF Cow!Read
  <2>8. Cow!Read(Vol(c)) = a
    BY <1>3, <2>4, <2>5, <2>7
  <2>9. Log!Volatile(c) = Vol(c)
    BY SameMemory
  <2> QED  BY <1>2, <1>5, <2>1, <2>8, <2>9 DEF Read
<1>6. CASE scheme \in InPlace!Schemes
  <2>1. VersionCellOk(c, a, x, "idle", i \in updated, scheme) /\ scheme # "log" /\ scheme \notin Cow!Schemes
    BY <1>1, <1>2, <1>6, SchemesApart DEF CellOk
  <2>2. \A w \in Words : Spelled(scheme, News(Vol(c)), w) = a[w]
    BY <2>1 DEF VersionCellOk, Spells
  <2>3. InPlace!Read(Vol(c)) = [w \in Words |-> Spelled(scheme, News(Vol(c)), w)]
    BY Sizes DEF InPlace!Read, InPlace!ReadSliding, InPlace!ReadHigh, Spelled, News
  <2>4. InPlace!Read(Vol(c)) = a
    BY <1>3, <2>2, <2>3
  <2>5. Log!Volatile(c) = Vol(c)
    BY SameMemory
  <2> QED  BY <1>2, <1>6, <2>1, <2>4, <2>5 DEF Read
<1> QED  BY <1>4, <1>5, <1>6, SchemesApart

(* The entries as they are constructed.                                    *)
LEMMA InitCellInv ==
  ASSUME Init
  PROVE  CellInv
<1>0. BenchInv
  BY InitBench
<1>1. pc = "idle" /\ updated = {} /\ acked = [i \in Ids |-> [w \in Words |-> Filler]]
  BY DEF Init, ValidationInit
<1>2. Filler \in Nat
  <2>1. Power2[Width] \in Nat \ {0}
    BY Sizes, PowerUnfolds
  <2> QED  BY <2>1, InplaceBenchAssumption DEF WordValues, Power2
<1>3. PICK a : a = [w \in Words |-> Filler]
  OBVIOUS
<1>4. \A w \in Words : a[w] = Filler
  BY <1>3
<1>5. DOMAIN cells = Ids /\ cells = [i \in Ids |-> cells[i]]
      /\ \A i \in Ids : /\ scheme = "log" => cells[i] = Log!InitialCell(Filler)
                        /\ scheme \in Cow!Schemes => cells[i] = Cow!InitialCell(Filler)
                        /\ scheme \in InPlace!Schemes => cells[i] \in InPlace!InitialCells(Filler)
  <2>1. InitCells
    BY DEF Init
  <2>2. CASE scheme = "log"
    <3>1. cells = [i \in Ids |-> Log!InitialCell(Filler)]
      BY <1>0, <2>1, <2>2, SchemesApart DEF InitCells
    <3> QED  BY <1>0, <2>2, <3>1, SchemesApart
  <2>3. CASE scheme \in Cow!Schemes
    <3>1. cells = [i \in Ids |-> Cow!InitialCell(Filler)]
      BY <1>0, <2>1, <2>3, SchemesApart DEF InitCells
    <3> QED  BY <1>0, <2>3, <3>1, SchemesApart
  <2>4. CASE scheme \in InPlace!Schemes
    <3>1. cells \in [Ids -> InPlace!InitialCells(Filler)]
      BY <1>0, <2>1, <2>4, SchemesApart DEF InitCells
    <3> QED  BY <1>0, <2>4, <3>1, SchemesApart
  <2> QED  BY <1>0, <2>2, <2>3, <2>4, SchemesApart
<1>6. ASSUME NEW i \in Ids, NEW x
      PROVE  CellOk(scheme, cells[i], a, x, "idle", FALSE)
  <2>1. PICK c : c = cells[i]
    OBVIOUS
  <2>2. ASSUME scheme = "log"
        PROVE  LogCellOk(c, a, x, "idle")
    <3>1. c = [w \in Words |-> [vol |-> Filler, fen |-> Filler, dur |-> Filler]]
      BY <1>5, <2>1, <2>2 DEF Log!InitialCell, Log!Durably, Log!Line, Log!Words, Words
    <3> QED  BY <1>2, <1>4, <3>1 DEF LogCellOk, MemLine, Settled
  <2>3. ASSUME scheme \in Cow!Schemes
        PROVE  CowCellOk(c, a, x, "idle", OneIs(scheme))
    <3>1. PICK fill : fill = [y \in Cow!Units |-> IF y = Cow!id THEN 1 ELSE Filler]
      OBVIOUS
    <3>2. c = [y \in Cow!Units |-> [vol |-> fill[y], fen |-> fill[y], dur |-> fill[y]]]
      BY <1>5, <2>1, <2>3, <3>1 DEF Cow!InitialCell, Cow!Durably, Cow!Line
    <3>3. \A y \in Cow!Units : fill[y] \in Nat /\ (y # Cow!id => fill[y] = Filler)
      BY <1>2, <3>1
    <3>4. \A y \in Cow!Units : /\ c[y] \in MemLine(Nat) /\ Settled(c[y]) /\ c[y].vol = fill[y]
      BY <3>2, <3>3 DEF MemLine, Settled
    <3>5. c \in [Cow!Units -> MemLine(Nat)]
      BY <3>2, <3>4
    <3>6. c[Cow!id].vol = 1 /\ Cow!id \in Cow!Units
      BY <3>1, <3>4, UnitOps
    <3>7. \A v \in {"a", "b"} : \A w \in Words : c[<<v, w>>].vol = a[w] /\ Settled(c[<<v, w>>])
      BY <1>4, <3>3, <3>4, UnitOps
    <3>8. PICK act \in {"a", "b"}, oth \in {"a", "b"} :
            act = ActiveIf(OneIs(scheme), c[Cow!id].vol) /\ oth = Cow!Other(act)
      <4>1. OneIs(scheme) \in {0, 1} /\ c[Cow!id].vol \in {0, 1}
        BY <1>0, <3>6, SchemesApart
      <4> QED  BY <4>1, ActiveOps
    <3>9. Settled(c[Cow!id])
      BY <3>4, <3>6
    <3> QED  BY <3>5, <3>6, <3>7, <3>8, <3>9 DEF CowCellOk
  <2>4. ASSUME scheme \in InPlace!Schemes
        PROVE  VersionCellOk(c, a, x, "idle", FALSE, scheme)
    BY <1>2, <1>3, <1>5, <2>1, <2>4, VersionCellInit
  <2> QED  BY <2>1, <2>2, <2>3, <2>4 DEF CellOk
<1>7. \A i \in Ids : Stage(i) = "idle" /\ acked[i] = a /\ (i \in updated) = FALSE
  BY <1>1, <1>3 DEF Stage
<1>8. \A i \in Ids : CellOk(scheme, cells[i], acked[i], Operation(u), Stage(i), i \in updated)
  BY <1>6, <1>7
<1> QED  BY <1>5, <1>8 DEF CellInv

Inv == BenchInv /\ CellInv

(* A step of DoUpdate on its entry.                                        *)
LEMMA CellStep ==
  ASSUME Inv, UNCHANGED bench_vars, u < ENTRY_COUNT, NEW d, cells' = [cells EXCEPT ![Target] = d],
         pc' # "idle", CellOk(scheme, d, acked[Target], Operation(u), pc', Target \in updated)
  PROVE  CellInv'
<1>1. /\ operations' = operations /\ pass' = pass /\ u' = u /\ acked' = acked /\ updated' = updated
      /\ scheme' = scheme
  BY DEF bench_vars
<1>2. Target \in Ids /\ u \in Ids
  BY TargetOps DEF Inv
<1>3. PICK e \in Ids : e = Target
  BY <1>2
<1>4. Target' = e
  BY <1>1, <1>3 DEF Target, TargetIn
<1>5. Operation(u)' = Operation(u)
  BY <1>1 DEF Operation
<1>6. DOMAIN cells' = Ids /\ cells' = [i \in Ids |-> cells'[i]]
      /\ \A i \in Ids : cells'[i] = IF i = e THEN d ELSE cells[i]
  BY <1>3 DEF Inv, CellInv
<1>7. ASSUME NEW i \in Ids
      PROVE  CellOk(scheme, cells'[i], acked[i], Operation(u), Stage(i)', i \in updated)
  <2>1. CASE i = e
    <3>1. Stage(i)' = pc'
      BY <1>4, <2>1 DEF Stage
    <3> QED  BY <1>3, <1>6, <2>1, <3>1
  <2>2. CASE i # e
    <3>1. Stage(i)' = "idle" /\ Stage(i) = "idle"
      BY <1>3, <1>4, <2>2 DEF Stage
    <3> QED  BY <1>6, <2>2, <3>1 DEF Inv, CellInv
  <2> QED  BY <2>1, <2>2
<1> QED  BY <1>1, <1>5, <1>6, <1>7 DEF CellInv

(* A step of the loops between two calls of DoUpdate.                      *)
LEMMA IdleStep ==
  ASSUME Inv, pc = "idle", pc' = "idle", cells' = cells, acked' = acked, updated' = updated, scheme' = scheme
  PROVE  CellInv'
<1>1. \A i \in Ids : Stage(i) = "idle" /\ Stage(i)' = "idle"
  BY DEF Stage
<1>2. ASSUME NEW i \in Ids
      PROVE  CellOk(scheme, cells[i], acked[i], Operation(u)', "idle", i \in updated)
  <2>1. CellOk(scheme, cells[i], acked[i], Operation(u), "idle", i \in updated)
    BY <1>1 DEF Inv, CellInv
  <2> QED  BY <2>1, IdleCell
<1> QED  BY <1>1, <1>2 DEF Inv, CellInv

(* DoUpdate returns.                                                       *)
LEMMA EndStep ==
  ASSUME Inv, EndUpdate
  PROVE  CellInv'
<1>1. pc = "fence" /\ u < ENTRY_COUNT
  BY DEF Inv, BenchInv, EndUpdate
<1>2. Target \in Ids /\ u \in Ids
  BY <1>1, TargetOps DEF Inv
<1>3. PICK e \in Ids, x \in Payloads : e = Target /\ x = Operation(u)
  BY <1>2, OperationOps DEF Inv
<1>4. /\ cells' = [cells EXCEPT ![e] = Log!FenceWords(cells[e])] /\ pc' = "idle"
      /\ acked' = [acked EXCEPT ![e] = x] /\ updated' = updated \union {e} /\ scheme' = scheme
  BY <1>3 DEF EndUpdate, ValidationUpdate
<1>5. acked \in [Ids -> Payloads]
  BY DEF Inv, BenchInv
<1>6. DOMAIN cells' = Ids /\ cells' = [i \in Ids |-> cells'[i]]
      /\ \A i \in Ids : cells'[i] = IF i = e THEN Log!FenceWords(cells[e]) ELSE cells[i]
  BY <1>4 DEF Inv, CellInv
<1>7. ASSUME NEW i \in Ids
      PROVE  CellOk(scheme, cells'[i], acked'[i], Operation(u)', "idle", i \in updated')
  <2>1. CASE i = e
    <3>1. CellOk(scheme, cells[e], acked[e], x, "fence", e \in updated)
      BY <1>1, <1>3 DEF Inv, CellInv, Stage
    <3>2. CellOk(scheme, Log!FenceWords(cells[e]), x, Operation(u)', "idle", TRUE)
      BY <3>1, CellFenced DEF Inv
    <3>3. acked'[i] = x /\ (i \in updated') = TRUE
      BY <1>4, <1>5, <2>1
    <3> QED  BY <1>6, <2>1, <3>2, <3>3
  <2>2. CASE i # e
    <3>1. CellOk(scheme, cells[i], acked[i], Operation(u), "idle", i \in updated)
      BY <1>3, <2>2 DEF Inv, CellInv, Stage
    <3>2. CellOk(scheme, cells[i], acked[i], Operation(u)', "idle", i \in updated)
      BY <3>1, IdleCell
    <3>3. acked'[i] = acked[i] /\ (i \in updated') = (i \in updated) /\ cells'[i] = cells[i]
      BY <1>4, <1>5, <1>6, <2>2
    <3> QED  BY <3>2, <3>3
  <2> QED  BY <2>1, <2>2
<1>8. \A i \in Ids : Stage(i)' = "idle"
  BY <1>4 DEF Stage
<1> QED  BY <1>4, <1>6, <1>7, <1>8 DEF CellInv

(* The invariant holds at first.                                           *)
LEMMA InvInit ==
  ASSUME Init
  PROVE  Inv
BY InitBench, InitCellInv DEF Inv

(* Every step keeps the invariant.                                         *)
LEMMA InvNext ==
  ASSUME Inv, [Next]_vars
  PROVE  Inv'
<1>1. /\ BenchInv /\ CellInv
      /\ pc # "idle" => pass \in {"updates", "dependent_updates"} /\ u < ENTRY_COUNT
      /\ pc \in {"idle", "begun", "log", "data", "fence"}
  BY DEF Inv, BenchInv
<1>2. \A i \in Ids : i = Target /\ pc # "idle" =>
         CellOk(scheme, cells[i], acked[i], Operation(u), pc, i \in updated)
  BY <1>1 DEF CellInv, Stage
<1>3. u < ENTRY_COUNT => /\ u \in Ids /\ Target \in Ids /\ Operation(u) \in Payloads
                         /\ [cells EXCEPT ![Target] = cells[Target]] = cells
                         /\ acked[Target] \in Payloads
  <2>1. u < ENTRY_COUNT => u \in Ids /\ Target \in Ids
    BY <1>1, TargetOps
  <2>2. u \in Ids => Operation(u) \in Payloads
    BY <1>1, OperationOps
  <2>3. \A i \in Ids : [cells EXCEPT ![i] = cells[i]] = cells
    BY <1>1 DEF CellInv
  <2>4. acked \in [Ids -> Payloads]
    BY <1>1 DEF BenchInv
  <2> QED  BY <2>1, <2>2, <2>3, <2>4
<1>4. CASE BeginUpdate
  <2>1. /\ pc = "idle" /\ pc' = "begun" /\ UNCHANGED bench_vars /\ cells' = cells /\ u < ENTRY_COUNT
        /\ pass \in {"updates", "dependent_updates"}
    BY <1>4 DEF BeginUpdate
  <2>2. BenchInv'
    BY <1>1, <2>1, SameBench
  <2>3. CellOk(scheme, cells[Target], acked[Target], Operation(u), "begun", Target \in updated)
    <3>1. CellOk(scheme, cells[Target], acked[Target], Operation(u), "idle", Target \in updated)
      BY <1>1, <1>3, <2>1 DEF CellInv, Stage
    <3> QED  BY <3>1, IdleCell
  <2>4. cells' = [cells EXCEPT ![Target] = cells[Target]]
    BY <1>3, <2>1
  <2>5. CellInv'
    BY <2>1, <2>3, <2>4, CellStep
  <2> QED  BY <2>2, <2>5 DEF Inv
<1>5. CASE CowStep
  <2>1. /\ scheme \in Cow!Schemes /\ UNCHANGED bench_vars
        /\ Cow!WriteData(Target, Operation(u)) \/ Cow!FenceAndTurn(Target)
    BY <1>5 DEF CowStep
  <2>2. pc # "idle" /\ pc' \in {"data", "fence"}
    BY <2>1 DEF Cow!WriteData, Cow!FenceAndTurn
  <2>3. BenchInv'
    BY <1>1, <2>1, <2>2, SameBench
  <2>4. PICK e \in Ids, a, x \in Payloads : e = Target /\ a = acked[e] /\ x = Operation(u)
    <3>1. u < ENTRY_COUNT
      BY <1>1, <2>2
    <3> QED  BY <1>3, <3>1
  <2>5. CowCellOk(cells[e], a, x, pc, Cow!AIs) /\ scheme # "log" /\ scheme \notin InPlace!Schemes
        /\ OneIs(scheme) = Cow!AIs
    BY <1>1, <1>2, <2>1, <2>2, <2>4, SchemesApart DEF CellOk
  <2>6. CASE Cow!WriteData(Target, Operation(u))
    <3>1. pc = "begun" /\ pc' = "data" /\ cells' = [cells EXCEPT ![e] = Cow!WriteVersion(cells[e], x)]
      BY <2>4, <2>6 DEF Cow!WriteData
    <3>2. CowCellOk(Cow!WriteVersion(cells[e], x), a, x, "data", Cow!AIs)
      BY <2>1, <2>5, <3>1, CowCellWritten
    <3>3. CellOk(scheme, Cow!WriteVersion(cells[e], x), a, x, "data", e \in updated)
      BY <2>5, <3>2 DEF CellOk
    <3>4. CellInv'
      BY <1>1, <2>1, <2>2, <2>4, <3>1, <3>3, CellStep
    <3> QED  BY <2>3, <3>4 DEF Inv
  <2>7. CASE Cow!FenceAndTurn(Target)
    <3>1. pc = "data" /\ pc' = "fence" /\ cells' = [cells EXCEPT ![e] = Cow!TurnId(Cow!FenceWords(cells[e]))]
      BY <2>4, <2>7 DEF Cow!FenceAndTurn
    <3>2. CowCellOk(Cow!TurnId(Cow!FenceWords(cells[e])), a, x, "fence", Cow!AIs)
      BY <2>1, <2>5, <3>1, CowCellTurned
    <3>3. CellOk(scheme, Cow!TurnId(Cow!FenceWords(cells[e])), a, x, "fence", e \in updated)
      BY <2>5, <3>2 DEF CellOk
    <3>4. CellInv'
      BY <1>1, <2>1, <2>2, <2>4, <3>1, <3>3, CellStep
    <3> QED  BY <2>3, <3>4 DEF Inv
  <2> QED  BY <2>1, <2>6, <2>7
<1>6. CASE InPlaceStep
  <2>1. /\ scheme \in InPlace!Schemes /\ UNCHANGED bench_vars /\ pc = "begun" /\ pc' = "fence"
        /\ InPlace!WriteBlocks(Target, Operation(u))
    BY <1>6 DEF InPlaceStep, InPlace!WriteBlocks
  <2>2. BenchInv'
    BY <1>1, <2>1, SameBench
  <2>3. PICK e \in Ids, a, x \in Payloads : e = Target /\ a = acked[e] /\ x = Operation(u)
    <3>1. u < ENTRY_COUNT
      BY <1>1, <2>1
    <3> QED  BY <1>3, <3>1
  <2>4. PICK d : d = InPlace!FastCopyAndWriteBack(cells[e], InPlace!Write(InPlace!Volatile(cells[e]), x))
    OBVIOUS
  <2>5. cells' = [cells EXCEPT ![e] = d]
    BY <2>1, <2>3, <2>4 DEF InPlace!WriteBlocks
  <2>6. VersionCellOk(cells[e], a, x, "begun", e \in updated, scheme) /\ scheme # "log" /\ scheme \notin Cow!Schemes
    BY <1>1, <1>2, <2>1, <2>3, SchemesApart DEF CellOk
  <2>7. VersionCellOk(d, a, x, "fence", e \in updated, scheme)
    BY <2>1, <2>4, <2>6, VersionCellWritten
  <2>8. CellOk(scheme, d, a, x, "fence", e \in updated)
    BY <2>6, <2>7 DEF CellOk
  <2>9. CellInv'
    BY <1>1, <2>1, <2>3, <2>5, <2>8, CellStep
  <2> QED  BY <2>2, <2>9 DEF Inv
<1>7. CASE LogStep
  <2>1. /\ scheme = "log" /\ UNCHANGED bench_vars
        /\ Log!AddLogEntry(Operation(u)) \/ Log!StreamLine \/ Log!CopyEntry(Target, Operation(u))
    BY <1>7 DEF LogStep
  <2>2. pc \in {"begun", "log"} /\ pc' \in {"log", "fence"}
    BY <2>1 DEF Log!AddLogEntry, Log!StreamLine, Log!CopyEntry
  <2>3. BenchInv'
    BY <1>1, <2>1, <2>2, SameBench
  <2>4. PICK e \in Ids, a, x \in Payloads : e = Target /\ a = acked[e] /\ x = Operation(u)
    <3>1. u < ENTRY_COUNT
      BY <1>1, <2>2
    <3> QED  BY <1>3, <3>1
  <2>5. LogCellOk(cells[e], a, x, pc) /\ scheme \notin Cow!Schemes /\ scheme \notin InPlace!Schemes
    BY <1>1, <1>2, <2>1, <2>2, <2>4, SchemesApart DEF CellOk
  <2>6. CASE Log!AddLogEntry(Operation(u)) \/ Log!StreamLine
    <3>1. pc' = "log" /\ cells' = cells
      BY <2>6 DEF Log!AddLogEntry, Log!StreamLine
    <3>2. LogCellOk(cells[e], a, x, "log")
      BY <2>2, <2>5 DEF LogCellOk
    <3>3. CellOk(scheme, cells[e], a, x, "log", e \in updated)
      BY <2>5, <3>2 DEF CellOk
    <3>4. cells' = [cells EXCEPT ![e] = cells[e]]
      BY <1>1, <1>3, <2>2, <2>4, <3>1
    <3>5. CellInv'
      BY <1>1, <2>1, <2>2, <2>4, <3>1, <3>3, <3>4, CellStep
    <3> QED  BY <2>3, <3>5 DEF Inv
  <2>7. CASE Log!CopyEntry(Target, Operation(u))
    <3>1. pc = "log" /\ pc' = "fence" /\ cells' = [cells EXCEPT ![e] = Log!FastCopyAndWriteBack(cells[e], x)]
      BY <2>4, <2>7 DEF Log!CopyEntry
    <3>2. LogCellOk(Log!FastCopyAndWriteBack(cells[e], x), a, x, "fence")
      BY <2>5, <3>1, LogCellCopied
    <3>3. CellOk(scheme, Log!FastCopyAndWriteBack(cells[e], x), a, x, "fence", e \in updated)
      BY <2>5, <3>2 DEF CellOk
    <3>4. CellInv'
      BY <1>1, <2>1, <2>2, <2>4, <3>1, <3>3, CellStep
    <3> QED  BY <2>3, <3>4 DEF Inv
  <2> QED  BY <2>1, <2>6, <2>7
<1>8. CASE EndUpdate
  BY <1>1, <1>8, EndBench, EndStep DEF Inv
<1>9. CASE ReadOne
  <2>1. BenchInv'
    BY <1>1, <1>9, ReadOneBench
  <2>2. pass = "reads" /\ pc' = pc /\ cells' = cells /\ acked' = acked /\ updated' = updated /\ scheme' = scheme
    BY <1>9 DEF ReadOne, cell_vars
  <2>3. pc = "idle"
    BY <1>1, <2>2
  <2>4. CellInv'
    BY <2>2, <2>3, IdleStep
  <2> QED  BY <2>1, <2>4 DEF Inv
<1>10. CASE ReadNext
  <2>1. pass = "dependent_reads" /\ pc' = pc /\ cells' = cells /\ acked' = acked /\ updated' = updated
        /\ scheme' = scheme
    BY <1>10 DEF ReadNext, cell_vars
  <2>2. pc = "idle" /\ next_id \in Ids
    BY <1>1, <2>1 DEF BenchInv
  <2>3. Read(next_id) = acked[next_id]
    BY <1>1, <2>2, ReadOps
  <2>4. BenchInv'
    BY <1>1, <1>10, <2>3, ReadNextBench
  <2>5. CellInv'
    BY <2>1, <2>2, IdleStep
  <2> QED  BY <2>4, <2>5 DEF Inv
<1>11. CASE NextPass
  <2>1. BenchInv'
    BY <1>1, <1>11, NextPassBench
  <2>2. u = ENTRY_COUNT /\ pc' = pc /\ cells' = cells /\ acked' = acked /\ updated' = updated /\ scheme' = scheme
    BY <1>11 DEF NextPass, cell_vars
  <2>3. pc = "idle"
    BY <1>1, <2>2, Sizes
  <2>4. CellInv'
    BY <2>2, <2>3, IdleStep
  <2> QED  BY <2>1, <2>4 DEF Inv
<1>12. ASSUME UNCHANGED <<bench_vars, cells, pc>>
       PROVE  Inv'
  <2>1. /\ UNCHANGED bench_vars /\ cells' = cells /\ pc' = pc
        /\ acked' = acked /\ updated' = updated /\ scheme' = scheme
    BY <1>12 DEF bench_vars
  <2>2. BenchInv'
    BY <1>1, <2>1, SameBench
  <2>3. CASE pc = "idle"
    <3>1. CellInv'
      BY <2>1, <2>3, IdleStep
    <3> QED  BY <2>2, <3>1 DEF Inv
  <2>4. CASE pc # "idle"
    <3>1. cells' = [cells EXCEPT ![Target] = cells[Target]]
      BY <1>1, <1>3, <2>1, <2>4
    <3>2. CellOk(scheme, cells[Target], acked[Target], Operation(u), pc', Target \in updated)
      BY <1>1, <1>2, <1>3, <2>1, <2>4
    <3>3. CellInv'
      BY <1>1, <2>1, <2>4, <3>1, <3>2, CellStep
    <3> QED  BY <2>2, <3>3 DEF Inv
  <2> QED  BY <2>3, <2>4
<1>13. CASE Drift
  <2>1. UNCHANGED <<bench_vars, pc>>
    BY <1>13 DEF Drift
  <2>2. CASE cells' = cells
    BY <1>12, <2>1, <2>2
  <2>3. CASE pc # "idle" /\ \E c \in Log!EarlyWords(cells[Target]) : cells' = [cells EXCEPT ![Target] = c]
    <3>1. PICK d \in Log!EarlyWords(cells[Target]) : cells' = [cells EXCEPT ![Target] = d]
      BY <2>3
    <3>2. CellOk(scheme, cells[Target], acked[Target], Operation(u), pc, Target \in updated)
      BY <1>1, <1>2, <1>3, <2>3
    <3>3. CellOk(scheme, d, acked[Target], Operation(u), pc, Target \in updated)
      BY <1>1, <3>1, <3>2, CellDrifts
    <3>4. pc' = pc /\ UNCHANGED bench_vars
      BY <2>1
    <3>5. BenchInv'
      BY <1>1, <3>4, SameBench
    <3>6. CellInv'
      BY <1>1, <2>3, <3>1, <3>3, <3>4, CellStep
    <3> QED  BY <3>5, <3>6 DEF Inv
  <2> QED  BY <1>13, <2>2, <2>3 DEF Drift
<1>14. CASE UNCHANGED vars
  BY <1>12, <1>14 DEF vars, bench_vars, cell_vars
<1> QED  BY <1>4, <1>5, <1>6, <1>7, <1>8, <1>9, <1>10, <1>11, <1>13, <1>14 DEF Next

-----------------------------------------------------------------------------
(* The invariant always holds.                                             *)
THEOREM Invariance == Spec => []Inv
<1>1. Init => Inv
  BY InvInit
<1>2. Inv /\ [Next]_vars => Inv'
  BY InvNext
<1> QED  BY <1>1, <1>2, PTL DEF Spec

(* The variables of RunExperiment keep their types: the counters stay in   *)
(* their ranges, every entry read names an entry.                          *)
THEOREM TypesAreKept == Spec => []TypeOK
<1>1. Inv => TypeOK
  <2>1. SUFFICES ASSUME Inv PROVE TypeOK
    OBVIOUS
  <2>2. iteration \in 0 .. ITERATION_COUNT
    <3>1. iteration \in 0 .. ITERATION_COUNT - 1
      BY <2>1 DEF Inv, BenchInv
    <3> QED  BY <3>1, Sizes
  <2> QED  BY <2>1, <2>2 DEF Inv, BenchInv, CellInv, TypeOK
<1> QED  BY <1>1, Invariance, PTL

(* ReadSingleResult of every scheme gives back the whole of what DoUpdate  *)
(* last wrote to the entry: no bit is lost to the versions, whatever the   *)
(* number and the width of the words, and the copy read is the one written *)
(* last.                                                                   *)
THEOREM ReadsAreExact == Spec => []ReadsReturnTheLastUpdate
<1>1. Inv => ReadsReturnTheLastUpdate
  BY ReadOps DEF Inv, ReadsReturnTheLastUpdate
<1> QED  BY <1>1, Invariance, PTL

(* A pass of reads reads every entry; the dependent reads do so because    *)
(* the entries read back what was written and the operations, in whatever  *)
(* order they were shuffled, are a single cycle.                           *)
THEOREM ReadsAreComplete == Spec => []ReadsVisitEveryEntry
<1>1. Inv => ReadsVisitEveryEntry
  BY AllVisited DEF Inv, ReadsVisitEveryEntry
<1> QED  BY <1>1, Invariance, PTL

-----------------------------------------------------------------------------
\* The calls of DoUpdate, counted from the start.

\* The passes of updates that are over.
Rounds ==
  IF pass = "updates" THEN iteration
  ELSE IF pass = "reads" THEN ITERATION_COUNT
  ELSE IF pass = "dependent_updates" THEN ITERATION_COUNT + iteration
  ELSE IF pass = "dependent_reads" THEN ITERATION_COUNT + iteration + 1
  ELSE 2 * ITERATION_COUNT

Updates == pass \in {"updates", "dependent_updates"}

\* The calls that have returned.
Calls == Rounds * ENTRY_COUNT + (IF Updates THEN u ELSE 0)

\* The entries are as their last updates have left them.
AckedInv ==
  \A i \in Ids : \A n \in 0 .. Calls - 1 :
    /\ TargetOf(n) = i
    /\ \A k \in n + 1 .. Calls - 1 : TargetOf(k) # i
    => acked[i] = Operation(n % ENTRY_COUNT)

(* A grid of step d.                                                       *)
LEMMA GridOrder ==
  ASSUME NEW d \in Nat, NEW p \in Nat, NEW q \in Nat, p < q
  PROVE  p * d \in Nat /\ q * d \in Nat /\ p * d + d <= q * d
<1>1. PICK t \in Nat : q = p + 1 + t
  <2>1. q - p - 1 \in Nat /\ q = p + 1 + (q - p - 1)
    OBVIOUS
  <2> QED  BY <2>1
<1>2. PICK m \in Nat : m = t * d
  OBVIOUS
<1>3. q * d = p * d + d + m
  BY <1>1, <1>2
<1>4. p * d \in Nat
  OBVIOUS
<1> QED  BY <1>2, <1>3, <1>4

(* The rounds are in their range.                                          *)
LEMMA RoundOps ==
  ASSUME BenchInv
  PROVE  /\ Rounds \in 0 .. 2 * ITERATION_COUNT
         /\ Updates => Rounds < 2 * ITERATION_COUNT
         /\ pass = "updates" => Rounds < ITERATION_COUNT
         /\ pass = "dependent_updates" => ITERATION_COUNT <= Rounds
<1>1. PICK I \in Nat \ {0} : I = ITERATION_COUNT
  BY Sizes
<1>2. PICK t \in 0 .. I - 1 : t = iteration
  BY <1>1 DEF BenchInv
<1>3. pass \in {"updates", "reads", "dependent_updates", "dependent_reads", "done"}
  BY DEF BenchInv
<1>4. CASE pass = "updates"
  <2>1. Rounds = t
    BY <1>2, <1>4 DEF Rounds
  <2> QED  BY <1>1, <1>2, <1>4, <2>1
<1>5. CASE pass = "reads"
  <2>1. Rounds = I /\ ~Updates
    BY <1>1, <1>5 DEF Rounds, Updates
  <2> QED  BY <1>1, <1>2, <1>5, <2>1
<1>6. CASE pass = "dependent_updates"
  <2>1. Rounds = I + t
    BY <1>1, <1>2, <1>6 DEF Rounds
  <2> QED  BY <1>1, <1>2, <1>6, <2>1
<1>7. CASE pass = "dependent_reads"
  <2>1. Rounds = I + t + 1 /\ ~Updates
    BY <1>1, <1>2, <1>7 DEF Rounds, Updates
  <2> QED  BY <1>1, <1>2, <1>7, <2>1
<1>8. CASE pass = "done"
  <2>1. Rounds = 2 * I /\ ~Updates
    BY <1>1, <1>8 DEF Rounds, Updates
  <2> QED  BY <1>1, <1>2, <1>8, <2>1
<1> QED  BY <1>3, <1>4, <1>5, <1>6, <1>7, <1>8

(* The number of calls, and which call is on its way.                      *)
LEMMA CallOps ==
  ASSUME BenchInv
  PROVE  /\ UpdateCount \in Nat /\ Calls \in Nat /\ Calls <= UpdateCount
         /\ Updates /\ u < ENTRY_COUNT =>
              Calls < UpdateCount /\ Calls % ENTRY_COUNT = u /\ TargetOf(Calls) = Target
<1>1. PICK N \in Nat \ {0}, I \in Nat \ {0} : N = ENTRY_COUNT /\ I = ITERATION_COUNT
  BY Sizes
<1>2. PICK r \in Nat : r = Rounds
  BY <1>1, RoundOps
<1>3. r <= 2 * I /\ (Updates => r < 2 * I)
  BY <1>1, <1>2, RoundOps
<1>4. PICK v : v = IF Updates THEN u ELSE 0
  OBVIOUS
<1>5. v \in Nat /\ v <= N
  BY <1>1, <1>4 DEF BenchInv
<1>6. PICK top \in Nat, mid \in Nat : top = 2 * I /\ mid = I
  OBVIOUS
<1>7. PICK all \in Nat, done \in Nat, half \in Nat : all = top * N /\ done = r * N /\ half = mid * N
  BY <1>6
<1>8. UpdateCount = all /\ Calls = done + v /\ ITERATION_COUNT * ENTRY_COUNT = half
  BY <1>1, <1>2, <1>4, <1>6, <1>7 DEF UpdateCount, Calls
<1>9. r < top => done + N <= all
  BY <1>7, GridOrder
<1>10. r <= top
  BY <1>3, <1>6
<1>11. r = top => done = all
  BY <1>7
<1>12. done <= all
  BY <1>7, <1>9, <1>10, <1>11
<1>13. Updates => done + N <= all
  BY <1>3, <1>6, <1>9
<1>14. ~Updates => v = 0
  BY <1>4
<1>15. Calls <= UpdateCount /\ UpdateCount \in Nat /\ Calls \in Nat
  BY <1>5, <1>7, <1>8, <1>12, <1>13, <1>14
<1>16. ASSUME Updates, u < ENTRY_COUNT
       PROVE  Calls < UpdateCount /\ Calls % ENTRY_COUNT = u /\ TargetOf(Calls) = Target
  <2>1. v = u /\ v \in 0 .. N - 1
    BY <1>1, <1>4, <1>5, <1>16
  <2>2. Calls < UpdateCount
    BY <1>7, <1>8, <1>13, <1>16, <2>1
  <2>3. Calls % N = v
    BY <1>7, <1>8, <2>1, OneQuotient
  <2>4. CASE pass = "updates"
    <3>1. r < mid
      BY <1>1, <1>2, <1>6, <2>4, RoundOps
    <3>2. done + N <= half
      BY <1>7, <3>1, GridOrder
    <3>3. Calls < half
      BY <1>7, <1>8, <2>1, <3>2
    <3>4. TargetOf(Calls) = TargetIn("updates", u)
      BY <1>1, <1>8, <2>1, <2>3, <3>3 DEF TargetOf
    <3> QED  BY <1>1, <2>1, <2>2, <2>3, <2>4, <3>4 DEF Target
  <2>5. CASE pass = "dependent_updates"
    <3>1. mid <= r
      BY <1>1, <1>2, <1>6, <2>5, RoundOps
    <3>2. half <= done
      <4>1. CASE mid = r
        BY <1>7, <4>1
      <4>2. CASE mid < r
        <5>1. half + N <= done
          BY <1>7, <4>2, GridOrder
        <5> QED  BY <1>7, <5>1
      <4> QED  BY <3>1, <4>1, <4>2, <1>2, <1>6
    <3>3. ~(Calls < half)
      BY <1>5, <1>7, <1>8, <3>2
    <3>4. TargetOf(Calls) = TargetIn("dependent_updates", u)
      BY <1>1, <1>8, <2>1, <2>3, <3>3 DEF TargetOf
    <3> QED  BY <1>1, <2>1, <2>2, <2>3, <2>5, <3>4 DEF Target
  <2> QED  BY <1>16, <2>4, <2>5 DEF Updates
<1> QED  BY <1>15, <1>16

(* No call has returned at first.                                          *)
LEMMA InitCalls ==
  ASSUME Init
  PROVE  Calls = 0
<1>1. Rounds = 0 /\ u = 0
  BY DEF Init, Rounds
<1>2. ENTRY_COUNT \in Nat
  BY Sizes
<1> QED  BY <1>1, <1>2 DEF Calls

(* A call more has returned when DoUpdate returns, and no other step       *)
(* changes their number.                                                   *)
LEMMA EndCalls ==
  ASSUME BenchInv, EndUpdate
  PROVE  Calls' = Calls + 1
<1>1. Updates /\ Updates' /\ Rounds' = Rounds /\ u' = u + 1
  BY DEF BenchInv, EndUpdate, Updates, Rounds
<1>2. PICK N \in Nat : N = ENTRY_COUNT
  BY Sizes
<1>3. Rounds \in Nat /\ u \in Nat
  BY RoundOps, Sizes DEF BenchInv
<1>4. PICK m \in Nat : m = Rounds * ENTRY_COUNT
  BY <1>2, <1>3
<1> QED  BY <1>1, <1>3, <1>4 DEF Calls

(* The end of a pass.                                                      *)
LEMMA PassCalls ==
  ASSUME BenchInv, NextPass
  PROVE  Calls' = Calls
<1>0. PICK N \in Nat, I \in Nat \ {0} : N = ENTRY_COUNT /\ I = ITERATION_COUNT
  BY Sizes
<1>1. PICK t \in 0 .. I - 1 : N \in Nat /\ I \in Nat \ {0} /\ N = ENTRY_COUNT /\ I = ITERATION_COUNT /\ t = iteration
  BY <1>0 DEF BenchInv
<1>2. PICK again : again = (t + 1 < I)
  OBVIOUS
<1>3. /\ u = N /\ u' = 0
      /\ pass' = CASE pass = "updates" -> IF again THEN pass ELSE "reads"
                   [] pass = "reads" -> IF again THEN pass ELSE "dependent_updates"
                   [] pass = "dependent_updates" -> "dependent_reads"
                   [] OTHER -> IF again THEN "dependent_updates" ELSE "done"
      /\ iteration' = IF pass = "dependent_updates" THEN iteration
                      ELSE IF again THEN iteration + 1 ELSE 0
  BY <1>1, <1>2 DEF NextPass
<1>4. pass \in {"updates", "reads", "dependent_updates", "dependent_reads"}
  BY DEF BenchInv, NextPass
<1>5. ~again => t + 1 = I
  <2>1. t + 1 < I \/ t + 1 = I
    BY <1>1
  <2> QED  BY <1>2, <2>1
<1>6. CASE pass = "updates"
  <2>1. Rounds = t /\ Rounds' = t + 1 /\ Updates
    BY <1>1, <1>3, <1>5, <1>6 DEF Rounds, Updates
  <2>2. (IF Updates' THEN u' ELSE 0) = 0
    BY <1>3
  <2>3. (t + 1) * N + 0 = t * N + N
    BY <1>1
  <2> QED  BY <1>1, <1>3, <2>1, <2>2, <2>3 DEF Calls
<1>7. CASE pass = "reads"
  <2>1. Rounds = I /\ Rounds' = I /\ ~Updates
    BY <1>1, <1>3, <1>5, <1>7 DEF Rounds, Updates
  <2>2. (IF Updates' THEN u' ELSE 0) = 0
    BY <1>3
  <2> QED  BY <1>1, <1>3, <2>1, <2>2 DEF Calls
<1>8. CASE pass = "dependent_updates"
  <2>1. Rounds = I + t /\ Rounds' = I + t + 1 /\ Updates
    BY <1>1, <1>3, <1>5, <1>8 DEF Rounds, Updates
  <2>2. (IF Updates' THEN u' ELSE 0) = 0
    BY <1>3
  <2>3. (I + t + 1) * N + 0 = (I + t) * N + N
    BY <1>1
  <2> QED  BY <1>1, <1>3, <2>1, <2>2, <2>3 DEF Calls
<1>9. CASE pass = "dependent_reads"
  <2>1. Rounds = I + t + 1 /\ ~Updates
    BY <1>1, <1>9 DEF Rounds, Updates
  <2>2. Rounds' = I + t + 1
    <3>1. CASE again
      <4>1. pass' = "dependent_updates" /\ iteration' = t + 1
        BY <1>1, <1>3, <1>9, <3>1
      <4> QED  BY <1>1, <4>1 DEF Rounds
    <3>2. CASE ~again
      <4>1. pass' = "done"
        BY <1>3, <1>9, <3>2
      <4>2. 2 * I = I + t + 1
        BY <1>1, <1>5, <3>2
      <4> QED  BY <1>1, <4>1, <4>2 DEF Rounds
    <3> QED  BY <3>1, <3>2
  <2>3. (IF Updates' THEN u' ELSE 0) = 0
    BY <1>3
  <2> QED  BY <2>1, <2>2, <2>3 DEF Calls
<1> QED  BY <1>4, <1>6, <1>7, <1>8, <1>9

(* Every other step.                                                       *)
LEMMA SameCalls ==
  ASSUME BenchInv, [Next]_vars, ~EndUpdate
  PROVE  Calls' = Calls
<1>1. CASE NextPass
  BY <1>1, PassCalls
<1>2. CASE ReadOne \/ ReadNext
  <2>1. ~Updates /\ ~Updates' /\ Rounds' = Rounds
    BY <1>2 DEF ReadOne, ReadNext, Updates, Rounds
  <2> QED  BY <2>1 DEF Calls
<1>3. CASE UNCHANGED bench_vars
  BY <1>3 DEF bench_vars, Calls, Rounds, Updates
<1> QED  BY <1>1, <1>2, <1>3
         DEF Next, BeginUpdate, CowStep, InPlaceStep, LogStep, Drift, vars, bench_vars

(* The entries stay as their last updates have left them.                  *)
LEMMA AckedInvNext ==
  ASSUME BenchInv, AckedInv, [Next]_vars
  PROVE  AckedInv'
<1>1. CASE EndUpdate
  <2>1. /\ operations' = operations /\ pass' = pass /\ u < ENTRY_COUNT /\ Updates
        /\ acked' = [acked EXCEPT ![Target] = Operation(u)]
    BY <1>1 DEF EndUpdate, ValidationUpdate, BenchInv, Updates
  <2>2. PICK last \in Nat : last = Calls
    BY CallOps
  <2>3. Calls' = last + 1 /\ last % ENTRY_COUNT = u /\ TargetOf(last) = Target
    BY <1>1, <2>1, <2>2, EndCalls, CallOps
  <2>4. \A n : TargetOf(n)' = TargetOf(n) /\ Operation(n)' = Operation(n)
    BY <2>1 DEF TargetOf, TargetIn, Operation
  <2>5. acked \in [Ids -> Payloads]
    BY DEF BenchInv
  <2>6. ASSUME NEW i \in Ids, NEW n \in 0 .. last, TargetOf(n) = i, \A k \in n + 1 .. last : TargetOf(k) # i
        PROVE  acked'[i] = Operation(n % ENTRY_COUNT)
    <3>1. CASE n = last
      BY <2>1, <2>3, <2>5, <2>6, <3>1
    <3>2. CASE n # last
      <4>1. n \in 0 .. last - 1 /\ last \in n + 1 .. last /\ \A k \in n + 1 .. last - 1 : k \in n + 1 .. last
        BY <3>2
      <4>2. i # Target
        BY <2>3, <2>6, <4>1
      <4>3. acked'[i] = acked[i]
        BY <2>1, <2>5, <4>2
      <4> QED  BY <2>2, <2>6, <4>1, <4>3 DEF AckedInv
    <3> QED  BY <3>1, <3>2
  <2>7. last + 1 - 1 = last
    OBVIOUS
  <2> QED  BY <2>3, <2>4, <2>6, <2>7 DEF AckedInv
<1>2. CASE ~EndUpdate
  <2>1. Calls' = Calls
    BY <1>2, SameCalls
  <2>2. acked' = acked /\ operations' = operations
    BY <1>2 DEF Next, BeginUpdate, CowStep, InPlaceStep, LogStep, ReadOne, ReadNext, NextPass, Drift,
                vars, bench_vars
  <2>3. \A n : TargetOf(n)' = TargetOf(n) /\ Operation(n)' = Operation(n)
    BY <2>2 DEF TargetOf, TargetIn, Operation
  <2> QED  BY <2>1, <2>2, <2>3 DEF AckedInv
<1> QED  BY <1>1, <1>2

-----------------------------------------------------------------------------
\* Bit counts.

(* alex_PopCount computes what its recursive definition says.              *)
LEMMA PopCountUnfolds ==
  /\ Log!alex_PopCount \in [Nat -> Nat]
  /\ \A n \in Nat :
       Log!alex_PopCount[n] = IF n = 0 THEN 0 ELSE (n % 2) + Log!alex_PopCount[n \div 2]
<1> DEFINE Counts(g, n) ==
      \A i \in 0 .. n : g[i] = IF i = 0 THEN 0 ELSE (i % 2) + g[i \div 2]
           S == {n \in Nat : \E g \in [0 .. n -> Nat] : Counts(g, n)}
<1>h. \A i \in Nat \ {0} : i \div 2 \in 0 .. i - 1 /\ i % 2 \in 0 .. 1
  OBVIOUS
<1>1. 0 \in S
  <2>1. [i \in 0 .. 0 |-> 0] \in [0 .. 0 -> Nat] /\ Counts([i \in 0 .. 0 |-> 0], 0)
    OBVIOUS
  <2> QED  BY <2>1
<1>2. ASSUME NEW n \in Nat, n \in S
      PROVE  n + 1 \in S
  <2>1. PICK g \in [0 .. n -> Nat] : Counts(g, n)
    BY <1>2
  <2> DEFINE m == n + 1
             h == [i \in 0 .. m |-> IF i = m THEN (m % 2) + g[m \div 2] ELSE g[i]]
  <2>2. m \div 2 \in 0 .. n /\ m % 2 \in Nat
    BY <1>h
  <2>3. h \in [0 .. m -> Nat]
    BY <2>2
  <2>4. ASSUME NEW i \in 0 .. m
        PROVE  h[i] = IF i = 0 THEN 0 ELSE (i % 2) + h[i \div 2]
    <3>1. CASE i = m
      BY <3>1, <2>2
    <3>2. CASE i # m
      <4>1. i \in 0 .. n
        BY <3>2
      <4>2. i # 0 => i \div 2 \in 0 .. n
        BY <4>1, <1>h
      <4> QED  BY <2>1, <4>1, <4>2
    <3> QED  BY <3>1, <3>2
  <2>5. Counts(h, m) /\ m \in Nat
    <3> HIDE DEF h
    <3> QED  BY <2>4
  <2> HIDE DEF h, Counts
  <2> QED  BY <2>3, <2>5
<1>3. \A n \in Nat : n \in S
  <2> HIDE DEF S
  <2> QED  BY <1>1, <1>2, Induction
<1>4. ASSUME NEW m \in Nat, NEW n \in Nat, m <= n,
             NEW g \in [0 .. m -> Nat], Counts(g, m), NEW h \in [0 .. n -> Nat], Counts(h, n)
      PROVE  g[m] = h[m]
  <2> DEFINE D == {i \in 0 .. m : g[i] # h[i]}
  <2>1. SUFFICES ASSUME D # {} PROVE FALSE
    OBVIOUS
  <2>2. PICK i \in D : \A j \in D : i <= j
    <3>1. D \in SUBSET Nat
      OBVIOUS
    <3> HIDE DEF D
    <3> QED  BY <2>1, <3>1, LeastNumber
  <2>3. i \in 0 .. m /\ i \in 0 .. n /\ i # 0
    BY <1>4
  <2>4. i \div 2 \in 0 .. i - 1
    BY <2>3, <1>h
  <2>5. g[i \div 2] = h[i \div 2]
    BY <2>2, <2>3, <2>4
  <2> QED  BY <1>4, <2>3, <2>5
<1> DEFINE G(n) == CHOOSE g \in [0 .. n -> Nat] : Counts(g, n)
           F == [n \in Nat |-> G(n)[n]]
<1>5. \A n \in Nat : G(n) \in [0 .. n -> Nat] /\ Counts(G(n), n)
  BY <1>3
<1>6. F \in [Nat -> Nat]
  <2> SUFFICES ASSUME NEW n \in Nat PROVE G(n)[n] \in Nat
    OBVIOUS
  <2> HIDE DEF G
  <2> QED  BY <1>5
<1>7. ASSUME NEW n \in Nat
      PROVE  F[n] = IF n = 0 THEN 0 ELSE (n % 2) + F[n \div 2]
  <2>1. CASE n = 0
    <3> HIDE DEF G
    <3> QED  BY <2>1, <1>5
  <2>2. CASE n # 0
    <3>1. n \div 2 \in 0 .. n - 1
      BY <2>2, <1>h
    <3> DEFINE half == n \div 2
    <3>2. G(n)[n] = (n % 2) + G(n)[n \div 2]
      <4>1. Counts(G(n), n)
        <5> HIDE DEF G, Counts
        <5> QED  BY <1>5
      <4>2. n \in 0 .. n
        OBVIOUS
      <4> HIDE DEF G
      <4> QED  BY <2>2, <4>1, <4>2
    <3>3. G(half) \in [0 .. half -> Nat] /\ Counts(G(half), half) /\ half \in Nat /\ half <= n
      <4> HIDE DEF G, Counts
      <4> QED  BY <3>1, <1>5
    <3>4. G(n)[n \div 2] = G(half)[half]
      <4>1. G(n) \in [0 .. n -> Nat] /\ Counts(G(n), n)
        <5> HIDE DEF G, Counts
        <5> QED  BY <1>5
      <4>2. G(half)[half] = G(n)[half]
        <5> HIDE DEF G, Counts, half
        <5> QED  BY <1>4, <3>3, <4>1
      <4> QED  BY <4>2
    <3>5. n \div 2 \in Nat
      BY <3>1
    <3> HIDE DEF G
    <3> QED  BY <2>2, <3>2, <3>4, <3>5
  <2> QED  BY <2>1, <2>2
<1>8. F = [n \in Nat |-> IF n = 0 THEN 0 ELSE (n % 2) + F[n \div 2]]
  <2> HIDE DEF F
  <2>1. F = [n \in Nat |-> F[n]]
    BY <1>6
  <2> QED  BY <2>1, <1>7
<1>9. Log!alex_PopCount = [n \in Nat |-> IF n = 0 THEN 0 ELSE (n % 2) + Log!alex_PopCount[n \div 2]]
  <2> HIDE DEF F
  <2> QED  BY <1>8 DEF Log!alex_PopCount
<1>10. Log!alex_PopCount = F
  <2> HIDE DEF F
  <2> DEFINE D == {n \in Nat : Log!alex_PopCount[n] # F[n]}
  <2>1. D = {}
    <3>1. SUFFICES ASSUME D # {} PROVE FALSE
      OBVIOUS
    <3>2. PICK i \in D : \A j \in D : i <= j
      BY <3>1, LeastNumber
    <3>3. i # 0 => i \div 2 \in Nat /\ i \div 2 < i
      BY <1>h
    <3>4. i # 0 => Log!alex_PopCount[i \div 2] = F[i \div 2]
      BY <3>2, <3>3
    <3> QED  BY <1>7, <1>9, <3>3, <3>4
  <2>2. \A n \in Nat : Log!alex_PopCount[n] = F[n]
    BY <2>1
  <2> QED  BY <2>2, <1>6, <1>9
<1> HIDE DEF F
<1> QED  BY <1>6, <1>7, <1>10

(* A word has no bit set exactly when it is zero.                          *)
LEMMA PopCountZero ==
  ASSUME NEW n \in Nat
  PROVE  /\ Log!alex_PopCount[n] \in Nat
         /\ Log!alex_PopCount[n] = 0 <=> n = 0
<1> DEFINE D == {i \in Nat : i # 0 /\ Log!alex_PopCount[i] = 0}
<1>1. Log!alex_PopCount[n] \in Nat
  BY PopCountUnfolds
<1>2. Log!alex_PopCount[0] = 0
  BY PopCountUnfolds
<1>3. D = {}
  <2>1. SUFFICES ASSUME D # {} PROVE FALSE
    OBVIOUS
  <2>2. PICK i \in D : \A j \in D : i <= j
    BY <2>1, LeastNumber
  <2>3. i \div 2 \in Nat /\ i % 2 \in Nat /\ i \div 2 < i
    OBVIOUS
  <2>4. Log!alex_PopCount[i] = (i % 2) + Log!alex_PopCount[i \div 2] /\ Log!alex_PopCount[i \div 2] \in Nat
    BY <2>3, PopCountUnfolds
  <2>5. i % 2 = 0 /\ Log!alex_PopCount[i \div 2] = 0
    BY <2>3, <2>4
  <2>6. i \div 2 \in D
    BY <2>3, <2>5
  <2> QED  BY <2>2, <2>3, <2>6
<1> QED  BY <1>1, <1>2, <1>3

(* PopCount of a payload is the sum of the bits of its words.              *)
LEMMA PayloadCount ==
  ASSUME NEW x \in [Words -> Nat]
  PROVE  \E fold : /\ IsSum(fold, [w \in Words |-> Log!alex_PopCount[x[w]]], Words)
                   /\ Log!PopCount(x) = fold[Words]
<1> DEFINE bits == [w \in Words |-> Log!alex_PopCount[x[w]]]
           iter[s \in SUBSET Words] ==
             IF s = {} THEN 0
             ELSE Log!alex_PopCount[x[CHOOSE y \in s : TRUE]] + iter[s \ {CHOOSE y \in s : TRUE}]
<1>1. bits \in [Words -> Nat]
  BY PopCountUnfolds
<1>2. IsFiniteSet(Words) /\ Log!Words = Words
  <2>1. Log!Words = 0 .. WordCount - 1
    BY DEF Log!Words
  <2> QED  BY <2>1, Sizes
<1>3. PICK fold \in [SUBSET Words -> Nat] : Sums(fold, bits, Words)
  <2> HIDE DEF bits
  <2> QED  BY <1>1, <1>2, SumExists
<1>4. IsSum(fold, bits, Words)
  <2> HIDE DEF bits
  <2> QED  BY <1>1, <1>2, <1>3 DEF IsSum
<1>5. \A w \in Words : bits[w] = Log!alex_PopCount[x[w]]
  OBVIOUS
<1>6. fold = [s \in SUBSET Words |->
                IF s = {} THEN 0
                ELSE Log!alex_PopCount[x[CHOOSE y \in s : TRUE]] + fold[s \ {CHOOSE y \in s : TRUE}]]
  <2>1. ASSUME NEW s \in SUBSET Words
        PROVE  fold[s] = IF s = {} THEN 0
                         ELSE Log!alex_PopCount[x[CHOOSE y \in s : TRUE]] + fold[s \ {CHOOSE y \in s : TRUE}]
    <3>1. CASE s = {}
      <4> HIDE DEF bits
      <4> QED  BY <1>3, <3>1 DEF Sums
    <3>2. CASE s # {}
      <4>1. PICK c : c = CHOOSE y \in s : TRUE
        OBVIOUS
      <4>2. c \in Words
        BY <3>2, <4>1
      <4>3. fold[s] = bits[c] + fold[s \ {c}]
        <5> HIDE DEF bits
        <5> QED  BY <1>3, <3>2, <4>1 DEF Sums
      <4> HIDE DEF bits
      <4> QED  BY <1>5, <3>2, <4>1, <4>2, <4>3
    <3> QED  BY <3>1, <3>2
  <2>2. fold = [s \in SUBSET Words |-> fold[s]]
    BY <1>3
  <2> HIDE DEF bits
  <2> QED  BY <2>1, <2>2
<1>7. iter = [s \in SUBSET Words |->
                IF s = {} THEN 0
                ELSE Log!alex_PopCount[x[CHOOSE y \in s : TRUE]] + iter[s \ {CHOOSE y \in s : TRUE}]]
  <2> HIDE DEF bits
  <2> QED  BY <1>6
<1>8. Sums(iter, bits, Words)
  <2>1. ASSUME NEW s \in SUBSET Words
        PROVE  iter[s] = IF s = {} THEN 0
                         ELSE bits[CHOOSE y \in s : TRUE] + iter[s \ {CHOOSE y \in s : TRUE}]
    <3>1. CASE s = {}
      <4> HIDE DEF iter, bits
      <4> QED  BY <1>7, <3>1
    <3>2. CASE s # {}
      <4>1. PICK c : c = CHOOSE y \in s : TRUE
        OBVIOUS
      <4>2. c \in Words
        BY <3>2, <4>1
      <4>3. iter[s] = Log!alex_PopCount[x[c]] + iter[s \ {c}]
        <5> HIDE DEF iter, bits
        <5> QED  BY <1>7, <3>2, <4>1
      <4> HIDE DEF iter, bits
      <4> QED  BY <1>5, <3>2, <4>1, <4>2, <4>3
    <3> QED  BY <3>1, <3>2
  <2> HIDE DEF iter, bits
  <2> QED  BY <2>1 DEF Sums
<1>9. iter[Words] = fold[Words]
  <2>1. Words \in SUBSET Words
    OBVIOUS
  <2> HIDE DEF iter, bits
  <2> QED  BY <1>4, <1>8, <2>1, SumsAgree
<1>10. Log!PopCount(x) = iter[Words]
  BY <1>2 DEF Log!PopCount, Log!MapThenSumSet, Log!MapThenFoldSet
<1>11. IsSum(fold, bits, Words) /\ Log!PopCount(x) = fold[Words]
  <2> HIDE DEF iter, bits
  <2> QED  BY <1>4, <1>9, <1>10
<1> HIDE DEF iter
<1> QED  BY <1>11

(* A payload counts some bits unless it is all zeroes.                     *)
LEMMA PayloadCounts ==
  ASSUME NEW x \in [Words -> Nat]
  PROVE  /\ Log!PopCount(x) \in Nat
         /\ (\E w \in Words : x[w] # 0) => Log!PopCount(x) # 0
<1>1. PICK bits : bits = [w \in Words |-> Log!alex_PopCount[x[w]]]
  OBVIOUS
<1>2. PICK fold : IsSum(fold, bits, Words) /\ Log!PopCount(x) = fold[Words]
  BY <1>1, PayloadCount
<1>3. fold[Words] \in Nat
  BY <1>2, SumOfNothing
<1>4. ASSUME NEW w \in Words, x[w] # 0
      PROVE  fold[Words] # 0
  <2>1. bits[w] \in Nat /\ bits[w] # 0
    <3>1. x[w] \in Nat
      OBVIOUS
    <3> QED  BY <1>1, <1>4, <3>1, PopCountZero
  <2>2. AnyLast(fold, bits, Words)
    BY <1>2, SumsRemove
  <2>3. fold[Words] = bits[w] + fold[Words \ {w}]
    BY <2>2 DEF AnyLast
  <2>4. fold[Words \ {w}] \in Nat
    BY <1>2, SumOfNothing
  <2> QED  BY <2>1, <2>3, <2>4
<1> QED  BY <1>2, <1>3, <1>4

(* Some of whose words are missing, it has not as many bits as it should.  *)
LEMMA PartialCount ==
  ASSUME NEW x \in [Words -> Nat], NEW y \in [Words -> Nat], \A w \in Words : y[w] \in {0, x[w]}
  PROVE  Log!PopCount(y) = Log!PopCount(x) => y = x
<1>1. PICK some, every : /\ some = [w \in Words |-> Log!alex_PopCount[y[w]]]
                         /\ every = [w \in Words |-> Log!alex_PopCount[x[w]]]
  OBVIOUS
<1>2. PICK part, whole : /\ IsSum(part, some, Words) /\ Log!PopCount(y) = part[Words]
                         /\ IsSum(whole, every, Words) /\ Log!PopCount(x) = whole[Words]
  BY <1>1, PayloadCount
<1>3. ASSUME NEW w \in Words
      PROVE  some[w] <= every[w] /\ (some[w] = every[w] => y[w] = x[w])
  <2>1. x[w] \in Nat /\ 0 \in Nat
    OBVIOUS
  <2>2. Log!alex_PopCount[x[w]] \in Nat /\ (Log!alex_PopCount[x[w]] = 0 <=> x[w] = 0) /\ Log!alex_PopCount[0] = 0
    BY <2>1, PopCountZero
  <2>3. some[w] = Log!alex_PopCount[y[w]] /\ every[w] = Log!alex_PopCount[x[w]]
    BY <1>1
  <2>4. y[w] = x[w] \/ y[w] = 0
    OBVIOUS
  <2> QED  BY <2>2, <2>3, <2>4
<1>4. part[Words] = whole[Words] => \A w \in Words : some[w] = every[w]
  BY <1>2, <1>3, SumsCompare
<1>5. (\A w \in Words : y[w] = x[w]) => y = x
  OBVIOUS
<1> QED  BY <1>2, <1>3, <1>4, <1>5

-----------------------------------------------------------------------------
\* The redo log of LogBasedUpdates.

EntrySize == WordCount + 1
LogEnd == UpdateCount * (WordCount + 1)
LogSlots == 0 .. LogEnd + LineWords - 1

\* What the n-th call puts into the log, and what is there at last.
LogWord(n, w) ==
  IF w < WordCount THEN Operation(n % ENTRY_COUNT)[w] ELSE Log!PopCount(Operation(n % ENTRY_COUNT))
LogWordAt(a) == LogWord(a \div EntrySize, a % EntrySize)

\* The log is written up to at, and durable up to sure.
LogMemOk(mem, at, sure) ==
  /\ mem \in [LogSlots -> MemLine(Nat)]
  /\ at \in Nat /\ sure \in Nat /\ sure <= at
  /\ \A a \in LogSlots :
       IF a < at
       THEN /\ mem[a].vol = LogWordAt(a) /\ mem[a].fen = LogWordAt(a)
            /\ mem[a].dur \in {0, LogWordAt(a)}
            /\ a < sure => mem[a].dur = LogWordAt(a)
       ELSE mem[a].vol = 0 /\ mem[a].fen = 0 /\ mem[a].dur = 0

\* The buffer has the end of it, and rest is what comes next.
BufferOk(cl, rest, at) ==
  /\ cl \in Seq(Nat) /\ Len(cl) < LineWords /\ Len(cl) <= at
  /\ \A j \in 1 .. Len(cl) : cl[j] = LogWordAt((at - Len(cl)) + (j - 1))
  /\ rest \in Seq(Nat)
  /\ \A j \in 1 .. Len(rest) : rest[j] = LogWordAt(at + (j - 1))

(* The words of the log are numbers.                                       *)
LEMMA LogWordOps ==
  ASSUME BenchInv
  PROVE  /\ EntrySize \in Nat \ {0}
         /\ \A n \in Nat : /\ Operation(n % ENTRY_COUNT) \in [Words -> Nat]
                           /\ \A w \in 0 .. WordCount :
                                LogWord(n, w) \in Nat /\ LogWordAt(n * EntrySize + w) = LogWord(n, w)
         /\ \A a \in Nat : LogWordAt(a) \in Nat
<1>1. EntrySize \in Nat \ {0} /\ EntrySize - 1 = WordCount
  BY Sizes DEF EntrySize
<1>2. ASSUME NEW n \in Nat
      PROVE  Operation(n % ENTRY_COUNT) \in [Words -> Nat]
  <2>1. PICK k \in Ids : k = n % ENTRY_COUNT
    BY Around
  <2>2. Operation(k) \in Payloads
    BY OperationOps
  <2>3. PICK x \in Payloads : x = Operation(k)
    BY <2>2
  <2>4. x = [w \in Words |-> x[w]]
    BY DEF Payloads
  <2>5. \A w \in Words : x[w] \in Nat
    BY PayloadNumbers
  <2> QED  BY <2>1, <2>3, <2>4, <2>5
<1>3. ASSUME NEW n \in Nat, NEW w \in 0 .. WordCount
      PROVE  LogWord(n, w) \in Nat
  <2>1. PICK x \in [Words -> Nat] : x = Operation(n % ENTRY_COUNT)
    BY <1>2
  <2>2. Log!PopCount(x) \in Nat
    BY PayloadCounts
  <2>3. w < WordCount => w \in Words
    BY Sizes
  <2> QED  BY <2>1, <2>2, <2>3 DEF LogWord
<1>4. ASSUME NEW n \in Nat, NEW w \in 0 .. WordCount
      PROVE  LogWordAt(n * EntrySize + w) = LogWord(n, w)
  <2>1. w \in 0 .. EntrySize - 1
    BY <1>1
  <2>2. PICK a : a = n * EntrySize + w
    OBVIOUS
  <2>3. a \div EntrySize = n /\ a % EntrySize = w
    BY <1>1, <2>1, <2>2, OneQuotient
  <2> QED  BY <2>2, <2>3 DEF LogWordAt
<1>5. ASSUME NEW a \in Nat
      PROVE  LogWordAt(a) \in Nat
  <2>1. a \div EntrySize \in Nat /\ a % EntrySize \in 0 .. EntrySize - 1
    BY <1>1, Divide
  <2>2. a % EntrySize \in 0 .. WordCount
    BY <1>1, <2>1
  <2> QED  BY <1>3, <2>1, <2>2 DEF LogWordAt
<1> QED  BY <1>1, <1>2, <1>3, <1>4, <1>5

(* The sizes of the log.                                                   *)
LEMMA LogSizes ==
  ASSUME BenchInv
  PROVE  /\ LineWords \in Nat \ {0} /\ LogEnd \in Nat /\ LogEnd = UpdateCount * EntrySize
         /\ EntrySize = WordCount + 1 /\ UpdateCount \in Nat
         /\ \A a \in Nat : a < LogEnd => a \in LogSlots
         /\ \A a \in LogSlots : a \in Nat
<1>1. LineWords \in Nat \ {0}
  BY InplaceBenchAssumption
<1>2. UpdateCount \in Nat /\ EntrySize \in Nat
  BY CallOps, LogWordOps
<1>3. LogEnd = UpdateCount * EntrySize /\ EntrySize = WordCount + 1
  BY DEF LogEnd, EntrySize
<1>4. LogEnd \in Nat
  BY <1>2, <1>3
<1> QED  BY <1>1, <1>2, <1>3, <1>4 DEF LogSlots

(* AddLogEntry puts the words of the call's entry behind one another.      *)
LEMMA LayoutOps ==
  ASSUME BenchInv, NEW n \in Nat, NEW at, at = n * EntrySize
  PROVE  LET rest == Log!Layout(Operation(n % ENTRY_COUNT))
         IN /\ rest \in Seq(Nat) /\ Len(rest) = EntrySize
            /\ \A j \in 1 .. Len(rest) : rest[j] = LogWordAt(at + (j - 1))
<1>1. PICK x \in [Words -> Nat] : x = Operation(n % ENTRY_COUNT)
  BY LogWordOps
<1>2. PICK p \in Nat : p = Log!PopCount(x)
  BY PayloadCounts
<1>3. PICK W \in Nat : W = WordCount
  BY Sizes
<1>4. PICK front : front = [j \in 1 .. W |-> x[j - 1]]
  OBVIOUS
<1>5. \A j \in 1 .. W : j - 1 \in Words
  BY <1>3, Sizes
<1>6. front \in Seq(Nat) /\ Len(front) = W /\ \A j \in 1 .. W : front[j] = x[j - 1]
  BY <1>4, <1>5
<1>7. PICK rest : rest = front \o <<p>>
  OBVIOUS
<1>8. rest \in Seq(Nat) /\ Len(rest) = W + 1 /\ \A j \in 1 .. W + 1 : rest[j] = IF j <= W THEN front[j] ELSE p
  BY <1>2, <1>3, <1>6, <1>7
<1>9. Log!Layout(x) = rest
  BY <1>2, <1>3, <1>4, <1>7 DEF Log!Layout
<1>10. ASSUME NEW j \in 1 .. W + 1
       PROVE  rest[j] = LogWordAt(at + (j - 1))
  <2>1. PICK w \in 0 .. WordCount : w = j - 1
    BY <1>3
  <2>2. LogWordAt(at + w) = LogWord(n, w)
    BY LogWordOps
  <2>3. rest[j] = IF w < W THEN x[w] ELSE p
    BY <1>3, <1>6, <1>8, <2>1
  <2> QED  BY <1>1, <1>2, <1>3, <2>1, <2>2, <2>3 DEF LogWord
<1> QED  BY <1>1, <1>3, <1>8, <1>9, <1>10 DEF EntrySize

(* A line of the log is filled and streamed.                               *)
LEMMA LogStreams ==
  ASSUME BenchInv, NEW at, NEW sure, LogMemOk(log_data, at, sure), BufferOk(active_cl, todo, at),
         next_free + WordCount + 1 - Len(todo) = at, Log!StreamLine
  PROVE  \E t \in Nat : /\ Len(todo') = Len(todo) - t
                        /\ LogMemOk(log_data', at + t, sure) /\ BufferOk(active_cl', todo', at + t)
<1>1. PICK L \in Nat \ {0} : L = LineWords
  BY LogSizes
<1>2. at \in Nat /\ sure \in Nat /\ sure <= at
  BY DEF LogMemOk
<1>3. PICK c \in Nat, r \in Nat : c = Len(active_cl) /\ r = Len(todo)
  BY DEF BufferOk
<1>4. active_cl \in Seq(Nat) /\ todo \in Seq(Nat) /\ c < L /\ c <= at /\ r # 0
  BY <1>1, <1>3 DEF BufferOk, Log!StreamLine
<1>5. PICK t : t = IF r < L - c THEN r ELSE L - c
  OBVIOUS
<1>6. t \in Nat /\ t <= r /\ c + t <= L
  BY <1>1, <1>3, <1>4, <1>5
<1>7. PICK b \in Nat : b = at - c
  <2>1. c <= at
    BY <1>4
  <2>2. at - c \in Nat
    BY <1>2, <1>3, <2>1
  <2> QED  BY <2>2
<1>8. PICK taken, line, left : taken = SubSeq(todo, 1, t) /\ line = active_cl \o taken /\ left = SubSeq(todo, t + 1, r)
  OBVIOUS
<1>9. Log!LineBegin(todo) = b
  BY <1>3, <1>7 DEF Log!LineBegin
<1>10. /\ taken \in Seq(Nat) /\ Len(taken) = t /\ \A j \in 1 .. t : taken[j] = todo[j]
  BY <1>3, <1>4, <1>6, <1>8
<1>11. /\ left \in Seq(Nat) /\ Len(left) = r - t /\ \A j \in 1 .. r - t : left[j] = todo[t + j]
  <2>1. PICK m \in Nat, s \in Seq(Nat) : m = t + 1 /\ s = todo
    BY <1>4, <1>6
  <2>2. m \in 1 .. Len(s) + 1 /\ Len(s) = r
    BY <1>3, <1>6, <2>1
  <2>3. left = SubSeq(s, m, Len(s))
    BY <1>8, <2>1, <2>2
  <2>4. left \in Seq(Nat) /\ Len(left) = Len(s) + 1 - m /\ \A j \in 1 .. Len(s) + 1 - m : left[j] = s[m + j - 1]
    BY <2>2, <2>3
  <2>5. Len(s) + 1 - m = r - t
    BY <1>3, <1>6, <2>1, <2>2
  <2>6. \A j \in 1 .. r - t : m + j - 1 = t + j
    BY <1>3, <1>6, <2>1
  <2> QED  BY <2>1, <2>4, <2>5, <2>6
<1>12. /\ line \in Seq(Nat) /\ Len(line) = c + t
       /\ \A j \in 1 .. c + t : line[j] = IF j <= c THEN active_cl[j] ELSE taken[j - c]
  BY <1>3, <1>4, <1>6, <1>8, <1>10
<1>13. ASSUME NEW j \in 1 .. c + t
       PROVE  line[j] = LogWordAt(b + (j - 1))
  <2>1. CASE j <= c
    <3>1. j \in 1 .. c
      BY <1>3, <2>1
    <3>2. active_cl[j] = LogWordAt((at - c) + (j - 1))
      BY <1>3, <3>1 DEF BufferOk
    <3> QED  BY <1>7, <1>12, <2>1, <3>2
  <2>2. CASE ~(j <= c)
    <3>1. PICK k \in 1 .. t : k = j - c
      BY <1>3, <1>6, <2>2
    <3>2. k \in 1 .. r
      BY <1>3, <1>6, <3>1
    <3>3. todo[k] = LogWordAt(at + (k - 1))
      BY <1>3, <3>2 DEF BufferOk
    <3>4. at + (k - 1) = b + (j - 1)
      BY <1>2, <1>3, <1>7, <3>1
    <3> QED  BY <1>10, <1>12, <2>2, <3>1, <3>3, <3>4
  <2> QED  BY <2>1, <2>2
<1>14. PICK v : v = [a \in b .. b + L - 1 |-> IF a - b < Len(line) THEN line[a - b + 1] ELSE 0]
  OBVIOUS
<1>15. /\ log_data' = Log!FastCopyAndWriteBack(log_data, v)
       /\ active_cl' = IF c + t = L THEN <<>> ELSE line
       /\ todo' = left
  <2>1. Log!Room = L - c
    BY <1>1, <1>3 DEF Log!Room
  <2>2. Log!Streamed(line) = v
    BY <1>1, <1>9, <1>14 DEF Log!Streamed
  <2>3. (IF Len(todo) < Log!Room THEN Len(todo) ELSE Log!Room) = t
    BY <1>3, <1>5, <2>1
  <2> QED  BY <1>1, <1>3, <1>8, <1>12, <2>2, <2>3 DEF Log!StreamLine
<1>16. /\ DOMAIN v = b .. b + L - 1
       /\ \A a \in b .. b + L - 1 : v[a] = IF a < at + t THEN LogWordAt(a) ELSE 0
  <2>1. ASSUME NEW a \in b .. b + L - 1
        PROVE  v[a] = IF a < at + t THEN LogWordAt(a) ELSE 0
    <3>1. v[a] = IF a - b < c + t THEN line[a - b + 1] ELSE 0
      BY <1>12, <1>14
    <3>2. a - b < c + t <=> a < at + t
      BY <1>2, <1>3, <1>6, <1>7
    <3>3. CASE a - b < c + t
      <4>1. PICK j \in 1 .. c + t : j = a - b + 1
        BY <1>3, <1>6, <1>7, <3>3
      <4>2. b + (j - 1) = a
        BY <1>7, <4>1
      <4> QED  BY <1>13, <3>1, <3>2, <3>3, <4>1, <4>2
    <3>4. CASE ~(a - b < c + t)
      BY <3>1, <3>2, <3>4
    <3> QED  BY <3>3, <3>4
  <2> QED  BY <1>14, <2>1
<1>17. LogMemOk(log_data', at + t, sure)
  <2>1. log_data \in [LogSlots -> MemLine(Nat)]
    BY DEF LogMemOk
  <2>2. \A a \in DOMAIN v : v[a] \in Nat
    <3>1. \A a \in b .. b + L - 1 : a \in Nat
      BY <1>7
    <3>2. \A a \in b .. b + L - 1 : LogWordAt(a) \in Nat
      BY <3>1, LogWordOps
    <3> QED  BY <1>16, <3>2
  <2>3. log_data' = SentBack(Stored(log_data, v), DOMAIN v)
    BY <1>15, SameMemory
  <2>4. /\ log_data' \in [LogSlots -> MemLine(Nat)]
        /\ \A a \in LogSlots : /\ log_data'[a].vol = IF a \in DOMAIN v THEN v[a] ELSE log_data[a].vol
                               /\ log_data'[a].fen = IF a \in DOMAIN v THEN v[a] ELSE log_data[a].fen
                               /\ log_data'[a].dur = log_data[a].dur
    BY <2>1, <2>2, <2>3, CopiedWords
  <2>5. ASSUME NEW a \in LogSlots
        PROVE  IF a < at + t
               THEN /\ log_data'[a].vol = LogWordAt(a) /\ log_data'[a].fen = LogWordAt(a)
                    /\ log_data'[a].dur \in {0, LogWordAt(a)}
                    /\ a < sure => log_data'[a].dur = LogWordAt(a)
               ELSE log_data'[a].vol = 0 /\ log_data'[a].fen = 0 /\ log_data'[a].dur = 0
    <3>1. a \in Nat
      BY LogSizes
    <3>2. IF a < at
          THEN /\ log_data[a].vol = LogWordAt(a) /\ log_data[a].fen = LogWordAt(a)
               /\ log_data[a].dur \in {0, LogWordAt(a)}
               /\ a < sure => log_data[a].dur = LogWordAt(a)
          ELSE log_data[a].vol = 0 /\ log_data[a].fen = 0 /\ log_data[a].dur = 0
      BY DEF LogMemOk
    <3>3. CASE a \in b .. b + L - 1
      <4>1. log_data'[a].vol = v[a] /\ log_data'[a].fen = v[a] /\ log_data'[a].dur = log_data[a].dur
        BY <1>16, <2>4, <3>3
      <4>2. v[a] = IF a < at + t THEN LogWordAt(a) ELSE 0
        BY <1>16, <3>3
      <4>3. a < at => a < at + t
        BY <1>2, <1>6, <3>1
      <4>4. ~(a < at) => ~(a < sure)
        BY <1>2, <3>1
      <4> QED  BY <3>2, <4>1, <4>2, <4>3, <4>4
    <3>4. CASE a \notin b .. b + L - 1
      <4>1. log_data'[a].vol = log_data[a].vol /\ log_data'[a].fen = log_data[a].fen
            /\ log_data'[a].dur = log_data[a].dur
        BY <1>16, <2>4, <3>4
      <4>2. a < b \/ a >= b + L
        BY <1>1, <1>7, <3>1, <3>4
      <4>3. a < at <=> a < at + t
        BY <1>1, <1>2, <1>3, <1>6, <1>7, <3>1, <4>2
      <4> QED  BY <3>2, <4>1, <4>3
    <3> QED  BY <3>3, <3>4
  <2>6. at + t \in Nat /\ sure <= at + t
    BY <1>2, <1>6
  <2> QED  BY <1>2, <2>4, <2>5, <2>6 DEF LogMemOk
<1>18. BufferOk(active_cl', todo', at + t)
  <2>1. PICK next : next = at + t
    OBVIOUS
  <2>2. ASSUME NEW j \in 1 .. Len(left)
        PROVE  left[j] = LogWordAt(next + (j - 1))
    <3>1. PICK k \in 1 .. r : k = t + j
      BY <1>3, <1>6, <1>11
    <3>2. todo[k] = LogWordAt(at + (k - 1))
      BY <1>3 DEF BufferOk
    <3>3. at + (k - 1) = next + (j - 1)
      BY <1>2, <1>6, <2>1, <3>1
    <3>4. j \in 1 .. r - t
      BY <1>11
    <3> QED  BY <1>11, <3>1, <3>2, <3>3, <3>4
  <2>3. CASE c + t = L
    <3>1. active_cl' = <<>> /\ <<>> \in Seq(Nat) /\ Len(<<>>) = 0
      BY <1>15, <2>3
    <3>2. next \in Nat /\ 0 < LineWords /\ 0 <= next
      BY <1>1, <1>2, <1>6, <2>1
    <3>3. \A j \in 1 .. Len(active_cl') : FALSE
      BY <3>1
    <3>4. todo' = left /\ left \in Seq(Nat)
      BY <1>11, <1>15
    <3> QED  BY <2>1, <2>2, <3>1, <3>2, <3>3, <3>4 DEF BufferOk
  <2>4. CASE c + t # L
    <3>1. active_cl' = line /\ c + t < L /\ c + t <= next /\ next - (c + t) = b
      BY <1>1, <1>2, <1>3, <1>4, <1>6, <1>7, <1>15, <2>1, <2>4
    <3>2. \A j \in 1 .. Len(line) : line[j] = LogWordAt((next - Len(line)) + (j - 1))
      BY <1>12, <1>13, <3>1
    <3> QED  BY <1>1, <1>11, <1>12, <1>15, <2>1, <2>2, <3>1, <3>2 DEF BufferOk
  <2> QED  BY <2>3, <2>4
<1>19. Len(todo') = Len(todo) - t
  BY <1>3, <1>11, <1>15
<1> QED  BY <1>6, <1>17, <1>18, <1>19

(* The fence of AddLogEntry.                                               *)
LEMMA LogFences ==
  ASSUME BenchInv, NEW mem, NEW at, NEW sure, LogMemOk(mem, at, sure)
  PROVE  LogMemOk(Log!FenceWords(mem), at, at)
<1>1. mem \in [LogSlots -> MemLine(Nat)] /\ at \in Nat
  BY DEF LogMemOk
<1>2. PICK d : d = Log!FenceWords(mem)
  OBVIOUS
<1>3. d = Fenced(mem)
  BY <1>2, SameMemory
<1>4. /\ d \in [LogSlots -> MemLine(Nat)]
      /\ \A a \in LogSlots : d[a].vol = mem[a].vol /\ d[a].fen = mem[a].fen /\ d[a].dur = mem[a].fen
  BY <1>1, <1>3, FencedWords
<1> QED  BY <1>1, <1>2, <1>4 DEF LogMemOk

(* The cache may write back words of the log.                              *)
LEMMA LogDrifts ==
  ASSUME BenchInv, NEW mem, NEW at, NEW sure, LogMemOk(mem, at, sure), NEW d \in Log!EarlyWords(mem)
  PROVE  LogMemOk(d, at, sure)
<1>1. mem \in [LogSlots -> MemLine(Nat)] /\ at \in Nat /\ sure \in Nat /\ sure <= at
  BY DEF LogMemOk
<1>2. /\ d \in [LogSlots -> MemLine(Nat)]
      /\ \A a \in LogSlots : /\ d[a].vol = mem[a].vol
                             /\ \/ d[a].fen = mem[a].fen /\ d[a].dur = mem[a].dur
                                \/ d[a].fen = mem[a].vol /\ d[a].dur = mem[a].vol
  BY <1>1, EarlyWord
<1> QED  BY <1>1, <1>2 DEF LogMemOk

\* How far the log is written, and how far it is durable for sure.
At ==
  IF pc = "log" THEN Calls * EntrySize + (EntrySize - Len(todo))
  ELSE IF pc = "fence" THEN (Calls + 1) * EntrySize
  ELSE Calls * EntrySize

Sure == IF pc = "fence" THEN (Calls + 1) * EntrySize ELSE Calls * EntrySize

LogInv ==
  scheme = "log" =>
    /\ next_free = Sure
    /\ LogMemOk(log_data, At, Sure)
    /\ BufferOk(active_cl, todo, At)
    /\ Len(todo) <= EntrySize
    /\ pc # "log" => todo = <<>>

(* The words that go into the log are the same after a step.               *)
LEMMA SameWords ==
  ASSUME operations' = operations
  PROVE  /\ \A a : LogWordAt(a)' = LogWordAt(a)
         /\ \A i : Operation(i)' = Operation(i)
<1>1. \A i : Operation(i)' = Operation(i)
  BY DEF Operation
<1> QED  BY <1>1 DEF LogWordAt, LogWord

(* What a step has to show of the log.                                     *)
LEMMA LogInvStep ==
  ASSUME scheme' = scheme, operations' = operations, NEW at, NEW sure, at = At', sure = Sure',
         next_free' = sure, LogMemOk(log_data', at, sure), BufferOk(active_cl', todo', at),
         Len(todo') <= EntrySize, pc' # "log" => todo' = <<>>
  PROVE  LogInv'
<1>1. \A a : LogWordAt(a)' = LogWordAt(a)
  BY SameWords
<1>2. LogMemOk(log_data, At, Sure)'
  BY <1>1 DEF LogMemOk
<1>3. BufferOk(active_cl, todo, At)'
  BY <1>1 DEF BufferOk
<1>4. EntrySize' = EntrySize
  BY DEF EntrySize
<1> QED  BY <1>2, <1>3, <1>4 DEF LogInv

(* A step that leaves the log alone.                                       *)
LEMMA LogUntouched ==
  ASSUME LogInv, scheme' = scheme, operations' = operations, UNCHANGED log_vars,
         At' = At, Sure' = Sure, pc' = "log" <=> pc = "log"
  PROVE  LogInv'
<1>1. log_data' = log_data /\ next_free' = next_free /\ active_cl' = active_cl /\ todo' = todo
  BY DEF log_vars
<1>2. CASE scheme = "log"
  <2>1. PICK at, sure : at = At' /\ sure = Sure'
    OBVIOUS
  <2>2. /\ next_free' = sure /\ LogMemOk(log_data', at, sure) /\ BufferOk(active_cl', todo', at)
        /\ Len(todo') <= EntrySize /\ (pc' # "log" => todo' = <<>>)
    BY <1>1, <1>2, <2>1 DEF LogInv
  <2> QED  BY <2>1, <2>2, LogInvStep
<1>3. CASE scheme # "log"
  BY <1>3 DEF LogInv
<1> QED  BY <1>2, <1>3

(* The log is empty at first.                                              *)
LEMMA InitLogInv ==
  ASSUME Init
  PROVE  LogInv
<1>1. CASE scheme = "log"
  <2>0. BenchInv
    BY InitBench
  <2>1. /\ log_data = Log!Durably([a \in LogSlots |-> 0]) /\ next_free = 0 /\ active_cl = <<>> /\ todo = <<>>
        /\ pc = "idle"
    <3>1. Log!InitLog /\ pc = "idle"
      BY <1>1 DEF Init
    <3>2. /\ log_data = Log!Durably([a \in LogSlots |-> 0])
          /\ next_free = 0 /\ active_cl = <<>> /\ todo = <<>>
      <4>1. LogSlots = 0 .. (UpdateCount * (WordCount + 1) + LineWords) - 1
        <5>1. PICK p \in Nat, q \in Nat : p = LogEnd /\ q = LineWords
          BY <2>0, LogSizes
        <5>2. p + (q - 1) = (p + q) - 1
          BY <5>1
        <5>3. LogSlots = 0 .. (LogEnd + LineWords) - 1
          BY <5>1, <5>2 DEF LogSlots
        <5> QED  BY <5>3 DEF LogEnd
      <4>2. /\ log_data = Log!Durably([a \in 0 .. (UpdateCount * (WordCount + 1) + LineWords) - 1 |-> 0])
            /\ next_free = 0 /\ active_cl = <<>> /\ todo = <<>>
        BY <3>1, Zenon DEF Log!InitLog
      <4> QED  BY <4>1, <4>2
    <3> QED  BY <3>1, <3>2
  <2>2. Calls = 0
    BY InitCalls
  <2>3. EntrySize \in Nat /\ LineWords \in Nat \ {0}
    BY <2>0, LogWordOps, LogSizes
  <2>4. At = 0 /\ Sure = 0
    BY <2>1, <2>2, <2>3 DEF At, Sure
  <2>5. log_data = [a \in LogSlots |-> [vol |-> 0, fen |-> 0, dur |-> 0]]
    BY <2>1 DEF Log!Durably, Log!Line
  <2>6. LogMemOk(log_data, 0, 0)
    <3>1. \A a \in LogSlots : ~(a < 0)
      BY <2>0, LogSizes
    <3>2. log_data \in [LogSlots -> MemLine(Nat)]
      BY <2>5 DEF MemLine
    <3> QED  BY <2>5, <3>1, <3>2 DEF LogMemOk
  <2>7. BufferOk(active_cl, todo, 0)
    <3>1. <<>> \in Seq(Nat) /\ Len(<<>>) = 0 /\ \A j \in 1 .. Len(<<>>) : FALSE
      OBVIOUS
    <3>2. active_cl = <<>> /\ todo = <<>>
      BY <2>1
    <3> QED  BY <2>3, <3>1, <3>2 DEF BufferOk
  <2>8. Len(todo) <= EntrySize
    BY <2>1, <2>3
  <2> QED  BY <2>1, <2>4, <2>6, <2>7, <2>8 DEF LogInv
<1>2. CASE scheme # "log"
  BY <1>2 DEF LogInv
<1> QED  BY <1>1, <1>2

(* A step of DoUpdate on the log.                                          *)
LEMMA LogInvLogStep ==
  ASSUME BenchInv, LogInv, LogStep
  PROVE  LogInv'
<1>1. /\ scheme = "log" /\ UNCHANGED bench_vars
      /\ Log!AddLogEntry(Operation(u)) \/ Log!StreamLine \/ Log!CopyEntry(Target, Operation(u))
  BY DEF LogStep
<1>2. scheme' = scheme /\ operations' = operations
  BY <1>1 DEF bench_vars
<1>3. PICK n \in Nat : n = Calls
  BY CallOps
<1>4. Calls' = n
  BY <1>1, <1>3 DEF bench_vars, Calls, Rounds, Updates
<1>5. EntrySize \in Nat \ {0} /\ EntrySize = WordCount + 1 /\ EntrySize' = EntrySize /\ WordCount \in Nat
  BY LogSizes, LogWordOps, Sizes DEF EntrySize
<1>6. PICK at \in Nat, sure \in Nat : at = At /\ sure = Sure
  BY <1>1 DEF LogInv, LogMemOk
<1>7. /\ next_free = sure /\ LogMemOk(log_data, at, sure) /\ BufferOk(active_cl, todo, at)
      /\ Len(todo) <= EntrySize /\ (pc # "log" => todo = <<>>)
  BY <1>1, <1>6 DEF LogInv
<1>8. PICK m \in Nat, top \in Nat : m = n * EntrySize /\ top = (n + 1) * EntrySize /\ top = m + EntrySize
  BY <1>3, <1>5
<1>9. Len(todo) \in Nat
  BY <1>7 DEF BufferOk
<1>10. CASE Log!AddLogEntry(Operation(u))
  <2>1. /\ pc = "begun" /\ pc' = "log" /\ todo' = Log!Layout(Operation(u))
        /\ log_data' = log_data /\ next_free' = next_free /\ active_cl' = active_cl
    BY <1>10 DEF Log!AddLogEntry
  <2>2. Updates /\ u < ENTRY_COUNT
    BY <2>1 DEF BenchInv, Updates
  <2>3. u = n % ENTRY_COUNT
    BY <1>3, <2>2, CallOps
  <2>4. at = m /\ sure = m
    BY <1>3, <1>6, <1>8, <2>1 DEF At, Sure
  <2>5. /\ todo' \in Seq(Nat) /\ Len(todo') = EntrySize
        /\ \A j \in 1 .. Len(todo') : todo'[j] = LogWordAt(m + (j - 1))
    BY <1>8, <2>1, <2>3, LayoutOps
  <2>6. At' = m /\ Sure' = m
    <3>1. EntrySize - Len(todo') = 0
      BY <1>5, <2>5
    <3> QED  BY <1>4, <1>5, <1>8, <2>1, <3>1 DEF At, Sure
  <2>7. BufferOk(active_cl', todo', m)
    BY <1>7, <2>1, <2>4, <2>5 DEF BufferOk
  <2>8. Len(todo') <= EntrySize /\ next_free' = m /\ LogMemOk(log_data', m, m)
    BY <1>5, <1>7, <2>1, <2>4, <2>5
  <2> QED  BY <1>2, <2>1, <2>6, <2>7, <2>8, LogInvStep
<1>11. CASE Log!StreamLine
  <2>1. pc = "log" /\ pc' = "log" /\ next_free' = next_free
    BY <1>11 DEF Log!StreamLine
  <2>2. sure = m /\ at = m + (EntrySize - Len(todo))
    BY <1>3, <1>6, <1>8, <2>1 DEF At, Sure
  <2>3. next_free + WordCount + 1 - Len(todo) = at
    BY <1>5, <1>7, <1>8, <1>9, <2>2
  <2>4. PICK t \in Nat : /\ Len(todo') = Len(todo) - t
                         /\ LogMemOk(log_data', at + t, sure) /\ BufferOk(active_cl', todo', at + t)
    BY <1>7, <1>11, <2>3, LogStreams
  <2>5. PICK next : next = at + t
    OBVIOUS
  <2>6. At' = next /\ Sure' = sure
    <3>1. At' = n * EntrySize + (EntrySize - Len(todo')) /\ Sure' = n * EntrySize
      BY <1>4, <1>5, <2>1 DEF At, Sure
    <3>2. m + (EntrySize - Len(todo')) = next
      BY <1>5, <1>8, <1>9, <2>2, <2>4, <2>5
    <3> QED  BY <1>8, <2>2, <3>1, <3>2
  <2>7. Len(todo') <= EntrySize
    BY <1>5, <1>7, <1>9, <2>4
  <2> QED  BY <1>2, <1>7, <2>1, <2>4, <2>5, <2>6, <2>7, LogInvStep
<1>12. CASE Log!CopyEntry(Target, Operation(u))
  <2>1. /\ pc = "log" /\ todo = <<>> /\ pc' = "fence" /\ log_data' = Log!FenceWords(log_data)
        /\ next_free' = next_free + WordCount + 1 /\ active_cl' = active_cl /\ todo' = todo
    BY <1>12 DEF Log!CopyEntry
  <2>2. Len(todo) = 0
    BY <2>1
  <2>3. sure = m /\ at = top
    <3>1. at = m + (EntrySize - 0)
      BY <1>3, <1>6, <1>8, <2>1, <2>2 DEF At
    <3> QED  BY <1>3, <1>5, <1>6, <1>8, <2>1, <3>1 DEF Sure
  <2>4. At' = top /\ Sure' = top
    BY <1>4, <1>5, <1>8, <2>1 DEF At, Sure
  <2>5. LogMemOk(log_data', top, top)
    BY <1>7, <2>1, <2>3, LogFences
  <2>6. BufferOk(active_cl', todo', top)
    BY <1>7, <2>1, <2>3
  <2>7. next_free' = top
    BY <1>5, <1>7, <1>8, <2>1, <2>3
  <2>8. Len(todo') <= EntrySize
    BY <1>7, <2>1
  <2> QED  BY <1>2, <2>1, <2>4, <2>5, <2>6, <2>7, <2>8, LogInvStep
<1> QED  BY <1>1, <1>10, <1>11, <1>12

(* Every step keeps what is known of the log.                              *)
LEMMA LogInvNext ==
  ASSUME BenchInv, LogInv, [Next]_vars
  PROVE  LogInv'
<1>1. EntrySize' = EntrySize
  BY DEF EntrySize
<1>2. CASE EndUpdate
  <2>1. /\ pc = "fence" /\ pc' = "idle" /\ Calls' = Calls + 1 /\ UNCHANGED log_vars
        /\ scheme' = scheme /\ operations' = operations
    BY <1>2, EndCalls DEF EndUpdate
  <2>2. At' = At /\ Sure' = Sure
    BY <1>1, <2>1 DEF At, Sure
  <2> QED  BY <2>1, <2>2, LogUntouched
<1>3. CASE LogStep
  BY <1>3, LogInvLogStep
<1>4. ASSUME UNCHANGED log_vars, scheme' = scheme, operations' = operations, Calls' = Calls,
             \/ pc' = pc
             \/ pc \in {"idle", "begun", "data"} /\ pc' \in {"idle", "begun", "data"}
      PROVE  LogInv'
  <2>1. todo' = todo
    BY <1>4 DEF log_vars
  <2>2. At' = At /\ Sure' = Sure
    BY <1>1, <1>4, <2>1 DEF At, Sure
  <2>3. pc' = "log" <=> pc = "log"
    BY <1>4
  <2> QED  BY <1>4, <2>2, <2>3, LogUntouched
<1>5. ASSUME scheme # "log", scheme' = scheme
      PROVE  LogInv'
  BY <1>5 DEF LogInv
<1>6. ~EndUpdate => Calls' = Calls
  BY SameCalls
<1>7. CASE BeginUpdate
  <2>1. UNCHANGED log_vars /\ scheme' = scheme /\ operations' = operations /\ pc = "idle" /\ pc' = "begun"
    BY <1>7 DEF BeginUpdate, bench_vars
  <2>2. ~EndUpdate
    BY <2>1 DEF EndUpdate
  <2> QED  BY <1>4, <1>6, <2>1, <2>2
<1>8. CASE CowStep \/ InPlaceStep
  <2>1. scheme' = scheme /\ scheme # "log"
    <3>1. scheme' = scheme /\ (scheme \in Cow!Schemes \/ scheme \in InPlace!Schemes)
      BY <1>8 DEF CowStep, InPlaceStep, bench_vars
    <3> QED  BY <3>1, SchemesApart
  <2> QED  BY <1>5, <2>1
<1>9. CASE ReadOne \/ ReadNext \/ NextPass \/ UNCHANGED vars
  <2>1. UNCHANGED log_vars /\ scheme' = scheme /\ operations' = operations /\ pc' = pc
    BY <1>9 DEF ReadOne, ReadNext, NextPass, vars, cell_vars
  <2>2. ~EndUpdate
    BY <2>1 DEF EndUpdate
  <2> QED  BY <1>4, <1>6, <2>1, <2>2
<1>10. CASE Drift
  <2>1. /\ scheme' = scheme /\ operations' = operations /\ pc' = pc
        /\ next_free' = next_free /\ active_cl' = active_cl /\ todo' = todo
    BY <1>10 DEF Drift, bench_vars
  <2>2. ~EndUpdate
    BY <2>1 DEF EndUpdate
  <2>3. CASE log_data' = log_data
    BY <1>4, <1>6, <2>1, <2>2, <2>3 DEF log_vars
  <2>4. CASE scheme = "log" /\ log_data' \in Log!EarlyWords(log_data)
    <3>1. At' = At /\ Sure' = Sure
      BY <1>1, <1>6, <2>1, <2>2 DEF At, Sure
    <3>2. PICK at, sure : at = At /\ sure = Sure
      OBVIOUS
    <3>3. /\ next_free = sure /\ LogMemOk(log_data, at, sure) /\ BufferOk(active_cl, todo, at)
          /\ Len(todo) <= EntrySize /\ (pc # "log" => todo = <<>>)
      BY <2>4, <3>2 DEF LogInv
    <3>4. LogMemOk(log_data', at, sure)
      BY <2>4, <3>3, LogDrifts
    <3>5. at = At' /\ sure = Sure' /\ next_free' = sure /\ BufferOk(active_cl', todo', at)
          /\ Len(todo') <= EntrySize /\ (pc' # "log" => todo' = <<>>)
      BY <2>1, <3>1, <3>2, <3>3
    <3> QED  BY <2>1, <3>4, <3>5, LogInvStep
  <2> QED  BY <1>10, <2>3, <2>4 DEF Drift
<1> QED  BY <1>2, <1>3, <1>7, <1>8, <1>9, <1>10 DEF Next

-----------------------------------------------------------------------------
\* What a power failure leaves of the entries of LogBasedUpdates.

\* No update is all zeroes: without a bit to count its log entry would look
\* like one that is missing.
PayloadsCount == \A i \in Ids : \E w \in Words : Operation(i)[w] # 0

\* The words of a log entry that should be there are in NVM.
EntryDurable(n) == \A w \in 0 .. WordCount : log_data[n * EntrySize + w].dur = LogWord(n, w)

LogCommitted == pc \in {"log", "fence"} /\ EntryDurable(Calls)

(* A bounded set of numbers has a greatest one.                            *)
LEMMA GreatestNumber ==
  ASSUME NEW b \in Nat, NEW T \in SUBSET (0 .. b), T # {}
  PROVE  \E x \in T : \A y \in T : x >= y
<1>1. PICK S : S = {b - y : y \in T}
  OBVIOUS
<1>2. S \in SUBSET Nat /\ S # {}
  <2>1. \A y \in T : b - y \in Nat
    OBVIOUS
  <2>2. PICK y \in T : TRUE
    OBVIOUS
  <2>3. b - y \in S
    BY <1>1
  <2> QED  BY <1>1, <2>1, <2>3
<1>3. PICK s \in S : \A t \in S : s <= t
  BY <1>2, LeastNumber
<1>4. PICK x \in T : s = b - x
  BY <1>1, <1>3
<1>5. \A y \in T : b - x <= b - y
  BY <1>1, <1>3, <1>4
<1> QED  BY <1>5

(* What NVM has of an entry of the log.                                    *)
LEMMA EntryOps ==
  ASSUME BenchInv, LogInv, scheme = "log", NEW n \in Nat, n < UpdateCount
  PROVE  /\ \A w \in 0 .. WordCount :
              /\ n * EntrySize + w \in LogSlots
              /\ log_data[n * EntrySize + w].dur \in {0, LogWord(n, w)}
         /\ n < Calls => EntryDurable(n)
         /\ n = Calls /\ pc = "fence" => EntryDurable(n)
         /\ Calls < n => log_data[n * EntrySize + WordCount].dur = 0
         /\ n = Calls /\ pc \in {"idle", "begun", "data"} => log_data[n * EntrySize + WordCount].dur = 0
<1>1. PICK E \in Nat \ {0}, W \in Nat : E = EntrySize /\ W = WordCount
  BY LogWordOps, Sizes
<1>2. E = W + 1
  BY <1>1 DEF EntrySize
<1>3. PICK U \in Nat, c \in Nat : U = UpdateCount /\ c = Calls
  BY CallOps
<1>4. PICK at, sure : at = At /\ sure = Sure
  OBVIOUS
<1>5. LogMemOk(log_data, at, sure) /\ Len(todo) \in Nat /\ Len(todo) <= E
  BY <1>1, <1>4 DEF LogInv, BufferOk
<1>6. PICK m \in Nat, p \in Nat, q \in Nat : m = n * E /\ p = c * E /\ q = (c + 1) * E /\ q = p + E
  BY <1>1, <1>3
<1>7. /\ at = IF pc = "log" THEN p + (E - Len(todo)) ELSE IF pc = "fence" THEN q ELSE p
      /\ sure = IF pc = "fence" THEN q ELSE p
  BY <1>1, <1>3, <1>4, <1>6 DEF At, Sure
<1>8. p <= sure /\ at <= q
  BY <1>1, <1>5, <1>6, <1>7
<1>9. ASSUME NEW w \in 0 .. W
      PROVE  /\ m + w \in LogSlots /\ LogWordAt(m + w) = LogWord(n, w)
             /\ log_data[m + w].dur \in {0, LogWord(n, w)}
             /\ m + w < sure => log_data[m + w].dur = LogWord(n, w)
             /\ ~(m + w < at) => log_data[m + w].dur = 0
  <2>1. m + E <= LogEnd
    <3>1. n * E + E <= U * E
      BY <1>1, <1>3, GridOrder
    <3> QED  BY <1>1, <1>3, <1>6, <3>1, LogSizes
  <2>2. m + w \in Nat /\ m + w < LogEnd
    <3>1. LogEnd \in Nat
      BY LogSizes
    <3> QED  BY <1>1, <1>2, <1>6, <2>1, <3>1
  <2>3. m + w \in LogSlots
    BY <2>2, LogSizes
  <2>4. LogWordAt(m + w) = LogWord(n, w)
    BY <1>1, <1>6, LogWordOps
  <2>5. PICK a \in LogSlots : a = m + w
    BY <2>3
  <2>6. IF a < at THEN log_data[a].dur \in {0, LogWordAt(a)} /\ (a < sure => log_data[a].dur = LogWordAt(a))
        ELSE log_data[a].dur = 0
    BY <1>5 DEF LogMemOk
  <2>7. a < sure => a < at
    <3>1. at \in Nat /\ sure \in Nat /\ sure <= at /\ a \in Nat
      BY <1>5, <2>2, <2>5 DEF LogMemOk
    <3> QED  BY <3>1
  <2> QED  BY <2>3, <2>4, <2>5, <2>6, <2>7
<1>10. \A w \in 0 .. WordCount :
         n * EntrySize + w \in LogSlots /\ log_data[n * EntrySize + w].dur \in {0, LogWord(n, w)}
  BY <1>1, <1>6, <1>9
<1>11. (\A w \in 0 .. W : m + w < sure) => EntryDurable(n)
  BY <1>1, <1>6, <1>9 DEF EntryDurable
<1>12. W \in 0 .. W
  BY <1>1
<1>13. n < c => EntryDurable(n)
  <2>1. n < c => m + E <= p
    BY <1>1, <1>3, <1>6, GridOrder
  <2>2. sure \in Nat
    BY <1>5 DEF LogMemOk
  <2>3. n < c => \A w \in 0 .. W : m + w < sure
    BY <1>1, <1>2, <1>6, <1>8, <2>1, <2>2
  <2> QED  BY <1>11, <2>3
<1>14. n = c /\ pc = "fence" => EntryDurable(n)
  <2>1. n = c => m = p
    BY <1>6
  <2>2. n = c /\ pc = "fence" => \A w \in 0 .. W : m + w < sure
    BY <1>1, <1>2, <1>6, <1>7, <2>1
  <2> QED  BY <1>11, <2>2
<1>15. c < n => log_data[m + W].dur = 0
  <2>1. c < n => q <= m
    BY <1>1, <1>3, <1>6, GridOrder
  <2>2. at \in Nat
    BY <1>5 DEF LogMemOk
  <2>3. c < n => ~(m + W < at)
    BY <1>1, <1>6, <1>8, <2>1, <2>2
  <2> QED  BY <1>9, <1>12, <2>3
<1>16. n = c /\ pc \in {"idle", "begun", "data"} => log_data[m + W].dur = 0
  <2>1. n = c => m = p
    BY <1>6
  <2>2. n = c /\ pc \in {"idle", "begun", "data"} => ~(m + W < at)
    BY <1>1, <1>6, <1>7, <2>1
  <2> QED  BY <1>9, <1>12, <2>2
<1> QED  BY <1>1, <1>3, <1>6, <1>10, <1>13, <1>14, <1>15, <1>16

(* The bits of an entry of the log add up when all its words are in NVM    *)
(* and in no other case.                                                   *)
LEMMA WholeEntries ==
  ASSUME BenchInv, LogInv, scheme = "log", PayloadsCount, NEW n \in Nat, n < UpdateCount
  PROVE  /\ Log!IsWhole(n) <=> EntryDurable(n)
         /\ EntryDurable(n) => Log!Payload(n) = Operation(n % ENTRY_COUNT)
         /\ Log!IsWhole(n) => log_data[n * EntrySize + WordCount].dur # 0
<1>1. PICK x \in [Words -> Nat] : x = Operation(n % ENTRY_COUNT)
  BY LogWordOps
<1>2. PICK y : y = [w \in Words |-> log_data[n * EntrySize + w].dur]
  OBVIOUS
<1>3. Log!Payload(n) = y
  <2>1. Log!Words = Words
    BY Sizes DEF Log!Words
  <2> QED  BY <1>2, <2>1 DEF Log!Payload, EntrySize
<1>4. PICK sum : sum = log_data[n * EntrySize + WordCount].dur
  OBVIOUS
<1>5. Log!IsWhole(n) <=> sum # 0 /\ sum = Log!PopCount(y)
  BY <1>3, <1>4 DEF Log!IsWhole, EntrySize
<1>6. /\ \A w \in Words : w \in 0 .. WordCount /\ w < WordCount
      /\ WordCount \in 0 .. WordCount /\ ~(WordCount < WordCount)
      /\ \A w \in 0 .. WordCount : w \in Words \/ w = WordCount
  <2>1. PICK W \in Nat : W = WordCount
    BY Sizes
  <2>2. Words = 0 .. W - 1
    BY <2>1, Sizes
  <2> QED  BY <2>1, <2>2
<1>7. /\ \A w \in Words : LogWord(n, w) = x[w]
      /\ LogWord(n, WordCount) = Log!PopCount(x)
  BY <1>1, <1>6 DEF LogWord
<1>8. /\ \A w \in Words : y[w] \in {0, x[w]}
      /\ sum \in {0, Log!PopCount(x)}
  BY <1>2, <1>4, <1>6, <1>7, EntryOps
<1>9. y \in [Words -> Nat]
  BY <1>2, <1>8
<1>10. Log!PopCount(x) # 0
  <2>1. n % ENTRY_COUNT \in Ids
    BY Around
  <2>2. \E w \in Words : x[w] # 0
    BY <1>1, <2>1 DEF PayloadsCount
  <2> QED  BY <2>2, PayloadCounts
<1>11. EntryDurable(n) <=> (\A w \in Words : y[w] = x[w]) /\ sum = Log!PopCount(x)
  BY <1>2, <1>4, <1>6, <1>7 DEF EntryDurable
<1>12. (\A w \in Words : y[w] = x[w]) <=> y = x
  BY <1>9
<1>13. Log!PopCount(y) = Log!PopCount(x) => y = x
  BY <1>8, <1>9, PartialCount
<1> QED  BY <1>1, <1>3, <1>4, <1>5, <1>8, <1>10, <1>11, <1>12, <1>13

(* The entries recovery finds are those of the calls that have returned,   *)
(* and perhaps the one on its way.                                         *)
LEMMA SurvivorOps ==
  ASSUME BenchInv, LogInv, scheme = "log", PayloadsCount, NEW n \in Nat, n < UpdateCount
  PROVE  n \in Log!Survivors <=> n < Calls \/ (n = Calls /\ LogCommitted)
<1>1. PICK c \in Nat, U \in Nat : c = Calls /\ U = UpdateCount /\ c <= U
  BY CallOps
<1>2. n \in 0 .. ((UpdateCount * (WordCount + 1) + LineWords) \div (WordCount + 1)) - 1
  <2>1. PICK E \in Nat \ {0}, L \in Nat : E = WordCount + 1 /\ L = LineWords /\ E = EntrySize
    BY LogSizes, LogWordOps
  <2>2. PICK m \in Nat : m = U * E
    BY <1>1, <2>1
  <2>3. PICK size \in Nat : size = m + L
    BY <2>1, <2>2
  <2>4. PICK q \in Nat, r \in 0 .. E - 1 : q = size \div E /\ size = q * E + r
    BY <2>1, <2>3, Divide
  <2>5. ~(q < U)
    <3>1. q < U => q * E + E <= U * E
      BY <1>1, <2>1, <2>4, GridOrder
    <3>2. PICK k \in Nat : k = q * E
      <4>1. q \in Nat /\ E \in Nat
        BY <2>1, <2>4
      <4> QED  BY <4>1
    <3> QED  BY <2>1, <2>2, <2>3, <2>4, <3>1, <3>2
  <2>6. n \in 0 .. q - 1
    BY <1>1, <2>4, <2>5
  <2>7. q = (UpdateCount * (WordCount + 1) + LineWords) \div (WordCount + 1)
    BY <1>1, <2>1, <2>2, <2>3, <2>4
  <2> QED  BY <2>6, <2>7
<1>3. n \in Log!Survivors <=> \A k \in 0 .. n : Log!IsWhole(k)
  BY <1>2, Zenon DEF Log!Survivors
<1>4. \A k \in 0 .. n : k \in Nat /\ k < UpdateCount /\ (k < n \/ k = n)
  BY <1>1
<1>5. n \in 0 .. n /\ \A k \in 0 .. n : k <= n
  OBVIOUS
<1>6. \A k \in 0 .. n : k < c => Log!IsWhole(k)
  BY <1>1, <1>4, EntryOps, WholeEntries
<1>7. \A k \in 0 .. n : c < k => ~Log!IsWhole(k)
  BY <1>1, <1>4, EntryOps, WholeEntries
<1>8. n = c => (Log!IsWhole(n) <=> LogCommitted)
  <2>1. n = c => (Log!IsWhole(n) <=> EntryDurable(Calls))
    BY <1>1, WholeEntries
  <2>2. n = c /\ ~(pc \in {"log", "fence"}) => ~Log!IsWhole(n)
    <3>1. pc \in {"log", "fence"} \/ pc \in {"idle", "begun", "data"}
      BY DEF BenchInv
    <3> QED  BY <1>1, <3>1, EntryOps, WholeEntries
  <2> QED  BY <2>1, <2>2 DEF LogCommitted
<1>9. CASE n < c
  <2>1. \A k \in 0 .. n : k < c
    BY <1>1, <1>9
  <2>2. \A k \in 0 .. n : Log!IsWhole(k)
    BY <1>6, <2>1
  <2> QED  BY <1>1, <1>3, <1>9, <2>2
<1>10. CASE n = c
  <2>1. \A k \in 0 .. n : k < c \/ k = n
    BY <1>1, <1>10
  <2>2. ~(n < c)
    BY <1>1, <1>10
  <2> QED  BY <1>1, <1>3, <1>5, <1>6, <1>8, <1>10, <2>1, <2>2
<1>11. CASE c < n
  <2>1. ~(n < c) /\ n # c
    BY <1>1, <1>11
  <2> QED  BY <1>1, <1>3, <1>5, <1>7, <1>11, <2>1
<1> QED  BY <1>1, <1>9, <1>10, <1>11

(* What a power failure leaves of an entry, when the log has been done     *)
(* again.                                                                  *)
LEMMA LogSurvivor ==
  ASSUME BenchInv, CellInv, LogInv, AckedInv, PayloadsCount, scheme = "log", NEW i \in Ids
  PROVE  Log!Redone(i, {n \in 0 .. UpdateCount - 1 : TargetOf(n) = i})
           = IF pc # "idle" /\ i = Target /\ LogCommitted THEN Operation(u) ELSE acked[i]
<1>1. PICK c \in Nat, U \in Nat : c = Calls /\ U = UpdateCount /\ c <= U
  BY CallOps
<1>2. PICK own : own = {n \in 0 .. UpdateCount - 1 : TargetOf(n) = i}
  OBVIOUS
<1>3. PICK updates : updates = Log!Survivors \intersect own
  OBVIOUS
<1>4. \A n \in 0 .. U - 1 : n \in Nat /\ n < U
  BY <1>1
<1>5. \A n : n \in updates <=> /\ n \in 0 .. U - 1 /\ TargetOf(n) = i
                               /\ n < c \/ (n = c /\ LogCommitted)
  BY <1>1, <1>2, <1>3, <1>4, SurvivorOps
<1>6. Log!Redone(i, own) = IF updates = {} THEN Log!Surviving(cells[i]) ELSE Log!Payload(Log!Max(updates))
  BY <1>3 DEF Log!Redone
<1>7. pc # "idle" => c < U /\ TargetOf(c) = Target /\ c % ENTRY_COUNT = u
  BY <1>1, CallOps DEF BenchInv, Updates
<1>8. LogCommitted => pc # "idle"
  BY DEF LogCommitted
<1>9. ASSUME NEW n \in updates
      PROVE  Log!Payload(n) = Operation(n % ENTRY_COUNT)
  <2>1. n \in Nat /\ n < UpdateCount
    BY <1>1, <1>4, <1>5, <1>9
  <2>2. EntryDurable(n)
    BY <1>1, <1>5, <2>1, EntryOps DEF LogCommitted
  <2> QED  BY <2>1, <2>2, WholeEntries
<1>10. updates # {} => \E m \in updates : Log!Max(updates) = m /\ \A n \in updates : m >= n
  <2>1. ASSUME updates # {}
        PROVE  \E m \in updates : \A n \in updates : m >= n
    <3>1. updates \in SUBSET (0 .. U)
      BY <1>1, <1>5
    <3> QED  BY <1>1, <2>1, <3>1, GreatestNumber
  <2> QED  BY <2>1 DEF Log!Max
<1>11. CASE pc # "idle" /\ i = Target /\ LogCommitted
  <2>1. c \in updates
    BY <1>1, <1>5, <1>7, <1>11
  <2>2. PICK m \in updates : Log!Max(updates) = m /\ \A n \in updates : m >= n
    BY <1>10, <2>1
  <2>3. m = c
    <3>1. m \in Nat /\ (m < c \/ m = c)
      BY <1>1, <1>4, <1>5, <2>2
    <3>2. m >= c
      BY <2>1, <2>2
    <3> QED  BY <1>1, <3>1, <3>2
  <2> QED  BY <1>2, <1>6, <1>7, <1>9, <1>11, <2>1, <2>2, <2>3
<1>12. CASE ~(pc # "idle" /\ i = Target /\ LogCommitted)
  <2>1. \A n \in updates : n < c
    BY <1>5, <1>7, <1>8, <1>12
  <2>2. CASE updates = {}
    <3>1. Stage(i) # "fence"
      <4>1. ASSUME pc = "fence", i = Target
            PROVE  FALSE
        <5>1. EntryDurable(c)
          BY <1>1, <1>7, <4>1, EntryOps
        <5> QED  BY <1>1, <1>12, <4>1, <5>1 DEF LogCommitted
      <4> QED  BY <4>1 DEF Stage
    <3>2. LogCellOk(cells[i], acked[i], Operation(u), Stage(i))
      BY DEF CellInv, CellOk
    <3>3. cells[i] \in [Words -> MemLine(Nat)] /\ \A w \in Words : cells[i][w].vol = acked[i][w] /\ Settled(cells[i][w])
      BY <3>1, <3>2 DEF LogCellOk
    <3>4. Log!Surviving(cells[i]) = Dur(cells[i])
      BY SameMemory
    <3>5. \A w \in Words : cells[i][w].dur = acked[i][w]
      BY <3>3 DEF Settled
    <3>6. acked[i] \in Payloads
      BY DEF BenchInv
    <3>7. Dur(cells[i]) = [w \in Words |-> acked[i][w]] /\ acked[i] = [w \in Words |-> acked[i][w]]
      BY <3>3, <3>5, <3>6 DEF Dur, Payloads
    <3> QED  BY <1>2, <1>6, <1>12, <2>2, <3>4, <3>7
  <2>3. CASE updates # {}
    <3>1. PICK m \in updates : Log!Max(updates) = m /\ \A n \in updates : m >= n
      BY <1>10, <2>3
    <3>2. m \in 0 .. c - 1 /\ TargetOf(m) = i
      <4>1. m \in Nat /\ m < c /\ TargetOf(m) = i
        BY <1>4, <1>5, <2>1, <3>1
      <4> QED  BY <1>1, <4>1
    <3>3. ASSUME NEW k \in m + 1 .. c - 1, TargetOf(k) = i
          PROVE  FALSE
      <4>1. m \in Nat
        BY <3>2
      <4>2. k \in 0 .. U - 1 /\ k < c /\ ~(m >= k)
        BY <1>1, <3>3, <4>1
      <4>3. k \in updates
        BY <1>5, <3>3, <4>2
      <4> QED  BY <3>1, <4>2, <4>3
    <3>4. acked[i] = Operation(m % ENTRY_COUNT)
      BY <1>1, <3>2, <3>3 DEF AckedInv
    <3> QED  BY <1>2, <1>6, <1>9, <1>12, <2>3, <3>1, <3>4
  <2> QED  BY <2>2, <2>3
<1> QED  BY <1>11, <1>12

-----------------------------------------------------------------------------
\* When an update can no longer be lost.

Committed ==
  /\ scheme = "log" => LogCommitted
  /\ scheme \in Cow!Schemes => pc = "fence" /\ cells[Target][Cow!id].dur = cells[Target][Cow!id].vol
  /\ scheme \in InPlace!Schemes =>
       /\ pc = "fence" /\ Target \in updated
       /\ \A k \in InPlace!Blocks : cells[Target][k].dur = cells[Target][k].vol

(* Reading the version the byte names in NVM: the new one when the turned  *)
(* byte is there.                                                          *)
LEMMA CowCellSurvives ==
  ASSUME NEW c, NEW a \in Payloads, NEW x \in Payloads, NEW p, CowCellOk(c, a, x, p, Cow!AIs)
  PROVE  Cow!Read(Dur(c)) = IF p = "fence" /\ c[Cow!id].dur = c[Cow!id].vol THEN x ELSE a
<1>1. PICK one \in {0, 1}, n \in {0, 1} : one = Cow!AIs /\ n = c[Cow!id].vol
  BY CowByte DEF CowCellOk
<1>2. PICK act \in {"a", "b"}, oth \in {"a", "b"} : act = ActiveIf(one, n) /\ oth = Cow!Other(act)
  BY ActiveOps
<1>3. c \in [Cow!Units -> MemLine(Nat)] /\ Cow!id \in Cow!Units
  BY UnitOps DEF CowCellOk
<1>4. /\ p \in {"idle", "begun", "data", "fence"}
      /\ p # "fence" => /\ Settled(c[Cow!id])
                        /\ \A w \in Words : c[<<act, w>>].vol = a[w] /\ Settled(c[<<act, w>>])
      /\ p = "fence" => /\ c[Cow!id].dur \in {0, 1}
                        /\ \A w \in Words : /\ c[<<act, w>>].vol = x[w] /\ Settled(c[<<act, w>>])
                                            /\ c[<<oth, w>>].vol = a[w] /\ Settled(c[<<oth, w>>])
  BY <1>1, <1>2 DEF CowCellOk
<1>5. /\ Dur(c)[Cow!id] = c[Cow!id].dur
      /\ \A w \in Words : Dur(c)[<<act, w>>] = c[<<act, w>>].dur /\ Dur(c)[<<oth, w>>] = c[<<oth, w>>].dur
  BY <1>2, <1>3, UnitOps DEF Dur
<1>6. a = [w \in Words |-> a[w]] /\ x = [w \in Words |-> x[w]]
  BY DEF Payloads
<1>7. Cow!Active(Dur(c)) = ActiveIf(one, c[Cow!id].dur)
  BY <1>1, <1>5, CowByte
<1>8. Cow!Read(Dur(c)) = [w \in Words |-> Dur(c)[<<Cow!Active(Dur(c)), w>>]]
  BY DEF Cow!Read
<1>9. CASE p # "fence"
  <2>1. c[Cow!id].dur = n /\ \A w \in Words : c[<<act, w>>].dur = a[w]
    BY <1>1, <1>4, <1>9 DEF Settled
  <2>2. Cow!Active(Dur(c)) = act
    BY <1>2, <1>7, <2>1
  <2>3. Cow!Read(Dur(c)) = [w \in Words |-> a[w]]
    BY <1>5, <1>8, <2>1, <2>2
  <2> QED  BY <1>6, <1>9, <2>3
<1>10. CASE p = "fence" /\ c[Cow!id].dur = n
  <2>1. \A w \in Words : c[<<act, w>>].dur = x[w]
    BY <1>4, <1>10 DEF Settled
  <2>2. Cow!Active(Dur(c)) = act
    BY <1>2, <1>7, <1>10
  <2>3. Cow!Read(Dur(c)) = [w \in Words |-> x[w]]
    BY <1>5, <1>8, <2>1, <2>2
  <2> QED  BY <1>1, <1>6, <1>10, <2>3
<1>11. CASE p = "fence" /\ c[Cow!id].dur # n
  <2>1. \A w \in Words : c[<<oth, w>>].dur = a[w]
    BY <1>4, <1>11 DEF Settled
  <2>2. c[Cow!id].dur = 1 - n
    BY <1>1, <1>4, <1>11
  <2>3. Cow!Active(Dur(c)) = oth
    BY <1>1, <1>2, <1>7, <2>2, ActiveOps
  <2>4. Cow!Read(Dur(c)) = [w \in Words |-> a[w]]
    BY <1>5, <1>8, <2>1, <2>3
  <2> QED  BY <1>1, <1>6, <1>11, <2>4
<1> QED  BY <1>9, <1>10, <1>11

(* An entry of a version scheme, once updated.                             *)
LEMMA VersionCellSurvives ==
  ASSUME scheme \in InPlace!Schemes, Recoverable(scheme), NEW c, NEW a \in Payloads, NEW x \in Payloads, NEW p,
         VersionCellOk(c, a, x, p, TRUE, scheme)
  PROVE  InPlace!Survivor(Dur(c))
           = IF p = "fence" /\ \A k \in InPlace!Blocks : c[k].dur = c[k].vol THEN x ELSE a
<1>1. c \in [InPlace!Blocks -> MemLine(BlockSetOf(scheme))] /\ p \in {"idle", "begun", "fence"}
  BY DEF VersionCellOk
<1>2. CASE p # "fence"
  <2>1. p \in {"idle", "begun"}
    BY <1>1, <1>2
  <2>2. InPlace!Survivor(Dur(c)) = a
    BY <2>1, VersionCellKept
  <2> QED  BY <1>2, <2>2
<1>3. CASE p = "fence"
  <2>1. InPlace!Survivor(Dur(c)) = IF Dur(c) = Vol(c) THEN x ELSE a
    BY <1>3, VersionCellBetween
  <2>2. Dur(c) = Vol(c) <=> \A k \in InPlace!Blocks : c[k].dur = c[k].vol
    <3>1. /\ Dur(c) = [k \in InPlace!Blocks |-> c[k].dur] /\ Vol(c) = [k \in InPlace!Blocks |-> c[k].vol]
      BY <1>1 DEF Dur, Vol
    <3>2. Dur(c) = Vol(c) => \A k \in InPlace!Blocks : Dur(c)[k] = Vol(c)[k]
      OBVIOUS
    <3>3. \A k \in InPlace!Blocks : Dur(c)[k] = c[k].dur /\ Vol(c)[k] = c[k].vol
      BY <3>1
    <3>4. (\A k \in InPlace!Blocks : c[k].dur = c[k].vol) => Dur(c) = Vol(c)
      BY <3>1
    <3> QED  BY <3>2, <3>3, <3>4
  <2> QED  BY <1>3, <2>1, <2>2
<1> QED  BY <1>2, <1>3

\* What the proofs about recovery need of the scheme.
CanRecover == Recoverable(scheme) /\ (scheme = "log" => PayloadsCount)

(* What a power failure leaves of an entry, of whatever scheme.            *)
LEMMA SurvivorIs ==
  ASSUME BenchInv, CellInv, LogInv, AckedInv, CanRecover, NEW i \in Ids
  PROVE  Survivor(i) = IF pc # "idle" /\ i = Target /\ Committed THEN Operation(u) ELSE acked[i]
<1>1. /\ CellOk(scheme, cells[i], acked[i], Operation(u), Stage(i), i \in updated)
      /\ acked[i] \in Payloads
  BY DEF CellInv, BenchInv
<1>12. PICK c, p : c = cells[i] /\ p = Stage(i)
  OBVIOUS
<1>2. PICK a \in Payloads : a = acked[i] /\ c = cells[i] /\ p = Stage(i)
  BY <1>1, <1>12
<1>3. Log!Surviving(cells[i]) = Dur(c)
  BY <1>2, SameMemory
<1>4. p = "fence" <=> i = Target /\ pc = "fence"
  BY <1>2 DEF Stage
<1>5. PICK x \in Payloads : CellOk(scheme, c, a, x, p, i \in updated) /\ (p # "idle" => x = Operation(u))
  <2>1. CellOk(scheme, c, a, Operation(u), p, i \in updated)
    BY <1>1, <1>2
  <2>2. CASE p = "idle"
    <3>1. CellOk(scheme, c, a, a, "idle", i \in updated)
      BY <2>1, <2>2, IdleCell
    <3> QED  BY <2>2, <3>1
  <2>3. CASE p # "idle"
    <3>1. u < ENTRY_COUNT
      BY <1>2, <2>3 DEF Stage, BenchInv
    <3>2. Operation(u) \in Payloads
      BY <3>1, TargetOps, OperationOps
    <3> QED  BY <2>1, <3>2
  <2> QED  BY <2>2, <2>3
<1>6. CASE scheme = "log"
  <2>1. Survivor(i) = Log!Redone(i, {n \in 0 .. UpdateCount - 1 : TargetOf(n) = i})
    BY <1>6, SchemesApart DEF Survivor
  <2>2. Committed <=> LogCommitted
    BY <1>6, SchemesApart DEF Committed
  <2> QED  BY <1>6, <2>1, <2>2, LogSurvivor DEF CanRecover
<1>7. CASE scheme \in Cow!Schemes
  <2>1. scheme # "log" /\ scheme \notin InPlace!Schemes /\ OneIs(scheme) = Cow!AIs
    BY <1>7, SchemesApart
  <2>2. Survivor(i) = Cow!Read(Dur(c))
    BY <1>3, <1>7, <2>1 DEF Survivor
  <2>3. CowCellOk(c, a, x, p, Cow!AIs)
    BY <1>5, <1>7, <2>1 DEF CellOk
  <2>4. Cow!Read(Dur(c)) = IF p = "fence" /\ c[Cow!id].dur = c[Cow!id].vol THEN x ELSE a
    BY <2>3, CowCellSurvives
  <2>5. Committed <=> pc = "fence" /\ cells[Target][Cow!id].dur = cells[Target][Cow!id].vol
    BY <1>7, <2>1 DEF Committed
  <2>6. CASE i = Target
    BY <1>2, <1>4, <1>5, <2>2, <2>4, <2>5, <2>6
  <2>7. CASE i # Target
    BY <1>2, <1>4, <2>2, <2>4, <2>7
  <2> QED  BY <2>6, <2>7
<1>8. CASE scheme \in InPlace!Schemes
  <2>1. scheme # "log" /\ scheme \notin Cow!Schemes
    BY <1>8, SchemesApart
  <2>2. Survivor(i) = IF i \in updated THEN InPlace!Survivor(Dur(c)) ELSE acked[i]
    BY <1>3, <1>8, <2>1 DEF Survivor
  <2>3. VersionCellOk(c, a, x, p, i \in updated, scheme)
    BY <1>5, <1>8 DEF CellOk
  <2>4. Committed <=> /\ pc = "fence" /\ Target \in updated
                      /\ \A k \in InPlace!Blocks : cells[Target][k].dur = cells[Target][k].vol
    BY <1>8, <2>1 DEF Committed
  <2>5. CASE i \in updated
    <3>1. VersionCellOk(c, a, x, p, TRUE, scheme)
      <4>1. (i \in updated) = TRUE
        BY <2>5
      <4> QED  BY <2>3, <4>1
    <3>2. InPlace!Survivor(Dur(c))
            = IF p = "fence" /\ \A k \in InPlace!Blocks : c[k].dur = c[k].vol THEN x ELSE a
      BY <1>8, <3>1, VersionCellSurvives DEF CanRecover
    <3>3. CASE i = Target
      BY <1>2, <1>4, <1>5, <2>2, <2>4, <2>5, <3>2, <3>3
    <3>4. CASE i # Target
      BY <1>2, <1>4, <2>2, <2>5, <3>2, <3>4
    <3> QED  BY <3>3, <3>4
  <2>6. CASE i \notin updated
    BY <2>2, <2>4, <2>6
  <2> QED  BY <2>5, <2>6
<1> QED  BY <1>6, <1>7, <1>8, SchemesApart

(* A copy that is written back has not reached NVM yet.                    *)
LEMMA CopyOnItsWay ==
  ASSUME NEW U, NEW V, NEW c \in [U -> MemLine(V)], NEW v, NEW x \in U
  PROVE  SentBack(Stored(c, v), DOMAIN v)[x].dur = c[x].dur
<1>1. PICK larger : larger = V \union {v[y] : y \in DOMAIN v}
  OBVIOUS
<1>2. MemLine(V) \subseteq MemLine(larger)
  BY <1>1 DEF MemLine
<1>3. c \in [U -> MemLine(larger)] /\ \A y \in DOMAIN v : v[y] \in larger
  BY <1>1, <1>2
<1> QED  BY <1>3, CopiedWords

(* A log entry that is in NVM stays there.                                 *)
LEMMA EntryStays ==
  ASSUME BenchInv, LogInv, scheme = "log", NEW n \in Nat, n < UpdateCount, EntryDurable(n),
         operations' = operations,
         \A a \in LogSlots : log_data'[a].dur \in {log_data[a].dur, log_data[a].fen, log_data[a].vol}
  PROVE  EntryDurable(n)'
<1>1. ASSUME NEW w \in 0 .. WordCount
      PROVE  log_data'[n * EntrySize + w].dur = LogWord(n, w)
  <2>1. PICK a \in LogSlots : a = n * EntrySize + w
    BY EntryOps
  <2>2. log_data[a].dur = LogWord(n, w)
    BY <2>1 DEF EntryDurable
  <2>3. LogWordAt(a) = LogWord(n, w)
    BY <2>1, LogWordOps
  <2>4. \/ log_data[a].vol = LogWordAt(a) /\ log_data[a].fen = LogWordAt(a)
        \/ log_data[a].vol = 0 /\ log_data[a].fen = 0 /\ log_data[a].dur = 0
    BY DEF LogInv, LogMemOk
  <2> QED  BY <2>1, <2>2, <2>3, <2>4
<1>2. \A w : LogWord(n, w)' = LogWord(n, w)
  BY SameWords DEF LogWord
<1>3. EntrySize' = EntrySize
  BY DEF EntrySize
<1> QED  BY <1>1, <1>2, <1>3 DEF EntryDurable

(* What each step of DoUpdate, and the cache, do to the log in NVM.        *)
LEMMA LogOnItsWay ==
  ASSUME BenchInv, LogInv, scheme = "log",
         \/ Log!StreamLine
         \/ log_data' = Log!FenceWords(log_data)
         \/ log_data' \in Log!EarlyWords(log_data)
         \/ log_data' = log_data
  PROVE  \A a \in LogSlots : log_data'[a].dur \in {log_data[a].dur, log_data[a].fen, log_data[a].vol}
<1>1. log_data \in [LogSlots -> MemLine(Nat)]
  BY DEF LogInv, LogMemOk
<1>2. CASE Log!StreamLine
  <2>1. PICK v : log_data' = Log!FastCopyAndWriteBack(log_data, v)
    BY <1>2 DEF Log!StreamLine
  <2>2. log_data' = SentBack(Stored(log_data, v), DOMAIN v)
    BY <2>1, SameMemory
  <2> QED  BY <1>1, <2>2, CopyOnItsWay
<1>3. CASE log_data' = Log!FenceWords(log_data)
  <2>1. log_data' = Fenced(log_data)
    BY <1>3, SameMemory
  <2> QED  BY <1>1, <2>1, FencedWords
<1>4. CASE log_data' \in Log!EarlyWords(log_data)
  BY <1>1, <1>4, EarlyWord
<1>5. CASE log_data' = log_data
  BY <1>5
<1> QED  BY <1>2, <1>3, <1>4, <1>5

(* An update that would survive a failure does so until DoUpdate returns.  *)
LEMMA CommittedStays ==
  ASSUME BenchInv, CellInv, LogInv, [Next]_vars, pc # "idle", pc' # "idle", Committed
  PROVE  Committed'
<1>1. /\ ~EndUpdate /\ ~BeginUpdate /\ ~ReadOne /\ ~ReadNext /\ ~NextPass
      /\ Updates /\ u < ENTRY_COUNT
  <2>1. pass \in {"updates", "dependent_updates"} /\ u < ENTRY_COUNT
    BY DEF BenchInv
  <2>2. u # ENTRY_COUNT
    BY <2>1, Sizes DEF BenchInv
  <2> QED  BY <2>1, <2>2 DEF EndUpdate, BeginUpdate, ReadOne, ReadNext, NextPass, Updates
<1>2. UNCHANGED bench_vars
  BY <1>1 DEF Next, CowStep, InPlaceStep, LogStep, Drift, vars, bench_vars
<1>3. scheme' = scheme /\ operations' = operations /\ u' = u /\ updated' = updated /\ Target' = Target
  BY <1>2 DEF bench_vars, Target, TargetIn
<1>4. PICK n \in Nat : n = Calls /\ Calls' = n /\ n < UpdateCount
  BY <1>1, CallOps, SameCalls
<1>5. Target \in Ids
  BY <1>1, TargetOps
<1>6. CASE scheme = "log"
  <2>1. pc \in {"log", "fence"} /\ EntryDurable(n)
    BY <1>4, <1>6 DEF Committed, LogCommitted
  <2>2. /\ pc' \in {"log", "fence"}
        /\ \/ Log!StreamLine
           \/ log_data' = Log!FenceWords(log_data)
           \/ log_data' \in Log!EarlyWords(log_data)
           \/ log_data' = log_data
    <3>1. CASE LogStep
      BY <2>1, <3>1 DEF LogStep, Log!AddLogEntry, Log!StreamLine, Log!CopyEntry
    <3>2. CASE Drift
      BY <2>1, <3>2 DEF Drift
    <3>3. CASE UNCHANGED vars
      BY <2>1, <3>3 DEF vars, cell_vars, log_vars
    <3>4. ~CowStep /\ ~InPlaceStep
      BY <1>6, SchemesApart DEF CowStep, InPlaceStep
    <3> QED  BY <1>1, <3>1, <3>2, <3>3, <3>4 DEF Next
  <2>3. EntryDurable(n)'
    BY <1>3, <1>4, <1>6, <2>1, <2>2, LogOnItsWay, EntryStays
  <2>4. LogCommitted'
    BY <1>4, <2>2, <2>3 DEF LogCommitted
  <2> QED  BY <1>3, <1>6, <2>4, SchemesApart DEF Committed
<1>7. CASE scheme # "log"
  <2>1. pc = "fence"
    BY <1>7, SchemesApart DEF Committed
  <2>2. pc' = pc /\ (\/ cells' = cells
                     \/ \E c \in Log!EarlyWords(cells[Target]) : cells' = [cells EXCEPT ![Target] = c])
    <3>1. CASE Drift
      BY <3>1 DEF Drift
    <3>2. CASE UNCHANGED vars
      BY <3>2 DEF vars, cell_vars
    <3>3. ~CowStep /\ ~InPlaceStep /\ ~LogStep
      BY <1>7, <2>1 DEF CowStep, InPlaceStep, LogStep, Cow!WriteData, Cow!FenceAndTurn, InPlace!WriteBlocks
    <3> QED  BY <1>1, <3>1, <3>2, <3>3 DEF Next
  <2>3. PICK e \in Ids : e = Target /\ Target' = e
    BY <1>3, <1>5
  <2>4. CASE cells' = cells
    BY <1>3, <1>7, <2>2, <2>4 DEF Committed
  <2>5. CASE \E c \in Log!EarlyWords(cells[Target]) : cells' = [cells EXCEPT ![Target] = c]
    <3>1. PICK d \in Log!EarlyWords(cells[e]) : cells' = [cells EXCEPT ![e] = d]
      BY <2>3, <2>5
    <3>2. cells'[e] = d
      BY <2>3, <3>1 DEF CellInv
    <3>3. CellOk(scheme, cells[e], acked[e], Operation(u), pc, e \in updated)
      BY <2>1, <2>3 DEF CellInv, Stage
    <3>4. CASE scheme \in Cow!Schemes
      <4>1. cells[e] \in [Cow!Units -> MemLine(Nat)]
        BY <3>3, <3>4 DEF CellOk, CowCellOk
      <4>2. d[Cow!id].vol = cells[e][Cow!id].vol /\ d[Cow!id].dur \in {cells[e][Cow!id].dur, cells[e][Cow!id].vol}
        BY <4>1, EarlyWord, UnitOps
      <4>3. cells[e][Cow!id].dur = cells[e][Cow!id].vol
        BY <2>3, <3>4 DEF Committed
      <4>4. d[Cow!id].dur = d[Cow!id].vol
        BY <4>2, <4>3
      <4>5. scheme' \in Cow!Schemes /\ scheme' \notin InPlace!Schemes /\ scheme' # "log"
        BY <1>3, <3>4, SchemesApart
      <4> QED  BY <2>1, <2>2, <2>3, <3>2, <4>4, <4>5 DEF Committed
    <3>5. CASE scheme \in InPlace!Schemes
      <4>1. cells[e] \in [InPlace!Blocks -> MemLine(BlockSetOf(scheme))]
        BY <3>3, <3>5 DEF CellOk, VersionCellOk
      <4>2. \A k \in InPlace!Blocks : /\ d[k].vol = cells[e][k].vol
                                      /\ d[k].dur = cells[e][k].dur \/ d[k].dur = cells[e][k].vol
        BY <4>1, EarlyWord
      <4>3. e \in updated /\ \A k \in InPlace!Blocks : cells[e][k].dur = cells[e][k].vol
        BY <2>3, <3>5 DEF Committed
      <4>4. \A k \in InPlace!Blocks : d[k].dur = d[k].vol
        BY <4>2, <4>3
      <4>5. scheme' \notin Cow!Schemes /\ scheme' # "log"
        BY <1>3, <3>5, SchemesApart
      <4> QED  BY <1>3, <2>1, <2>2, <2>3, <3>2, <4>3, <4>4, <4>5 DEF Committed
    <3> QED  BY <1>7, <3>4, <3>5, SchemesApart
  <2> QED  BY <2>2, <2>4, <2>5
<1> QED  BY <1>6, <1>7

-----------------------------------------------------------------------------
\* Updates are atomic and durable.

\* What a power failure leaves of the entries.
Left == [i \in Ids |-> Survivor(i)]

\* It leaves the last finished updates and, once it is safe, the one on its
\* way.
DurableInv ==
  Left = IF pc # "idle" /\ Committed THEN [acked EXCEPT ![Target] = Operation(u)] ELSE acked

RecoveryInv == Inv /\ AckedInv /\ LogInv /\ CanRecover

(* The invariant holds at first: no update has returned, the log is empty. *)
LEMMA InitRecovery ==
  ASSUME Init, CanRecover
  PROVE  RecoveryInv
<1>1. Inv
  BY InvInit
<1>2. Calls = 0
  BY InitCalls
<1>3. AckedInv
  BY <1>2 DEF AckedInv
<1>4. LogInv
  BY InitLogInv
<1> QED  BY <1>1, <1>3, <1>4 DEF RecoveryInv

(* The scheme and the operations are never replaced.                       *)
LEMMA SameOperations ==
  ASSUME [Next]_vars
  PROVE  scheme' = scheme /\ operations' = operations
BY DEF Next, BeginUpdate, CowStep, InPlaceStep, LogStep, EndUpdate, ReadOne, ReadNext, NextPass, Drift,
       vars, bench_vars

(* Every step keeps the invariant.                                         *)
LEMMA RecoveryNext ==
  ASSUME RecoveryInv, [Next]_vars
  PROVE  RecoveryInv'
<1>1. Inv /\ BenchInv /\ CellInv /\ AckedInv /\ LogInv /\ CanRecover
  BY DEF RecoveryInv, Inv
<1>2. Inv'
  BY <1>1, InvNext
<1>3. AckedInv'
  BY <1>1, AckedInvNext
<1>4. LogInv'
  BY <1>1, LogInvNext
<1>5. CanRecover'
  <2>1. scheme' = scheme /\ operations' = operations
    BY SameOperations
  <2>2. \A i : Operation(i)' = Operation(i)
    BY <2>1, SameWords
  <2> QED  BY <1>1, <2>1, <2>2 DEF CanRecover, Recoverable, PayloadsCount
<1> QED  BY <1>2, <1>3, <1>4, <1>5 DEF RecoveryInv

(* What it says of a power failure, for every scheme.                      *)
LEMMA RecoveryLeaves ==
  ASSUME RecoveryInv
  PROVE  DurableInv
<1>1. BenchInv /\ CellInv /\ AckedInv /\ LogInv /\ CanRecover
  BY DEF RecoveryInv, Inv
<1>2. acked \in [Ids -> Payloads]
  BY <1>1 DEF BenchInv
<1>3. \A i \in Ids : Survivor(i) = IF pc # "idle" /\ i = Target /\ Committed THEN Operation(u) ELSE acked[i]
  BY <1>1, SurvivorIs
<1>4. CASE pc # "idle" /\ Committed
  <2>1. PICK new : new = [acked EXCEPT ![Target] = Operation(u)]
    OBVIOUS
  <2>2. new = [i \in Ids |-> IF i = Target THEN Operation(u) ELSE acked[i]]
    BY <1>2, <2>1
  <2>3. \A i \in Ids : Survivor(i) = IF i = Target THEN Operation(u) ELSE acked[i]
    BY <1>3, <1>4
  <2>4. Left = [i \in Ids |-> IF i = Target THEN Operation(u) ELSE acked[i]]
    BY <2>3 DEF Left
  <2> QED  BY <1>4, <2>1, <2>2, <2>4 DEF DurableInv
<1>5. CASE ~(pc # "idle" /\ Committed)
  <2>1. \A i \in Ids : Survivor(i) = acked[i]
    BY <1>3, <1>5
  <2>2. Left = [i \in Ids |-> acked[i]]
    BY <2>1 DEF Left
  <2> QED  BY <1>2, <1>5, <2>2 DEF DurableInv
<1> QED  BY <1>4, <1>5

(* Updating twice is updating once.                                        *)
LEMMA UpdateTwice ==
  ASSUME NEW f, NEW i, NEW x
  PROVE  [[f EXCEPT ![i] = x] EXCEPT ![i] = x] = [f EXCEPT ![i] = x]
OBVIOUS

(* A step of the schemes is a step of the entries that are updated         *)
(* atomically, or none.                                                    *)
LEMMA AtomicStep ==
  ASSUME RecoveryInv, DurableInv, BenchInv', DurableInv', [Next]_vars
  PROVE  [Abstract!Next]_(Abstract!cvars)
<1>1. BenchInv /\ CellInv /\ LogInv
  BY DEF RecoveryInv, Inv
<1>2. Updating = IF pc = "idle" THEN <<>> ELSE <<Target, Operation(u)>>
  BY DEF Updating
<1>3. Updating' = IF pc' = "idle" THEN <<>> ELSE <<Target, Operation(u)>>'
  BY DEF Updating
<1>4. Left = [i \in Ids |-> Survivor(i)] /\ Left' = [i \in Ids |-> Survivor(i)]'
  BY DEF Left
<1>5. CASE BeginUpdate
  <2>1. pc = "idle" /\ pc' = "begun" /\ acked' = acked
    BY <1>5 DEF BeginUpdate, bench_vars
  <2>2. ~Committed'
    <3>1. scheme' \in Schemes
      BY InplaceBenchAssumption DEF BenchInv
    <3> QED  BY <2>1, <3>1 DEF Schemes, Committed, LogCommitted
  <2>3. Left' = Left
    BY <2>1, <2>2 DEF DurableInv
  <2>4. Updating = <<>> /\ Updating' # <<>>
    BY <1>2, <1>3, <2>1
  <2> QED  BY <1>4, <2>1, <2>3, <2>4 DEF Abstract!Next, Abstract!Begin
<1>6. CASE EndUpdate
  <2>1. /\ pc = "fence" /\ pc' = "idle"
        /\ acked' = [acked EXCEPT ![Target] = Operation(u)]
    BY <1>6 DEF EndUpdate, ValidationUpdate
  <2>2. PICK e, x : e = Target /\ x = Operation(u)
    OBVIOUS
  <2>3. Left' = [acked EXCEPT ![e] = x]
    BY <2>1, <2>2 DEF DurableInv
  <2>4. Left = acked \/ Left = [acked EXCEPT ![e] = x]
    BY <2>2 DEF DurableInv
  <2>5. Left' = [Left EXCEPT ![e] = x]
    BY <2>3, <2>4, UpdateTwice
  <2>6. Updating = <<e, x>> /\ Updating # <<>> /\ Updating' = <<>> /\ Updating[1] = e /\ Updating[2] = x
    BY <1>2, <1>3, <2>1, <2>2
  <2> QED  BY <1>4, <2>1, <2>2, <2>5, <2>6 DEF Abstract!Next, Abstract!Return, Abstract!Updated
<1>7. CASE pc = "idle" /\ ~BeginUpdate
  <2>1. pc' = "idle" /\ acked' = acked
    BY <1>7, SchemesApart
       DEF Next, CowStep, Cow!WriteData, Cow!FenceAndTurn, InPlaceStep, InPlace!WriteBlocks, LogStep,
           Log!AddLogEntry, Log!StreamLine, Log!CopyEntry, EndUpdate, ReadOne, ReadNext, NextPass, Drift,
           vars, bench_vars, cell_vars
  <2>2. Left' = Left
    BY <1>7, <2>1 DEF DurableInv
  <2>3. Updating' = Updating
    BY <1>2, <1>3, <1>7, <2>1
  <2> QED  BY <1>4, <2>1, <2>2, <2>3 DEF Abstract!cvars
<1>8. CASE pc # "idle" /\ ~EndUpdate
  <2>1. ~BeginUpdate /\ ~ReadOne /\ ~ReadNext /\ ~NextPass
    <3>1. pass \in {"updates", "dependent_updates"} /\ u < ENTRY_COUNT
      BY <1>1, <1>8 DEF BenchInv
    <3>2. u # ENTRY_COUNT
      BY <1>1, <3>1, Sizes DEF BenchInv
    <3> QED  BY <1>8, <3>1, <3>2 DEF BeginUpdate, ReadOne, ReadNext, NextPass
  <2>2. UNCHANGED bench_vars /\ pc' # "idle"
    BY <1>8, <2>1
       DEF Next, CowStep, Cow!WriteData, Cow!FenceAndTurn, InPlaceStep, InPlace!WriteBlocks, LogStep,
           Log!AddLogEntry, Log!StreamLine, Log!CopyEntry, Drift, vars, bench_vars, cell_vars
  <2>3. Target' = Target /\ Operation(u)' = Operation(u) /\ acked' = acked
    BY <2>2 DEF bench_vars, Target, TargetIn, Operation
  <2>4. Updating' = Updating
    BY <1>2, <1>3, <1>8, <2>2, <2>3
  <2>5. Committed => Committed'
    BY <1>1, <1>8, <2>2, CommittedStays
  <2>6. PICK e, x : e = Target /\ x = Operation(u)
    OBVIOUS
  <2>7. CASE Committed <=> Committed'
    <3>1. Left' = Left
      BY <1>8, <2>2, <2>3, <2>7 DEF DurableInv
    <3> QED  BY <1>4, <2>3, <2>4, <3>1 DEF Abstract!cvars
  <2>8. CASE ~Committed /\ Committed'
    <3>1. Left = acked /\ Left' = [acked EXCEPT ![e] = x]
      BY <1>8, <2>2, <2>3, <2>6, <2>8 DEF DurableInv
    <3>2. Updating = <<e, x>> /\ Updating # <<>> /\ Updating[1] = e /\ Updating[2] = x
      BY <1>2, <1>8, <2>6
    <3> QED  BY <1>4, <2>3, <2>4, <3>1, <3>2 DEF Abstract!Next, Abstract!Commit, Abstract!Updated
  <2> QED  BY <2>5, <2>7, <2>8
<1> QED  BY <1>5, <1>6, <1>7, <1>8

(* At first the entries are what a power failure leaves.                   *)
LEMMA AtomicInit ==
  ASSUME Init, DurableInv
  PROVE  Abstract!Init
<1>1. pc = "idle"
  BY DEF Init
<1>2. Left = acked
  BY <1>1 DEF DurableInv
<1>3. Updating = <<>>
  BY <1>1 DEF Updating
<1> QED  BY <1>2, <1>3 DEF Left, Abstract!Init

\* No update is all zeroes, and an entry of the sliding scheme is one group.
Recovers ==
  /\ scheme = "log" => PayloadsCount
  /\ scheme = "sliding" => WordCount < Width

(* DoUpdate of every scheme is atomic and durable: at every moment a power *)
(* failure leaves each entry as its last finished update made it, or as    *)
(* the one on its way does.  The log can tell an entry from the zeroes     *)
(* behind it only when some bit of the update is set, and the sliding      *)
(* scheme keeps the old state of its meta block only where the words of an *)
(* entry are a single group.                                               *)
THEOREM UpdatesAreAtomic == Spec /\ Recovers => ImplementsAtomicCells
<1>1. Recovers => CanRecover
  BY DEF Recovers, CanRecover, Recoverable
<1>2. Init /\ CanRecover => RecoveryInv
  BY InitRecovery
<1>3. RecoveryInv /\ [Next]_vars => RecoveryInv'
  BY RecoveryNext
<1>4. RecoveryInv => DurableInv /\ BenchInv
  BY RecoveryLeaves DEF RecoveryInv, Inv
<1>5. Init /\ DurableInv => Abstract!Init
  BY AtomicInit
<1>6. RecoveryInv /\ DurableInv /\ BenchInv' /\ DurableInv' /\ [Next]_vars
        => [Abstract!Next]_(Abstract!cvars)
  BY AtomicStep
<1>7. Spec /\ Recovers => Abstract!Spec
  BY <1>1, <1>2, <1>3, <1>4, <1>5, <1>6, PTL DEF Spec, Abstract!Spec
<1> QED  BY <1>7 DEF ImplementsAtomicCells

(* Under the same conditions the old states of the blocks, rolled back to  *)
(* after a failure, are the update before: the old state of a meta block   *)
(* that the sliding scheme loses is always one of a second group.          *)
THEOREM OldStatesAreKept == Spec /\ Recovers => []OldStatesAreTheLastUpdate
<1>1. Recovers => CanRecover
  BY DEF Recovers, CanRecover, Recoverable
<1>2. Init /\ CanRecover => RecoveryInv
  BY InitRecovery
<1>3. RecoveryInv /\ [Next]_vars => RecoveryInv'
  BY RecoveryNext
<1>4. RecoveryInv => OldStatesAreTheLastUpdate
  <2>1. SUFFICES ASSUME RecoveryInv, NEW i \in updated
                 PROVE  Survivor(i) = acked[i] \/ (pc # "idle" /\ i = Target /\ Survivor(i) = Operation(u))
    BY DEF OldStatesAreTheLastUpdate
  <2>2. BenchInv /\ CellInv /\ LogInv /\ AckedInv /\ CanRecover
    BY <2>1 DEF RecoveryInv, Inv
  <2>3. i \in Ids
    BY <2>1, <2>2 DEF BenchInv
  <2> QED  BY <2>2, <2>3, SurvivorIs
<1> QED  BY <1>1, <1>2, <1>3, <1>4, PTL DEF Spec
=============================================================================
