------------------------ MODULE CoroutineTreeProofs ------------------------
(***************************************************************************)
(* Proofs about CoroutineTree, for any number of nodes, slots, operations, *)
(* group size and pool: an insert by coroutines, in every style of both    *)
(* programs, does what the normal insert does and is as durable; a slot is *)
(* not marked before its entry is safe (coro_insert.cpp); the frames of    *)
(* the coroutines are conserved; lookups find their keys.                  *)
(*                                                                         *)
(* The inductive invariant relates where a coroutine stands to what has    *)
(* become of its node, since the group began.                              *)
(***************************************************************************)
EXTENDS CoroutineTree, FiniteSetTheorems, NaturalsInduction, TLAPS

-----------------------------------------------------------------------------
\* Cache lines: what the operations of PMem.tla do to one.

(* A line that drifts keeps its content, and stays on its way if it was.   *)
LEMMA DriftFields ==
  ASSUME NEW V, NEW c \in LineSet(V), NEW torn \in V,
         NEW d \in CopyDrift(c, torn) \union WordDrift(c)
  PROVE  /\ d \in LineSet(V)
         /\ d.vol = c.vol
         /\ c.fen = c.vol => d.fen = d.vol
         /\ ~Stable(c)
  BY DEF LineSet, Stable, Evict, Tear, CopyDrift, WordDrift, Dirty

-----------------------------------------------------------------------------
\* Folds: the ones of the model, as functions with their equations.

(* Every nonempty set of natural numbers has a least one.                  *)
LEMMA LeastNumber ==
  ASSUME NEW T \in SUBSET Nat, T # {}
  PROVE  \E x \in T : \A y \in T : x <= y
<1> DEFINE R == OpToRel(<, Nat)
<1>1. IsWellFoundedOn(R, Nat)
  BY NatLessThanWellFounded
<1>2. PICK x \in T : \A y \in T : ~(<<y, x>> \in R)
  <2> HIDE DEF R
  <2> QED  BY <1>1, WFMin
<1>3. ASSUME NEW y \in T
      PROVE  x <= y
  <2>1. ~(<<y, x>> \in R)
    BY <1>2
  <2>2. ~(y < x)
    BY <2>1 DEF OpToRel
  <2> QED  BY <2>2
<1> QED  BY <1>3

(* Induction over the natural numbers, the property given by its set.      *)
LEMMA Induction ==
  ASSUME NEW S, 0 \in S, \A n \in Nat : n \in S => n + 1 \in S
  PROVE  \A n \in Nat : n \in S
<1>1. SUFFICES ASSUME NEW m \in Nat, m \notin S PROVE FALSE
  OBVIOUS
<1>2. PICK x \in Nat \ S : \A y \in Nat \ S : x <= y
  <2>1. Nat \ S \in SUBSET Nat /\ Nat \ S # {}
    BY <1>1
  <2> QED  BY <2>1, LeastNumber
<1>3. x # 0 /\ x - 1 \in Nat
  BY <1>2
<1>4. x - 1 \in S
  BY <1>2, <1>3
<1>5. (x - 1) + 1 \in S
  BY <1>3, <1>4
<1> QED  BY <1>2, <1>3, <1>5

\* fold[s] is what comes of s with the elements c takes out of it, in the
\* reverse of the order in which c takes them, for sets of up to k.
Folds(fold, F, base, c, T, k) ==
  \A s \in SUBSET T : Cardinality(s) <= k =>
    fold[s] = IF s = {} THEN base ELSE F[<<fold[s \ {c[s]}], c[s]>>]

(* A finite set without one of its elements is smaller by one.             *)
LEMMA Without ==
  ASSUME NEW T, IsFiniteSet(T), NEW s \in SUBSET T
  PROVE  /\ Cardinality(s) \in Nat /\ Cardinality(s) <= Cardinality(T)
         /\ Cardinality(s) = 0 <=> s = {}
         /\ \A x \in s : Cardinality(s \ {x}) = Cardinality(s) - 1
<1>1. IsFiniteSet(s) /\ Cardinality(s) <= Cardinality(T)
  BY FS_Subset
<1>2. Cardinality(s) \in Nat /\ (Cardinality(s) = 0 <=> s = {})
  BY <1>1, FS_CardinalityType, FS_EmptySet
<1>3. \A x \in s : Cardinality(s \ {x}) = Cardinality(s) - 1
  BY <1>1, FS_RemoveElement
<1> QED  BY <1>1, <1>2, <1>3

FoldsAll(fold, F, base, c, T) ==
  \A s \in SUBSET T : fold[s] = IF s = {} THEN base ELSE F[<<fold[s \ {c[s]}], c[s]>>]

\* What a fold takes out of a set is an element of it.
Chooses(c, T) == \A s \in SUBSET T : s # {} => c[s] \in s

(* What the folds of the community modules define exists: a function on    *)
(* the subsets of a finite set that takes one element after the other.     *)
LEMMA FoldExists ==
  ASSUME NEW T, IsFiniteSet(T), NEW D, NEW base \in D, NEW F \in [D \X T -> D],
         NEW c, Chooses(c, T)
  PROVE  \E fold \in [SUBSET T -> D] : FoldsAll(fold, F, base, c, T)
<1> DEFINE Folded(k) == \E fold \in [SUBSET T -> D] : Folds(fold, F, base, c, T, k)
           S == {k \in Nat : Folded(k)}
<1>0. \A s \in SUBSET T : s # {} => c[s] \in s
  BY DEF Chooses
<1>1. Folded(0)
  <2> DEFINE fold == [s \in SUBSET T |-> base]
  <2>1. fold \in [SUBSET T -> D]
    OBVIOUS
  <2>2. ASSUME NEW s \in SUBSET T, Cardinality(s) <= 0
        PROVE  s = {}
    <3>1. Cardinality(s) \in Nat /\ (Cardinality(s) = 0 <=> s = {})
      BY Without
    <3> QED  BY <2>2, <3>1
  <2>3. Folds(fold, F, base, c, T, 0)
    BY <2>2 DEF Folds
  <2> HIDE DEF fold
  <2> QED  BY <2>1, <2>3
<1>2. ASSUME NEW k \in Nat, Folded(k)
      PROVE  Folded(k + 1)
  <2>1. PICK part \in [SUBSET T -> D] : Folds(part, F, base, c, T, k)
    BY <1>2
  <2> DEFINE fold == [s \in SUBSET T |->
               IF s = {} THEN base ELSE F[<<part[s \ {c[s]}], c[s]>>]]
  <2>2. ASSUME NEW s \in SUBSET T
        PROVE  fold[s] \in D
    <3>1. CASE s = {}
      BY <3>1
    <3>2. CASE s # {}
      <4>1. c[s] \in T /\ s \ {c[s]} \in SUBSET T
        BY <1>0, <3>2
      <4>2. part[s \ {c[s]}] \in D
        BY <4>1
      <4>3. <<part[s \ {c[s]}], c[s]>> \in D \X T
        BY <4>1, <4>2
      <4>4. F[<<part[s \ {c[s]}], c[s]>>] \in D
        BY <4>3
      <4> QED  BY <3>2, <4>4
    <3> QED  BY <3>1, <3>2
  <2>3. fold \in [SUBSET T -> D]
    <3>1. fold = [s \in SUBSET T |-> fold[s]]
      OBVIOUS
    <3> HIDE DEF fold
    <3> QED  BY <2>2, <3>1
  <2>4. ASSUME NEW s \in SUBSET T, Cardinality(s) <= k
        PROVE  part[s] = fold[s]
    BY <2>1, <2>4 DEF Folds
  <2>5. ASSUME NEW s \in SUBSET T, Cardinality(s) <= k + 1
        PROVE  fold[s] = IF s = {} THEN base ELSE F[<<fold[s \ {c[s]}], c[s]>>]
    <3>1. CASE s = {}
      BY <3>1
    <3>2. CASE s # {}
      <4>1. c[s] \in s /\ s \ {c[s]} \in SUBSET T
        BY <1>0, <3>2
      <4>2. Cardinality(s) \in Nat /\ Cardinality(s \ {c[s]}) = Cardinality(s) - 1
        BY <4>1, Without
      <4>3. Cardinality(s \ {c[s]}) <= k
        BY <2>5, <4>2
      <4>4. part[s \ {c[s]}] = fold[s \ {c[s]}]
        BY <2>4, <4>1, <4>3
      <4>5. fold[s] = F[<<part[s \ {c[s]}], c[s]>>]
        BY <3>2
      <4> HIDE DEF fold
      <4> QED  BY <3>2, <4>4, <4>5
    <3> QED  BY <3>1, <3>2
  <2>6. Folds(fold, F, base, c, T, k + 1)
    <3> HIDE DEF fold
    <3> QED  BY <2>5 DEF Folds
  <2> HIDE DEF fold
  <2> QED  BY <2>3, <2>6
<1>3. \A k \in Nat : k \in S
  <2>1. 0 \in S /\ \A k \in Nat : k \in S => k + 1 \in S
    <3> HIDE DEF Folded
    <3> QED  BY <1>1, <1>2
  <2> HIDE DEF S
  <2> QED  BY <2>1, Induction
<1>4. Cardinality(T) \in Nat
  BY FS_CardinalityType
<1>5. Folded(Cardinality(T))
  <2> HIDE DEF Folded
  <2> QED  BY <1>3, <1>4
<1>6. PICK fold \in [SUBSET T -> D] : Folds(fold, F, base, c, T, Cardinality(T))
  BY <1>5
<1>7. ASSUME NEW s \in SUBSET T
      PROVE  fold[s] = IF s = {} THEN base ELSE F[<<fold[s \ {c[s]}], c[s]>>]
  <2>1. Cardinality(s) <= Cardinality(T)
    BY Without
  <2> QED  BY <1>6, <2>1 DEF Folds
<1> QED  BY <1>7 DEF FoldsAll

(* The largest of the first numbers is the last of them.                   *)
LEMMA MaxOfFirst ==
  ASSUME NEW n \in Nat
  PROVE  /\ \A s \in SUBSET (1 .. n) : s # {} => Max(s) \in s
         /\ \A k \in 1 .. n : Max(1 .. k) = k /\ (1 .. k) \ {k} = 1 .. (k - 1)
<1>1. ASSUME NEW s \in SUBSET (1 .. n), s # {}
      PROVE  Max(s) \in s
  <2> DEFINE D == {n - x : x \in s}
  <2>1. D \in SUBSET Nat /\ D # {}
    <3>1. \A x \in s : x \in Nat /\ x <= n
      BY <1>1
    <3>2. \A x \in s : n - x \in Nat
      BY <3>1
    <3>3. PICK x \in s : TRUE
      BY <1>1
    <3> QED  BY <3>2, <3>3
  <2>2. PICK d \in D : \A e \in D : d <= e
    <3> HIDE DEF D
    <3> QED  BY <2>1, LeastNumber
  <2>3. PICK x \in s : d = n - x
    OBVIOUS
  <2>4. ASSUME NEW j \in s
        PROVE  x >= j
    <3>0. n - j \in D
      OBVIOUS
    <3>1. x \in 1 .. n /\ j \in 1 .. n
      BY <2>3, <1>1
    <3> HIDE DEF D
    <3> QED  BY <2>2, <2>3, <3>0, <3>1
  <2> QED  BY <2>3, <2>4 DEF Max
<1>2. ASSUME NEW k \in 1 .. n
      PROVE  Max(1 .. k) = k /\ (1 .. k) \ {k} = 1 .. (k - 1)
  <2>1. \A x \in 1 .. k : (\A y \in 1 .. k : x >= y) => x = k
    OBVIOUS
  <2>2. k \in 1 .. k /\ \A y \in 1 .. k : k >= y
    OBVIOUS
  <2>3. Max(1 .. k) = k
    BY <2>1, <2>2 DEF Max
  <2> QED  BY <2>3
<1> QED  BY <1>1, <1>2

\* A step of a fold, once what is folded already is as it should be.
FoldsStep(fold, F, base, D, n) ==
  /\ fold[{}] = base
  /\ \A s \in SUBSET (1 .. n) : s # {} /\ fold[s \ {Max(s)}] \in D =>
       fold[s] = F[<<fold[s \ {Max(s)}], Max(s)>>]

FoldsUp(up, F, base, fold, n) ==
  /\ up[0] = base
  /\ \A k \in 1 .. n : up[k] = F[<<up[k - 1], k>>]
  /\ up[n] = fold[1 .. n]

(* What FoldLeft defines takes the elements of a sequence from the left.   *)
LEMMA FoldFromLeft ==
  ASSUME NEW n \in Nat, NEW D, NEW base \in D, NEW F \in [D \X (1 .. n) -> D], NEW fold,
         FoldsStep(fold, F, base, D, n)
  PROVE  \E up \in [0 .. n -> D] : FoldsUp(up, F, base, fold, n)
<1> DEFINE up == [k \in 0 .. n |-> fold[1 .. k]]
<1>1. up[0] = base
  <2>1. 1 .. 0 = {}
    OBVIOUS
  <2> QED  BY <2>1 DEF FoldsStep
<1>2. ASSUME NEW k \in 1 .. n, fold[1 .. (k - 1)] \in D
      PROVE  fold[1 .. k] = F[<<fold[1 .. (k - 1)], k>>] /\ fold[1 .. k] \in D
  <2>1. (1 .. k) \in SUBSET (1 .. n) /\ (1 .. k) # {}
    <3>1. k \in 1 .. k /\ \A j \in 1 .. k : j \in 1 .. n
      OBVIOUS
    <3> QED  BY <3>1
  <2>2. Max(1 .. k) = k /\ (1 .. k) \ {k} = 1 .. (k - 1)
    BY MaxOfFirst
  <2>3. fold[1 .. k] = F[<<fold[1 .. (k - 1)], k>>]
    BY <1>2, <2>1, <2>2 DEF FoldsStep
  <2>4. <<fold[1 .. (k - 1)], k>> \in D \X (1 .. n)
    BY <1>2
  <2>5. F[<<fold[1 .. (k - 1)], k>>] \in D
    BY <2>4
  <2> QED  BY <2>3, <2>5
<1> DEFINE S == {k \in Nat : k <= n => fold[1 .. k] \in D}
<1>3. \A k \in Nat : k \in S
  <2>1. 0 \in S
    <3>1. 1 .. 0 = {}
      OBVIOUS
    <3> QED  BY <3>1 DEF FoldsStep
  <2>2. ASSUME NEW k \in Nat, k \in S
        PROVE  k + 1 \in S
    <3>1. CASE k + 1 <= n
      <4>1. k + 1 \in 1 .. n /\ (k + 1) - 1 = k /\ fold[1 .. k] \in D
        BY <2>2, <3>1
      <4>2. fold[1 .. (k + 1)] \in D
        BY <1>2, <4>1
      <4> QED  BY <4>2
    <3>2. CASE ~ (k + 1 <= n)
      BY <3>2
    <3> QED  BY <3>1, <3>2
  <2> HIDE DEF S
  <2> QED  BY <2>1, <2>2, Induction
<1>4. up \in [0 .. n -> D]
  BY <1>3
<1>5. \A k \in 1 .. n : up[k] = F[<<up[k - 1], k>>]
  <2>1. SUFFICES ASSUME NEW k \in 1 .. n PROVE fold[1 .. k] = F[<<fold[1 .. (k - 1)], k>>]
    OBVIOUS
  <2>2. fold[1 .. (k - 1)] \in D
    BY <1>3
  <2> QED  BY <1>2, <2>2
<1>6. up[n] = fold[1 .. n]
  OBVIOUS
<1> HIDE DEF up
<1> QED  BY <1>1, <1>4, <1>5, <1>6 DEF FoldsUp

\* FoldLeft as the model uses it.
PushAll(list, all_frames) == FoldLeft(Push, list, all_frames)

\* The list after a frame was pushed.
HasPushed(after, list, frame) ==
  /\ Len(after) = Len(list) + 1
  /\ after[1] = frame
  /\ \A k \in 1 .. Len(list) : after[k + 1] = list[k]

(* A frame that is pushed comes before those that are on the list.         *)
LEMMA PushOps ==
  ASSUME NEW D, NEW list \in Seq(D), NEW frame \in D
  PROVE  Push(list, frame) \in Seq(D) /\ HasPushed(Push(list, frame), list, frame)
<1>1. /\ Push(list, frame) \in Seq(D)
      /\ Len(Push(list, frame)) = Len(list) + 1
      /\ Push(list, frame)[1] = frame
      /\ \A k \in 1 .. Len(list) : Push(list, frame)[k + 1] = list[k]
  BY DEF Push
<1> QED  BY <1>1 DEF HasPushed

\* The list after several frames were pushed.
HasAll(after, list, all_frames) ==
  /\ Len(after) = Len(all_frames) + Len(list)
  /\ \A k \in 1 .. Len(all_frames) : after[k] = all_frames[(Len(all_frames) + 1) - k]
  /\ \A k \in 1 .. Len(list) : after[Len(all_frames) + k] = list[k]

(* Frames pushed one after the other come in reverse before the list.      *)
LEMMA PushesAll ==
  ASSUME NEW D, NEW list \in Seq(D), NEW fs \in Seq(D)
  PROVE  PushAll(list, fs) \in Seq(D) /\ HasAll(PushAll(list, fs), list, fs)
<1>0. PICK n \in Nat : n = Len(fs)
  OBVIOUS
<1> DEFINE Lists == Seq(D)
           F == [p \in Seq(D) \X (1 .. n) |-> Push(p[1], fs[p[2]])]
           last == [s \in SUBSET (1 .. n) |-> Max(s)]
           fold[s \in SUBSET DOMAIN fs] ==
             IF s = {} THEN list ELSE Push(fold[s \ {Max(s)}], fs[Max(s)])
<1>1. n \in Nat /\ DOMAIN fs = 1 .. n /\ \A k \in 1 .. n : fs[k] \in D
  BY <1>0
<1>2. PushAll(list, fs) = fold[DOMAIN fs]
  BY DEF PushAll, FoldLeft, MapThenFoldSet
<1>3. F \in [Seq(D) \X (1 .. n) -> Seq(D)]
  <2>1. \A p \in Seq(D) \X (1 .. n) : Push(p[1], fs[p[2]]) \in Seq(D)
    BY <1>1, PushOps
  <2> QED  BY <2>1
<1>4. ASSUME NEW l \in Seq(D), NEW k \in 1 .. n
      PROVE  F[<<l, k>>] = Push(l, fs[k])
  OBVIOUS
<1>5. \A s \in SUBSET (1 .. n) : s # {} => last[s] \in s
  BY <1>1, MaxOfFirst
<1>6. PICK part \in [SUBSET (1 .. n) -> Seq(D)] : FoldsAll(part, F, list, last, 1 .. n)
  <2>1. IsFiniteSet(1 .. n)
    BY FS_Interval, <1>1
  <2>2. F \in [Lists \X (1 .. n) -> Lists] /\ list \in Lists
    BY <1>3
  <2>4. Chooses(last, 1 .. n)
    BY <1>5 DEF Chooses
  <2>3. \E part \in [SUBSET (1 .. n) -> Lists] : FoldsAll(part, F, list, last, 1 .. n)
    <3> HIDE DEF F, last, Lists, fold
    <3> QED  BY <2>1, <2>2, <2>4, FoldExists
  <2> HIDE DEF F, last
  <2> QED  BY <2>3
<1>7. fold = [s \in SUBSET DOMAIN fs |->
                IF s = {} THEN list ELSE Push(fold[s \ {Max(s)}], fs[Max(s)])]
  <2>1. ASSUME NEW s \in SUBSET (1 .. n)
        PROVE  part[s] = IF s = {} THEN list ELSE Push(part[s \ {Max(s)}], fs[Max(s)])
    <3>1. CASE s = {}
      BY <1>6, <3>1 DEF FoldsAll
    <3>2. CASE s # {}
      <4>1. last[s] = Max(s) /\ Max(s) \in 1 .. n /\ s \ {Max(s)} \in SUBSET (1 .. n)
        BY <1>5, <3>2
      <4>2. part[s \ {Max(s)}] \in Seq(D)
        BY <4>1
      <4>3. part[s] = F[<<part[s \ {Max(s)}], Max(s)>>]
        BY <1>6, <3>2, <4>1 DEF FoldsAll
      <4> HIDE DEF F
      <4> QED  BY <1>4, <3>2, <4>1, <4>2, <4>3
    <3> QED  BY <3>1, <3>2
  <2>2. part = [s \in SUBSET DOMAIN fs |->
                IF s = {} THEN list ELSE Push(part[s \ {Max(s)}], fs[Max(s)])]
    BY <1>1, <2>1
  <2> QED  BY <2>2
<1> HIDE DEF fold
<1>8. fold[{}] = list
  BY <1>7
<1>9. ASSUME NEW s \in SUBSET (1 .. n), s # {}, fold[s \ {Max(s)}] \in Seq(D)
      PROVE  fold[s] = F[<<fold[s \ {Max(s)}], Max(s)>>]
  <2>1. Max(s) \in 1 .. n
    BY <1>1, <1>9, MaxOfFirst
  <2>2. fold[s] = Push(fold[s \ {Max(s)}], fs[Max(s)])
    BY <1>1, <1>7, <1>9
  <2> HIDE DEF F
  <2> QED  BY <1>4, <1>9, <2>1, <2>2
<1>10. PICK up \in [0 .. n -> Seq(D)] : FoldsUp(up, F, list, fold, n)
  <2>1. F \in [Lists \X (1 .. n) -> Lists] /\ list \in Lists
    BY <1>3
  <2>2. FoldsStep(fold, F, list, Lists, n)
    <3> HIDE DEF F
    <3> QED  BY <1>8, <1>9 DEF FoldsStep
  <2>3. \E up \in [0 .. n -> Lists] : FoldsUp(up, F, list, fold, n)
    <3> HIDE DEF F, Lists, last
    <3> QED  BY <1>1, <2>1, <2>2, FoldFromLeft
  <2> HIDE DEF F
  <2> QED  BY <2>3
<1>11. ASSUME NEW k \in 1 .. n
       PROVE  up[k] = Push(up[k - 1], fs[k]) /\ up[k - 1] \in Seq(D)
  <2>1. up[k - 1] \in Seq(D)
    BY <1>1, <1>10
  <2> HIDE DEF F
  <2> QED  BY <1>4, <1>10, <2>1 DEF FoldsUp
<1> DEFINE Pushed(k) ==
      k <= n => /\ Len(up[k]) = k + Len(list)
                /\ \A x \in 1 .. k : up[k][x] = fs[(k + 1) - x]
                /\ \A x \in 1 .. Len(list) : up[k][k + x] = list[x]
           S == {k \in Nat : Pushed(k)}
<1>12. Pushed(0)
  BY <1>10 DEF FoldsUp
<1>13. ASSUME NEW k \in Nat, Pushed(k)
       PROVE  Pushed(k + 1)
  <2> SUFFICES ASSUME k + 1 <= n
               PROVE  /\ Len(up[k + 1]) = (k + 1) + Len(list)
                      /\ \A x \in 1 .. k + 1 : up[k + 1][x] = fs[((k + 1) + 1) - x]
                      /\ \A x \in 1 .. Len(list) : up[k + 1][(k + 1) + x] = list[x]
    OBVIOUS
  <2>1. k + 1 \in 1 .. n /\ (k + 1) - 1 = k /\ k <= n /\ Len(list) \in Nat
    BY <1>1
  <2>2. up[k + 1] = Push(up[k], fs[k + 1]) /\ up[k] \in Seq(D) /\ fs[k + 1] \in D
    BY <1>1, <1>11, <2>1
  <2>3. /\ Len(up[k]) = k + Len(list)
        /\ \A x \in 1 .. k : up[k][x] = fs[(k + 1) - x]
        /\ \A x \in 1 .. Len(list) : up[k][k + x] = list[x]
    BY <1>13, <2>1
  <2>4. /\ Len(up[k + 1]) = Len(up[k]) + 1 /\ up[k + 1][1] = fs[k + 1]
        /\ \A x \in 1 .. Len(up[k]) : up[k + 1][x + 1] = up[k][x]
    <3>1. HasPushed(up[k + 1], up[k], fs[k + 1])
      BY <2>2, PushOps
    <3> QED  BY <3>1 DEF HasPushed
  <2>5. Len(up[k + 1]) = (k + 1) + Len(list)
    BY <2>1, <2>3, <2>4
  <2>6. ASSUME NEW x \in 1 .. k + 1
        PROVE  up[k + 1][x] = fs[((k + 1) + 1) - x]
    <3>1. CASE x = 1
      BY <2>4, <3>1
    <3>2. CASE x # 1
      <4>1. x - 1 \in 1 .. k /\ x - 1 \in 1 .. Len(up[k]) /\ (x - 1) + 1 = x
        BY <2>1, <2>3, <3>2
      <4>2. up[k + 1][x] = up[k][x - 1]
        BY <2>4, <4>1
      <4>3. up[k][x - 1] = fs[(k + 1) - (x - 1)]
        BY <2>3, <4>1
      <4>4. (k + 1) - (x - 1) = ((k + 1) + 1) - x
        OBVIOUS
      <4> QED  BY <4>2, <4>3, <4>4
    <3> QED  BY <3>1, <3>2
  <2>7. ASSUME NEW x \in 1 .. Len(list)
        PROVE  up[k + 1][(k + 1) + x] = list[x]
    <3>1. k + x \in 1 .. Len(up[k]) /\ (k + x) + 1 = (k + 1) + x
      <4>1. Len(up[k]) = k + Len(list) /\ Len(list) \in Nat
        BY <2>1, <2>3
      <4> QED  BY <4>1
    <3>2. up[k + 1][(k + x) + 1] = up[k][k + x]
      BY <2>4, <3>1
    <3> QED  BY <2>3, <3>1, <3>2
  <2> QED  BY <2>5, <2>6, <2>7
<1>14. Pushed(n)
  <2>1. 0 \in S /\ \A k \in Nat : k \in S => k + 1 \in S
    <3> HIDE DEF Pushed
    <3> QED  BY <1>12, <1>13
  <2>2. \A k \in Nat : k \in S
    <3> HIDE DEF S
    <3> QED  BY <2>1, Induction
  <2> QED  BY <1>1, <2>2
<1>15. PushAll(list, fs) = up[n] /\ up[n] \in Seq(D) /\ n <= n
  <2> QED  BY <1>1, <1>2, <1>10 DEF FoldsUp
<1> QED  BY <1>0, <1>14, <1>15 DEF HasAll

-----------------------------------------------------------------------------
\* The inductive invariant.

\* What a coroutine does, whichever file it is in; the remainder is done one
\* operation after the other in every style.
Kind ==
  IF program = "coro_lookup" THEN IF InGroup THEN "lookup_read" ELSE "lookup"
  ELSE IF ~ InGroup THEN "normal"
  ELSE IF style = "coro_read" THEN "read"
  ELSE IF style = "coro_write" /\ program = "coro_insert" THEN "write"
  ELSE "full"

InsertKinds == {"normal", "full", "read", "write"}
LookupKinds == {"lookup", "lookup_read"}
Kinds == InsertKinds \union LookupKinds

Code ==
  [normal |-> <<"choose", "store", "fence", "use", "fence">>,
   full |-> <<"prefetch", "await", "choose", "prefetch", "await", "store", "await", "use">>,
   read |-> <<"prefetch", "await", "choose", "prefetch", "await", "store", "fence", "use", "fence">>,
   write |-> <<"choose", "store", "await", "use">>,
   lookup |-> <<"match", "compare">>,
   lookup_read |-> <<"prefetch", "await", "match", "prefetch", "await", "compare">>]

FencedRounds ==
  [normal |-> <<FALSE>>, full |-> <<FALSE, FALSE, TRUE, TRUE>>, read |-> <<FALSE, FALSE, FALSE>>,
   write |-> <<TRUE, TRUE>>, lookup |-> <<FALSE>>, lookup_read |-> <<FALSE, FALSE, FALSE>>]

\* Where in the coroutine its rounds begin, and its end.
Starts ==
  [normal |-> <<1, 6>>, full |-> <<1, 3, 6, 8, 9>>, read |-> <<1, 3, 6, 10>>,
   write |-> <<1, 4, 5>>, lookup |-> <<1, 3>>, lookup_read |-> <<1, 3, 6, 7>>]

LastOf == [normal |-> 1, full |-> 4, read |-> 3, write |-> 2, lookup |-> 1, lookup_read |-> 3]

\* Where the steps are that change something.
ChooseAt == [normal |-> 1, full |-> 3, read |-> 3, write |-> 1]
StoreAt == [normal |-> 2, full |-> 6, read |-> 6, write |-> 2]
UseAt == [normal |-> 4, full |-> 8, read |-> 8, write |-> 4]
MatchAt == [lookup |-> 1, lookup_read |-> 3]
CompareAt == [lookup |-> 2, lookup_read |-> 6]

Here == Starts[Kind][round]
There == Starts[Kind][round + 1]
LastRound == round = LastOf[Kind]

\* The members of a group that have run in a round are where the next round
\* begins, and the others where this round began.
PositionInv ==
  /\ round \in 1 .. LastOf[Kind] /\ g \in 0 .. Batch /\ running \in BOOLEAN
  /\ outcome \in {"going", "done", "crashed"}
  /\ at \in [Members -> 1 .. 10]
  /\ \A m \in Members :
       /\ m >= Batch => at[m] = 1
       /\ m < g => at[m] = There
       /\ m < Batch /\ (m > g \/ (m = g /\ ~ running)) => at[m] = Here
  /\ running => /\ g < Batch /\ i < OperationCount
                /\ Here <= at[g] /\ (at[g] < There \/ (LastRound /\ at[g] = There))
  /\ i = OperationCount => g = 0

\* What Init chooses; a group begins at a multiple of its size.
InputInv ==
  /\ <<program, style>> \in Tried
  /\ coroutine_count \in CoroutineCounts
  /\ i \in 0 .. OperationCount
  /\ operations \in [Operations -> [node : Nodes, key : Keys]]
  /\ InGroup => \E k \in 0 .. i : i = k * GROUP_SIZE
  /\ program = "coro_lookup" => \A op \in Operations : operations[op].key \in Slots
  /\ program # "coro_lookup" =>
       \A op \in Operations : /\ operations[op].key = op
                              /\ operations[op].node \in Insert!NodeOf(op)

\* A frame is in one place only.
Apart(list, used) ==
  /\ IsInjective(list) /\ IsInjective(used)
  /\ \A a \in DOMAIN list, b \in DOMAIN used : list[a] # used[b]

\* The frames a group has taken.
InUse == IF ~ InGroup THEN 0
         ELSE IF round > 1 THEN GROUP_SIZE
         ELSE IF running THEN g + 1 ELSE g

FramesInv ==
  /\ frames \in Seq(1 .. coroutine_count) /\ free_list \in Seq(1 .. coroutine_count)
  /\ Len(free_list) + Len(frames) = coroutine_count
  /\ Apart(free_list, frames)
  /\ Len(frames) = InUse
  /\ outcome = "crashed" => Empty(free_list) /\ coroutine_count < GROUP_SIZE

\* The members of the batch, and the node and the key of each.
Current == {m \in Members : m < Batch /\ i < OperationCount}
NodeFor(m) == operations[i + m].node
KeyFor(m) == operations[i + m].key

Chosen(m) == at[m] > ChooseAt[Kind]
Stored(m) == at[m] > StoreAt[Kind]
Used(m) == at[m] > UseAt[Kind]

\* A fence has come after the entry was stored,
Safe(m) ==
  \/ Kind = "normal" /\ at[m] > 3
  \/ Kind = "read" /\ at[m] > 7
  \/ Kind = "full" /\ round > 3
  \/ Kind = "write" /\ round > 1

\* ... and after the slot was marked as used.
Finished(m) ==
  \/ Kind = "normal" /\ at[m] > 5
  \/ Kind = "read" /\ at[m] > 9

\* How far an insert has got in its node, from the contents before it on.
HeadFrom(before) == ResetWhenFull(before.head, Reset)

IsFresh(node, before) ==
  node.head.vol = before.head /\ \A s \in Slots : node.entries[s].vol = before.entries[s]

IsChosen(node, before) ==
  node.head.vol = HeadFrom(before) /\ \A s \in Slots : node.entries[s].vol = before.entries[s]

IsStored(node, before, sl, key) ==
  /\ node.head.fen = node.head.vol
  /\ node.entries[sl].vol = key
  /\ \A s \in Slots : s # sl => node.entries[s].vol = before.entries[s]

IsMarked(node, before, sl, key) == node.head.vol = WithFingerprint(HeadFrom(before), sl, key)

IsSafe(node, sl, key) ==
  Stable(node.entries[sl]) /\ node.head.dur.fingerprints[sl] = FingerprintHash(key)

IsUsed(node, before, key) == node.head.vol = NormalInsert(before, key, Reset).head

MemberInv(m) ==
  LET node == nodes[NodeFor(m)]
      before == normal_nodes[NodeFor(m)]
  IN /\ ~ Chosen(m) => IsFresh(node, before)
     /\ Chosen(m) => slot[m] = SlotFor(before.head)
     /\ Chosen(m) /\ ~ Stored(m) => IsChosen(node, before)
     /\ Stored(m) => IsStored(node, before, slot[m], KeyFor(m))
     /\ Stored(m) /\ ~ Used(m) => IsMarked(node, before, slot[m], KeyFor(m))
     /\ Stored(m) /\ Safe(m) => IsSafe(node, slot[m], KeyFor(m))
     /\ Used(m) => IsUsed(node, before, KeyFor(m))
     /\ Finished(m) => Stable(node.head)

\* The entry a failure may still take.
Waits(n, s) == \E m \in Current : NodeFor(m) = n /\ slot[m] = s /\ Stored(m) /\ ~ Safe(m)

EntriesInv(n) ==
  \A s \in Slots : /\ nodes[n].entries[s].fen = nodes[n].entries[s].vol
                   /\ ~ Waits(n, s) => Stable(nodes[n].entries[s])

\* A node the batch has not come to yet is as it was after the last one.
Untouched(n) == \A m \in Current : NodeFor(m) = n => ~ Chosen(m)

NodeInv(n) ==
  Untouched(n) =>
    /\ IsFresh(nodes[n], normal_nodes[n])
    /\ (\E op \in 0 .. i - 1 : operations[op].node = n) => Stable(nodes[n].head)

\* In coro_insert.cpp a fingerprint is durable before its slot is used, and
\* no fingerprint of a used slot is changed.
KeepsEntry(node, s) ==
  HoldsKey(node, s) =>
    LET hash == FingerprintHash(node.entries[s].vol)
    IN /\ Stable(node.entries[s])
       /\ node.head.vol.fingerprints[s] = hash
       /\ node.head.fen.fingerprints[s] = hash
       /\ node.head.dur.fingerprints[s] = hash

InsertInv ==
  /\ sum = 0
  /\ \A m \in Current : MemberInv(m)
  /\ \A n \in Nodes : EntriesInv(n) /\ NodeInv(n)
  /\ program = "coro_insert" => \A n \in Nodes, s \in Slots : KeepsEntry(nodes[n], s)

\* The lookups that have compared, in the order of their numbers.
SumOfKeys(n) == Lookup!Expected(operations, n)
Compared == IF running /\ at[g] > CompareAt[Kind] THEN g + 1
            ELSE IF Here > CompareAt[Kind] THEN Batch
            ELSE IF There > CompareAt[Kind] THEN g ELSE 0

LookupInv ==
  /\ nodes = [n \in Nodes |-> Lookup!Initialize]
  /\ normal_nodes = [n \in Nodes |-> Contents(Lookup!Initialize)]
  /\ \A m \in Current : at[m] > MatchAt[Kind] => slot[m] = KeyFor(m)
  /\ sum = SumOfKeys(i + Compared)

TypeInv ==
  /\ nodes \in [Nodes -> NodeSet] /\ normal_nodes \in [Nodes -> ContentSet]
  /\ slot \in [Members -> Slots]

IInv ==
  /\ InputInv /\ PositionInv /\ FramesInv /\ TypeInv
  /\ program # "coro_lookup" => InsertInv
  /\ program = "coro_lookup" => LookupInv

-----------------------------------------------------------------------------
\* The tables of the coroutines, and the batch they belong to.

(* The tables: a coroutine awaits where a round ends, unless it is its     *)
(* last, and takes every step that changes something once.                 *)
LEMMA Tables ==
  ASSUME NEW k \in Kinds
  PROVE  /\ LastOf[k] \in 1 .. 4 /\ Len(FencedRounds[k]) = LastOf[k]
         /\ Len(Code[k]) \in 2 .. 9 /\ Starts[k][1] = 1
         /\ Starts[k][LastOf[k] + 1] = Len(Code[k]) + 1
         /\ \A r \in 1 .. LastOf[k] :
              /\ Starts[k][r] \in 1 .. 9 /\ Starts[k][r + 1] \in 1 .. 10
              /\ Starts[k][r] < Starts[k][r + 1]
              /\ \A p \in Starts[k][r] .. Starts[k][r + 1] - 1 :
                   /\ p \in 1 .. Len(Code[k])
                   /\ Code[k][p] = "await" <=> p + 1 = Starts[k][r + 1] /\ r # LastOf[k]
<1>1. CASE k = "normal"
  BY <1>1 DEF LastOf, FencedRounds, Code, Starts
<1>2. CASE k = "full"
  BY <1>2 DEF LastOf, FencedRounds, Code, Starts
<1>3. CASE k = "read"
  BY <1>3 DEF LastOf, FencedRounds, Code, Starts
<1>4. CASE k = "write"
  BY <1>4 DEF LastOf, FencedRounds, Code, Starts
<1>5. CASE k = "lookup"
  BY <1>5 DEF LastOf, FencedRounds, Code, Starts
<1>6. CASE k = "lookup_read"
  BY <1>6 DEF LastOf, FencedRounds, Code, Starts
<1> QED  BY <1>1, <1>2, <1>3, <1>4, <1>5, <1>6 DEF Kinds, InsertKinds, LookupKinds

(* Where the steps of an insert are,                                       *)
LEMMA InsertTables ==
  ASSUME NEW k \in InsertKinds, NEW p \in 1 .. Len(Code[k])
  PROVE  /\ Code[k][p] = "choose" <=> p = ChooseAt[k]
         /\ Code[k][p] = "store" <=> p = StoreAt[k]
         /\ Code[k][p] = "use" <=> p = UseAt[k]
         /\ Code[k][p] = "fence" <=> \/ k = "normal" /\ p \in {3, 5}
                                     \/ k = "read" /\ p \in {7, 9}
         /\ Code[k][p] \notin {"match", "compare"}
         /\ ChooseAt[k] \in 1 .. 9 /\ StoreAt[k] \in 1 .. 9 /\ UseAt[k] \in 1 .. 9
         /\ ChooseAt[k] < StoreAt[k] /\ StoreAt[k] < UseAt[k] /\ UseAt[k] <= Len(Code[k])
<1>1. CASE k = "normal"
  BY <1>1 DEF Code, ChooseAt, StoreAt, UseAt
<1>2. CASE k = "full"
  BY <1>2 DEF Code, ChooseAt, StoreAt, UseAt
<1>3. CASE k = "read"
  BY <1>3 DEF Code, ChooseAt, StoreAt, UseAt
<1>4. CASE k = "write"
  BY <1>4 DEF Code, ChooseAt, StoreAt, UseAt
<1> QED  BY <1>1, <1>2, <1>3, <1>4 DEF InsertKinds

(* ... and of a lookup.                                                    *)
LEMMA LookupTables ==
  ASSUME NEW k \in LookupKinds, NEW p \in 1 .. Len(Code[k])
  PROVE  /\ Code[k][p] = "match" <=> p = MatchAt[k]
         /\ Code[k][p] = "compare" <=> p = CompareAt[k]
         /\ Code[k][p] \notin {"choose", "store", "use", "fence"}
         /\ MatchAt[k] \in 1 .. 9 /\ CompareAt[k] \in 1 .. 9
         /\ MatchAt[k] < CompareAt[k] /\ CompareAt[k] = Len(Code[k])
         /\ \A r \in 1 .. LastOf[k] : /\ Starts[k][r] <= CompareAt[k]
                                      /\ Starts[k][r + 1] > CompareAt[k] <=> r = LastOf[k]
<1>1. CASE k = "lookup"
  BY <1>1 DEF Code, MatchAt, CompareAt, LastOf, Starts
<1>2. CASE k = "lookup_read"
  BY <1>2 DEF Code, MatchAt, CompareAt, LastOf, Starts
<1> QED  BY <1>1, <1>2 DEF LookupKinds

(* The rounds that end with a fence.                                       *)
LEMMA FenceTables ==
  ASSUME NEW k \in Kinds, NEW r \in 1 .. LastOf[k]
  PROVE  FencedRounds[k][r] <=> (k = "full" /\ r > 2) \/ k = "write"
<1>0. LastOf[k] \in 1 .. 4 /\ r \in {1, 2, 3, 4}
  BY Tables
<1>1. CASE k = "normal"
  <2>1. r = 1
    BY <1>1 DEF LastOf
  <2> QED  BY <1>1, <2>1 DEF FencedRounds
<1>2. CASE k = "full"
  <2>1. CASE r = 1
    BY <1>2, <2>1 DEF FencedRounds
  <2>2. CASE r = 2
    BY <1>2, <2>2 DEF FencedRounds
  <2>3. CASE r = 3
    BY <1>2, <2>3 DEF FencedRounds
  <2>4. CASE r = 4
    BY <1>2, <2>4 DEF FencedRounds
  <2> QED  BY <1>0, <2>1, <2>2, <2>3, <2>4
<1>3. CASE k = "read"
  <2>0. r \in {1, 2, 3}
    BY <1>3 DEF LastOf
  <2>1. CASE r = 1
    BY <1>3, <2>1 DEF FencedRounds
  <2>2. CASE r = 2
    BY <1>3, <2>2 DEF FencedRounds
  <2>3. CASE r = 3
    BY <1>3, <2>3 DEF FencedRounds
  <2> QED  BY <2>0, <2>1, <2>2, <2>3
<1>4. CASE k = "write"
  <2>0. r \in {1, 2}
    BY <1>4 DEF LastOf
  <2>1. CASE r = 1
    BY <1>4, <2>1 DEF FencedRounds
  <2>2. CASE r = 2
    BY <1>4, <2>2 DEF FencedRounds
  <2> QED  BY <2>0, <2>1, <2>2
<1>5. CASE k = "lookup"
  <2>1. r = 1
    BY <1>5 DEF LastOf
  <2> QED  BY <1>5, <2>1 DEF FencedRounds
<1>6. CASE k = "lookup_read"
  <2>0. r \in {1, 2, 3}
    BY <1>6 DEF LastOf
  <2>1. CASE r = 1
    BY <1>6, <2>1 DEF FencedRounds
  <2>2. CASE r = 2
    BY <1>6, <2>2 DEF FencedRounds
  <2>3. CASE r = 3
    BY <1>6, <2>3 DEF FencedRounds
  <2> QED  BY <2>0, <2>1, <2>2, <2>3
<1> QED  BY <1>1, <1>2, <1>3, <1>4, <1>5, <1>6 DEF Kinds, InsertKinds, LookupKinds

(* Every style of every program is one of the kinds.                       *)
LEMMA KindOfBatch ==
  ASSUME InputInv
  PROVE  /\ program = "coro_lookup" => Kind \in LookupKinds
         /\ program # "coro_lookup" => Kind \in InsertKinds
         /\ Kind \in Kinds
         /\ Kind \in {"normal", "lookup"} <=> ~ InGroup
         /\ Coroutine = Code[Kind] /\ Rounds = FencedRounds[Kind]
<1>1. <<program, style>> \in Programs
  BY CoroutineTreeAssumption DEF CoroutineTreeAssumption, InputInv
<1>2. /\ program \in {"coro_insert", "reuse", "coro_lookup"} /\ style \in Styles
      /\ program = "coro_lookup" => style \in {"scalar", "coro_read"}
  BY <1>1 DEF Programs, Styles
<1>3. InGroup => style # "scalar"
  BY DEF InGroup
<1>4. CASE program = "coro_insert"
  <2>1. CASE ~ InGroup
    BY <1>2, <1>4, <2>1 DEF Kind, Kinds, InsertKinds, LookupKinds, Coroutine, Rounds, StyleOfBatch,
       Code, FencedRounds, Insert!Coroutines, Insert!Drivers, Insert!Node_Insert_Normal, Insert!DoInsertsNormal
  <2>2. CASE InGroup
    <3>1. CASE style = "coro_full"
      <4>1. Kind = "full" /\ StyleOfBatch = "coro_full"
        BY <1>4, <2>2, <3>1 DEF Kind, StyleOfBatch
      <4> QED  BY <1>4, <2>2, <4>1 DEF Kinds, InsertKinds, LookupKinds, Coroutine, Rounds,
        Code, FencedRounds, Insert!Coroutines, Insert!Drivers, Insert!Node_InsertCoroFull, Insert!DoInsertsCoroFull
    <3>2. CASE style = "coro_read"
      <4>1. Kind = "read" /\ StyleOfBatch = "coro_read"
        BY <1>4, <2>2, <3>2 DEF Kind, StyleOfBatch
      <4> QED  BY <1>4, <2>2, <4>1 DEF Kinds, InsertKinds, LookupKinds, Coroutine, Rounds,
        Code, FencedRounds, Insert!Coroutines, Insert!Drivers, Insert!Node_InsertCoroRead, Insert!DoInsertsCoroRead
    <3>3. CASE style = "coro_write"
      <4>1. Kind = "write" /\ StyleOfBatch = "coro_write"
        BY <1>4, <2>2, <3>3 DEF Kind, StyleOfBatch
      <4> QED  BY <1>4, <2>2, <4>1 DEF Kinds, InsertKinds, LookupKinds, Coroutine, Rounds,
        Code, FencedRounds, Insert!Coroutines, Insert!Drivers, Insert!Node_InsertCoroWrite, Insert!DoInsertsCoroWrite
    <3> QED  BY <1>2, <1>3, <2>2, <3>1, <3>2, <3>3 DEF Styles
  <2> QED  BY <2>1, <2>2
<1>5. CASE program = "reuse"
  <2>1. CASE ~ InGroup
    BY <1>2, <1>5, <2>1 DEF Kind, Kinds, InsertKinds, LookupKinds, Coroutine, Rounds, StyleOfBatch,
       Code, FencedRounds, Reuse!Coroutines, Reuse!Drivers, Reuse!Node_Insert_Normal, Reuse!DoInsertsNormal
  <2>2. CASE InGroup
    <3>1. CASE style = "coro_full"
      <4>1. Kind = "full" /\ StyleOfBatch = "coro_full"
        BY <1>5, <2>2, <3>1 DEF Kind, StyleOfBatch
      <4> QED  BY <1>5, <2>2, <4>1 DEF Kinds, InsertKinds, LookupKinds, Coroutine, Rounds,
        Code, FencedRounds, Reuse!Coroutines, Reuse!Drivers, Reuse!Node_InsertCoroFull, Reuse!DoInsertsCoroFull
    <3>2. CASE style = "coro_read"
      <4>1. Kind = "read" /\ StyleOfBatch = "coro_read"
        BY <1>5, <2>2, <3>2 DEF Kind, StyleOfBatch
      <4> QED  BY <1>5, <2>2, <4>1 DEF Kinds, InsertKinds, LookupKinds, Coroutine, Rounds,
        Code, FencedRounds, Reuse!Coroutines, Reuse!Drivers, Reuse!Node_InsertCoroRead, Reuse!DoInsertsCoroRead
    <3>3. CASE style = "coro_write"
      <4>1. Kind = "full" /\ StyleOfBatch = "coro_write"
        BY <1>5, <2>2, <3>3 DEF Kind, StyleOfBatch
      <4> QED  BY <1>5, <2>2, <4>1 DEF Kinds, InsertKinds, LookupKinds, Coroutine, Rounds,
        Code, FencedRounds, Reuse!Coroutines, Reuse!Drivers, Reuse!Node_InsertCoroWrite, Reuse!DoInsertsCoroWrite
    <3> QED  BY <1>2, <1>3, <2>2, <3>1, <3>2, <3>3 DEF Styles
  <2> QED  BY <2>1, <2>2
<1>6. CASE program = "coro_lookup"
  <2>1. CASE ~ InGroup
    <3>1. Kind = "lookup" /\ StyleOfBatch = "scalar"
      BY <1>6, <2>1 DEF Kind, StyleOfBatch
    <3> QED  BY <1>6, <2>1, <3>1 DEF Kinds, InsertKinds, LookupKinds, Coroutine, Rounds,
      Code, FencedRounds, Lookup!Coroutines, Lookup!Drivers, Lookup!Node_Lookup_Normal, Lookup!DoLookupNormal
  <2>2. CASE InGroup
    <3>1. Kind = "lookup_read" /\ StyleOfBatch = "coro_read"
      BY <1>2, <1>3, <1>6, <2>2 DEF Kind, StyleOfBatch
    <3> QED  BY <1>6, <2>2, <3>1 DEF Kinds, InsertKinds, LookupKinds, Coroutine, Rounds,
      Code, FencedRounds, Lookup!Coroutines, Lookup!Drivers, Lookup!Node_LookupCoroRead, Lookup!DoLookupCoroRead
  <2> QED  BY <2>1, <2>2
<1> QED  BY <1>2, <1>4, <1>5, <1>6

(* A batch is a group or a single operation, and its operations are there. *)
LEMMA BatchOps ==
  ASSUME InputInv
  PROVE  /\ GROUP_SIZE \in Nat \ {0} /\ NODE_COUNT \in Nat /\ OperationCount \in Nat
         /\ Members = 0 .. GROUP_SIZE - 1 /\ i \in 0 .. OperationCount
         /\ Batch \in 1 .. GROUP_SIZE
         /\ InGroup => Batch = GROUP_SIZE /\ i < OperationCount
         /\ ~ InGroup => Batch = 1
         /\ i < OperationCount => i + Batch <= OperationCount
         /\ \A m \in Members : m \in Nat /\ m < GROUP_SIZE
         /\ \A m \in Current : m \in Members /\ m < Batch /\ i < OperationCount
<1>1. /\ GROUP_SIZE \in Nat \ {0} /\ NODE_COUNT \in Nat /\ OperationCount \in Nat
      /\ i \in 0 .. OperationCount
  BY CoroutineTreeAssumption DEF CoroutineTreeAssumption, InputInv
<1>2. Members = 0 .. GROUP_SIZE - 1 /\ \A m \in Members : m \in Nat /\ m < GROUP_SIZE
  BY <1>1 DEF Members
<1>3. InGroup => i + GROUP_SIZE - 1 < OperationCount
  BY DEF InGroup
<1>4. /\ Batch \in 1 .. GROUP_SIZE
      /\ InGroup => Batch = GROUP_SIZE /\ i < OperationCount
      /\ ~ InGroup => Batch = 1
      /\ i < OperationCount => i + Batch <= OperationCount
  BY <1>1, <1>3 DEF Batch
<1> QED  BY <1>1, <1>2, <1>4 DEF Current

(* The operation of a member of the batch.                                 *)
LEMMA CurrentOps ==
  ASSUME InputInv, NEW m \in Current
  PROVE  /\ i + m \in Operations /\ m \in Members /\ m \in Nat
         /\ NodeFor(m) \in Nodes /\ KeyFor(m) \in Keys
         /\ program # "coro_lookup" => KeyFor(m) = i + m /\ NodeFor(m) \in Insert!NodeOf(i + m)
         /\ program = "coro_lookup" => KeyFor(m) \in Slots
<1>1. /\ m \in Members /\ m \in Nat /\ m < Batch /\ i < OperationCount /\ i + Batch <= OperationCount
      /\ i \in Nat /\ Batch \in Nat /\ OperationCount \in Nat
  BY BatchOps
<1>2. i + m \in Operations
  BY <1>1 DEF Operations
<1>3. operations[i + m] \in [node : Nodes, key : Keys]
  BY <1>2 DEF InputInv
<1>4. /\ program # "coro_lookup" => KeyFor(m) = i + m /\ NodeFor(m) \in Insert!NodeOf(i + m)
      /\ program = "coro_lookup" => KeyFor(m) \in Slots
  BY <1>2 DEF InputInv, NodeFor, KeyFor
<1> QED  BY <1>1, <1>2, <1>3, <1>4 DEF NodeFor, KeyFor

(* A multiple of the group size more leaves the same member.               *)
LEMMA MemberOf ==
  ASSUME NEW s \in Nat \ {0}, NEW k \in Nat, NEW m \in 0 .. s - 1
  PROVE  (k * s + m) % s = m
<1>1. k * s \in Nat
  OBVIOUS
<1> DEFINE x == k * s + m
           q == x \div s
           r == x % s
<1>2. x \in Nat /\ q \in Nat /\ r \in 0 .. s - 1 /\ x = q * s + r
  BY <1>1
<1>3. PICK y \in Nat, d \in Nat, e \in 0 .. s - 1 : y = x /\ d = q /\ e = r /\ k * s + m = d * s + e
  <2> HIDE DEF q, r
  <2> QED  BY <1>2
<1>4. d = k
  <2>1. CASE d < k
    <3>1. PICK c \in Nat : k = d + 1 + c
      <4>1. k - (d + 1) \in Nat /\ k = d + 1 + (k - (d + 1))
        BY <2>1
      <4> QED  BY <4>1
    <3>2. k * s = d * s + s + c * s /\ c * s \in Nat /\ d * s \in Nat
      BY <3>1
    <3> QED  BY <1>3, <3>2
  <2>2. CASE k < d
    <3>1. PICK c \in Nat : d = k + 1 + c
      <4>1. d - (k + 1) \in Nat /\ d = k + 1 + (d - (k + 1))
        BY <2>2
      <4> QED  BY <4>1
    <3>2. d * s = k * s + s + c * s /\ c * s \in Nat /\ k * s \in Nat
      BY <3>1
    <3> QED  BY <1>3, <3>2
  <2> QED  BY <2>1, <2>2
<1>5. e = m
  BY <1>1, <1>3, <1>4
<1> QED  BY <1>3, <1>5

(* The nodes of two members of a group are different: every member has its *)
(* own part of them.                                                       *)
LEMMA NodesDiffer ==
  ASSUME InputInv, program # "coro_lookup", NEW m \in Current, NEW o \in Current, m # o
  PROVE  NodeFor(m) # NodeFor(o)
<1>1. InGroup /\ m \in Members /\ o \in Members /\ m \in Nat /\ o \in Nat
  BY BatchOps
<1>2. PICK k \in 0 .. i : i = k * GROUP_SIZE
  BY <1>1 DEF InputInv
<1>3. (i + m) % GROUP_SIZE = m /\ (i + o) % GROUP_SIZE = o
  <2>1. k \in Nat /\ GROUP_SIZE \in Nat \ {0} /\ m \in 0 .. GROUP_SIZE - 1 /\ o \in 0 .. GROUP_SIZE - 1
    BY <1>1, BatchOps
  <2>2. (k * GROUP_SIZE + m) % GROUP_SIZE = m /\ (k * GROUP_SIZE + o) % GROUP_SIZE = o
    BY <2>1, MemberOf
  <2> QED  BY <1>2, <2>2
<1>4. PICK b \in Nat : b = NODE_COUNT \div GROUP_SIZE
  <2>1. NODE_COUNT \div GROUP_SIZE \in Nat
    BY BatchOps
  <2> QED  BY <2>1
<1>5. NodeFor(m) \in b * m .. b * (m + 1) - 1 /\ NodeFor(o) \in b * o .. b * (o + 1) - 1
  BY <1>3, <1>4, CurrentOps DEF Insert!NodeOf
<1>6. ASSUME NEW x \in Nat, NEW y \in Nat, x < y
      PROVE  b * (x + 1) <= b * y
  <2>1. PICK c \in Nat : y = (x + 1) + c
    <3>1. y - (x + 1) \in Nat /\ y = (x + 1) + (y - (x + 1))
      BY <1>6
    <3> QED  BY <3>1
  <2>2. b * y = b * (x + 1) + b * c /\ b * c \in Nat /\ b * (x + 1) \in Nat
    BY <2>1
  <2> QED  BY <2>2
<1>7. /\ m < o => b * (m + 1) <= b * o
      /\ o < m => b * (o + 1) <= b * m
  BY <1>1, <1>6
<1>8. b * m \in Nat /\ b * (m + 1) \in Nat /\ b * o \in Nat /\ b * (o + 1) \in Nat
  BY <1>1
<1>9. CASE m < o
  BY <1>5, <1>7, <1>8, <1>9
<1>10. CASE o < m
  BY <1>5, <1>7, <1>8, <1>10
<1> QED  BY <1>1, <1>9, <1>10

(* What is left as it is while a batch is done.                            *)
SameBatch == UNCHANGED <<input_vars, i>>

LEMMA SameBatchOps ==
  ASSUME InputInv, SameBatch
  PROVE  /\ InputInv'
         /\ program' = program /\ style' = style /\ operations' = operations /\ i' = i
         /\ coroutine_count' = coroutine_count
         /\ Kind' = Kind /\ InGroup' = InGroup /\ Batch' = Batch /\ Current' = Current
         /\ \A m \in Members : NodeFor(m)' = NodeFor(m) /\ KeyFor(m)' = KeyFor(m)
<1> USE DEF SameBatch, input_vars
<1>1. InGroup' = InGroup
  BY DEF InGroup
<1>2. Batch' = Batch
  BY <1>1 DEF Batch
<1>3. Kind' = Kind
  BY <1>1 DEF Kind
<1>4. Current' = Current
  BY <1>2 DEF Current
<1>5. InputInv'
  BY <1>1 DEF InputInv
<1> QED  BY <1>1, <1>2, <1>3, <1>4, <1>5 DEF NodeFor, KeyFor

-----------------------------------------------------------------------------
\* Where the members of a batch are.

(* Where the rounds of this batch begin.                                   *)
LEMMA RoundOps ==
  ASSUME InputInv, PositionInv
  PROVE  /\ Kind \in Kinds /\ LastOf[Kind] \in 1 .. 4 /\ round \in 1 .. LastOf[Kind]
         /\ Len(Rounds) = LastOf[Kind] /\ Len(Coroutine) = Len(Code[Kind])
         /\ Len(Code[Kind]) \in 2 .. 9
         /\ Here \in 1 .. 9 /\ There \in 1 .. 10 /\ Here < There
         /\ LastRound => There = Len(Code[Kind]) + 1
         /\ \A p \in Here .. There - 1 :
              /\ p \in 1 .. Len(Code[Kind])
              /\ Code[Kind][p] = "await" <=> p + 1 = There /\ ~ LastRound
         /\ round = 1 => Here = 1
<1>1. Kind \in Kinds /\ round \in 1 .. LastOf[Kind]
  BY KindOfBatch DEF PositionInv
<1>2. Coroutine = Code[Kind] /\ Rounds = FencedRounds[Kind]
  BY KindOfBatch
<1> QED  BY <1>1, <1>2, Tables DEF Here, There, LastRound

(* Where a coroutine is that takes a step.                                 *)
LEMMA DoesOps ==
  ASSUME InputInv, PositionInv, NEW step, Does(step)
  PROVE  /\ outcome = "going" /\ running /\ g \in Current /\ g \in Members /\ g \in Nat
         /\ g < Batch /\ i < OperationCount
         /\ at[g] \in 1 .. Len(Code[Kind]) /\ Code[Kind][at[g]] = step
         /\ Here <= at[g] /\ at[g] < There
         /\ step = "await" => at[g] + 1 = There /\ ~ LastRound
         /\ step # "await" => at[g] + 1 < There \/ (LastRound /\ at[g] + 1 = There)
<1>1. /\ outcome = "going" /\ running /\ at[g] <= Len(Code[Kind]) /\ Code[Kind][at[g]] = step
  BY KindOfBatch DEF Does
<1>2. g < Batch /\ i < OperationCount /\ g \in 0 .. Batch
  BY <1>1 DEF PositionInv
<1>3. g \in Members /\ g \in Current /\ g \in Nat
  BY <1>2, BatchOps DEF Current
<1>4. at[g] \in 1 .. 10
  BY <1>3 DEF PositionInv
<1>5. Here <= at[g] /\ (at[g] < There \/ (LastRound /\ at[g] = There))
  BY <1>1 DEF PositionInv
<1>6. at[g] < There /\ at[g] \in Here .. There - 1
  <2>1. /\ LastRound => There = Len(Code[Kind]) + 1
        /\ Len(Code[Kind]) \in 2 .. 9 /\ Here \in 1 .. 9 /\ There \in 1 .. 10
    BY RoundOps
  <2>2. at[g] < There
    BY <1>1, <1>4, <1>5, <2>1
  <2> QED  BY <1>4, <1>5, <2>1, <2>2
<1>7. /\ at[g] \in 1 .. Len(Code[Kind])
      /\ step = "await" <=> at[g] + 1 = There /\ ~ LastRound
  BY <1>1, <1>6, RoundOps
<1>8. /\ step = "await" => at[g] + 1 = There /\ ~ LastRound
      /\ step # "await" => at[g] + 1 < There \/ (LastRound /\ at[g] + 1 = There)
  BY <1>4, <1>6, <1>7, RoundOps
<1> QED  BY <1>1, <1>2, <1>3, <1>5, <1>6, <1>7, <1>8

(* A step before the next suspension moves one coroutine on.               *)
LEMMA PositionGoesOn ==
  ASSUME InputInv, PositionInv, NEW step, step # "await", Does(step), GoOn,
         SameBatch, UNCHANGED <<round, g, running>>, outcome' \in {"going", "crashed"}
  PROVE  PositionInv'
<1>1. Kind' = Kind /\ Batch' = Batch /\ i' = i
  BY SameBatchOps
<1>2. /\ g \in Members /\ g \in Nat /\ at[g] \in 1 .. Len(Code[Kind])
      /\ g < Batch /\ running
      /\ Here <= at[g] /\ at[g] < There
      /\ at[g] + 1 < There \/ (LastRound /\ at[g] + 1 = There)
  BY DoesOps
<1>3. Here' = Here /\ There' = There /\ LastRound' = LastRound
  BY <1>1 DEF Here, There, LastRound
<1>4. Len(Code[Kind]) \in 2 .. 9 /\ Here \in 1 .. 9 /\ There \in 1 .. 10
  BY RoundOps
<1>5. at' = [at EXCEPT ![g] = @ + 1] /\ at \in [Members -> 1 .. 10]
  BY DEF GoOn, PositionInv
<1>6. at' \in [Members -> 1 .. 10] /\ at'[g] = at[g] + 1 /\ \A m \in Members : m # g => at'[m] = at[m]
  <2>1. at[g] + 1 \in 1 .. 10
    BY <1>2, <1>4
  <2> QED  BY <1>2, <1>5, <2>1
<1>7. Here <= at'[g] /\ (at'[g] < There \/ (LastRound /\ at'[g] = There))
  BY <1>2, <1>4, <1>6
<1>8. ASSUME NEW m \in Members
      PROVE  /\ m >= Batch => at'[m] = 1
             /\ m < g => at'[m] = There
             /\ m < Batch /\ (m > g \/ (m = g /\ ~ running)) => at'[m] = Here
  <2>1. m \in Nat /\ Batch \in Nat
    BY BatchOps
  <2>2. CASE m = g
    BY <1>2, <2>1, <2>2
  <2>3. CASE m # g
    BY <1>6, <2>3 DEF PositionInv
  <2> QED  BY <2>2, <2>3
<1> QED  BY <1>1, <1>3, <1>6, <1>7, <1>8 DEF PositionInv

(* A coroutine awaits or returns: the next member's turn.                  *)
LEMMA PositionGivesBack ==
  ASSUME InputInv, PositionInv, Await \/ Return
  PROVE  PositionInv'
<1>1. SameBatch /\ round' = round /\ running' = FALSE /\ g' = g + 1 /\ outcome' = outcome
  BY DEF Await, Return, SameBatch
<1>2. Kind' = Kind /\ Batch' = Batch /\ i' = i
  BY <1>1, SameBatchOps
<1>3. Here' = Here /\ There' = There /\ LastRound' = LastRound
  BY <1>1, <1>2 DEF Here, There, LastRound
<1>4. at \in [Members -> 1 .. 10] /\ Here \in 1 .. 9 /\ There \in 1 .. 10
  BY RoundOps DEF PositionInv
<1>5. running /\ g < Batch /\ i < OperationCount /\ g \in Members /\ g \in Nat
  <2>1. running
    BY DEF Await, Return, Does
  <2>2. g < Batch /\ i < OperationCount /\ g \in 0 .. Batch
    BY <2>1 DEF PositionInv
  <2>3. Batch \in 1 .. GROUP_SIZE /\ Members = 0 .. GROUP_SIZE - 1 /\ GROUP_SIZE \in Nat
    BY BatchOps
  <2> QED  BY <2>1, <2>2, <2>3
<1>6. at' \in [Members -> 1 .. 10] /\ at'[g] = There /\ \A m \in Members : m # g => at'[m] = at[m]
  <2>1. CASE Await
    <3>1. Does("await") /\ at' = [at EXCEPT ![g] = @ + 1]
      BY <2>1 DEF Await, GoOn
    <3>2. at[g] + 1 = There
      BY <3>1, DoesOps
    <3> QED  BY <1>4, <1>5, <3>1, <3>2
  <2>2. CASE Return
    <3>1. at' = at /\ at[g] > Len(Code[Kind])
      BY <2>2, RoundOps DEF Return
    <3>2. Here <= at[g] /\ (at[g] < There \/ (LastRound /\ at[g] = There))
      BY <1>5 DEF PositionInv
    <3>3. at[g] \in 1 .. 10 /\ \A p \in Here .. There - 1 : p \in 1 .. Len(Code[Kind])
      BY <1>4, <1>5, RoundOps
    <3>4. at[g] = There
      <4>1. Len(Code[Kind]) \in 2 .. 9
        BY RoundOps
      <4> QED  BY <1>4, <3>1, <3>2, <3>3, <4>1
    <3> QED  BY <1>4, <3>1, <3>4
  <2> QED  BY <2>1, <2>2
<1>7. ASSUME NEW m \in Members
      PROVE  /\ m >= Batch => at'[m] = 1
             /\ m < g + 1 => at'[m] = There
             /\ m < Batch /\ (m > g + 1 \/ (m = g + 1 /\ ~ running')) => at'[m] = Here
  <2>1. m \in Nat /\ Batch \in Nat
    BY BatchOps
  <2>2. CASE m = g
    BY <1>5, <1>6, <2>1, <2>2
  <2>3. CASE m # g
    BY <1>5, <1>6, <2>1, <2>3 DEF PositionInv
  <2> QED  BY <2>2, <2>3
<1>8. g + 1 \in 0 .. Batch
  BY <1>5, BatchOps
<1>9. running' = FALSE /\ i' # OperationCount
  BY <1>1, <1>2, <1>5, BatchOps
<1>10. round' \in 1 .. LastOf[Kind]' /\ outcome' \in {"going", "done", "crashed"}
  BY <1>1, <1>2 DEF PositionInv
<1> QED  BY <1>1, <1>2, <1>3, <1>6, <1>7, <1>8, <1>9, <1>10 DEF PositionInv

(* The loop of a round resumes the next coroutine.                         *)
LEMMA PositionResumes ==
  ASSUME InputInv, PositionInv, Resume
  PROVE  PositionInv'
<1>1. /\ SameBatch /\ round' = round /\ running' = TRUE /\ g' = g /\ outcome' = outcome /\ at' = at
      /\ ~ running /\ g < Batch /\ i < OperationCount
  BY DEF Resume, SameBatch
<1>2. Kind' = Kind /\ Batch' = Batch /\ i' = i
  BY <1>1, SameBatchOps
<1>3. Here' = Here /\ There' = There /\ LastRound' = LastRound
  BY <1>1, <1>2 DEF Here, There, LastRound
<1>4. g \in Members /\ g \in Nat
  <2>1. g \in 0 .. Batch
    BY DEF PositionInv
  <2>2. Batch \in 1 .. GROUP_SIZE /\ Members = 0 .. GROUP_SIZE - 1 /\ GROUP_SIZE \in Nat
    BY BatchOps
  <2> QED  BY <1>1, <2>1, <2>2
<1>5. at[g] = Here /\ Here \in 1 .. 9 /\ There \in 1 .. 10 /\ Here < There
  BY <1>1, <1>4, RoundOps DEF PositionInv
<1>6. i # OperationCount
  BY <1>1, BatchOps
<1> QED  BY <1>1, <1>2, <1>3, <1>5, <1>6 DEF PositionInv

(* The next round begins where this one has brought the coroutines.        *)
LEMMA PositionNextRound ==
  ASSUME InputInv, PositionInv, EndRound
  PROVE  PositionInv' /\ Here' = There
<1>1. /\ SameBatch /\ round' = round + 1 /\ running' = running /\ g' = 0 /\ outcome' = outcome
      /\ at' = at /\ g = Batch /\ i < OperationCount /\ round < Len(Rounds)
  BY DEF EndRound, SameBatch
<1>2. Kind' = Kind /\ Batch' = Batch /\ i' = i
  BY <1>1, SameBatchOps
<1>3. Here' = There
  BY <1>1, <1>2 DEF Here, There
<1>4. Batch \in 1 .. GROUP_SIZE /\ Members = 0 .. GROUP_SIZE - 1 /\ GROUP_SIZE \in Nat
  BY BatchOps
<1>5. ~ running
  BY <1>1, <1>4 DEF PositionInv
<1>7. ASSUME NEW m \in Members
      PROVE  m >= Batch => at[m] = 1
  BY <1>1 DEF PositionInv
<1>8. ASSUME NEW m \in Members
      PROVE  m < Batch => at[m] = There
  BY <1>1 DEF PositionInv
<1>9. ASSUME NEW m \in Members
      PROVE  ~ (m < 0)
  BY <1>4
<1>10. round + 1 \in 1 .. LastOf[Kind]
  BY <1>1, RoundOps
<1>11. i # OperationCount
  BY <1>1, BatchOps
<1>12. 0 \in 0 .. Batch /\ at \in [Members -> 1 .. 10] /\ outcome \in {"going", "done", "crashed"}
  BY <1>4 DEF PositionInv
<1> QED  BY <1>1, <1>2, <1>3, <1>5, <1>7, <1>8, <1>9, <1>10, <1>11, <1>12 DEF PositionInv

(* The next batch begins at the next group, or at the next operation, and  *)
(* all coroutines were done.                                               *)
LEMMA NextBatch ==
  ASSUME InputInv, PositionInv, EndBatch
  PROVE  /\ InputInv' /\ PositionInv' /\ Done /\ outcome' = "going"
         /\ round' = 1 /\ g' = 0 /\ running' = FALSE /\ i' = i + Batch
         /\ \A m \in Current : at[m] = There
         /\ InGroup' => InGroup
         /\ program' = program /\ style' = style /\ operations' = operations
<1>1. /\ UNCHANGED input_vars /\ i' = i + Batch /\ round' = 1 /\ g' = 0 /\ running' = running
      /\ at' = [m \in Members |-> 1]
      /\ i < OperationCount /\ g = Batch /\ round = Len(Rounds)
      /\ outcome' = IF Done THEN "going" ELSE "crashed"
  BY DEF EndBatch
<1>2. program' = program /\ style' = style /\ operations' = operations /\ coroutine_count' = coroutine_count
  BY <1>1 DEF input_vars
<1>3. /\ Batch \in 1 .. GROUP_SIZE /\ Members = 0 .. GROUP_SIZE - 1 /\ GROUP_SIZE \in Nat
      /\ i \in Nat /\ i + Batch <= OperationCount /\ OperationCount \in Nat
  BY <1>1, BatchOps
<1>4. ~ running
  BY <1>1, <1>3 DEF PositionInv
<1>5. ASSUME NEW m \in Members, m < Batch
      PROVE  at[m] = There
  BY <1>1, <1>5 DEF PositionInv
<1>6. There = Len(Coroutine) + 1 /\ Len(Coroutine) \in Nat
  BY <1>1, RoundOps DEF LastRound
<1>7. Done
  <2>1. \A m \in 0 .. Batch - 1 : m \in Members /\ m < Batch
    BY <1>3
  <2> QED  BY <1>5, <1>6, <2>1 DEF Done
<1>8. InGroup' => InGroup
  BY <1>1, <1>2, <1>3 DEF InGroup
<1>9. InGroup' => \E k \in 0 .. i' : i' = k * GROUP_SIZE
  <2>1. SUFFICES ASSUME InGroup' PROVE \E k \in 0 .. i' : i' = k * GROUP_SIZE
    OBVIOUS
  <2>2. PICK k \in 0 .. i : i = k * GROUP_SIZE
    BY <1>8, <2>1 DEF InputInv
  <2>3. Batch = GROUP_SIZE
    BY <1>8, <2>1, BatchOps
  <2>4. i' = (k + 1) * GROUP_SIZE /\ k + 1 \in 0 .. i'
    BY <1>1, <1>3, <2>2, <2>3
  <2> QED  BY <2>4
<1>10. InputInv'
  <2>1. i' \in 0 .. OperationCount
    BY <1>1, <1>3
  <2> QED  BY <1>2, <1>9, <2>1 DEF InputInv
<1>11. Kind' \in Kinds /\ Starts[Kind'][1] = 1 /\ LastOf[Kind'] \in 1 .. 4
  <2>1. Kind' \in Kinds
    <3>1. /\ program' = "coro_lookup" => Kind' \in LookupKinds
          /\ program' # "coro_lookup" => Kind' \in InsertKinds
      <4>1. /\ program = "coro_lookup" => Kind \in LookupKinds
            /\ program # "coro_lookup" => Kind \in InsertKinds
        BY KindOfBatch
      <4> QED  BY <1>2, <1>8, <4>1 DEF Kind, LookupKinds, InsertKinds
    <3> QED  BY <3>1 DEF Kinds
  <2> QED  BY <2>1, Tables
<1>12. Batch' \in 1 .. GROUP_SIZE
  BY <1>3 DEF Batch
<1>13. PositionInv'
  <2>1. \A m \in Members : at'[m] = 1 /\ ~ (m < 0)
    BY <1>1, <1>3
  <2>2. at' \in [Members -> 1 .. 10] /\ 0 \in 0 .. Batch'
    BY <1>1, <1>12
  <2>3. Here' = 1 /\ round' \in 1 .. LastOf[Kind']
    BY <1>1, <1>11 DEF Here
  <2>4. running' = FALSE /\ outcome' \in {"going", "done", "crashed"}
    BY <1>1, <1>4, <1>7 DEF PositionInv
  <2> QED  BY <1>1, <2>1, <2>2, <2>3, <2>4 DEF PositionInv
<1>14. \A m \in Current : at[m] = There
  BY <1>5 DEF Current
<1> QED  BY <1>1, <1>2, <1>4, <1>7, <1>8, <1>10, <1>13, <1>14 DEF PositionInv

(* Steps that leave the positions alone.                                   *)
LEMMA PositionStays ==
  ASSUME InputInv, PositionInv, SameBatch, UNCHANGED <<round, g, running, at>>,
         outcome' \in {"going", "done", "crashed"}
  PROVE  PositionInv'
<1>1. Kind' = Kind /\ Batch' = Batch /\ i' = i
  BY SameBatchOps
<1> QED  BY <1>1 DEF PositionInv, Here, There, LastRound

-----------------------------------------------------------------------------
\* The frames of the coroutines.

(* At first all frames are on the list.                                    *)
LEMMA SetupOps ==
  ASSUME NEW c \in Nat, NEW list, list = Setup([f \in 1 .. c |-> f])
  PROVE  list \in Seq(1 .. c) /\ Len(list) = c /\ Apart(list, <<>>)
<1> DEFINE fs == [f \in 1 .. c |-> f]
<1>1. list = PushAll(<<>>, fs)
  BY DEF Setup, PushAll
<1>2. fs \in Seq(1 .. c) /\ Len(fs) = c /\ <<>> \in Seq(1 .. c) /\ Len(<<>>) = 0
  OBVIOUS
<1>3. /\ list \in Seq(1 .. c) /\ Len(list) = c
      /\ \A k \in 1 .. c : list[k] = fs[(c + 1) - k]
  <2> HIDE DEF fs
  <2>1. list \in Seq(1 .. c) /\ HasAll(list, <<>>, fs)
    BY <1>1, <1>2, PushesAll
  <2> QED  BY <1>2, <2>1 DEF HasAll
<1>4. \A k \in 1 .. c : list[k] = (c + 1) - k
  BY <1>3
<1>5. DOMAIN list = 1 .. c /\ DOMAIN <<>> = {}
  BY <1>3
<1>6. IsInjective(list)
  BY <1>4, <1>5 DEF IsInjective
<1>7. Apart(list, <<>>)
  BY <1>5, <1>6 DEF Apart, IsInjective
<1> QED  BY <1>3, <1>7

(* The first frame of the list is taken,                                   *)
LEMMA PopOps ==
  ASSUME NEW D, NEW list \in Seq(D), NEW used \in Seq(D), Apart(list, used), ~ Empty(list)
  PROVE  /\ Pop(list) \in Seq(D) /\ Append(used, Top(list)) \in Seq(D)
         /\ Len(Pop(list)) = Len(list) - 1 /\ Len(Append(used, Top(list))) = Len(used) + 1
         /\ Apart(Pop(list), Append(used, Top(list)))
<1>1. PICK n \in Nat, u \in Nat : n = Len(list) /\ u = Len(used) /\ n > 0
  BY DEF Empty
<1>2. /\ Pop(list) \in Seq(D) /\ Len(Pop(list)) = n - 1 /\ DOMAIN Pop(list) = 1 .. n - 1
      /\ \A k \in 1 .. n - 1 : Pop(list)[k] = list[k + 1]
  BY <1>1 DEF Pop
<1>3. Top(list) = list[1] /\ list[1] \in D /\ DOMAIN list = 1 .. n /\ DOMAIN used = 1 .. u
  BY <1>1 DEF Top
<1>4. PICK after : after = Append(used, Top(list))
  OBVIOUS
<1>5. /\ after \in Seq(D) /\ Len(after) = u + 1 /\ DOMAIN after = 1 .. u + 1
      /\ after[u + 1] = list[1] /\ \A k \in 1 .. u : after[k] = used[k]
  BY <1>1, <1>3, <1>4
<1>6. PICK rest : rest = Pop(list)
  OBVIOUS
<1>7. /\ \A a \in 1 .. n, b \in 1 .. n : list[a] = list[b] => a = b
      /\ \A a \in 1 .. u, b \in 1 .. u : used[a] = used[b] => a = b
      /\ \A a \in 1 .. n, b \in 1 .. u : list[a] # used[b]
  BY <1>3 DEF Apart, IsInjective
<1>8. IsInjective(rest)
  <2>1. SUFFICES ASSUME NEW a \in 1 .. n - 1, NEW b \in 1 .. n - 1, rest[a] = rest[b] PROVE a = b
    BY <1>2, <1>6 DEF IsInjective
  <2>2. a + 1 \in 1 .. n /\ b + 1 \in 1 .. n /\ list[a + 1] = list[b + 1]
    BY <1>2, <1>6, <2>1
  <2>3. a + 1 = b + 1
    BY <1>7, <2>2
  <2> QED  BY <2>3
<1>9. IsInjective(after)
  <2>1. SUFFICES ASSUME NEW a \in 1 .. u + 1, NEW b \in 1 .. u + 1, after[a] = after[b] PROVE a = b
    BY <1>5 DEF IsInjective
  <2>2. 1 \in 1 .. n
    BY <1>1
  <2>3. CASE a = u + 1 /\ b # u + 1
    <3>1. b \in 1 .. u /\ after[b] = used[b] /\ after[a] = list[1]
      BY <1>5, <2>3
    <3> QED  BY <1>7, <2>1, <2>2, <3>1
  <2>4. CASE a # u + 1 /\ b = u + 1
    <3>1. a \in 1 .. u /\ after[a] = used[a] /\ after[b] = list[1]
      BY <1>5, <2>4
    <3> QED  BY <1>7, <2>1, <2>2, <3>1
  <2>5. CASE a # u + 1 /\ b # u + 1
    <3>1. a \in 1 .. u /\ after[a] = used[a] /\ b \in 1 .. u /\ after[b] = used[b]
      BY <1>5, <2>5
    <3> QED  BY <1>7, <2>1, <3>1
  <2> QED  BY <2>3, <2>4, <2>5
<1>10. ASSUME NEW a \in 1 .. n - 1, NEW b \in 1 .. u + 1
       PROVE  rest[a] # after[b]
  <2>1. a + 1 \in 1 .. n /\ 1 \in 1 .. n /\ a + 1 # 1 /\ rest[a] = list[a + 1]
    BY <1>2, <1>6
  <2>2. CASE b = u + 1
    <3>1. after[b] = list[1]
      BY <1>5, <2>2
    <3> QED  BY <1>7, <2>1, <3>1
  <2>3. CASE b # u + 1
    <3>1. b \in 1 .. u /\ after[b] = used[b]
      BY <1>5, <2>3
    <3> QED  BY <1>7, <2>1, <3>1
  <2> QED  BY <2>2, <2>3
<1>11. Apart(rest, after)
  BY <1>2, <1>5, <1>6, <1>8, <1>9, <1>10 DEF Apart
<1> QED  BY <1>1, <1>2, <1>4, <1>5, <1>6, <1>11

(* ... and all that are in use come back.                                  *)
LEMMA GiveBackOps ==
  ASSUME NEW D, NEW list \in Seq(D), NEW used \in Seq(D), Apart(list, used)
  PROVE  /\ PushAll(list, used) \in Seq(D)
         /\ Len(PushAll(list, used)) = Len(list) + Len(used)
         /\ Apart(PushAll(list, used), <<>>)
<1>1. PICK n \in Nat, u \in Nat : n = Len(list) /\ u = Len(used)
  OBVIOUS
<1>2. PICK all : all = PushAll(list, used)
  OBVIOUS
<1>3. /\ all \in Seq(D) /\ Len(all) = u + n
      /\ \A k \in 1 .. u : all[k] = used[(u + 1) - k]
      /\ \A k \in 1 .. n : all[u + k] = list[k]
  <2>1. all \in Seq(D) /\ HasAll(all, list, used)
    BY <1>2, PushesAll
  <2> QED  BY <1>1, <2>1 DEF HasAll
<1>4. DOMAIN all = 1 .. u + n /\ DOMAIN list = 1 .. n /\ DOMAIN used = 1 .. u /\ DOMAIN <<>> = {}
  BY <1>1, <1>3
<1>5. /\ \A a \in 1 .. n, b \in 1 .. n : list[a] = list[b] => a = b
      /\ \A a \in 1 .. u, b \in 1 .. u : used[a] = used[b] => a = b
      /\ \A a \in 1 .. n, b \in 1 .. u : list[a] # used[b]
  BY <1>4 DEF Apart, IsInjective
<1>6. ASSUME NEW a \in 1 .. u + n
      PROVE  /\ a <= u => (u + 1) - a \in 1 .. u /\ all[a] = used[(u + 1) - a]
             /\ a > u => a - u \in 1 .. n /\ all[a] = list[a - u]
  <2>1. CASE a <= u
    <3>1. a \in 1 .. u /\ (u + 1) - a \in 1 .. u
      BY <2>1
    <3> QED  BY <1>3, <2>1, <3>1
  <2>2. CASE a > u
    <3>1. a - u \in 1 .. n /\ u + (a - u) = a
      BY <2>2
    <3>2. all[u + (a - u)] = list[a - u]
      BY <1>3, <3>1
    <3> QED  BY <2>2, <3>1, <3>2
  <2> QED  BY <2>1, <2>2
<1>7. ASSUME NEW a \in 1 .. u + n, NEW b \in 1 .. u + n, all[a] = all[b]
      PROVE  a = b
  <2>1. CASE a <= u /\ b <= u
    <3>1. (u + 1) - a = (u + 1) - b
      BY <1>5, <1>6, <1>7, <2>1
    <3> QED  BY <3>1
  <2>2. CASE a > u /\ b > u
    <3>1. a - u = b - u
      BY <1>5, <1>6, <1>7, <2>2
    <3> QED  BY <3>1
  <2>3. CASE a <= u /\ b > u
    BY <1>5, <1>6, <1>7, <2>3
  <2>4. CASE a > u /\ b <= u
    BY <1>5, <1>6, <1>7, <2>4
  <2> QED  BY <2>1, <2>2, <2>3, <2>4
<1>8. Apart(all, <<>>)
  BY <1>4, <1>7 DEF Apart, IsInjective
<1> QED  BY <1>1, <1>2, <1>3, <1>8

(* Steps that take no frame and give none back.                            *)
LEMMA FramesStay ==
  ASSUME InputInv, PositionInv, FramesInv, SameBatch, UNCHANGED <<frames, free_list>>,
         InUse' = InUse, outcome' = "crashed" => outcome = "crashed"
  PROVE  FramesInv'
<1>1. coroutine_count' = coroutine_count
  BY SameBatchOps
<1> QED  BY <1>1 DEF FramesInv

(* A group takes a frame for each member,                                  *)
LEMMA FramesTaken ==
  ASSUME InputInv, PositionInv, FramesInv, Resume
  PROVE  FramesInv'
<1>1. SameBatch /\ round' = round /\ running' = TRUE /\ g' = g /\ outcome' = outcome
      /\ ~ running
  BY DEF Resume, SameBatch
<1>2. InGroup' = InGroup /\ coroutine_count' = coroutine_count
  BY <1>1, SameBatchOps
<1>3. round \in 1 .. 4 /\ g \in Nat
  <2>1. g \in 0 .. Batch /\ Batch \in Nat
    BY BatchOps DEF PositionInv
  <2> QED  BY <2>1, RoundOps
<1>4. CASE InGroup /\ round = 1
  <2>1. ~ Empty(free_list) /\ frames' = Append(frames, Top(free_list)) /\ free_list' = Pop(free_list)
    BY <1>4 DEF Resume
  <2>2. /\ frames \in Seq(1 .. coroutine_count) /\ free_list \in Seq(1 .. coroutine_count)
        /\ Apart(free_list, frames) /\ Len(free_list) + Len(frames) = coroutine_count
        /\ Len(frames) = g
    BY <1>1, <1>4 DEF FramesInv, InUse
  <2>3. /\ free_list' \in Seq(1 .. coroutine_count) /\ frames' \in Seq(1 .. coroutine_count)
        /\ Len(free_list') = Len(free_list) - 1 /\ Len(frames') = Len(frames) + 1
        /\ Apart(free_list', frames')
    BY <2>1, <2>2, PopOps
  <2>4. InUse' = g + 1
    BY <1>1, <1>2, <1>4 DEF InUse
  <2>5. Len(free_list') + Len(frames') = coroutine_count /\ Len(frames') = g + 1
    <3>1. Len(free_list) \in Nat /\ Len(frames) \in Nat
      BY <2>2
    <3> QED  BY <2>2, <2>3, <3>1
  <2>6. outcome' # "crashed"
    BY <1>1 DEF Resume
  <2> QED  BY <1>2, <2>3, <2>4, <2>5, <2>6 DEF FramesInv
<1>5. CASE ~ (InGroup /\ round = 1)
  <2>1. UNCHANGED <<frames, free_list>>
    BY <1>5 DEF Resume
  <2>2. InUse' = InUse
    BY <1>1, <1>2, <1>3, <1>5 DEF InUse
  <2> QED  BY <1>1, <2>1, <2>2, FramesStay
<1> QED  BY <1>4, <1>5

(* ... which is one too many only if the pool is smaller than the group,   *)
LEMMA FramesRunOut ==
  ASSUME InputInv, PositionInv, FramesInv, PoolRunsDry
  PROVE  FramesInv'
<1>1. /\ SameBatch /\ UNCHANGED <<round, g, running, frames, free_list>>
      /\ Empty(free_list) /\ g < Batch /\ InGroup /\ round = 1 /\ ~ running
  BY DEF PoolRunsDry, SameBatch, group_vars
<1>2. InGroup' = InGroup /\ coroutine_count' = coroutine_count
  BY <1>1, SameBatchOps
<1>3. InUse' = InUse
  BY <1>1, <1>2 DEF InUse
<1>4. coroutine_count < GROUP_SIZE
  <2>1. Len(frames) = g /\ Len(free_list) + Len(frames) = coroutine_count
    BY <1>1 DEF FramesInv, InUse
  <2>2. Len(free_list) = 0
    BY <1>1 DEF Empty
  <2>3. Batch = GROUP_SIZE /\ GROUP_SIZE \in Nat /\ g \in 0 .. Batch
    BY <1>1, BatchOps DEF PositionInv
  <2> QED  BY <1>1, <2>1, <2>2, <2>3
<1> QED  BY <1>1, <1>2, <1>3, <1>4 DEF FramesInv

(* ... keeps them for its rounds,                                          *)
LEMMA FramesKept ==
  ASSUME InputInv, PositionInv, FramesInv, Await \/ Return \/ EndRound
  PROVE  FramesInv'
<1>1. SameBatch /\ UNCHANGED <<frames, free_list>> /\ outcome' = outcome
  BY DEF Await, Return, EndRound, SameBatch
<1>2. InGroup' = InGroup
  BY <1>1, SameBatchOps
<1>3. round \in 1 .. 4 /\ g \in Nat /\ GROUP_SIZE \in Nat \ {0} /\ g \in 0 .. Batch
  <2>1. g \in 0 .. Batch /\ Batch \in Nat /\ GROUP_SIZE \in Nat \ {0}
    BY BatchOps DEF PositionInv
  <2> QED  BY <2>1, RoundOps
<1>4. InUse' = InUse
  <2>1. CASE Await \/ Return
    <3>1. running = TRUE /\ running' = FALSE /\ g' = g + 1 /\ round' = round
      <4>1. running
        BY <2>1 DEF Await, Return, Does
      <4>2. running = TRUE
        BY <4>1 DEF PositionInv
      <4> QED  BY <2>1, <4>2 DEF Await, Return
    <3> QED  BY <1>2, <3>1 DEF InUse
  <2>2. CASE EndRound
    <3>1. round' = round + 1 /\ g = Batch /\ running' = running /\ g' = 0
      BY <2>2 DEF EndRound
    <3>2. ~ running
      <4>1. g \in Nat
        BY <1>3
      <4> QED  BY <3>1, <4>1 DEF PositionInv
    <3>3. InGroup => Batch = GROUP_SIZE
      BY BatchOps
    <3>4. round' > 1
      BY <1>3, <3>1
    <3> QED  BY <1>2, <1>3, <3>1, <3>2, <3>3, <3>4 DEF InUse
  <2> QED  BY <2>1, <2>2
<1> QED  BY <1>1, <1>4, FramesStay

(* ... and gives them back.                                                *)
LEMMA FramesGivenBack ==
  ASSUME InputInv, PositionInv, FramesInv, EndBatch
  PROVE  FramesInv'
<1>1. frames' = <<>> /\ free_list' = PushAll(free_list, frames) /\ coroutine_count' = coroutine_count
  BY DEF EndBatch, ClearFrames, PushAll, input_vars
<1>2. /\ frames \in Seq(1 .. coroutine_count) /\ free_list \in Seq(1 .. coroutine_count)
      /\ Apart(free_list, frames) /\ Len(free_list) + Len(frames) = coroutine_count
  BY DEF FramesInv
<1>3. /\ free_list' \in Seq(1 .. coroutine_count) /\ Len(free_list') = coroutine_count
      /\ Apart(free_list', frames')
  BY <1>1, <1>2, GiveBackOps
<1>4. Len(frames') = 0 /\ frames' \in Seq(1 .. coroutine_count) /\ coroutine_count \in Nat
  <2>1. Len(frames) \in Nat /\ Len(free_list) \in Nat
    BY <1>2
  <2> QED  BY <1>1, <1>2, <2>1
<1>5. InUse' = 0
  <2>1. round' = 1 /\ g' = 0 /\ running' = FALSE
    BY NextBatch
  <2> QED  BY <2>1 DEF InUse
<1>6. outcome' # "crashed"
  BY NextBatch
<1> QED  BY <1>1, <1>3, <1>4, <1>5, <1>6 DEF FramesInv

(* The frames on the list and in use are different ones.                   *)
LEMMA AllDifferent ==
  ASSUME NEW D, NEW list \in Seq(D), NEW used \in Seq(D), Apart(list, used)
  PROVE  IsInjective(list \o used)
<1>1. PICK n \in Nat, u \in Nat : n = Len(list) /\ u = Len(used)
  OBVIOUS
<1>2. PICK all : all = list \o used
  OBVIOUS
<1>3. /\ DOMAIN all = 1 .. n + u
      /\ \A k \in 1 .. n + u : all[k] = IF k <= n THEN list[k] ELSE used[k - n]
  BY <1>1, <1>2
<1>4. DOMAIN list = 1 .. n /\ DOMAIN used = 1 .. u
  BY <1>1
<1>5. /\ \A a \in 1 .. n, b \in 1 .. n : list[a] = list[b] => a = b
      /\ \A a \in 1 .. u, b \in 1 .. u : used[a] = used[b] => a = b
      /\ \A a \in 1 .. n, b \in 1 .. u : list[a] # used[b]
  BY <1>4 DEF Apart, IsInjective
<1>6. ASSUME NEW a \in 1 .. n + u
      PROVE  /\ a <= n => a \in 1 .. n /\ all[a] = list[a]
             /\ a > n => a - n \in 1 .. u /\ all[a] = used[a - n]
  BY <1>3
<1>7. ASSUME NEW a \in 1 .. n + u, NEW b \in 1 .. n + u, all[a] = all[b]
      PROVE  a = b
  <2>1. CASE a <= n /\ b <= n
    BY <1>5, <1>6, <1>7, <2>1
  <2>2. CASE a > n /\ b > n
    <3>1. a - n = b - n
      BY <1>5, <1>6, <1>7, <2>2
    <3> QED  BY <3>1
  <2>3. CASE a <= n /\ b > n
    BY <1>5, <1>6, <1>7, <2>3
  <2>4. CASE a > n /\ b <= n
    BY <1>5, <1>6, <1>7, <2>4
  <2> QED  BY <2>1, <2>2, <2>3, <2>4
<1> QED  BY <1>2, <1>3, <1>7 DEF IsInjective

-----------------------------------------------------------------------------
\* The steps of an insert, on its node.

(* The constants of a node.                                                *)
LEMMA NodeConstants ==
  /\ Capacity \in Nat \ {0} /\ HashCount \in Nat \ {0} /\ Slots = 0 .. Capacity - 1
  /\ \A key \in Keys : key \in Nat /\ key \in EntrySet /\ FingerprintHash(key) \in 0 .. HashCount - 1
  /\ Torn \in EntrySet /\ Initial \in EntrySet /\ Slots \subseteq Keys
  /\ Torn \notin Operations /\ Initial \notin Operations /\ Operations \subseteq Keys
<1>1. /\ Capacity \in Nat \ {0} /\ HashCount \in Nat \ {0} /\ Slots = 0 .. Capacity - 1
      /\ OperationCount \in Nat /\ Initial \notin Nat /\ Torn \notin Nat
  BY CoroutineTreeAssumption DEF CoroutineTreeAssumption, Slots
<1>2. Keys \subseteq Nat /\ Operations \subseteq Nat
  BY <1>1 DEF Keys, Operations
<1>3. ASSUME NEW key \in Nat PROVE FingerprintHash(key) \in 0 .. HashCount - 1
  BY <1>1 DEF FingerprintHash
<1> QED  BY <1>1, <1>2, <1>3 DEF EntrySet, Keys

(* What the reset does to a full node.                                     *)
LEMMA ResetOps ==
  /\ Reset \in SUBSET Slots
  /\ program = "coro_insert" => Reset = Slots
  BY DEF Reset, Insert!ResetBits, Reuse!ResetBits, Insert!Slots, Slots

(* The slot of a new entry is one of the node, and free unless it is full. *)
LEMMA SlotOps ==
  ASSUME NEW head \in HeadSet
  PROVE  /\ SlotFor(head) \in Slots
         /\ IsFull(head) => head.free = {}
         /\ ~ IsFull(head) => SlotFor(head) \in head.free
<1>1. head.free \in SUBSET Slots
  BY DEF HeadSet
<1>2. Slots = 0 .. Capacity - 1 /\ Capacity \in Nat \ {0}
  BY NodeConstants
<1>3. ASSUME head.free # {}
      PROVE  Min(head.free) \in head.free
  <2>1. head.free \in SUBSET Nat
    BY <1>1, <1>2
  <2>2. \E x \in head.free : \A y \in head.free : x <= y
    BY <1>3, <2>1, LeastNumber
  <2> QED  BY <2>2 DEF Min
<1>4. IsFull(head) <=> head.free = {}
  BY <1>1, <1>2, <1>3 DEF IsFull, Node_GetFirstFreeSlot
<1> QED  BY <1>1, <1>2, <1>3, <1>4 DEF SlotFor, Node_GetFirstFreeSlot

(* What is done to the head of a node.                                     *)
LEMMA HeadOps ==
  ASSUME NEW head \in HeadSet, NEW R \in SUBSET Slots, NEW s \in Slots, NEW key \in Keys
  PROVE  /\ ResetWhenFull(head, R) \in HeadSet
         /\ ResetWhenFull(head, R).fingerprints = head.fingerprints
         /\ ResetWhenFull(head, R).free = IF IsFull(head) THEN R ELSE head.free
         /\ Node_SetSlotAsUsed(head, s) \in HeadSet
         /\ Node_SetSlotAsUsed(head, s).fingerprints = head.fingerprints
         /\ Node_SetSlotAsUsed(head, s).free = head.free \ {s}
         /\ WithFingerprint(head, s, key) \in HeadSet
         /\ WithFingerprint(head, s, key).free = head.free
         /\ WithFingerprint(head, s, key).fingerprints[s] = FingerprintHash(key)
         /\ \A o \in Slots : o # s =>
              WithFingerprint(head, s, key).fingerprints[o] = head.fingerprints[o]
<1>1. FingerprintHash(key) \in 0 .. HashCount - 1
  BY NodeConstants
<1>2. head.free \in SUBSET Slots /\ head.fingerprints \in [Slots -> 0 .. HashCount - 1]
  BY DEF HeadSet
<1>3. /\ ResetWhenFull(head, R) \in HeadSet
      /\ ResetWhenFull(head, R).fingerprints = head.fingerprints
      /\ ResetWhenFull(head, R).free = IF IsFull(head) THEN R ELSE head.free
  BY <1>2 DEF ResetWhenFull, HeadSet
<1>4. /\ Node_SetSlotAsUsed(head, s) \in HeadSet
      /\ Node_SetSlotAsUsed(head, s).fingerprints = head.fingerprints
      /\ Node_SetSlotAsUsed(head, s).free = head.free \ {s}
  BY <1>2 DEF Node_SetSlotAsUsed, HeadSet
<1>5. PICK fps : fps = [head.fingerprints EXCEPT ![s] = FingerprintHash(key)]
  OBVIOUS
<1>6. /\ fps \in [Slots -> 0 .. HashCount - 1] /\ fps[s] = FingerprintHash(key)
      /\ \A o \in Slots : o # s => fps[o] = head.fingerprints[o]
  BY <1>1, <1>2, <1>5
<1>7. WithFingerprint(head, s, key) = [head EXCEPT !.fingerprints = fps]
  BY <1>5 DEF WithFingerprint
<1>8. /\ WithFingerprint(head, s, key) \in HeadSet
      /\ WithFingerprint(head, s, key).free = head.free
      /\ WithFingerprint(head, s, key).fingerprints = fps
  BY <1>2, <1>6, <1>7 DEF HeadSet
<1> QED  BY <1>3, <1>4, <1>6, <1>8

(* An insert as it is done when nothing comes between.                     *)
LEMMA NormalOps ==
  ASSUME NEW before \in ContentSet, NEW key \in Keys
  PROVE  LET sl == SlotFor(before.head)
             after == NormalInsert(before, key, Reset)
         IN /\ sl \in Slots /\ HeadFrom(before) \in HeadSet
            /\ after \in ContentSet
            /\ after.head = Node_SetSlotAsUsed(WithFingerprint(HeadFrom(before), sl, key), sl)
            /\ after.entries[sl] = key
            /\ \A s \in Slots : s # sl => after.entries[s] = before.entries[s]
<1> DEFINE sl == SlotFor(before.head)
           after == NormalInsert(before, key, Reset)
<1>1. before.head \in HeadSet /\ before.entries \in [Slots -> EntrySet] /\ key \in EntrySet
  BY NodeConstants DEF ContentSet
<1>2. sl \in Slots /\ HeadFrom(before) \in HeadSet /\ Reset \in SUBSET Slots
  BY <1>1, SlotOps, HeadOps, ResetOps, NodeConstants DEF HeadFrom
<1>3. WithFingerprint(HeadFrom(before), sl, key) \in HeadSet
  BY <1>2, HeadOps
<1>4. Node_SetSlotAsUsed(WithFingerprint(HeadFrom(before), sl, key), sl) \in HeadSet
  BY <1>2, <1>3, HeadOps
<1>5. after = [head |-> Node_SetSlotAsUsed(WithFingerprint(HeadFrom(before), sl, key), sl),
               entries |-> [before.entries EXCEPT ![sl] = key]]
  BY DEF NormalInsert, HeadFrom
<1> HIDE DEF sl, after
<1>6. after \in ContentSet
  BY <1>1, <1>2, <1>4, <1>5 DEF ContentSet
<1>7. /\ after.head = Node_SetSlotAsUsed(WithFingerprint(HeadFrom(before), sl, key), sl)
      /\ after.entries[sl] = key
      /\ \A s \in Slots : s # sl => after.entries[s] = before.entries[s]
  BY <1>1, <1>2, <1>5
<1> QED  BY <1>2, <1>6, <1>7 DEF sl, after

(* The lines of a node.                                                    *)
LEMMA NodeLines ==
  ASSUME NEW node \in NodeSet
  PROVE  /\ node.head \in LineSet(HeadSet)
         /\ node.head.vol \in HeadSet /\ node.head.fen \in HeadSet /\ node.head.dur \in HeadSet
         /\ \A s \in Slots : node.entries[s] \in LineSet(EntrySet)
         /\ node.entries \in [Slots -> LineSet(EntrySet)]
  BY DEF NodeSet, LineSet

-----------------------------------------------------------------------------
\* The steps of an insert, on the node.

ChooseIn(node) == [node EXCEPT !.head = Store(@, ResetWhenFull(@.vol, Reset))]

StoreIn(node, sl, key) ==
  [node EXCEPT !.entries[sl] = CopyAndFlush(@, key),
               !.head = CopyAndFlush(@, WithFingerprint(@.vol, sl, key))]

UseIn(node, sl) == [node EXCEPT !.head = CopyAndFlush(@, Node_SetSlotAsUsed(@.vol, sl))]

(* A slot is chosen,                                                       *)
LEMMA ChooseOps ==
  ASSUME NEW node \in NodeSet, NEW before \in ContentSet, IsFresh(node, before)
  PROVE  /\ ChooseIn(node) \in NodeSet /\ ChooseIn(node).entries = node.entries
         /\ IsChosen(ChooseIn(node), before)
         /\ SlotFor(node.head.vol) = SlotFor(before.head) /\ SlotFor(before.head) \in Slots
         /\ program = "coro_insert" =>
              \A s \in Slots : KeepsEntry(node, s) => KeepsEntry(ChooseIn(node), s)
<1>1. PICK after : after = ChooseIn(node)
  OBVIOUS
<1>2. /\ node.head \in LineSet(HeadSet) /\ node.head.vol \in HeadSet
      /\ node.entries \in [Slots -> LineSet(EntrySet)]
  BY NodeLines
<1>3. PICK head : head = ResetWhenFull(node.head.vol, Reset)
  OBVIOUS
<1>4. /\ head \in HeadSet /\ head.fingerprints = node.head.vol.fingerprints
      /\ head.free = IF IsFull(node.head.vol) THEN Reset ELSE node.head.vol.free
  <2>1. PICK s \in Slots, key \in Keys : TRUE
    <3>1. 0 \in Slots /\ 0 \in Keys
      BY NodeConstants
    <3> QED  BY <3>1
  <2> QED  BY <1>2, <1>3, <2>1, HeadOps, ResetOps
<1>5. /\ Store(node.head, head) \in LineSet(HeadSet) /\ Store(node.head, head).vol = head
      /\ Store(node.head, head).fen = node.head.fen /\ Store(node.head, head).dur = node.head.dur
  BY <1>2, <1>4 DEF Store, LineSet
<1>6. after = [node EXCEPT !.head = Store(node.head, head)]
  BY <1>1, <1>3 DEF ChooseIn
<1>7. /\ after \in NodeSet /\ after.entries = node.entries /\ after.head.vol = head
      /\ after.head.fen = node.head.fen /\ after.head.dur = node.head.dur
  BY <1>2, <1>5, <1>6 DEF NodeSet
<1>8. IsChosen(after, before)
  BY <1>3, <1>7 DEF IsFresh, IsChosen, HeadFrom
<1>9. SlotFor(node.head.vol) = SlotFor(before.head) /\ SlotFor(before.head) \in Slots
  BY <1>2, SlotOps DEF IsFresh
<1>10. ASSUME program = "coro_insert", NEW s \in Slots, KeepsEntry(node, s)
       PROVE  KeepsEntry(after, s)
  <2>1. node.head.vol.free \subseteq head.free
    <3>1. node.head.vol.free \subseteq Slots
      BY <1>2 DEF HeadSet
    <3> QED  BY <1>4, <1>10, <3>1, ResetOps
  <2>2. HoldsKey(after, s) => HoldsKey(node, s)
    BY <1>7, <2>1 DEF HoldsKey, Node_IsSlotUsed
  <2> QED  BY <1>4, <1>7, <1>10, <2>2 DEF KeepsEntry
<1> QED  BY <1>1, <1>7, <1>8, <1>9, <1>10

(* ... its entry and fingerprint stored,                                   *)
LEMMA StoreOpsOf ==
  ASSUME NEW node \in NodeSet, NEW before \in ContentSet, NEW key \in Keys, NEW sl \in Slots,
         IsChosen(node, before), sl = SlotFor(before.head)
  PROVE  /\ StoreIn(node, sl, key) \in NodeSet
         /\ \A s \in Slots : s # sl => StoreIn(node, sl, key).entries[s] = node.entries[s]
         /\ StoreIn(node, sl, key).entries[sl].fen = StoreIn(node, sl, key).entries[sl].vol
         /\ IsStored(StoreIn(node, sl, key), before, sl, key)
         /\ IsMarked(StoreIn(node, sl, key), before, sl, key)
         /\ program = "coro_insert" =>
              \A s \in Slots : KeepsEntry(node, s) => KeepsEntry(StoreIn(node, sl, key), s)
<1>1. PICK after : after = StoreIn(node, sl, key)
  OBVIOUS
<1>2. /\ node.head \in LineSet(HeadSet) /\ node.head.vol \in HeadSet
      /\ node.entries \in [Slots -> LineSet(EntrySet)] /\ key \in EntrySet
  BY NodeLines, NodeConstants
<1>3. PICK head : head = WithFingerprint(node.head.vol, sl, key)
  OBVIOUS
<1>4. /\ head \in HeadSet /\ head.free = node.head.vol.free
      /\ head.fingerprints[sl] = FingerprintHash(key)
      /\ \A o \in Slots : o # sl => head.fingerprints[o] = node.head.vol.fingerprints[o]
  BY <1>2, <1>3, HeadOps, ResetOps
<1>5. PICK line, entry : line = CopyAndFlush(node.head, head) /\ entry = CopyAndFlush(node.entries[sl], key)
  OBVIOUS
<1>6. /\ line \in LineSet(HeadSet) /\ line.vol = head /\ line.fen = head /\ line.dur = node.head.dur
      /\ entry \in LineSet(EntrySet) /\ entry.vol = key /\ entry.fen = key
  BY <1>2, <1>4, <1>5 DEF CopyAndFlush, WriteBack, Store, LineSet
<1>7. after = [node EXCEPT !.entries = [node.entries EXCEPT ![sl] = entry], !.head = line]
  BY <1>1, <1>3, <1>5 DEF StoreIn
<1>8. PICK entries : entries = [node.entries EXCEPT ![sl] = entry]
  OBVIOUS
<1>9. /\ entries \in [Slots -> LineSet(EntrySet)] /\ entries[sl] = entry
      /\ \A s \in Slots : s # sl => entries[s] = node.entries[s]
  BY <1>2, <1>6, <1>8
<1>10. after \in NodeSet /\ after.head = line /\ after.entries = entries
  BY <1>6, <1>7, <1>8, <1>9 DEF NodeSet
<1>11. IsStored(after, before, sl, key)
  BY <1>6, <1>9, <1>10 DEF IsStored, IsChosen
<1>12. IsMarked(after, before, sl, key)
  BY <1>3, <1>6, <1>10 DEF IsMarked, IsChosen
<1>13. ASSUME program = "coro_insert", NEW s \in Slots, KeepsEntry(node, s)
       PROVE  KeepsEntry(after, s)
  <2>1. sl \in node.head.vol.free
    <3>1. node.head.vol = HeadFrom(before) /\ before.head \in HeadSet
      BY DEF IsChosen, ContentSet
    <3>2. HeadFrom(before).free = IF IsFull(before.head) THEN Reset ELSE before.head.free
      BY <3>1, HeadOps, ResetOps DEF HeadFrom
    <3> QED  BY <1>13, <3>1, <3>2, SlotOps, ResetOps
  <2>2. CASE s = sl
    <3>1. ~ HoldsKey(after, s)
      BY <1>4, <1>6, <1>10, <2>1, <2>2 DEF HoldsKey, Node_IsSlotUsed
    <3> QED  BY <3>1 DEF KeepsEntry
  <2>3. CASE s # sl
    <3>1. HoldsKey(after, s) => HoldsKey(node, s)
      BY <1>4, <1>6, <1>9, <1>10, <2>3 DEF HoldsKey, Node_IsSlotUsed
    <3> QED  BY <1>4, <1>6, <1>9, <1>10, <1>13, <2>3, <3>1 DEF KeepsEntry
  <2> QED  BY <2>2, <2>3
<1> QED  BY <1>1, <1>6, <1>9, <1>10, <1>11, <1>12, <1>13

(* ... and the slot marked as used.                                        *)
LEMMA UseOps ==
  ASSUME NEW node \in NodeSet, NEW before \in ContentSet, NEW key \in Keys, NEW sl \in Slots,
         IsStored(node, before, sl, key), IsMarked(node, before, sl, key),
         sl = SlotFor(before.head), IsSafe(node, sl, key)
  PROVE  /\ UseIn(node, sl) \in NodeSet /\ UseIn(node, sl).entries = node.entries
         /\ IsStored(UseIn(node, sl), before, sl, key)
         /\ IsUsed(UseIn(node, sl), before, key) /\ IsSafe(UseIn(node, sl), sl, key)
         /\ program = "coro_insert" =>
              \A s \in Slots : KeepsEntry(node, s) => KeepsEntry(UseIn(node, sl), s)
<1>1. PICK after : after = UseIn(node, sl)
  OBVIOUS
<1>2. /\ node.head \in LineSet(HeadSet) /\ node.head.vol \in HeadSet
      /\ node.entries \in [Slots -> LineSet(EntrySet)]
  BY NodeLines
<1>3. PICK head : head = Node_SetSlotAsUsed(node.head.vol, sl)
  OBVIOUS
<1>4. /\ head \in HeadSet /\ head.free = node.head.vol.free \ {sl}
      /\ head.fingerprints = node.head.vol.fingerprints
  BY <1>2, <1>3, HeadOps
<1>5. PICK line : line = CopyAndFlush(node.head, head)
  OBVIOUS
<1>6. line \in LineSet(HeadSet) /\ line.vol = head /\ line.fen = head /\ line.dur = node.head.dur
  BY <1>2, <1>4, <1>5 DEF CopyAndFlush, WriteBack, Store, LineSet
<1>7. after = [node EXCEPT !.head = line]
  BY <1>1, <1>3, <1>5 DEF UseIn
<1>8. after \in NodeSet /\ after.head = line /\ after.entries = node.entries
  BY <1>2, <1>6, <1>7 DEF NodeSet
<1>9. IsStored(after, before, sl, key)
  BY <1>6, <1>8 DEF IsStored
<1>10. IsUsed(after, before, key)
  <2>1. NormalInsert(before, key, Reset).head =
          Node_SetSlotAsUsed(WithFingerprint(HeadFrom(before), sl, key), sl)
    BY NormalOps
  <2> QED  BY <1>3, <1>6, <1>8, <2>1 DEF IsUsed, IsMarked
<1>11. IsSafe(after, sl, key)
  BY <1>6, <1>8 DEF IsSafe
<1>12. ASSUME program = "coro_insert", NEW s \in Slots, KeepsEntry(node, s)
       PROVE  KeepsEntry(after, s)
  <2>1. CASE s = sl
    <3>1. head.fingerprints[sl] = FingerprintHash(key)
      <4>1. before.head \in HeadSet /\ HeadFrom(before) \in HeadSet
        BY NormalOps DEF ContentSet
      <4>2. WithFingerprint(HeadFrom(before), sl, key).fingerprints[sl] = FingerprintHash(key)
        BY <4>1, HeadOps
      <4> QED  BY <1>4, <4>2 DEF IsMarked
    <3>2. after.entries[sl].vol = key
      BY <1>8 DEF IsStored
    <3> QED  BY <1>6, <1>8, <1>11, <2>1, <3>1, <3>2 DEF KeepsEntry, IsSafe
  <2>2. CASE s # sl
    <3>1. HoldsKey(after, s) => HoldsKey(node, s)
      BY <1>4, <1>6, <1>8, <2>2 DEF HoldsKey, Node_IsSlotUsed
    <3> QED  BY <1>4, <1>6, <1>8, <1>12, <2>2, <3>1 DEF KeepsEntry
  <2> QED  BY <2>1, <2>2
<1> QED  BY <1>1, <1>8, <1>9, <1>10, <1>11, <1>12

-----------------------------------------------------------------------------
\* What a fence and the cache do to a node.

\* A line of which some content may have reached the memory since.
KeptLine(after, line) ==
  /\ after.vol = line.vol
  /\ after.fen \in {line.fen, line.vol}
  /\ after.dur \in {line.dur, line.fen, line.vol}

\* The same node, of which some lines may have reached the memory since.
Kept(after, node) ==
  /\ after \in NodeSet
  /\ KeptLine(after.head, node.head)
  /\ \A s \in Slots : /\ after.entries[s].vol = node.entries[s].vol
                      /\ node.entries[s].fen = node.entries[s].vol =>
                           after.entries[s].fen = after.entries[s].vol
                      /\ Stable(node.entries[s]) => Stable(after.entries[s])

(* A node nothing happens to is kept,                                      *)
LEMMA KeptItself ==
  ASSUME NEW node \in NodeSet
  PROVE  Kept(node, node)
  BY DEF Kept, KeptLine

(* ... by a fence too, after which all that was written back is safe,      *)
LEMMA FenceOps ==
  ASSUME NEW node \in NodeSet
  PROVE  /\ Kept(FenceNode(node), node)
         /\ node.head.fen = node.head.vol => Stable(FenceNode(node).head)
         /\ FenceNode(node).head.dur = node.head.fen
         /\ \A s \in Slots : node.entries[s].fen = node.entries[s].vol =>
                               Stable(FenceNode(node).entries[s])
<1>1. PICK after : after = FenceNode(node)
  OBVIOUS
<1>2. PICK entries : entries = [s \in Slots |-> SFence(node.entries[s])]
  OBVIOUS
<1>3. after = [head |-> SFence(node.head), entries |-> entries]
  BY <1>1, <1>2 DEF FenceNode
<1>4. /\ node.head \in LineSet(HeadSet) /\ \A s \in Slots : node.entries[s] \in LineSet(EntrySet)
  BY NodeLines
<1>5. /\ SFence(node.head) \in LineSet(HeadSet)
      /\ SFence(node.head).vol = node.head.vol /\ SFence(node.head).fen = node.head.fen
      /\ SFence(node.head).dur = node.head.fen
  BY <1>4 DEF SFence, LineSet
<1>6. ASSUME NEW s \in Slots
      PROVE  /\ entries[s] \in LineSet(EntrySet)
             /\ entries[s].vol = node.entries[s].vol /\ entries[s].fen = node.entries[s].fen
             /\ entries[s].dur = node.entries[s].fen
  BY <1>2, <1>4 DEF SFence, LineSet
<1>7. entries \in [Slots -> LineSet(EntrySet)]
  BY <1>2, <1>6
<1>8. after \in NodeSet /\ after.head = SFence(node.head) /\ after.entries = entries
  BY <1>3, <1>5, <1>7 DEF NodeSet
<1>9. Kept(after, node)
  BY <1>5, <1>6, <1>8 DEF Kept, KeptLine, Stable
<1> QED  BY <1>1, <1>5, <1>6, <1>8, <1>9 DEF Stable

(* ... and when the cache writes a line back, though not if all are safe.  *)
LEMMA DriftOps ==
  ASSUME NEW node \in NodeSet, NEW after \in EarlyNodes(node, Torn)
  PROVE  /\ Kept(after, node)
         /\ Stable(node.head) => after.head = node.head
         /\ ~ (Stable(node.head) /\ \A s \in Slots : Stable(node.entries[s]))
<1>1. /\ node.head \in LineSet(HeadSet) /\ \A s \in Slots : node.entries[s] \in LineSet(EntrySet)
      /\ node.entries \in [Slots -> LineSet(EntrySet)] /\ Torn \in EntrySet
  BY NodeLines, NodeConstants
<1>2. CASE \E c \in WordDrift(node.head) : after = [node EXCEPT !.head = c]
  <2>1. PICK c \in WordDrift(node.head) : after = [node EXCEPT !.head = c]
    BY <1>2
  <2>2. c \in LineSet(HeadSet) /\ KeptLine(c, node.head) /\ ~ Stable(node.head)
    BY <1>1, <2>1 DEF WordDrift, Evict, Dirty, LineSet, KeptLine, Stable
  <2>3. after \in NodeSet /\ after.head = c /\ after.entries = node.entries
    BY <1>1, <2>1, <2>2 DEF NodeSet
  <2> QED  BY <2>2, <2>3 DEF Kept
<1>3. CASE \E s \in Slots : \E c \in CopyDrift(node.entries[s], Torn) : after = [node EXCEPT !.entries[s] = c]
  <2>0. PICK s \in Slots : \E c \in CopyDrift(node.entries[s], Torn) : after = [node EXCEPT !.entries[s] = c]
    BY <1>3
  <2>1. PICK c \in CopyDrift(node.entries[s], Torn) : after = [node EXCEPT !.entries[s] = c]
    BY <2>0
  <2>2. /\ c \in LineSet(EntrySet) /\ c.vol = node.entries[s].vol
        /\ node.entries[s].fen = node.entries[s].vol => c.fen = c.vol
        /\ ~ Stable(node.entries[s])
    <3>1. node.entries[s] \in LineSet(EntrySet)
      BY <1>1
    <3> QED  BY <1>1, <2>1, <3>1, DriftFields
  <2>3. PICK entries : entries = [node.entries EXCEPT ![s] = c]
    OBVIOUS
  <2>4. /\ entries \in [Slots -> LineSet(EntrySet)] /\ entries[s] = c
        /\ \A o \in Slots : o # s => entries[o] = node.entries[o]
    BY <1>1, <2>2, <2>3
  <2>5. after = [node EXCEPT !.entries = entries]
    BY <2>1, <2>3
  <2>6. after \in NodeSet /\ after.head = node.head /\ after.entries = entries
    BY <1>1, <2>4, <2>5 DEF NodeSet
  <2>7. Kept(after, node)
    <3>1. KeptLine(after.head, node.head)
      BY <2>6 DEF KeptLine
    <3> QED  BY <2>2, <2>4, <2>6, <3>1 DEF Kept
  <2> QED  BY <2>2, <2>6, <2>7
<1> QED  BY <1>2, <1>3 DEF EarlyNodes

(* What is known of a node that is kept stays true.                        *)
LEMMA KeptOps ==
  ASSUME NEW node \in NodeSet, NEW after, Kept(after, node), NEW before \in ContentSet,
         NEW key \in Keys, NEW sl \in Slots
  PROVE  /\ IsFresh(node, before) => IsFresh(after, before)
         /\ IsChosen(node, before) => IsChosen(after, before)
         /\ IsStored(node, before, sl, key) => IsStored(after, before, sl, key)
         /\ IsMarked(node, before, sl, key) => IsMarked(after, before, sl, key)
         /\ IsUsed(node, before, key) => IsUsed(after, before, key)
         /\ Stable(node.head) => Stable(after.head)
         /\ \A s \in Slots : KeepsEntry(node, s) => KeepsEntry(after, s)
<1>1. IsFresh(node, before) => IsFresh(after, before)
  BY DEF Kept, KeptLine, IsFresh
<1>2. IsChosen(node, before) => IsChosen(after, before)
  BY DEF Kept, KeptLine, IsChosen
<1>3. IsStored(node, before, sl, key) => IsStored(after, before, sl, key)
  BY DEF Kept, KeptLine, IsStored
<1>4. IsMarked(node, before, sl, key) => IsMarked(after, before, sl, key)
  BY DEF Kept, KeptLine, IsMarked
<1>5. IsUsed(node, before, key) => IsUsed(after, before, key)
  BY DEF Kept, KeptLine, IsUsed
<1>6. Stable(node.head) => Stable(after.head)
  BY DEF Kept, KeptLine, Stable
<1>7. ASSUME NEW s \in Slots, KeepsEntry(node, s)
      PROVE  KeepsEntry(after, s)
  <2>1. /\ after.head.vol = node.head.vol /\ after.head.fen \in {node.head.fen, node.head.vol}
        /\ after.head.dur \in {node.head.dur, node.head.fen, node.head.vol}
        /\ after.entries[s].vol = node.entries[s].vol
        /\ Stable(node.entries[s]) => Stable(after.entries[s])
    BY DEF Kept, KeptLine
  <2>2. HoldsKey(after, s) => HoldsKey(node, s)
    BY <2>1 DEF HoldsKey
  <2> QED  BY <1>7, <2>1, <2>2 DEF KeepsEntry
<1> QED  BY <1>1, <1>2, <1>3, <1>4, <1>5, <1>6, <1>7

(* The fingerprint of a new entry stays where it is.                       *)
LEMMA HasFingerprint ==
  ASSUME NEW node \in NodeSet, NEW before \in ContentSet, NEW key \in Keys, NEW sl,
         sl = SlotFor(before.head), IsStored(node, before, sl, key),
         IsMarked(node, before, sl, key) \/ IsUsed(node, before, key)
  PROVE  /\ node.head.vol.fingerprints[sl] = FingerprintHash(key)
         /\ node.head.fen.fingerprints[sl] = FingerprintHash(key)
<1>1. sl \in Slots /\ HeadFrom(before) \in HeadSet
  BY NormalOps
<1>2. PICK marked : marked = WithFingerprint(HeadFrom(before), sl, key)
  OBVIOUS
<1>3. marked \in HeadSet /\ marked.fingerprints[sl] = FingerprintHash(key)
  BY <1>1, <1>2, HeadOps, ResetOps
<1>4. Node_SetSlotAsUsed(marked, sl).fingerprints = marked.fingerprints
  BY <1>1, <1>3, HeadOps, ResetOps
<1>5. NormalInsert(before, key, Reset).head = Node_SetSlotAsUsed(marked, sl)
  BY <1>2, NormalOps
<1>6. node.head.vol.fingerprints[sl] = FingerprintHash(key)
  BY <1>2, <1>3, <1>4, <1>5 DEF IsMarked, IsUsed
<1> QED  BY <1>6 DEF IsStored

(* A safe entry stays so.                                                  *)
LEMMA KeptSafe ==
  ASSUME NEW node \in NodeSet, NEW after, Kept(after, node), NEW before \in ContentSet,
         NEW key \in Keys, NEW sl,
         sl = SlotFor(before.head), IsStored(node, before, sl, key),
         IsMarked(node, before, sl, key) \/ IsUsed(node, before, key),
         IsSafe(node, sl, key)
  PROVE  IsSafe(after, sl, key)
<1>1. sl \in Slots
  BY NormalOps
<1>2. /\ node.head.vol.fingerprints[sl] = FingerprintHash(key)
      /\ node.head.fen.fingerprints[sl] = FingerprintHash(key)
  BY HasFingerprint
<1>3. after.head.dur \in {node.head.dur, node.head.fen, node.head.vol}
  BY DEF Kept, KeptLine
<1>4. Stable(after.entries[sl])
  BY <1>1 DEF Kept, IsSafe
<1> QED  BY <1>2, <1>3, <1>4 DEF IsSafe

(* A fence makes a new entry safe that was written back.                   *)
LEMMA FencedSafe ==
  ASSUME NEW node \in NodeSet, NEW before \in ContentSet, NEW key \in Keys, NEW sl,
         sl = SlotFor(before.head), IsStored(node, before, sl, key),
         IsMarked(node, before, sl, key) \/ IsUsed(node, before, key),
         \A s \in Slots : node.entries[s].fen = node.entries[s].vol
  PROVE  IsSafe(FenceNode(node), sl, key) /\ Stable(FenceNode(node).head)
<1>1. sl \in Slots
  BY NormalOps
<1>2. node.head.fen.fingerprints[sl] = FingerprintHash(key)
  BY HasFingerprint
<1>3. /\ FenceNode(node).head.dur = node.head.fen /\ Stable(FenceNode(node).entries[sl])
      /\ Stable(FenceNode(node).head)
  BY <1>1, FenceOps DEF IsStored
<1> QED  BY <1>2, <1>3 DEF IsSafe

-----------------------------------------------------------------------------
\* What a step leaves alone.

\* A step leaves a member as far as it was,
SameSteps(m) == /\ Chosen(m)' <=> Chosen(m)
                /\ Stored(m)' <=> Stored(m)
                /\ Used(m)' <=> Used(m)

\* ... and its entry as safe.
SameFlags(m) == /\ SameSteps(m)
                /\ Safe(m)' <=> Safe(m)
                /\ Finished(m)' <=> Finished(m)

\* ... and the nodes to what the cache does.
AllKept == \A n \in Nodes : Kept(nodes'[n], nodes[n])

SameTasks == SameBatch /\ UNCHANGED <<normal_nodes, sum>>

(* The steps of an insert come one after the other.                        *)
LEMMA FlagsOps ==
  ASSUME InputInv, PositionInv, program # "coro_lookup", NEW m \in Members
  PROVE  /\ at[m] \in 1 .. 10
         /\ Stored(m) => Chosen(m)
         /\ Used(m) => Stored(m)
         /\ Finished(m) => Used(m) /\ Safe(m)
         /\ ChooseAt[Kind] \in 1 .. 9 /\ StoreAt[Kind] \in 1 .. 9 /\ UseAt[Kind] \in 1 .. 9
<1>1. Kind \in InsertKinds /\ at[m] \in 1 .. 10
  BY KindOfBatch DEF PositionInv
<1>2. 1 \in 1 .. Len(Code[Kind])
  BY RoundOps
<1>3. /\ ChooseAt[Kind] \in 1 .. 9 /\ StoreAt[Kind] \in 1 .. 9 /\ UseAt[Kind] \in 1 .. 9
      /\ ChooseAt[Kind] < StoreAt[Kind] /\ StoreAt[Kind] < UseAt[Kind]
  BY <1>1, <1>2, InsertTables
<1>4. (Stored(m) => Chosen(m)) /\ (Used(m) => Stored(m))
  BY <1>1, <1>3 DEF Chosen, Stored, Used
<1>5. Finished(m) => Used(m) /\ Safe(m)
  <2>1. CASE Kind = "normal"
    BY <1>1, <2>1 DEF Finished, Used, Safe, UseAt
  <2>2. CASE Kind = "read"
    BY <1>1, <2>2 DEF Finished, Used, Safe, UseAt
  <2>3. CASE Kind # "normal" /\ Kind # "read"
    BY <2>3 DEF Finished
  <2> QED  BY <2>1, <2>2, <2>3
<1> QED  BY <1>1, <1>3, <1>4, <1>5

(* A coroutine that does not move is as far as it was.                     *)
LEMMA FlagsStay ==
  ASSUME InputInv, SameBatch, NEW m \in Members, at'[m] = at[m]
  PROVE  /\ SameSteps(m)
         /\ Finished(m)' <=> Finished(m)
         /\ round' = round => SameFlags(m)
<1>1. Kind' = Kind
  BY SameBatchOps
<1> QED  BY <1>1 DEF SameSteps, SameFlags, Chosen, Stored, Used, Safe, Finished

(* What the members' inserts are about.                                    *)
LEMMA MemberOps ==
  ASSUME InputInv, TypeInv, SameTasks, NEW m \in Current
  PROVE  /\ m \in Members /\ m \in Current' /\ NodeFor(m) \in Nodes /\ KeyFor(m) \in Keys
         /\ NodeFor(m)' = NodeFor(m) /\ KeyFor(m)' = KeyFor(m)
         /\ nodes[NodeFor(m)] \in NodeSet /\ normal_nodes[NodeFor(m)] \in ContentSet
         /\ slot[m] \in Slots
         /\ normal_nodes' = normal_nodes
<1>1. SameBatch /\ normal_nodes' = normal_nodes
  BY DEF SameTasks
<1>2. m \in Members /\ NodeFor(m) \in Nodes /\ KeyFor(m) \in Keys
  BY CurrentOps
<1>3. m \in Current' /\ NodeFor(m)' = NodeFor(m) /\ KeyFor(m)' = KeyFor(m)
  BY <1>1, <1>2, SameBatchOps
<1> QED  BY <1>1, <1>2, <1>3 DEF TypeInv

(* The insert of a member goes on where it was, whatever the cache does.   *)
LEMMA MemberKept ==
  ASSUME InputInv, PositionInv, TypeInv, SameTasks, program # "coro_lookup",
         NEW m \in Current, MemberInv(m), SameFlags(m), slot'[m] = slot[m],
         Kept(nodes'[NodeFor(m)], nodes[NodeFor(m)])
  PROVE  MemberInv(m)'
<1>1. PICK n, key, node, after, before, sl :
        /\ n = NodeFor(m) /\ key = KeyFor(m) /\ node = nodes[n] /\ after = nodes'[n]
        /\ before = normal_nodes[n] /\ sl = slot[m]
  OBVIOUS
<1>2. /\ node \in NodeSet /\ before \in ContentSet /\ key \in Keys /\ sl \in Slots
      /\ NodeFor(m)' = n /\ KeyFor(m)' = key /\ normal_nodes' = normal_nodes
      /\ Kept(after, node) /\ slot'[m] = sl
  BY <1>1, MemberOps
<1>3. /\ ~ Chosen(m) => IsFresh(node, before)
      /\ Chosen(m) => sl = SlotFor(before.head)
      /\ Chosen(m) /\ ~ Stored(m) => IsChosen(node, before)
      /\ Stored(m) => IsStored(node, before, sl, key)
      /\ Stored(m) /\ ~ Used(m) => IsMarked(node, before, sl, key)
      /\ Stored(m) /\ Safe(m) => IsSafe(node, sl, key)
      /\ Used(m) => IsUsed(node, before, key)
      /\ Finished(m) => Stable(node.head)
  BY <1>1 DEF MemberInv
<1>4. /\ ~ Chosen(m) => IsFresh(after, before)
      /\ Chosen(m) /\ ~ Stored(m) => IsChosen(after, before)
      /\ Stored(m) => IsStored(after, before, sl, key)
      /\ Stored(m) /\ ~ Used(m) => IsMarked(after, before, sl, key)
      /\ Used(m) => IsUsed(after, before, key)
      /\ Finished(m) => Stable(after.head)
  BY <1>2, <1>3, KeptOps
<1>5. Stored(m) /\ Safe(m) => IsSafe(after, sl, key)
  <2>1. m \in Members
    BY MemberOps
  <2>2. Stored(m) => Chosen(m)
    BY <2>1, FlagsOps
  <2> QED  BY <1>2, <1>3, <2>2, KeptSafe
<1>6. /\ ~ Chosen(m)' => IsFresh(after, before)
      /\ Chosen(m)' => sl = SlotFor(before.head)
      /\ Chosen(m)' /\ ~ Stored(m)' => IsChosen(after, before)
      /\ Stored(m)' => IsStored(after, before, sl, key)
      /\ Stored(m)' /\ ~ Used(m)' => IsMarked(after, before, sl, key)
      /\ Stored(m)' /\ Safe(m)' => IsSafe(after, sl, key)
      /\ Used(m)' => IsUsed(after, before, key)
      /\ Finished(m)' => Stable(after.head)
  BY <1>3, <1>4, <1>5 DEF SameFlags, SameSteps
<1>7. Reset' = Reset
  BY SameBatchOps DEF Reset, SameTasks
<1> QED  BY <1>1, <1>2, <1>6, <1>7 DEF MemberInv, IsChosen, IsMarked, IsUsed, HeadFrom

(* The entries that wait are the same.                                     *)
LEMMA WaitsKept ==
  ASSUME InputInv, TypeInv, SameTasks, NEW n \in Nodes, NEW s \in Slots,
         \A m \in Current : NodeFor(m) = n => SameFlags(m) /\ slot'[m] = slot[m],
         Waits(n, s)
  PROVE  Waits(n, s)'
<1>1. PICK m \in Current : NodeFor(m) = n /\ slot[m] = s /\ Stored(m) /\ ~ Safe(m)
  BY DEF Waits
<1>2. m \in Current' /\ NodeFor(m)' = n
  BY <1>1, MemberOps
<1>3. slot'[m] = s /\ Stored(m)' /\ ~ Safe(m)'
  BY <1>1 DEF SameFlags, SameSteps
<1> QED  BY <1>2, <1>3 DEF Waits

(* A node whose members stay where they are is as it was.                  *)
LEMMA NodeKept ==
  ASSUME InputInv, TypeInv, SameTasks, NEW n \in Nodes, Kept(nodes'[n], nodes[n]),
         \A m \in Current : NodeFor(m) = n => SameFlags(m) /\ slot'[m] = slot[m],
         EntriesInv(n), NodeInv(n)
  PROVE  EntriesInv(n)' /\ NodeInv(n)'
<1>1. EntriesInv(n)'
  <2>1. ASSUME NEW s \in Slots
        PROVE  /\ nodes'[n].entries[s].fen = nodes'[n].entries[s].vol
               /\ ~ Waits(n, s)' => Stable(nodes'[n].entries[s])
    <3>1. Waits(n, s) => Waits(n, s)'
      BY WaitsKept
    <3>2. /\ nodes[n].entries[s].fen = nodes[n].entries[s].vol
          /\ ~ Waits(n, s) => Stable(nodes[n].entries[s])
      BY DEF EntriesInv
    <3> QED  BY <3>1, <3>2 DEF Kept
  <2> QED  BY <2>1 DEF EntriesInv
<1>2. NodeInv(n)'
  <2>1. SUFFICES ASSUME Untouched(n)'
                 PROVE  /\ IsFresh(nodes'[n], normal_nodes[n])
                        /\ (\E op \in 0 .. i - 1 : operations[op].node = n) => Stable(nodes'[n].head)
    BY SameBatchOps DEF NodeInv, SameTasks
  <2>2. Untouched(n)
    <3>1. SUFFICES ASSUME NEW m \in Current, NodeFor(m) = n PROVE ~ Chosen(m)
      BY DEF Untouched
    <3>2. m \in Current' /\ NodeFor(m)' = n
      BY <3>1, MemberOps
    <3>3. ~ Chosen(m)'
      BY <2>1, <3>2 DEF Untouched
    <3> QED  BY <3>1, <3>3 DEF SameFlags, SameSteps
  <2>3. /\ IsFresh(nodes[n], normal_nodes[n])
        /\ (\E op \in 0 .. i - 1 : operations[op].node = n) => Stable(nodes[n].head)
    BY <2>2 DEF NodeInv
  <2>4. nodes[n] \in NodeSet /\ normal_nodes[n] \in ContentSet
    BY DEF TypeInv
  <2>5. PICK s \in Slots, key \in Keys : TRUE
    <3>1. 0 \in Slots /\ 0 \in Keys
      BY NodeConstants
    <3> QED  BY <3>1
  <2> QED  BY <2>3, <2>4, <2>5, KeptOps
<1> QED  BY <1>1, <1>2

\* The entries whose fingerprints are durable.
AllKeep == \A n \in Nodes, s \in Slots : KeepsEntry(nodes[n], s)

(* Steps that change no node but for what the cache does, and nothing of   *)
(* how far the inserts are.                                                *)
LEMMA InsertKept ==
  ASSUME InputInv, PositionInv, TypeInv, InsertInv, SameTasks, program # "coro_lookup",
         slot' = slot, AllKept, \A m \in Current : SameFlags(m)
  PROVE  InsertInv'
<1>1. \A m \in Current' : MemberInv(m)'
  <2>1. Current' = Current
    BY SameBatchOps DEF SameTasks
  <2>2. SUFFICES ASSUME NEW m \in Current PROVE MemberInv(m)'
    BY <2>1
  <2>3. MemberInv(m) /\ SameFlags(m) /\ slot'[m] = slot[m]
    BY DEF InsertInv
  <2>4. Kept(nodes'[NodeFor(m)], nodes[NodeFor(m)])
    BY MemberOps DEF AllKept
  <2> QED  BY <2>3, <2>4, MemberKept
<1>2. ASSUME NEW n \in Nodes
      PROVE  EntriesInv(n)' /\ NodeInv(n)'
  <2>1. EntriesInv(n) /\ NodeInv(n) /\ Kept(nodes'[n], nodes[n])
    BY DEF InsertInv, AllKept
  <2> QED  BY <2>1, NodeKept
<1>3. ASSUME program' = "coro_insert", NEW n \in Nodes, NEW s \in Slots
      PROVE  KeepsEntry(nodes'[n], s)
  <2>1. program = "coro_insert"
    BY <1>3, SameBatchOps DEF SameTasks
  <2>2. KeepsEntry(nodes[n], s) /\ Kept(nodes'[n], nodes[n])
    BY <2>1 DEF InsertInv, AllKept
  <2>3. nodes[n] \in NodeSet /\ normal_nodes[n] \in ContentSet
    BY DEF TypeInv
  <2>4. PICK key \in Keys : TRUE
    <3>1. 0 \in Keys
      BY NodeConstants
    <3> QED  BY <3>1
  <2> QED  BY <2>2, <2>3, <2>4, KeptOps
<1>4. sum' = 0
  BY DEF InsertInv, SameTasks
<1> QED  BY <1>1, <1>2, <1>3, <1>4 DEF InsertInv

\* A step of the member g changes its node to after.
Changes(after) ==
  /\ SameTasks /\ g \in Current
  /\ nodes' = [nodes EXCEPT ![NodeFor(g)] = after]
  /\ \A m \in Current : m # g => SameFlags(m) /\ slot'[m] = slot[m]

(* A step of one insert leaves the others alone, which have other nodes.   *)
LEMMA InsertChanges ==
  ASSUME InputInv, PositionInv, TypeInv, InsertInv, program # "coro_lookup",
         NEW after \in NodeSet, Changes(after), g' = g,
         NEW member, member = g, MemberInv(member)', Chosen(member)', EntriesInv(NodeFor(member))',
         program = "coro_insert" =>
           \A s \in Slots : KeepsEntry(nodes[NodeFor(g)], s) => KeepsEntry(after, s)
  PROVE  InsertInv'
<1>0. SameTasks /\ g \in Current /\ SameBatch
  BY DEF Changes, SameTasks
<1>1. PICK x : x = NodeFor(g)
  OBVIOUS
<1>2. x \in Nodes /\ NodeFor(g)' = x /\ NodeFor(member)' = x /\ NodeFor(member) = x
  <2>1. member \in Current
    BY <1>0
  <2>2. NodeFor(member)' = NodeFor(member) /\ NodeFor(member) \in Nodes
    BY <1>0, <2>1, MemberOps
  <2> QED  BY <1>1, <2>2 DEF NodeFor
<1>3. nodes \in [Nodes -> NodeSet] /\ nodes' = [nodes EXCEPT ![x] = after]
  BY <1>1 DEF TypeInv, Changes
<1>4. nodes'[x] = after /\ \A n \in Nodes : n # x => nodes'[n] = nodes[n] /\ Kept(nodes'[n], nodes[n])
  <2>1. \A n \in Nodes : nodes[n] \in NodeSet
    BY <1>3
  <2> QED  BY <1>2, <1>3, <2>1, KeptItself
<1>5. \A m \in Current' : MemberInv(m)'
  <2>1. Current' = Current
    BY <1>0, SameBatchOps
  <2>2. SUFFICES ASSUME NEW m \in Current PROVE MemberInv(m)'
    BY <2>1
  <2>3. CASE m = g
    BY <2>3
  <2>4. CASE m # g
    <3>1. MemberInv(m) /\ SameFlags(m) /\ slot'[m] = slot[m]
      BY <2>4 DEF InsertInv, Changes
    <3>2. NodeFor(m) # x /\ NodeFor(m) \in Nodes
      BY <1>0, <1>1, <2>4, NodesDiffer, MemberOps
    <3>3. Kept(nodes'[NodeFor(m)], nodes[NodeFor(m)])
      BY <1>4, <3>2
    <3> QED  BY <1>0, <3>1, <3>3, MemberKept
  <2> QED  BY <2>3, <2>4
<1>6. ASSUME NEW n \in Nodes
      PROVE  EntriesInv(n)' /\ NodeInv(n)'
  <2>1. CASE n = x
    <3>1. EntriesInv(n)'
      BY <1>2, <2>1 DEF EntriesInv, Waits
    <3>2. member \in Current' /\ NodeFor(member)' = n /\ Chosen(member)'
      BY <1>0, <1>2, <2>1, MemberOps
    <3>3. NodeInv(n)'
      BY <3>2 DEF NodeInv, Untouched
    <3> QED  BY <3>1, <3>3
  <2>2. CASE n # x
    <3>1. EntriesInv(n) /\ NodeInv(n) /\ Kept(nodes'[n], nodes[n])
      BY <1>4, <2>2 DEF InsertInv
    <3>2. ASSUME NEW m \in Current, NodeFor(m) = n
          PROVE  SameFlags(m) /\ slot'[m] = slot[m]
      <4>1. m # g
        BY <1>1, <2>2, <3>2
      <4> QED  BY <4>1 DEF Changes
    <3> QED  BY <1>0, <3>1, <3>2, NodeKept
  <2> QED  BY <2>1, <2>2
<1>7. ASSUME program' = "coro_insert", NEW n \in Nodes, NEW s \in Slots
      PROVE  KeepsEntry(nodes'[n], s)
  <2>1. program = "coro_insert"
    BY <1>0, <1>7, SameBatchOps
  <2>2. KeepsEntry(nodes[n], s)
    BY <2>1 DEF InsertInv
  <2>3. CASE n = x
    BY <1>1, <1>4, <2>1, <2>2, <2>3
  <2>4. CASE n # x
    BY <1>4, <2>2, <2>4
  <2> QED  BY <2>3, <2>4
<1>8. sum' = 0
  BY <1>0 DEF InsertInv, SameTasks
<1> QED  BY <1>5, <1>6, <1>7, <1>8 DEF InsertInv

(* The round in which a slot is marked as used comes after a fenced one.   *)
LEMMA UseTables ==
  ASSUME NEW k \in InsertKinds, NEW r \in 1 .. LastOf[k],
         NEW p \in Starts[k][r] .. Starts[k][r + 1] - 1
  PROVE  /\ k = "full" => (p > 7 <=> r > 3)
         /\ k = "write" => (p > 3 <=> r > 1)
<1>1. CASE k = "full"
  <2>0. r \in {1, 2, 3, 4}
    BY <1>1 DEF LastOf
  <2>1. CASE r = 1
    BY <1>1, <2>1 DEF Starts
  <2>2. CASE r = 2
    BY <1>1, <2>2 DEF Starts
  <2>3. CASE r = 3
    BY <1>1, <2>3 DEF Starts
  <2>4. CASE r = 4
    BY <1>1, <2>4 DEF Starts
  <2> QED  BY <1>1, <2>0, <2>1, <2>2, <2>3, <2>4
<1>2. CASE k = "write"
  <2>0. r \in {1, 2}
    BY <1>2 DEF LastOf
  <2>1. CASE r = 1
    BY <1>2, <2>1 DEF Starts
  <2>2. CASE r = 2
    BY <1>2, <2>2 DEF Starts
  <2> QED  BY <1>2, <2>0, <2>1, <2>2
<1> QED  BY <1>1, <1>2

\* How a step of the coroutine of g changes how far it is.
StepFlags(step, m) ==
  /\ step \in {"prefetch", "await"} => SameFlags(m)
  /\ step = "choose" => /\ ~ Chosen(m) /\ Chosen(m)' /\ ~ Stored(m) /\ ~ Stored(m)'
                        /\ ~ Used(m)' /\ ~ Finished(m)'
  /\ step = "store" => /\ Chosen(m) /\ ~ Stored(m) /\ Chosen(m)' /\ Stored(m)'
                       /\ ~ Used(m)' /\ ~ Finished(m)' /\ ~ Safe(m)'
  /\ step = "use" => /\ Chosen(m) /\ Stored(m) /\ ~ Used(m) /\ Safe(m)
                     /\ Chosen(m)' /\ Stored(m)' /\ Used(m)' /\ Safe(m)' /\ ~ Finished(m)'
  /\ step = "fence" => /\ SameSteps(m) /\ Stored(m)
                       /\ Safe(m) => Safe(m)'
                       /\ Finished(m)' => Used(m)
  /\ step \notin {"match", "compare"}

(* The steps of an insert, and what they change.                           *)
LEMMA FlagsGoOn ==
  ASSUME InputInv, PositionInv, program # "coro_lookup", SameBatch, NEW step, Does(step), GoOn,
         round' = round
  PROVE  /\ g \in Current
         /\ \A m \in Members : m # g => SameFlags(m)
         /\ \A member \in Members : member = g => StepFlags(step, member)
<1>1. /\ g \in Current /\ g \in Members /\ at[g] \in 1 .. Len(Code[Kind])
      /\ Code[Kind][at[g]] = step /\ Here <= at[g] /\ at[g] < There
  BY DoesOps
<1>2. at' = [at EXCEPT ![g] = @ + 1] /\ at \in [Members -> 1 .. 10]
  BY DEF GoOn, PositionInv
<1>3. at'[g] = at[g] + 1 /\ \A m \in Members : m # g => at'[m] = at[m]
  BY <1>1, <1>2
<1>4. \A m \in Members : m # g => SameFlags(m)
  BY <1>3, FlagsStay
<1>5. ASSUME NEW member \in Members, member = g
      PROVE  StepFlags(step, member)
  <2>1. PICK k, r, p : k = Kind /\ r = round /\ p = at[g]
    OBVIOUS
  <2>2. /\ k \in InsertKinds /\ r \in 1 .. LastOf[k] /\ p \in Starts[k][r] .. Starts[k][r + 1] - 1
        /\ p \in 1 .. Len(Code[k]) /\ Code[k][p] = step /\ Len(Code[k]) \in 2 .. 9
        /\ p \in 1 .. 9 /\ r \in 1 .. 4
    <3>1. k \in InsertKinds /\ r \in 1 .. LastOf[k] /\ LastOf[k] \in 1 .. 4
      BY <2>1, KindOfBatch, RoundOps
    <3>2. Here \in 1 .. 9 /\ There \in 1 .. 10 /\ Len(Code[Kind]) \in 2 .. 9
      BY RoundOps
    <3>3. p \in 1 .. Len(Code[k]) /\ Code[k][p] = step /\ Len(Code[k]) \in 2 .. 9 /\ p \in 1 .. 9
      BY <1>1, <2>1, <3>2
    <3>4. p \in Here .. There - 1
      BY <1>1, <2>1, <3>2, <3>3
    <3>5. r \in 1 .. 4
      BY <3>1
    <3> QED  BY <2>1, <3>1, <3>3, <3>4, <3>5 DEF Here, There
  <2>3. /\ k = "full" => (p > 7 <=> r > 3)
        /\ k = "write" => (p > 3 <=> r > 1)
    BY <2>2, UseTables
  <2>4. at[member] = p /\ at'[member] = p + 1 /\ Kind = k /\ Kind' = k /\ round = r /\ round' = r
    BY <1>3, <1>5, <2>1, SameBatchOps
  <2>5. k \in {"normal", "full", "read", "write"}
    BY <2>2 DEF InsertKinds
  <2>6. /\ step = "choose" <=> p = ChooseAt[k]
        /\ step = "store" <=> p = StoreAt[k]
        /\ step = "use" <=> p = UseAt[k]
        /\ step = "fence" <=> \/ k = "normal" /\ p \in {3, 5}
                              \/ k = "read" /\ p \in {7, 9}
        /\ step \notin {"match", "compare"}
    BY <2>2, InsertTables
  <2>7. CASE k = "normal"
    <3>1. ChooseAt[k] = 1 /\ StoreAt[k] = 2 /\ UseAt[k] = 4
      BY <2>7 DEF ChooseAt, StoreAt, UseAt
    <3> QED  BY <2>2, <2>4, <2>6, <2>7, <3>1 DEF StepFlags, SameFlags, SameSteps, Chosen, Stored, Used, Safe, Finished
  <2>8. CASE k = "full"
    <3>1. ChooseAt[k] = 3 /\ StoreAt[k] = 6 /\ UseAt[k] = 8
      BY <2>8 DEF ChooseAt, StoreAt, UseAt
    <3> QED  BY <2>2, <2>3, <2>4, <2>6, <2>8, <3>1 DEF StepFlags, SameFlags, SameSteps, Chosen, Stored, Used, Safe, Finished
  <2>9. CASE k = "read"
    <3>1. ChooseAt[k] = 3 /\ StoreAt[k] = 6 /\ UseAt[k] = 8
      BY <2>9 DEF ChooseAt, StoreAt, UseAt
    <3> QED  BY <2>2, <2>4, <2>6, <2>9, <3>1 DEF StepFlags, SameFlags, SameSteps, Chosen, Stored, Used, Safe, Finished
  <2>10. CASE k = "write"
    <3>1. ChooseAt[k] = 1 /\ StoreAt[k] = 2 /\ UseAt[k] = 4
      BY <2>10 DEF ChooseAt, StoreAt, UseAt
    <3> QED  BY <2>2, <2>3, <2>4, <2>6, <2>10, <3>1 DEF StepFlags, SameFlags, SameSteps, Chosen, Stored, Used, Safe, Finished
  <2> QED  BY <2>5, <2>7, <2>8, <2>9, <2>10
<1> QED  BY <1>1, <1>4, <1>5

(* A fence, in a coroutine or behind a round: what the members have        *)
(* written back is safe.                                                   *)
LEMMA InsertFenced ==
  ASSUME InputInv, PositionInv, TypeInv, InsertInv, SameTasks, program # "coro_lookup",
         slot' = slot, nodes' = FenceNodes,
         \A m \in Current : SameSteps(m) /\ (Finished(m)' => Used(m))
  PROVE  InsertInv'
<1>1. \A n \in Nodes : nodes[n] \in NodeSet /\ nodes'[n] = FenceNode(nodes[n])
  BY DEF TypeInv, FenceNodes
<1>2. ASSUME NEW n \in Nodes
      PROVE  /\ Kept(nodes'[n], nodes[n])
             /\ \A s \in Slots : nodes[n].entries[s].fen = nodes[n].entries[s].vol
             /\ \A s \in Slots : Stable(nodes'[n].entries[s])
  <2>1. nodes[n] \in NodeSet /\ nodes'[n] = FenceNode(nodes[n]) /\ EntriesInv(n)
    BY <1>1 DEF InsertInv
  <2>2. \A s \in Slots : nodes[n].entries[s].fen = nodes[n].entries[s].vol
    BY <2>1 DEF EntriesInv
  <2> QED  BY <2>1, <2>2, FenceOps
<1>3. ASSUME NEW m \in Current
      PROVE  MemberInv(m)'
  <2>1. PICK n, key, node, after, before, sl :
          /\ n = NodeFor(m) /\ key = KeyFor(m) /\ node = nodes[n] /\ after = nodes'[n]
          /\ before = normal_nodes[n] /\ sl = slot[m]
    OBVIOUS
  <2>2. /\ node \in NodeSet /\ before \in ContentSet /\ key \in Keys /\ sl \in Slots
        /\ NodeFor(m)' = n /\ KeyFor(m)' = key /\ normal_nodes' = normal_nodes
        /\ n \in Nodes /\ Kept(after, node) /\ slot'[m] = sl /\ m \in Members
        /\ after = FenceNode(node)
        /\ \A s \in Slots : node.entries[s].fen = node.entries[s].vol
    <3>1. n \in Nodes
      BY <2>1, MemberOps
    <3> QED  BY <1>1, <1>2, <2>1, <3>1, MemberOps
  <2>3. /\ ~ Chosen(m) => IsFresh(node, before)
        /\ Chosen(m) => sl = SlotFor(before.head)
        /\ Chosen(m) /\ ~ Stored(m) => IsChosen(node, before)
        /\ Stored(m) => IsStored(node, before, sl, key)
        /\ Stored(m) /\ ~ Used(m) => IsMarked(node, before, sl, key)
        /\ Used(m) => IsUsed(node, before, key)
    <3>1. MemberInv(m)
      BY DEF InsertInv
    <3> QED  BY <2>1, <3>1 DEF MemberInv
  <2>4. /\ ~ Chosen(m) => IsFresh(after, before)
        /\ Chosen(m) /\ ~ Stored(m) => IsChosen(after, before)
        /\ Stored(m) => IsStored(after, before, sl, key)
        /\ Stored(m) /\ ~ Used(m) => IsMarked(after, before, sl, key)
        /\ Used(m) => IsUsed(after, before, key)
    BY <2>2, <2>3, KeptOps
  <2>5. (Stored(m) => Chosen(m)) /\ (Used(m) => Stored(m))
    BY <2>2, FlagsOps
  <2>6. Stored(m) => IsSafe(after, sl, key) /\ Stable(after.head)
    BY <2>2, <2>3, <2>5, FencedSafe
  <2>7. /\ ~ Chosen(m)' => IsFresh(after, before)
        /\ Chosen(m)' => sl = SlotFor(before.head)
        /\ Chosen(m)' /\ ~ Stored(m)' => IsChosen(after, before)
        /\ Stored(m)' => IsStored(after, before, sl, key)
        /\ Stored(m)' /\ ~ Used(m)' => IsMarked(after, before, sl, key)
        /\ Stored(m)' /\ Safe(m)' => IsSafe(after, sl, key)
        /\ Used(m)' => IsUsed(after, before, key)
        /\ Finished(m)' => Stable(after.head)
    <3>1. SameSteps(m) /\ (Finished(m)' => Used(m))
      OBVIOUS
    <3> QED  BY <2>3, <2>4, <2>5, <2>6, <3>1 DEF SameSteps
  <2>8. Reset' = Reset
    BY SameBatchOps DEF Reset, SameTasks
  <2> QED  BY <2>1, <2>2, <2>7, <2>8 DEF MemberInv, IsChosen, IsMarked, IsUsed, HeadFrom
<1>4. Current' = Current
  BY SameBatchOps DEF SameTasks
<1>5. ASSUME NEW n \in Nodes
      PROVE  EntriesInv(n)' /\ NodeInv(n)'
  <2>1. EntriesInv(n)'
    BY <1>2 DEF EntriesInv, Stable
  <2>2. NodeInv(n)'
    <3>1. SUFFICES ASSUME Untouched(n)'
                   PROVE  /\ IsFresh(nodes'[n], normal_nodes[n])
                          /\ (\E op \in 0 .. i - 1 : operations[op].node = n) => Stable(nodes'[n].head)
      BY SameBatchOps DEF NodeInv, SameTasks
    <3>2. Untouched(n)
      <4>1. SUFFICES ASSUME NEW m \in Current, NodeFor(m) = n PROVE ~ Chosen(m)
        BY DEF Untouched
      <4>2. m \in Current' /\ NodeFor(m)' = n
        BY <4>1, MemberOps
      <4>3. ~ Chosen(m)'
        BY <3>1, <4>2 DEF Untouched
      <4>4. SameSteps(m)
        OBVIOUS
      <4> QED  BY <4>3, <4>4 DEF SameSteps
    <3>3. NodeInv(n)
      BY DEF InsertInv
    <3>4. /\ IsFresh(nodes[n], normal_nodes[n])
          /\ (\E op \in 0 .. i - 1 : operations[op].node = n) => Stable(nodes[n].head)
      BY <3>2, <3>3 DEF NodeInv
    <3>5. nodes[n] \in NodeSet /\ normal_nodes[n] \in ContentSet
      BY DEF TypeInv
    <3>6. PICK s \in Slots, key \in Keys : TRUE
      <4>1. 0 \in Slots /\ 0 \in Keys
        BY NodeConstants
      <4> QED  BY <4>1
    <3> QED  BY <1>2, <3>4, <3>5, <3>6, KeptOps
  <2> QED  BY <2>1, <2>2
<1>6. ASSUME program' = "coro_insert", NEW n \in Nodes, NEW s \in Slots
      PROVE  KeepsEntry(nodes'[n], s)
  <2>1. program = "coro_insert"
    BY <1>6, SameBatchOps DEF SameTasks
  <2>2. KeepsEntry(nodes[n], s) /\ Kept(nodes'[n], nodes[n])
    BY <1>2, <2>1 DEF InsertInv
  <2>3. nodes[n] \in NodeSet /\ normal_nodes[n] \in ContentSet
    BY DEF TypeInv
  <2>4. PICK key \in Keys : TRUE
    <3>1. 0 \in Keys
      BY NodeConstants
    <3> QED  BY <3>1
  <2> QED  BY <2>2, <2>3, <2>4, KeptOps
<1>7. sum' = 0
  BY DEF InsertInv, SameTasks
<1> QED  BY <1>3, <1>4, <1>5, <1>6, <1>7 DEF InsertInv

-----------------------------------------------------------------------------
\* The steps of the inserts.

(* No entry of a node waits but that of its member of the batch.           *)
LEMMA NothingWaits ==
  ASSUME InputInv, PositionInv, TypeInv, InsertInv, program # "coro_lookup",
         NEW m \in Current, ~ Stored(m) \/ Safe(m)
  PROVE  \A s \in Slots : /\ Stable(nodes[NodeFor(m)].entries[s])
                          /\ nodes[NodeFor(m)].entries[s].fen = nodes[NodeFor(m)].entries[s].vol
<1>1. PICK x : x = NodeFor(m)
  OBVIOUS
<1>2. x \in Nodes
  BY <1>1, CurrentOps
<1>3. ASSUME NEW s \in Slots PROVE ~ Waits(x, s)
  <2>1. SUFFICES ASSUME NEW o \in Current, NodeFor(o) = x, Stored(o), ~ Safe(o) PROVE FALSE
    BY DEF Waits
  <2>2. o = m
    BY <1>1, <2>1, NodesDiffer
  <2> QED  BY <2>1, <2>2
<1>4. EntriesInv(x)
  BY <1>2 DEF InsertInv
<1> QED  BY <1>1, <1>3, <1>4 DEF EntriesInv

(* Choosing a slot keeps the inserts going.                                *)
LEMMA InsertChooses ==
  ASSUME InputInv, PositionInv, TypeInv, InsertInv, program # "coro_lookup", ChooseSlot
  PROVE  InsertInv' /\ TypeInv'
<1>1. SameTasks /\ SameBatch /\ Does("choose") /\ GoOn /\ round' = round /\ g' = g
  BY DEF ChooseSlot, SameTasks, SameBatch
<1>2. /\ g \in Current /\ \A m \in Members : m # g => SameFlags(m)
      /\ \A member \in Members : member = g => StepFlags("choose", member)
  BY <1>1, FlagsGoOn
<1>3. PICK member, x, before, node, after :
        /\ member = g /\ x = NodeFor(g) /\ before = normal_nodes[x] /\ node = nodes[x]
        /\ after = ChooseIn(node)
  OBVIOUS
<1>4. /\ member \in Current /\ x \in Nodes /\ member \in Members
      /\ NodeFor(member) = x /\ NodeFor(member)' = x /\ member \in Current'
      /\ node \in NodeSet /\ before \in ContentSet /\ normal_nodes' = normal_nodes
  <2>1. member \in Current
    BY <1>2, <1>3
  <2> QED  BY <1>1, <1>3, <2>1, MemberOps
<1>5. /\ ~ Chosen(member) /\ Chosen(member)' /\ ~ Stored(member) /\ ~ Stored(member)'
      /\ ~ Used(member)' /\ ~ Finished(member)'
  <2>1. StepFlags("choose", member)
    BY <1>2, <1>3, <1>4
  <2> QED  BY <2>1 DEF StepFlags
<1>6. IsFresh(node, before)
  <2>1. MemberInv(member)
    BY <1>4 DEF InsertInv
  <2> QED  BY <1>3, <1>4, <1>5, <2>1 DEF MemberInv
<1>7. /\ after \in NodeSet /\ after.entries = node.entries /\ IsChosen(after, before)
      /\ SlotFor(node.head.vol) = SlotFor(before.head) /\ SlotFor(before.head) \in Slots
      /\ program = "coro_insert" =>
           \A s \in Slots : KeepsEntry(node, s) => KeepsEntry(after, s)
  BY <1>3, <1>4, <1>6, ChooseOps
<1>8. Op.node = x
  BY <1>3 DEF Op, NodeFor
<1>9. /\ nodes' = [nodes EXCEPT ![x] = after]
      /\ slot' = [slot EXCEPT ![member] = SlotFor(node.head.vol)]
  BY <1>3, <1>8 DEF ChooseSlot, ChooseIn
<1>10. nodes \in [Nodes -> NodeSet] /\ slot \in [Members -> Slots]
  BY DEF TypeInv
<1>11. /\ nodes' \in [Nodes -> NodeSet] /\ slot' \in [Members -> Slots]
       /\ nodes'[x] = after /\ slot'[member] = SlotFor(before.head)
       /\ \A m \in Members : m # member => slot'[m] = slot[m]
  BY <1>4, <1>7, <1>9, <1>10
<1>12. TypeInv'
  BY <1>4, <1>11 DEF TypeInv
<1>13. MemberInv(member)'
  <2>1. Reset' = Reset
    BY <1>1, SameBatchOps DEF Reset
  <2> QED  BY <1>3, <1>4, <1>5, <1>7, <1>11, <2>1 DEF MemberInv, IsChosen, HeadFrom
<1>14. EntriesInv(x)'
  <2>1. \A s \in Slots : Stable(node.entries[s]) /\ node.entries[s].fen = node.entries[s].vol
    BY <1>3, <1>4, <1>5, NothingWaits
  <2> QED  BY <1>7, <1>11, <2>1 DEF EntriesInv
<1>15. Changes(after)
  <2>1. \A m \in Current : m # g => SameFlags(m) /\ slot'[m] = slot[m]
    BY <1>2, <1>3, <1>11, BatchOps
  <2> QED  BY <1>1, <1>2, <1>3, <1>9, <2>1 DEF Changes
<1>16. EntriesInv(NodeFor(member))'
  BY <1>4, <1>14 DEF EntriesInv, Waits
<1>17. InsertInv'
  <2>1. program = "coro_insert" =>
          \A s \in Slots : KeepsEntry(nodes[NodeFor(g)], s) => KeepsEntry(after, s)
    BY <1>3, <1>7
  <2> QED  BY <1>1, <1>3, <1>5, <1>7, <1>13, <1>15, <1>16, <2>1, InsertChanges
<1> QED  BY <1>12, <1>17

(* Storing an entry does,                                                  *)
LEMMA InsertStores ==
  ASSUME InputInv, PositionInv, TypeInv, InsertInv, program # "coro_lookup", StoreEntry
  PROVE  InsertInv' /\ TypeInv'
<1>1. SameTasks /\ SameBatch /\ Does("store") /\ GoOn /\ round' = round /\ g' = g /\ slot' = slot
  BY DEF StoreEntry, SameTasks, SameBatch
<1>2. /\ g \in Current /\ \A m \in Members : m # g => SameFlags(m)
      /\ \A member \in Members : member = g => StepFlags("store", member)
  BY <1>1, FlagsGoOn
<1>3. PICK member, x, before, node, sl, key, after :
        /\ member = g /\ x = NodeFor(g) /\ before = normal_nodes[x] /\ node = nodes[x]
        /\ sl = slot[g] /\ key = KeyFor(g) /\ after = StoreIn(node, sl, key)
  OBVIOUS
<1>4. /\ member \in Current /\ x \in Nodes /\ member \in Members /\ sl \in Slots
      /\ NodeFor(member) = x /\ NodeFor(member)' = x /\ member \in Current'
      /\ KeyFor(member)' = key /\ key \in Keys
      /\ node \in NodeSet /\ before \in ContentSet /\ normal_nodes' = normal_nodes
  <2>1. member \in Current
    BY <1>2, <1>3
  <2> QED  BY <1>1, <1>3, <2>1, MemberOps
<1>5. /\ Chosen(member) /\ ~ Stored(member) /\ Chosen(member)' /\ Stored(member)'
      /\ ~ Used(member)' /\ ~ Finished(member)' /\ ~ Safe(member)'
  <2>1. StepFlags("store", member)
    BY <1>2, <1>3, <1>4
  <2> QED  BY <2>1 DEF StepFlags
<1>6. IsChosen(node, before) /\ sl = SlotFor(before.head)
  <2>1. MemberInv(member)
    BY <1>4 DEF InsertInv
  <2> QED  BY <1>3, <1>4, <1>5, <2>1 DEF MemberInv
<1>7. /\ after \in NodeSet
      /\ \A s \in Slots : s # sl => after.entries[s] = node.entries[s]
      /\ after.entries[sl].fen = after.entries[sl].vol
      /\ IsStored(after, before, sl, key) /\ IsMarked(after, before, sl, key)
      /\ program = "coro_insert" =>
           \A s \in Slots : KeepsEntry(node, s) => KeepsEntry(after, s)
  BY <1>3, <1>4, <1>6, StoreOpsOf
<1>8. Op.node = x /\ Op.key = key
  BY <1>3 DEF Op, NodeFor, KeyFor
<1>9. nodes' = [nodes EXCEPT ![x] = after]
  BY <1>3, <1>8 DEF StoreEntry, StoreIn
<1>10. nodes \in [Nodes -> NodeSet] /\ slot \in [Members -> Slots]
  BY DEF TypeInv
<1>11. nodes' \in [Nodes -> NodeSet] /\ nodes'[x] = after
  BY <1>4, <1>7, <1>9, <1>10
<1>12. TypeInv'
  BY <1>1, <1>4, <1>10, <1>11 DEF TypeInv
<1>13. MemberInv(member)'
  <2>1. Reset' = Reset
    BY <1>1, SameBatchOps DEF Reset
  <2> QED  BY <1>1, <1>3, <1>4, <1>5, <1>6, <1>7, <1>11, <2>1 DEF MemberInv, IsMarked, HeadFrom
<1>14. EntriesInv(NodeFor(member))'
  <2>1. \A s \in Slots : Stable(node.entries[s]) /\ node.entries[s].fen = node.entries[s].vol
    BY <1>3, <1>4, <1>5, NothingWaits
  <2>2. Waits(x, sl)'
    BY <1>1, <1>3, <1>4, <1>5 DEF Waits
  <2>3. EntriesInv(x)'
    BY <1>7, <1>11, <2>1, <2>2 DEF EntriesInv
  <2> QED  BY <1>4, <2>3 DEF EntriesInv, Waits
<1>15. Changes(after)
  <2>1. \A m \in Current : m # g => SameFlags(m) /\ slot'[m] = slot[m]
    BY <1>1, <1>2, BatchOps
  <2> QED  BY <1>1, <1>2, <1>3, <1>9, <2>1 DEF Changes
<1>17. InsertInv'
  <2>1. program = "coro_insert" =>
          \A s \in Slots : KeepsEntry(nodes[NodeFor(g)], s) => KeepsEntry(after, s)
    BY <1>3, <1>7
  <2> QED  BY <1>1, <1>3, <1>5, <1>7, <1>13, <1>14, <1>15, <2>1, InsertChanges
<1> QED  BY <1>12, <1>17

(* ... and so does marking the slot.                                       *)
LEMMA InsertUses ==
  ASSUME InputInv, PositionInv, TypeInv, InsertInv, program # "coro_lookup", UseSlot
  PROVE  InsertInv' /\ TypeInv'
<1>1. SameTasks /\ SameBatch /\ Does("use") /\ GoOn /\ round' = round /\ g' = g /\ slot' = slot
  BY DEF UseSlot, SameTasks, SameBatch
<1>2. /\ g \in Current /\ \A m \in Members : m # g => SameFlags(m)
      /\ \A member \in Members : member = g => StepFlags("use", member)
  BY <1>1, FlagsGoOn
<1>3. PICK member, x, before, node, sl, key, after :
        /\ member = g /\ x = NodeFor(g) /\ before = normal_nodes[x] /\ node = nodes[x]
        /\ sl = slot[g] /\ key = KeyFor(g) /\ after = UseIn(node, sl)
  OBVIOUS
<1>4. /\ member \in Current /\ x \in Nodes /\ member \in Members /\ sl \in Slots
      /\ NodeFor(member) = x /\ NodeFor(member)' = x /\ member \in Current'
      /\ KeyFor(member)' = key /\ key \in Keys
      /\ node \in NodeSet /\ before \in ContentSet /\ normal_nodes' = normal_nodes
  <2>1. member \in Current
    BY <1>2, <1>3
  <2> QED  BY <1>1, <1>3, <2>1, MemberOps
<1>5. /\ Chosen(member) /\ Stored(member) /\ ~ Used(member) /\ Safe(member)
      /\ Chosen(member)' /\ Stored(member)' /\ Used(member)' /\ Safe(member)' /\ ~ Finished(member)'
  <2>1. StepFlags("use", member)
    BY <1>2, <1>3, <1>4
  <2> QED  BY <2>1 DEF StepFlags
<1>6. /\ IsStored(node, before, sl, key) /\ IsMarked(node, before, sl, key)
      /\ sl = SlotFor(before.head) /\ IsSafe(node, sl, key)
  <2>1. MemberInv(member)
    BY <1>4 DEF InsertInv
  <2> QED  BY <1>3, <1>4, <1>5, <2>1 DEF MemberInv
<1>7. /\ after \in NodeSet /\ after.entries = node.entries
      /\ IsStored(after, before, sl, key) /\ IsUsed(after, before, key) /\ IsSafe(after, sl, key)
      /\ program = "coro_insert" =>
           \A s \in Slots : KeepsEntry(node, s) => KeepsEntry(after, s)
  BY <1>3, <1>4, <1>6, UseOps
<1>8. Op.node = x
  BY <1>3 DEF Op, NodeFor
<1>9. nodes' = [nodes EXCEPT ![x] = after]
  BY <1>3, <1>8 DEF UseSlot, UseIn
<1>10. nodes \in [Nodes -> NodeSet] /\ slot \in [Members -> Slots]
  BY DEF TypeInv
<1>11. nodes' \in [Nodes -> NodeSet] /\ nodes'[x] = after
  BY <1>4, <1>7, <1>9, <1>10
<1>12. TypeInv'
  BY <1>1, <1>4, <1>10, <1>11 DEF TypeInv
<1>13. MemberInv(member)'
  <2>1. Reset' = Reset
    BY <1>1, SameBatchOps DEF Reset
  <2> QED  BY <1>1, <1>3, <1>4, <1>5, <1>6, <1>7, <1>11, <2>1 DEF MemberInv, IsUsed
<1>14. EntriesInv(NodeFor(member))'
  <2>1. \A s \in Slots : Stable(node.entries[s]) /\ node.entries[s].fen = node.entries[s].vol
    BY <1>3, <1>4, <1>5, NothingWaits
  <2>3. EntriesInv(x)'
    BY <1>7, <1>11, <2>1 DEF EntriesInv
  <2> QED  BY <1>4, <2>3 DEF EntriesInv, Waits
<1>15. Changes(after)
  <2>1. \A m \in Current : m # g => SameFlags(m) /\ slot'[m] = slot[m]
    BY <1>1, <1>2, BatchOps
  <2> QED  BY <1>1, <1>2, <1>3, <1>9, <2>1 DEF Changes
<1>17. InsertInv'
  <2>1. program = "coro_insert" =>
          \A s \in Slots : KeepsEntry(nodes[NodeFor(g)], s) => KeepsEntry(after, s)
    BY <1>3, <1>7
  <2> QED  BY <1>1, <1>3, <1>5, <1>7, <1>13, <1>14, <1>15, <2>1, InsertChanges
<1> QED  BY <1>12, <1>17

(* The steps that change no node, and the cache, leave the inserts alone,  *)
LEMMA InsertWaits ==
  ASSUME InputInv, PositionInv, TypeInv, InsertInv, program # "coro_lookup",
         Resume \/ PoolRunsDry \/ Await \/ Return \/ Prefetch \/ EndOperations \/ Drift
  PROVE  InsertInv' /\ TypeInv'
<1>1. SameTasks /\ SameBatch /\ slot' = slot /\ round' = round
  BY DEF Resume, PoolRunsDry, Await, Return, Prefetch, EndOperations, Drift, SameTasks, SameBatch, group_vars
<1>2. nodes' \in [Nodes -> NodeSet] /\ AllKept
  <2>1. nodes \in [Nodes -> NodeSet]
    BY DEF TypeInv
  <2>2. CASE nodes' = nodes
    BY <2>1, <2>2, KeptItself DEF AllKept
  <2>3. CASE Drift
    <3>1. PICK n \in Nodes : \E c \in EarlyNodes(nodes[n], Torn) : nodes' = [nodes EXCEPT ![n] = c]
      BY <2>3 DEF Drift
    <3>2. PICK c \in EarlyNodes(nodes[n], Torn) : nodes' = [nodes EXCEPT ![n] = c]
      BY <3>1
    <3>3. Kept(c, nodes[n])
      BY <2>1, DriftOps
    <3>4. c \in NodeSet
      BY <3>3 DEF Kept
    <3> QED  BY <2>1, <3>2, <3>3, <3>4, KeptItself DEF AllKept
  <2> QED  BY <2>2, <2>3 DEF Resume, PoolRunsDry, Await, Return, Prefetch, EndOperations
<1>3. \A m \in Current : SameFlags(m)
  <2>1. ASSUME NEW m \in Current PROVE m \in Members
    BY BatchOps
  <2>2. CASE at' = at
    BY <1>1, <2>1, <2>2, FlagsStay
  <2>3. CASE Await \/ Prefetch
    <3>1. PICK step : step \in {"await", "prefetch"} /\ Does(step) /\ GoOn
      BY <2>3 DEF Await, Prefetch
    <3>2. /\ \A m \in Members : m # g => SameFlags(m)
          /\ \A member \in Members : member = g => StepFlags(step, member)
      BY <1>1, <3>1, FlagsGoOn
    <3> QED  BY <2>1, <3>1, <3>2 DEF StepFlags
  <2> QED  BY <2>2, <2>3 DEF Resume, PoolRunsDry, Return, EndOperations, Drift, group_vars
<1>4. TypeInv'
  BY <1>1, <1>2 DEF TypeInv, SameTasks
<1>5. InsertInv'
  BY <1>1, <1>2, <1>3, InsertKept
<1> QED  BY <1>4, <1>5

(* ... a fence helps them on, and a round ends with one if need be,        *)
LEMMA InsertFences ==
  ASSUME InputInv, PositionInv, TypeInv, InsertInv, program # "coro_lookup", Fence \/ EndRound
  PROVE  InsertInv' /\ TypeInv'
<1>1. SameTasks /\ SameBatch /\ slot' = slot
  BY DEF Fence, EndRound, SameTasks, SameBatch
<1>2. \A n \in Nodes : nodes[n] \in NodeSet
  BY DEF TypeInv
<1>3. FenceNodes \in [Nodes -> NodeSet]
  <2>1. \A n \in Nodes : FenceNode(nodes[n]) \in NodeSet
    BY <1>2, FenceOps DEF Kept
  <2> QED  BY <2>1 DEF FenceNodes
<1>4. ASSUME NEW m \in Current PROVE m \in Members
  BY BatchOps
<1>5. CASE Fence
  <2>1. Does("fence") /\ GoOn /\ round' = round /\ nodes' = FenceNodes
    BY <1>5 DEF Fence
  <2>2. /\ \A m \in Members : m # g => SameFlags(m)
        /\ \A member \in Members : member = g => StepFlags("fence", member)
    BY <1>1, <2>1, FlagsGoOn
  <2>3. ASSUME NEW m \in Current
        PROVE  SameSteps(m) /\ (Finished(m)' => Used(m))
    <3>1. m \in Members /\ (Finished(m) => Used(m))
      BY <1>4, FlagsOps
    <3>2. CASE m = g
      BY <2>2, <3>1, <3>2 DEF StepFlags
    <3>3. CASE m # g
      BY <2>2, <3>1, <3>3 DEF SameFlags
    <3> QED  BY <3>2, <3>3
  <2>4. InsertInv'
    BY <1>1, <2>1, <2>3, InsertFenced
  <2> QED  BY <1>1, <1>3, <2>1, <2>4 DEF TypeInv, SameTasks
<1>6. CASE EndRound
  <2>1. /\ round' = round + 1 /\ at' = at /\ nodes' = IF Rounds[round] THEN FenceNodes ELSE nodes
        /\ round < Len(Rounds)
    BY <1>6 DEF EndRound
  <2>2. /\ Kind \in InsertKinds /\ round \in 1 .. LastOf[Kind] /\ LastOf[Kind] \in 1 .. 4
        /\ Rounds = FencedRounds[Kind] /\ Kind \in Kinds /\ round \in Nat /\ round < LastOf[Kind]
    BY <2>1, RoundOps, KindOfBatch
  <2>3. Rounds[round] <=> (Kind = "full" /\ round > 2) \/ Kind = "write"
    BY <2>2, FenceTables
  <2>4. ASSUME NEW m \in Current
        PROVE  SameSteps(m) /\ (Finished(m)' <=> Finished(m)) /\ (Finished(m) => Used(m))
    <3>1. m \in Members
      BY <1>4
    <3> QED  BY <1>1, <2>1, <3>1, FlagsStay, FlagsOps
  <2>5. CASE Rounds[round]
    <3>1. nodes' = FenceNodes
      BY <2>1, <2>5
    <3>2. InsertInv'
      BY <1>1, <2>4, <3>1, InsertFenced
    <3> QED  BY <1>1, <1>3, <3>1, <3>2 DEF TypeInv, SameTasks
  <2>6. CASE ~ Rounds[round]
    <3>1. nodes' = nodes
      BY <2>1, <2>6
    <3>2. AllKept
      BY <1>2, <3>1, KeptItself DEF AllKept
    <3>3. Kind' = Kind
      BY <1>1, SameBatchOps
    <3>4. ASSUME NEW m \in Current
          PROVE  SameFlags(m)
      <4>1. Safe(m)' <=> Safe(m)
        BY <2>1, <2>2, <2>3, <2>6, <3>3 DEF Safe
      <4> QED  BY <2>4, <4>1 DEF SameFlags
    <3>5. InsertInv'
      BY <1>1, <3>2, <3>4, InsertKept
    <3> QED  BY <1>1, <3>1, <3>5 DEF TypeInv, SameTasks
  <2> QED  BY <2>5, <2>6
<1> QED  BY <1>5, <1>6

(* ... and a coroutine of an insert never looks for a key.                 *)
LEMMA InsertsDoNotLook ==
  ASSUME InputInv, PositionInv, program # "coro_lookup"
  PROVE  ~ Match /\ ~ Compare
<1>1. SUFFICES ASSUME NEW step \in {"match", "compare"}, Does(step) PROVE FALSE
  BY DEF Match, Compare
<1>2. at[g] \in 1 .. Len(Code[Kind]) /\ Code[Kind][at[g]] = step
  BY <1>1, DoesOps
<1>3. Kind \in InsertKinds
  BY KindOfBatch
<1> QED  BY <1>1, <1>2, <1>3, InsertTables

-----------------------------------------------------------------------------
\* What the normal inserts of a batch do.

\* FoldLeft as the model uses it for the normal inserts.
InsertAll(all, ops) == FoldLeft(InsertNormally, all, ops)

\* The contents of the nodes after another normal insert.
HasInserted(after, all, op) ==
  /\ after \in [Nodes -> ContentSet]
  /\ \A x \in Nodes :
       after[x] = IF operations[op].node = x THEN NormalInsert(all[x], operations[op].key, Reset)
                  ELSE all[x]

InsertsUp(up, all, ops, n) ==
  /\ up[0] = all
  /\ \A k \in 1 .. n : HasInserted(up[k], up[k - 1], ops[k])
  /\ up[n] = InsertAll(all, ops)

(* A normal insert changes one node.                                       *)
LEMMA InsertNormallyOps ==
  ASSUME InputInv, NEW all \in [Nodes -> ContentSet], NEW op \in Operations
  PROVE  HasInserted(InsertNormally(all, op), all, op)
<1>1. PICK x, key : x = operations[op].node /\ key = operations[op].key
  OBVIOUS
<1>2. x \in Nodes /\ key \in Keys
  BY <1>1 DEF InputInv
<1>3. PICK new : new = NormalInsert(all[x], key, Reset)
  OBVIOUS
<1>4. new \in ContentSet
  <2>1. all[x] \in ContentSet
    BY <1>2
  <2> QED  BY <1>2, <1>3, <2>1, NormalOps
<1>5. InsertNormally(all, op) = [all EXCEPT ![x] = new]
  BY <1>1, <1>3 DEF InsertNormally
<1>6. PICK after : after = [all EXCEPT ![x] = new]
  OBVIOUS
<1>7. /\ after \in [Nodes -> ContentSet] /\ after[x] = new
      /\ \A y \in Nodes : y # x => after[y] = all[y]
  BY <1>2, <1>4, <1>6
<1>8. HasInserted(after, all, op)
  BY <1>1, <1>3, <1>7 DEF HasInserted
<1> QED  BY <1>5, <1>6, <1>8

(* The normal inserts of a sequence come one after the other.              *)
LEMMA InsertsAll ==
  ASSUME InputInv, NEW all \in [Nodes -> ContentSet], NEW n \in Nat, NEW ops \in [1 .. n -> Operations]
  PROVE  \E up \in [0 .. n -> [Nodes -> ContentSet]] : InsertsUp(up, all, ops, n)
<1> DEFINE D == [Nodes -> ContentSet]
           F == [p \in [Nodes -> ContentSet] \X (1 .. n) |-> InsertNormally(p[1], ops[p[2]])]
           last == [s \in SUBSET (1 .. n) |-> Max(s)]
           fold[s \in SUBSET DOMAIN ops] ==
             IF s = {} THEN all ELSE InsertNormally(fold[s \ {Max(s)}], ops[Max(s)])
<1>1. DOMAIN ops = 1 .. n /\ \A k \in 1 .. n : ops[k] \in Operations
  OBVIOUS
<1>2. InsertAll(all, ops) = fold[DOMAIN ops]
  BY DEF InsertAll, FoldLeft, MapThenFoldSet
<1>3. F \in [[Nodes -> ContentSet] \X (1 .. n) -> [Nodes -> ContentSet]]
  <2>1. ASSUME NEW p \in [Nodes -> ContentSet] \X (1 .. n)
        PROVE  InsertNormally(p[1], ops[p[2]]) \in [Nodes -> ContentSet]
    <3>1. p[1] \in [Nodes -> ContentSet] /\ ops[p[2]] \in Operations
      OBVIOUS
    <3>2. PICK l, o : l = p[1] /\ o = ops[p[2]]
      OBVIOUS
    <3>3. HasInserted(InsertNormally(l, o), l, o)
      BY <3>1, <3>2, InsertNormallyOps
    <3> QED  BY <3>2, <3>3 DEF HasInserted
  <2> QED  BY <2>1
<1>4. ASSUME NEW l \in [Nodes -> ContentSet], NEW k \in 1 .. n
      PROVE  F[<<l, k>>] = InsertNormally(l, ops[k])
  OBVIOUS
<1>5. \A s \in SUBSET (1 .. n) : s # {} => last[s] \in s
  BY <1>1, MaxOfFirst
<1>6. PICK part \in [SUBSET (1 .. n) -> [Nodes -> ContentSet]] : FoldsAll(part, F, all, last, 1 .. n)
  <2>1. IsFiniteSet(1 .. n)
    BY FS_Interval, <1>1
  <2>2. F \in [D \X (1 .. n) -> D] /\ all \in D
    BY <1>3
  <2>4. Chooses(last, 1 .. n)
    BY <1>5 DEF Chooses
  <2>3. \E part \in [SUBSET (1 .. n) -> D] : FoldsAll(part, F, all, last, 1 .. n)
    <3> HIDE DEF F, last, D, fold
    <3> QED  BY <2>1, <2>2, <2>4, FoldExists
  <2> HIDE DEF F, last
  <2> QED  BY <2>3
<1>7. fold = [s \in SUBSET DOMAIN ops |->
                IF s = {} THEN all ELSE InsertNormally(fold[s \ {Max(s)}], ops[Max(s)])]
  <2>1. ASSUME NEW s \in SUBSET (1 .. n)
        PROVE  part[s] = IF s = {} THEN all ELSE InsertNormally(part[s \ {Max(s)}], ops[Max(s)])
    <3>1. CASE s = {}
      BY <1>6, <3>1 DEF FoldsAll
    <3>2. CASE s # {}
      <4>1. last[s] = Max(s) /\ Max(s) \in 1 .. n /\ s \ {Max(s)} \in SUBSET (1 .. n)
        BY <1>5, <3>2
      <4>2. part[s \ {Max(s)}] \in [Nodes -> ContentSet]
        BY <4>1
      <4>3. part[s] = F[<<part[s \ {Max(s)}], Max(s)>>]
        BY <1>6, <3>2, <4>1 DEF FoldsAll
      <4> HIDE DEF F
      <4> QED  BY <1>4, <3>2, <4>1, <4>2, <4>3
    <3> QED  BY <3>1, <3>2
  <2>2. part = [s \in SUBSET DOMAIN ops |->
                IF s = {} THEN all ELSE InsertNormally(part[s \ {Max(s)}], ops[Max(s)])]
    BY <1>1, <2>1
  <2> QED  BY <2>2
<1> HIDE DEF fold
<1>8. fold[{}] = all
  BY <1>7
<1>9. ASSUME NEW s \in SUBSET (1 .. n), s # {}, fold[s \ {Max(s)}] \in [Nodes -> ContentSet]
      PROVE  fold[s] = F[<<fold[s \ {Max(s)}], Max(s)>>]
  <2>1. Max(s) \in 1 .. n
    BY <1>1, <1>9, MaxOfFirst
  <2>2. fold[s] = InsertNormally(fold[s \ {Max(s)}], ops[Max(s)])
    BY <1>1, <1>7, <1>9
  <2> HIDE DEF F
  <2> QED  BY <1>4, <1>9, <2>1, <2>2
<1>10. PICK up \in [0 .. n -> [Nodes -> ContentSet]] : FoldsUp(up, F, all, fold, n)
  <2>1. F \in [D \X (1 .. n) -> D] /\ all \in D
    BY <1>3
  <2>2. FoldsStep(fold, F, all, D, n)
    <3> HIDE DEF F
    <3> QED  BY <1>8, <1>9 DEF FoldsStep
  <2>3. \E up \in [0 .. n -> D] : FoldsUp(up, F, all, fold, n)
    <3> HIDE DEF F, D, last
    <3> QED  BY <1>1, <2>1, <2>2, FoldFromLeft
  <2> HIDE DEF F
  <2> QED  BY <2>3
<1>11. ASSUME NEW k \in 1 .. n
       PROVE  HasInserted(up[k], up[k - 1], ops[k])
  <2>1. up[k - 1] \in [Nodes -> ContentSet] /\ ops[k] \in Operations
    BY <1>1, <1>10
  <2>2. up[k] = InsertNormally(up[k - 1], ops[k])
    <3> HIDE DEF F
    <3> QED  BY <1>4, <1>10, <2>1 DEF FoldsUp
  <2> QED  BY <2>1, <2>2, InsertNormallyOps
<1>12. up[n] = InsertAll(all, ops) /\ up[0] = all
  BY <1>1, <1>2, <1>10 DEF FoldsUp
<1>13. InsertsUp(up, all, ops, n)
  BY <1>11, <1>12 DEF InsertsUp
<1> QED  BY <1>13

\* What the normal inserts of a batch make of the nodes.
BatchInserted(after) ==
  /\ after \in [Nodes -> ContentSet]
  /\ \A n \in Nodes : (\A m \in Current : NodeFor(m) # n) => after[n] = normal_nodes[n]
  /\ \A m \in Current :
       after[NodeFor(m)] = NormalInsert(normal_nodes[NodeFor(m)], KeyFor(m), Reset)

(* The nodes of the members are each inserted into once.                   *)
LEMMA NormalBatch ==
  ASSUME InputInv, TypeInv, program # "coro_lookup", i < OperationCount
  PROVE  BatchInserted(NormalNodesAfter)
<1>1. PICK n \in Nat \ {0}, first \in Nat : n = Batch /\ first = i
  BY BatchOps
<1>2. first + n <= OperationCount /\ n <= GROUP_SIZE /\ OperationCount \in Nat /\ GROUP_SIZE \in Nat
      /\ Members = 0 .. GROUP_SIZE - 1
  BY <1>1, BatchOps
<1>3. PICK ops : ops = [m \in 1 .. n |-> (first + m) - 1]
  OBVIOUS
<1>4. ops \in [1 .. n -> Operations]
  BY <1>1, <1>2, <1>3 DEF Operations
<1>5. PICK all : all = normal_nodes
  OBVIOUS
<1>6. all \in [Nodes -> ContentSet]
  BY <1>5 DEF TypeInv
<1>7. NormalNodesAfter = InsertAll(all, ops)
  BY <1>1, <1>3, <1>5 DEF NormalNodesAfter, InsertAll
<1>8. PICK up \in [0 .. n -> [Nodes -> ContentSet]] : InsertsUp(up, all, ops, n)
  BY <1>4, <1>6, InsertsAll
<1>9. Current = 0 .. n - 1
  BY <1>1, <1>2 DEF Current
<1> DEFINE After(k) ==
      k <= n => \A x \in Nodes :
        /\ (\A m \in 0 .. k - 1 : NodeFor(m) # x) => up[k][x] = all[x]
        /\ \A m \in 0 .. k - 1 : NodeFor(m) = x => up[k][x] = NormalInsert(all[x], KeyFor(m), Reset)
      S == {k \in Nat : After(k)}
<1>10. After(0)
  <2>1. up[0] = all
    BY <1>8 DEF InsertsUp
  <2> QED  BY <2>1
<1>11. ASSUME NEW k \in Nat, After(k)
       PROVE  After(k + 1)
  <2> SUFFICES ASSUME k + 1 <= n, NEW x \in Nodes
               PROVE  /\ (\A m \in 0 .. (k + 1) - 1 : NodeFor(m) # x) => up[k + 1][x] = all[x]
                      /\ \A m \in 0 .. (k + 1) - 1 :
                           NodeFor(m) = x => up[k + 1][x] = NormalInsert(all[x], KeyFor(m), Reset)
    OBVIOUS
  <2>1. k + 1 \in 1 .. n /\ (k + 1) - 1 = k /\ k <= n /\ k \in Current /\ 0 .. k - 1 \subseteq Current
        /\ ops[k + 1] = first + k
    BY <1>3, <1>9
  <2>2. HasInserted(up[k + 1], up[k], first + k)
    <3>1. HasInserted(up[k + 1], up[(k + 1) - 1], ops[k + 1])
      BY <1>8, <2>1 DEF InsertsUp
    <3> QED  BY <2>1, <3>1
  <2>3. up[k + 1][x] = IF NodeFor(k) = x THEN NormalInsert(up[k][x], KeyFor(k), Reset) ELSE up[k][x]
    BY <1>1, <2>2 DEF HasInserted, NodeFor, KeyFor
  <2>4. /\ (\A m \in 0 .. k - 1 : NodeFor(m) # x) => up[k][x] = all[x]
        /\ \A m \in 0 .. k - 1 : NodeFor(m) = x => up[k][x] = NormalInsert(all[x], KeyFor(m), Reset)
    BY <1>11, <2>1
  <2>5. CASE NodeFor(k) = x
    <3>1. \A m \in 0 .. k - 1 : NodeFor(m) # x
      <4>1. \A m \in 0 .. k - 1 : m # k /\ m \in Current
        BY <2>1
      <4> QED  BY <2>1, <2>5, <4>1, NodesDiffer
    <3>2. up[k + 1][x] = NormalInsert(all[x], KeyFor(k), Reset)
      BY <2>3, <2>4, <2>5, <3>1
    <3>3. \A m \in 0 .. k : m = k \/ m \in 0 .. k - 1
      OBVIOUS
    <3> QED  BY <2>1, <2>5, <3>1, <3>2, <3>3
  <2>6. CASE NodeFor(k) # x
    <3>1. \A m \in 0 .. k : m = k \/ m \in 0 .. k - 1
      OBVIOUS
    <3>2. \A m \in 0 .. k - 1 : m \in 0 .. k
      OBVIOUS
    <3> QED  BY <2>1, <2>3, <2>4, <2>6, <3>1, <3>2
  <2> QED  BY <2>5, <2>6
<1>12. After(n)
  <2>1. 0 \in S /\ \A k \in Nat : k \in S => k + 1 \in S
    <3> HIDE DEF After
    <3> QED  BY <1>10, <1>11
  <2>2. \A k \in Nat : k \in S
    <3> HIDE DEF S
    <3> QED  BY <2>1, Induction
  <2> QED  BY <1>1, <2>2
<1>13. /\ up[n] \in [Nodes -> ContentSet]
       /\ NormalNodesAfter = up[n]
  <2>1. n \in 0 .. n
    OBVIOUS
  <2> QED  BY <1>7, <1>8, <2>1 DEF InsertsUp
<1>14. \A m \in Current : NodeFor(m) \in Nodes
  BY CurrentOps
<1>15. \A x \in Nodes :
        /\ (\A m \in Current : NodeFor(m) # x) => up[n][x] = all[x]
        /\ \A m \in Current : NodeFor(m) = x => up[n][x] = NormalInsert(all[x], KeyFor(m), Reset)
  BY <1>9, <1>12
<1>16. BatchInserted(up[n])
  BY <1>5, <1>13, <1>14, <1>15 DEF BatchInserted
<1> QED  BY <1>13, <1>16

-----------------------------------------------------------------------------
\* The end of a batch of inserts.

(* The members of a batch that ends have done all their steps.             *)
LEMMA AllFinished ==
  ASSUME InputInv, PositionInv, program # "coro_lookup", EndBatch, NEW m \in Current
  PROVE  /\ Chosen(m) /\ Stored(m) /\ Used(m) /\ Safe(m)
         /\ Finished(m) \/ Rounds[round]
<1>1. at[m] = There
  BY NextBatch
<1>2. round = Len(Rounds)
  BY DEF EndBatch
<1>3. /\ Kind \in InsertKinds /\ Kind \in Kinds /\ round = LastOf[Kind] /\ round \in 1 .. LastOf[Kind]
      /\ Rounds = FencedRounds[Kind]
  BY <1>2, RoundOps, KindOfBatch
<1>4. Rounds[round] <=> (Kind = "full" /\ round > 2) \/ Kind = "write"
  BY <1>3, FenceTables
<1>5. CASE Kind = "normal"
  <2>1. at[m] = 6
    BY <1>1, <1>3, <1>5 DEF There, LastOf, Starts
  <2> QED  BY <1>5, <2>1 DEF Chosen, Stored, Used, Safe, Finished, ChooseAt, StoreAt, UseAt
<1>6. CASE Kind = "full"
  <2>1. at[m] = 9 /\ round = 4
    BY <1>1, <1>3, <1>6 DEF There, LastOf, Starts
  <2> QED  BY <1>4, <1>6, <2>1 DEF Chosen, Stored, Used, Safe, Finished, ChooseAt, StoreAt, UseAt
<1>7. CASE Kind = "read"
  <2>1. at[m] = 10
    BY <1>1, <1>3, <1>7 DEF There, LastOf, Starts
  <2> QED  BY <1>7, <2>1 DEF Chosen, Stored, Used, Safe, Finished, ChooseAt, StoreAt, UseAt
<1>8. CASE Kind = "write"
  <2>1. at[m] = 5 /\ round = 2
    BY <1>1, <1>3, <1>8 DEF There, LastOf, Starts
  <2> QED  BY <1>4, <1>8, <2>1 DEF Chosen, Stored, Used, Safe, Finished, ChooseAt, StoreAt, UseAt
<1> QED  BY <1>3, <1>5, <1>6, <1>7, <1>8 DEF InsertKinds

(* A node in which an insert is done is as if it had been a normal one.    *)
LEMMA DoneIsNormal ==
  ASSUME NEW node \in NodeSet, NEW before \in ContentSet, NEW key \in Keys, NEW sl,
         sl = SlotFor(before.head), IsStored(node, before, sl, key), IsUsed(node, before, key)
  PROVE  IsFresh(node, NormalInsert(before, key, Reset))
<1>1. PICK after : after = NormalInsert(before, key, Reset)
  OBVIOUS
<1>2. /\ sl \in Slots /\ after.entries[sl] = key
      /\ \A s \in Slots : s # sl => after.entries[s] = before.entries[s]
  BY <1>1, NormalOps
<1>3. node.head.vol = after.head
  BY <1>1 DEF IsUsed
<1>4. \A s \in Slots : node.entries[s].vol = after.entries[s]
  BY <1>2 DEF IsStored
<1> QED  BY <1>1, <1>3, <1>4 DEF IsFresh

\* Every node as a batch leaves it.
Settled(n) ==
  /\ IsFresh(nodes'[n], normal_nodes'[n])
  /\ \A s \in Slots : /\ nodes'[n].entries[s].fen = nodes'[n].entries[s].vol
                      /\ Stable(nodes'[n].entries[s])
  /\ (\E op \in 0 .. i' - 1 : operations[op].node = n) => Stable(nodes'[n].head)

(* A batch leaves the nodes as normal inserts do, and durable.             *)
LEMMA BatchSettles ==
  ASSUME InputInv, PositionInv, TypeInv, InsertInv, program # "coro_lookup", EndBatch,
         NEW n \in Nodes
  PROVE  Settled(n) /\ Kept(nodes'[n], nodes[n])
<1>1. /\ nodes' = IF Rounds[round] THEN FenceNodes ELSE nodes
      /\ i < OperationCount /\ normal_nodes' = NormalNodesAfter /\ i' = i + Batch
  BY DEF EndBatch
<1>2. nodes[n] \in NodeSet /\ normal_nodes[n] \in ContentSet
  BY DEF TypeInv
<1>3. nodes'[n] = IF Rounds[round] THEN FenceNode(nodes[n]) ELSE nodes[n]
  BY <1>1 DEF FenceNodes
<1>4. Kept(nodes'[n], nodes[n])
  BY <1>2, <1>3, FenceOps, KeptItself
<1>5. BatchInserted(normal_nodes')
  BY <1>1, NormalBatch
<1>6. \A s \in Slots : nodes[n].entries[s].fen = nodes[n].entries[s].vol /\ Stable(nodes[n].entries[s])
  <2>1. ASSUME NEW s \in Slots PROVE ~ Waits(n, s)
    <3>1. \A m \in Current : Safe(m)
      BY AllFinished
    <3> QED  BY <3>1 DEF Waits
  <2>2. EntriesInv(n)
    BY DEF InsertInv
  <2> QED  BY <2>1, <2>2 DEF EntriesInv
<1>7. \A s \in Slots : nodes'[n].entries[s].fen = nodes'[n].entries[s].vol /\ Stable(nodes'[n].entries[s])
  BY <1>4, <1>6 DEF Kept
<1>8. PICK sl \in Slots, key \in Keys : TRUE
  <2>1. 0 \in Slots /\ 0 \in Keys
    BY NodeConstants
  <2> QED  BY <2>1
<1>9. CASE \E m \in Current : NodeFor(m) = n
  <2>1. PICK m \in Current : NodeFor(m) = n
    BY <1>9
  <2>2. Chosen(m) /\ Stored(m) /\ Used(m) /\ (Finished(m) \/ Rounds[round])
    BY AllFinished
  <2>3. PICK before, new, k : before = normal_nodes[n] /\ new = normal_nodes'[n] /\ k = KeyFor(m)
    OBVIOUS
  <2>4. new = NormalInsert(before, k, Reset) /\ k \in Keys
    BY <1>5, <2>1, <2>3, CurrentOps DEF BatchInserted
  <2>5. /\ slot[m] = SlotFor(before.head) /\ IsStored(nodes[n], before, slot[m], k)
        /\ IsUsed(nodes[n], before, k) /\ (Finished(m) => Stable(nodes[n].head))
    <3>1. MemberInv(m)
      BY DEF InsertInv
    <3> QED  BY <2>1, <2>2, <2>3, <3>1 DEF MemberInv
  <2>6. IsFresh(nodes[n], new)
    BY <1>2, <2>3, <2>4, <2>5, DoneIsNormal
  <2>7. new \in ContentSet
    BY <1>5, <2>3 DEF BatchInserted
  <2>8. IsFresh(nodes'[n], new)
    BY <1>2, <1>4, <1>8, <2>6, <2>7, KeptOps
  <2>9. Stable(nodes'[n].head)
    <3>1. CASE Rounds[round]
      <4>1. nodes[n].head.fen = nodes[n].head.vol
        BY <2>5 DEF IsStored
      <4> QED  BY <1>2, <1>3, <3>1, <4>1, FenceOps
    <3>2. CASE ~ Rounds[round]
      BY <1>3, <2>2, <2>5, <3>2
    <3> QED  BY <3>1, <3>2
  <2> QED  BY <1>4, <1>7, <2>3, <2>8, <2>9 DEF Settled
<1>10. CASE \A m \in Current : NodeFor(m) # n
  <2>1. Untouched(n) /\ NodeInv(n)
    BY <1>10 DEF Untouched, InsertInv
  <2>2. /\ IsFresh(nodes[n], normal_nodes[n])
        /\ (\E op \in 0 .. i - 1 : operations[op].node = n) => Stable(nodes[n].head)
    BY <2>1 DEF NodeInv
  <2>3. normal_nodes'[n] = normal_nodes[n]
    BY <1>5, <1>10 DEF BatchInserted
  <2>4. /\ IsFresh(nodes'[n], normal_nodes[n])
        /\ Stable(nodes[n].head) => Stable(nodes'[n].head)
    BY <1>2, <1>4, <1>8, <2>2, KeptOps
  <2>5. ASSUME NEW op \in 0 .. i' - 1, operations[op].node = n
        PROVE  op \in 0 .. i - 1
    <3>1. i \in Nat /\ Batch \in 1 .. GROUP_SIZE /\ Members = 0 .. GROUP_SIZE - 1 /\ GROUP_SIZE \in Nat
      BY BatchOps
    <3>2. SUFFICES ASSUME op >= i PROVE FALSE
      BY <1>1, <3>1
    <3>3. op - i \in Members /\ op - i < Batch /\ i + (op - i) = op
      BY <1>1, <3>1, <3>2
    <3>4. op - i \in Current
      BY <1>1, <3>3 DEF Current
    <3>5. NodeFor(op - i) = n
      BY <2>5, <3>3 DEF NodeFor
    <3> QED  BY <1>10, <3>4, <3>5
  <2> QED  BY <1>4, <1>7, <2>2, <2>3, <2>4, <2>5 DEF Settled
<1> QED  BY <1>9, <1>10

(* The next batch of inserts begins.                                       *)
LEMMA InsertsNextBatch ==
  ASSUME InputInv, PositionInv, TypeInv, InsertInv, program # "coro_lookup", EndBatch
  PROVE  InsertInv' /\ TypeInv'
<1>1. /\ InputInv' /\ PositionInv' /\ program' = program /\ operations' = operations
  BY NextBatch
<1>2. /\ at' = [m \in Members |-> 1] /\ sum' = sum /\ slot' = slot /\ normal_nodes' = NormalNodesAfter
      /\ nodes' = IF Rounds[round] THEN FenceNodes ELSE nodes
      /\ i < OperationCount
  BY DEF EndBatch
<1>3. \A n \in Nodes : Settled(n) /\ Kept(nodes'[n], nodes[n])
  BY BatchSettles
<1>4. TypeInv'
  <2>1. nodes' \in [Nodes -> NodeSet]
    <3>1. \A n \in Nodes : nodes'[n] \in NodeSet
      BY <1>3 DEF Kept
    <3>2. nodes \in [Nodes -> NodeSet]
      BY DEF TypeInv
    <3>3. nodes' = [n \in Nodes |-> nodes'[n]]
      BY <1>2, <3>2 DEF FenceNodes
    <3> QED  BY <3>1, <3>3
  <2>2. normal_nodes' \in [Nodes -> ContentSet]
    BY <1>2, NormalBatch DEF BatchInserted
  <2> QED  BY <1>2, <2>1, <2>2 DEF TypeInv
<1>5. Kind' \in InsertKinds
  <2>1. InGroup' => InGroup
    BY NextBatch
  <2>2. program' # "coro_lookup" /\ style' = style /\ Kind \in InsertKinds
    BY <1>1, NextBatch, KindOfBatch
  <2> QED  BY <1>1, <2>1, <2>2 DEF Kind, InsertKinds
<1>6. ChooseAt[Kind'] >= 1 /\ StoreAt[Kind'] >= 1 /\ UseAt[Kind'] >= 1
  BY <1>5 DEF InsertKinds, ChooseAt, StoreAt, UseAt
<1>7. ASSUME NEW m \in Members
      PROVE  ~ Chosen(m)' /\ ~ Stored(m)' /\ ~ Used(m)' /\ ~ Finished(m)'
  <2>1. at'[m] = 1
    BY <1>2
  <2>2. ~ Chosen(m)'
    <3>1. ChooseAt[Kind'] \in Nat
      BY <1>5 DEF InsertKinds, ChooseAt
    <3> QED  BY <1>6, <2>1, <3>1 DEF Chosen
  <2>3. ~ Stored(m)'
    <3>1. StoreAt[Kind'] \in Nat
      BY <1>5 DEF InsertKinds, StoreAt
    <3> QED  BY <1>6, <2>1, <3>1 DEF Stored
  <2>4. ~ Used(m)'
    <3>1. UseAt[Kind'] \in Nat
      BY <1>5 DEF InsertKinds, UseAt
    <3> QED  BY <1>6, <2>1, <3>1 DEF Used
  <2>5. ~ Finished(m)'
    BY <2>1 DEF Finished
  <2> QED  BY <2>2, <2>3, <2>4, <2>5
<1>8. ASSUME NEW n \in Nodes
      PROVE  EntriesInv(n)' /\ NodeInv(n)'
  <2>1. Settled(n)
    BY <1>3
  <2> QED  BY <1>1, <2>1 DEF Settled, EntriesInv, NodeInv
<1>9. \A m \in Current' : MemberInv(m)'
  <2>1. SUFFICES ASSUME NEW m \in Members, m \in Current' PROVE MemberInv(m)'
    BY DEF Current
  <2>2. NodeFor(m)' \in Nodes
    <3>1. /\ m < Batch' /\ i' < OperationCount /\ m \in Nat /\ i' \in Nat
          /\ OperationCount \in Nat /\ GROUP_SIZE \in Nat /\ operations' = operations
      <4>1. i' \in 0 .. OperationCount
        BY <1>1 DEF InputInv
      <4>2. OperationCount \in Nat /\ GROUP_SIZE \in Nat /\ m \in Nat
        BY BatchOps
      <4> QED  BY <1>1, <2>1, <4>1, <4>2 DEF Current
    <3>2. PICK first \in Nat : first = i'
      BY <3>1
    <3>3. CASE InGroup'
      <4>1. m < GROUP_SIZE /\ first + GROUP_SIZE - 1 < OperationCount
        BY <3>1, <3>2, <3>3 DEF Batch, InGroup
      <4>2. first + m \in 0 .. OperationCount - 1
        <5>1. OperationCount \in Nat /\ GROUP_SIZE \in Nat /\ m \in Nat
          BY <3>1
        <5> QED  BY <4>1, <5>1
      <4> QED  BY <3>1, <3>2, <4>2 DEF InputInv, NodeFor, Operations
    <3>4. CASE ~ InGroup'
      <4>1. m < 1 /\ first < OperationCount
        BY <3>1, <3>2, <3>4 DEF Batch
      <4>2. first + m \in 0 .. OperationCount - 1
        <5>1. OperationCount \in Nat /\ m \in Nat
          BY <3>1
        <5> QED  BY <4>1, <5>1
      <4> QED  BY <3>1, <3>2, <4>2 DEF InputInv, NodeFor, Operations
    <3> QED  BY <3>3, <3>4
  <2>3. PICK n \in Nodes : n = NodeFor(m)'
    BY <2>2
  <2>4. IsFresh(nodes'[n], normal_nodes'[n])
    BY <1>3 DEF Settled
  <2> QED  BY <1>7, <2>3, <2>4 DEF MemberInv
<1>10. ASSUME program' = "coro_insert", NEW n \in Nodes, NEW s \in Slots
       PROVE  KeepsEntry(nodes'[n], s)
  <2>1. KeepsEntry(nodes[n], s) /\ Kept(nodes'[n], nodes[n])
    BY <1>1, <1>3, <1>10 DEF InsertInv
  <2>2. nodes[n] \in NodeSet /\ normal_nodes[n] \in ContentSet
    BY DEF TypeInv
  <2>3. PICK key \in Keys : TRUE
    <3>1. 0 \in Keys
      BY NodeConstants
    <3> QED  BY <3>1
  <2> QED  BY <2>1, <2>2, <2>3, KeptOps
<1>11. sum' = 0
  BY <1>2 DEF InsertInv
<1> QED  BY <1>4, <1>8, <1>9, <1>10, <1>11 DEF InsertInv

-----------------------------------------------------------------------------
\* The sum of the keys.

\* The sum of w over every part of T, as the fold of the community modules
\* takes it: in an order of its own.
Sums(fold, w, T) ==
  \A s \in SUBSET T :
    fold[s] = IF s = {} THEN 0
              ELSE w[CHOOSE x \in s : TRUE] + fold[s \ {CHOOSE x \in s : TRUE}]

IsSum(fold, w, T) ==
  /\ IsFiniteSet(T) /\ w \in [T -> Nat] /\ fold \in [SUBSET T -> Nat]
  /\ Sums(fold, w, T)

\* Any element of a part may be the last that is added.
AnyLast(fold, w, T) == \A s \in SUBSET T : \A x \in s : fold[s] = w[x] + fold[s \ {x}]

(* There are such sums,                                                    *)
LEMMA SumExists ==
  ASSUME NEW T, IsFiniteSet(T), NEW w \in [T -> Nat]
  PROVE  \E fold \in [SUBSET T -> Nat] : Sums(fold, w, T)
<1> DEFINE F == [p \in Nat \X T |-> w[p[2]] + p[1]]
           c == [s \in SUBSET T |-> CHOOSE x \in s : TRUE]
<1>1. F \in [Nat \X T -> Nat]
  OBVIOUS
<1>2. Chooses(c, T)
  BY DEF Chooses
<1>3. \E fold \in [SUBSET T -> Nat] : FoldsAll(fold, F, 0, c, T)
  <2> HIDE DEF F, c
  <2> QED  BY <1>1, <1>2, FoldExists
<1>4. PICK fold \in [SUBSET T -> Nat] : FoldsAll(fold, F, 0, c, T)
  <2> HIDE DEF F, c
  <2> QED  BY <1>3
<1>5. ASSUME NEW s \in SUBSET T
      PROVE  fold[s] = IF s = {} THEN 0
                       ELSE w[CHOOSE x \in s : TRUE] + fold[s \ {CHOOSE x \in s : TRUE}]
  <2>1. CASE s = {}
    <3>1. fold[s] = 0
      <4> HIDE DEF F, c
      <4> QED  BY <1>4, <2>1 DEF FoldsAll
    <3> QED  BY <2>1, <3>1
  <2>2. CASE s # {}
    <3>1. PICK x : x = CHOOSE y \in s : TRUE
      OBVIOUS
    <3>2. x \in s /\ c[s] = x
      BY <2>2, <3>1
    <3>3. fold[s] = F[<<fold[s \ {x}], x>>]
      <4> HIDE DEF F, c
      <4> QED  BY <1>4, <2>2, <3>2 DEF FoldsAll
    <3>4. fold[s \ {x}] \in Nat /\ x \in T
      BY <3>2
    <3>5. F[<<fold[s \ {x}], x>>] = w[x] + fold[s \ {x}]
      BY <3>4
    <3> HIDE DEF F, c
    <3> QED  BY <2>2, <3>1, <3>3, <3>5
  <2> QED  BY <2>1, <2>2
<1>6. Sums(fold, w, T)
  <2> HIDE DEF F, c
  <2> QED  BY <1>5 DEF Sums
<1> QED  BY <1>6

(* ... in which the order does not matter,                                 *)
LEMMA SumsRemove ==
  ASSUME NEW T, NEW w, NEW fold, IsSum(fold, w, T)
  PROVE  AnyLast(fold, w, T)
<1>0. /\ IsFiniteSet(T) /\ w \in [T -> Nat] /\ fold \in [SUBSET T -> Nat]
      /\ Sums(fold, w, T)
  BY DEF IsSum
<1> DEFINE Removes(k) == \A s \in SUBSET T : Cardinality(s) = k =>
                           \A x \in s : fold[s] = w[x] + fold[s \ {x}]
           S == {k \in Nat : Removes(k)}
<1>1. Removes(0)
  <2>1. \A s \in SUBSET T : Cardinality(s) = 0 => s = {}
    BY <1>0, Without
  <2> QED  BY <2>1
<1>2. ASSUME NEW k \in Nat, Removes(k)
      PROVE  Removes(k + 1)
  <2> SUFFICES ASSUME NEW s \in SUBSET T, Cardinality(s) = k + 1, NEW x \in s
               PROVE  fold[s] = w[x] + fold[s \ {x}]
    OBVIOUS
  <2>1. PICK c : c = CHOOSE y \in s : TRUE
    OBVIOUS
  <2>2. c \in s
    BY <2>1
  <2>3. fold[s] = w[c] + fold[s \ {c}]
    BY <1>0, <2>1, <2>2 DEF Sums
  <2>4. CASE x = c
    BY <2>3, <2>4
  <2>5. CASE x # c
    <3>1. \A y \in s : Cardinality(s \ {y}) = Cardinality(s) - 1
      BY <1>0, Without
    <3>2. Cardinality(s \ {c}) = k /\ Cardinality(s \ {x}) = k
      BY <2>2, <3>1
    <3>3. s \ {c} \in SUBSET T /\ s \ {x} \in SUBSET T /\ x \in s \ {c} /\ c \in s \ {x}
      BY <2>2, <2>5
    <3>4. /\ fold[s \ {c}] = w[x] + fold[(s \ {c}) \ {x}]
          /\ fold[s \ {x}] = w[c] + fold[(s \ {x}) \ {c}]
      BY <1>2, <3>2, <3>3
    <3>5. (s \ {x}) \ {c} = (s \ {c}) \ {x}
      OBVIOUS
    <3>6. PICK rest \in Nat, a \in Nat, b \in Nat :
            rest = fold[(s \ {c}) \ {x}] /\ a = w[c] /\ b = w[x]
      <4>1. (s \ {c}) \ {x} \in SUBSET T /\ c \in T /\ x \in T
        BY <2>2
      <4> QED  BY <1>0, <4>1
    <3>7. fold[s \ {c}] = b + rest /\ fold[s \ {x}] = a + rest /\ fold[s] = a + fold[s \ {c}]
      BY <2>3, <3>4, <3>5, <3>6
    <3> QED  BY <3>6, <3>7
  <2> QED  BY <2>4, <2>5
<1>3. \A k \in Nat : k \in S
  <2>1. 0 \in S /\ \A k \in Nat : k \in S => k + 1 \in S
    <3> HIDE DEF Removes
    <3> QED  BY <1>1, <1>2
  <2> HIDE DEF S
  <2> QED  BY <2>1, Induction
<1>4. \A k \in Nat : Removes(k)
  <2> HIDE DEF Removes
  <2> QED  BY <1>3
<1>5. \A s \in SUBSET T : Cardinality(s) \in Nat
  BY <1>0, Without
<1> QED  BY <1>4, <1>5 DEF AnyLast

(* ... and a part has no other sum than that.                              *)
LEMMA SumsAgree ==
  ASSUME NEW T, NEW w, NEW fold, IsSum(fold, w, T),
         NEW part, part \in SUBSET T, NEW iter, Sums(iter, w, part)
  PROVE  iter[part] = fold[part]
<1>0. /\ IsFiniteSet(T) /\ w \in [T -> Nat] /\ fold \in [SUBSET T -> Nat]
      /\ Sums(fold, w, T)
  BY DEF IsSum
<1> DEFINE Agrees(k) == \A s \in SUBSET part : Cardinality(s) = k => iter[s] = fold[s]
           S == {k \in Nat : Agrees(k)}
<1>1. Agrees(0)
  <2>1. \A s \in SUBSET part : Cardinality(s) = 0 => s = {}
    BY <1>0, Without
  <2>2. iter[{}] = 0 /\ fold[{}] = 0
    BY <1>0 DEF Sums
  <2> QED  BY <2>1, <2>2
<1>2. ASSUME NEW k \in Nat, Agrees(k)
      PROVE  Agrees(k + 1)
  <2> SUFFICES ASSUME NEW s \in SUBSET part, Cardinality(s) = k + 1
               PROVE  iter[s] = fold[s]
    OBVIOUS
  <2>1. s \in SUBSET T /\ s # {}
    <3>1. s \in SUBSET T
      OBVIOUS
    <3>2. Cardinality(s) = 0 <=> s = {}
      BY <1>0, <3>1, Without
    <3> QED  BY <3>1, <3>2
  <2>2. PICK c : c = CHOOSE y \in s : TRUE
    OBVIOUS
  <2>3. c \in s
    BY <2>1, <2>2
  <2>4. fold[s] = w[c] + fold[s \ {c}] /\ iter[s] = w[c] + iter[s \ {c}]
    BY <1>0, <2>1, <2>2 DEF Sums
  <2>5. Cardinality(s \ {c}) = k /\ s \ {c} \in SUBSET part
    <3>1. \A y \in s : Cardinality(s \ {y}) = Cardinality(s) - 1
      BY <1>0, <2>1, Without
    <3> QED  BY <2>3, <3>1
  <2>6. iter[s \ {c}] = fold[s \ {c}]
    BY <1>2, <2>5
  <2> QED  BY <2>4, <2>6
<1>3. \A k \in Nat : k \in S
  <2>1. 0 \in S /\ \A k \in Nat : k \in S => k + 1 \in S
    <3> HIDE DEF Agrees
    <3> QED  BY <1>1, <1>2
  <2> HIDE DEF S
  <2> QED  BY <2>1, Induction
<1>4. \A k \in Nat : Agrees(k)
  <2> HIDE DEF Agrees
  <2> QED  BY <1>3
<1>5. \A s \in SUBSET part : Cardinality(s) \in Nat
  <2>1. \A s \in SUBSET part : s \in SUBSET T
    OBVIOUS
  <2> QED  BY <1>0, <2>1, Without
<1> QED  BY <1>4, <1>5

(* What Validate expects grows by one key with every lookup.               *)
LEMMA ExpectedOps ==
  ASSUME InputInv
  PROVE  /\ \A n \in 0 .. OperationCount : SumOfKeys(n) \in Nat
         /\ SumOfKeys(0) = 0
         /\ \A n \in Operations : SumOfKeys(n + 1) = SumOfKeys(n) + operations[n].key
<1> DEFINE w == [op \in Operations |-> operations[op].key]
<1>1. OperationCount \in Nat /\ Operations = 0 .. OperationCount - 1
  BY BatchOps DEF Operations
<1>2. IsFiniteSet(Operations)
  BY <1>1, FS_Interval
<1>3. w \in [Operations -> Nat]
  <2>1. \A op \in Operations : operations[op].key \in Nat
    BY NodeConstants DEF InputInv
  <2> QED  BY <2>1
<1>4. PICK fold \in [SUBSET Operations -> Nat] : Sums(fold, w, Operations)
  <2>1. \E fold \in [SUBSET Operations -> Nat] : Sums(fold, w, Operations)
    <3> HIDE DEF w
    <3> QED  BY <1>2, <1>3, SumExists
  <2> HIDE DEF w
  <2> QED  BY <2>1
<1>41. IsSum(fold, w, Operations)
  <2> HIDE DEF w
  <2> QED  BY <1>2, <1>3, <1>4 DEF IsSum
<1>5. ASSUME NEW n \in 0 .. OperationCount
      PROVE  SumOfKeys(n) = fold[0 .. n - 1] /\ 0 .. n - 1 \in SUBSET Operations
  <2> DEFINE part == 0 .. n - 1
             iter[s \in SUBSET (0 .. n - 1)] ==
               IF s = {} THEN 0
               ELSE operations[CHOOSE x \in s : TRUE].key + iter[s \ {CHOOSE x \in s : TRUE}]
  <2>1. part \in SUBSET Operations
    BY <1>1
  <2>2. SumOfKeys(n) = iter[0 .. n - 1]
    BY DEF SumOfKeys, Lookup!Expected, Lookup!MapThenSumSet, Lookup!MapThenFoldSet
  <2>3. PICK some : some = [s \in SUBSET (0 .. n - 1) |-> fold[s]]
    OBVIOUS
  <2>4. some = [s \in SUBSET (0 .. n - 1) |->
               IF s = {} THEN 0
               ELSE operations[CHOOSE x \in s : TRUE].key + some[s \ {CHOOSE x \in s : TRUE}]]
    <3>1. ASSUME NEW s \in SUBSET (0 .. n - 1)
          PROVE  some[s] = IF s = {} THEN 0
               ELSE operations[CHOOSE x \in s : TRUE].key + some[s \ {CHOOSE x \in s : TRUE}]
      <4>1. s \in SUBSET Operations /\ some[s] = fold[s]
        BY <2>1, <2>3
      <4>2. CASE s = {}
        <5> HIDE DEF w
        <5> QED  BY <1>4, <4>1, <4>2 DEF Sums
      <4>3. CASE s # {}
        <5>1. PICK x : x = CHOOSE y \in s : TRUE
          OBVIOUS
        <5>2. x \in s /\ x \in Operations /\ s \ {x} \in SUBSET (0 .. n - 1)
          BY <4>1, <4>3, <5>1
        <5>3. fold[s] = w[x] + fold[s \ {x}]
          <6> HIDE DEF w
          <6> QED  BY <1>4, <4>1, <4>3, <5>1 DEF Sums
        <5>4. w[x] = operations[x].key /\ some[s \ {x}] = fold[s \ {x}]
          BY <2>3, <5>2
        <5> HIDE DEF w
        <5> QED  BY <4>1, <4>3, <5>1, <5>3, <5>4
      <4> QED  BY <4>2, <4>3
    <3> HIDE DEF w
    <3> QED  BY <2>3, <3>1
  <2>5. iter = [s \in SUBSET (0 .. n - 1) |->
               IF s = {} THEN 0
               ELSE operations[CHOOSE x \in s : TRUE].key + iter[s \ {CHOOSE x \in s : TRUE}]]
    <3> HIDE DEF w
    <3> QED  BY <2>4
  <2> HIDE DEF iter
  <2>6. Sums(iter, w, part)
    <3>1. ASSUME NEW s \in SUBSET part
          PROVE  iter[s] = IF s = {} THEN 0
                           ELSE w[CHOOSE x \in s : TRUE] + iter[s \ {CHOOSE x \in s : TRUE}]
      <4>1. CASE s = {}
        BY <2>5, <4>1
      <4>2. CASE s # {}
        <5>1. PICK x : x = CHOOSE y \in s : TRUE
          OBVIOUS
        <5>2. x \in s /\ x \in Operations
          BY <2>1, <4>2, <5>1
        <5>3. iter[s] = operations[x].key + iter[s \ {x}]
          BY <2>5, <4>2, <5>1
        <5>4. w[x] = operations[x].key
          BY <5>2
        <5> HIDE DEF w
        <5> QED  BY <4>2, <5>1, <5>3, <5>4
      <4> QED  BY <4>1, <4>2
    <3> HIDE DEF w, part
    <3> QED  BY <3>1 DEF Sums
  <2>7. iter[part] = fold[part]
    <3> HIDE DEF w, part
    <3> QED  BY <1>41, <2>1, <2>6, SumsAgree
  <2> QED  BY <2>1, <2>2, <2>7
<1>6. AnyLast(fold, w, Operations)
  <2> HIDE DEF w
  <2> QED  BY <1>41, SumsRemove
<1>7. ASSUME NEW n \in 0 .. OperationCount
      PROVE  SumOfKeys(n) \in Nat
  BY <1>4, <1>5
<1>8. SumOfKeys(0) = 0
  <2>1. SumOfKeys(0) = fold[0 .. 0 - 1]
    BY <1>1, <1>5
  <2>2. 0 .. 0 - 1 = {}
    OBVIOUS
  <2>3. fold[{}] = 0
    <3> HIDE DEF w
    <3> QED  BY <1>4 DEF Sums
  <2> QED  BY <2>1, <2>2, <2>3
<1>9. ASSUME NEW n \in Operations
      PROVE  SumOfKeys(n + 1) = SumOfKeys(n) + operations[n].key
  <2>1. n \in 0 .. OperationCount /\ n + 1 \in 0 .. OperationCount /\ n \in Nat
    BY <1>1
  <2>2. /\ SumOfKeys(n) = fold[0 .. n - 1] /\ SumOfKeys(n) \in Nat
        /\ SumOfKeys(n + 1) = fold[0 .. (n + 1) - 1] /\ 0 .. (n + 1) - 1 \in SUBSET Operations
    BY <1>5, <1>7, <2>1
  <2>3. n \in 0 .. (n + 1) - 1 /\ (0 .. (n + 1) - 1) \ {n} = 0 .. n - 1
    BY <2>1
  <2>4. fold[0 .. (n + 1) - 1] = w[n] + fold[0 .. n - 1]
    <3> HIDE DEF w
    <3> QED  BY <1>6, <2>2, <2>3 DEF AnyLast
  <2>5. w[n] = operations[n].key /\ w[n] \in Nat
    BY <1>3
  <2> HIDE DEF w
  <2> QED  BY <2>2, <2>4, <2>5
<1> QED  BY <1>7, <1>8, <1>9

-----------------------------------------------------------------------------
\* The steps of the lookups.

(* A node of the lookups: every key is in the slot of its number, where    *)
(* its fingerprint is the only one that matches, and all of it is durable. *)
LEMMA LookupNode ==
  /\ Lookup!Initialize \in NodeSet
  /\ Stable(Lookup!Initialize.head) /\ \A s \in Slots : Stable(Lookup!Initialize.entries[s])
  /\ \A key \in Slots : /\ Matches(Lookup!Initialize.head.vol, key) = {key}
                        /\ Lookup!Initialize.entries[key].vol = key
<1>1. /\ Capacity \in Nat /\ HashCount \in Nat \ {0} /\ Capacity <= HashCount
      /\ Slots = 0 .. Capacity - 1 /\ Slots \subseteq EntrySet
  BY NodeConstants, CoroutineTreeAssumption DEF CoroutineTreeAssumption, EntrySet, Keys
<1>2. ASSUME NEW s \in Slots PROVE FingerprintHash(s) = s /\ s \in 0 .. HashCount - 1
  BY <1>1 DEF FingerprintHash
<1>3. PICK fps : fps = [s \in Slots |-> FingerprintHash(s)]
  OBVIOUS
<1>4. fps \in [Slots -> 0 .. HashCount - 1] /\ \A s \in Slots : fps[s] = s
  BY <1>2, <1>3
<1>5. PICK head, entries, node : /\ head = [free |-> {}, fingerprints |-> fps]
                                 /\ entries = [s \in Slots |-> Line(s)]
                                 /\ node = [head |-> Line(head), entries |-> entries]
  OBVIOUS
<1>6. node = Lookup!Initialize
  BY <1>3, <1>5 DEF Lookup!Initialize, Lookup!Line, Lookup!HeadLine, Lookup!FingerprintHash, Lookup!Slots,
     Line, FingerprintHash, Slots
<1>7. head \in HeadSet /\ head.free = {} /\ head.fingerprints = fps
  BY <1>4, <1>5 DEF HeadSet
<1>8. /\ Line(head) \in LineSet(HeadSet) /\ Stable(Line(head)) /\ Line(head).vol = head
  BY <1>7 DEF Line, LineSet, Stable
<1>9. ASSUME NEW s \in Slots
      PROVE  entries[s] \in LineSet(EntrySet) /\ Stable(entries[s]) /\ entries[s].vol = s
  <2>1. entries[s] = Line(s) /\ s \in EntrySet
    BY <1>1, <1>5
  <2> QED  BY <2>1 DEF Line, LineSet, Stable
<1>10. entries \in [Slots -> LineSet(EntrySet)]
  BY <1>5, <1>9
<1>11. node \in NodeSet /\ node.head = Line(head) /\ node.entries = entries
  BY <1>5, <1>8, <1>10 DEF NodeSet
<1>12. ASSUME NEW key \in Slots
       PROVE  Matches(head, key) = {key}
  <2>1. FingerprintHash(key) = key
    BY <1>2
  <2> QED  BY <1>4, <1>7, <2>1 DEF Matches, Node_IsSlotUsed
<1> QED  BY <1>6, <1>8, <1>9, <1>11, <1>12

(* The lookups of the batch that have compared are the first ones.         *)
LEMMA ComparedOps ==
  ASSUME InputInv, PositionInv, program = "coro_lookup"
  PROVE  /\ Kind \in LookupKinds /\ CompareAt[Kind] \in 1 .. 9 /\ MatchAt[Kind] \in 1 .. 9
         /\ CompareAt[Kind] = Len(Code[Kind]) /\ MatchAt[Kind] < CompareAt[Kind]
         /\ Here <= CompareAt[Kind]
         /\ There > CompareAt[Kind] <=> LastRound
         /\ Compared = IF running /\ at[g] > CompareAt[Kind] THEN g + 1
                       ELSE IF LastRound THEN g ELSE 0
         /\ g \in Nat
<1>1. Kind \in LookupKinds /\ Kind \in Kinds /\ round \in 1 .. LastOf[Kind]
  BY KindOfBatch, RoundOps
<1>2. 1 \in 1 .. Len(Code[Kind])
  BY RoundOps
<1>3. /\ CompareAt[Kind] \in 1 .. 9 /\ MatchAt[Kind] \in 1 .. 9
      /\ CompareAt[Kind] = Len(Code[Kind]) /\ MatchAt[Kind] < CompareAt[Kind]
      /\ Starts[Kind][round] <= CompareAt[Kind]
      /\ Starts[Kind][round + 1] > CompareAt[Kind] <=> round = LastOf[Kind]
  BY <1>1, <1>2, LookupTables
<1>4. /\ Here <= CompareAt[Kind]
      /\ There > CompareAt[Kind] <=> LastRound
  BY <1>3 DEF Here, There, LastRound
<1>5. Here \in 1 .. 9
  BY RoundOps
<1>6. ~ (Here > CompareAt[Kind])
  BY <1>3, <1>4, <1>5
<1>7. g \in Nat
  <2>1. g \in 0 .. Batch /\ Batch \in Nat
    BY BatchOps DEF PositionInv
  <2> QED  BY <2>1
<1> QED  BY <1>1, <1>3, <1>4, <1>6, <1>7 DEF Compared

(* ... and so it is after a step.                                          *)
LEMMA ComparedAfter ==
  ASSUME InputInv, PositionInv, PositionInv', SameBatch, program = "coro_lookup"
  PROVE  Compared' = IF running' /\ at'[g'] > CompareAt[Kind] THEN g' + 1
                     ELSE IF round' = LastOf[Kind] THEN g' ELSE 0
<1>0. Kind' = Kind
  BY SameBatchOps
<1>1. Kind \in LookupKinds /\ Kind \in Kinds /\ round' \in 1 .. LastOf[Kind]
  BY <1>0, KindOfBatch DEF PositionInv
<1>2. 1 \in 1 .. Len(Code[Kind])
  BY RoundOps
<1>3. PICK r \in 1 .. LastOf[Kind] : r = round'
  BY <1>1
<1>4. /\ CompareAt[Kind] \in 1 .. 9
      /\ Starts[Kind][r] <= CompareAt[Kind]
      /\ Starts[Kind][r + 1] > CompareAt[Kind] <=> r = LastOf[Kind]
  BY <1>1, <1>2, LookupTables
<1>5. Starts[Kind][r] \in 1 .. 9
  BY <1>1, Tables
<1>6. Here' = Starts[Kind][r] /\ There' = Starts[Kind][r + 1]
  BY <1>0, <1>3 DEF Here, There
<1>7. /\ ~ (Here' > CompareAt[Kind])
      /\ There' > CompareAt[Kind] <=> r = LastOf[Kind]
  BY <1>4, <1>5, <1>6
<1> QED  BY <1>0, <1>3, <1>7 DEF Compared

(* Steps of a lookup that return nothing.                                  *)
LEMMA LookupStays ==
  ASSUME InputInv, PositionInv, TypeInv, LookupInv, program = "coro_lookup", SameTasks, nodes' = nodes,
         Compared' = Compared,
         \A m \in Current : /\ slot'[m] = slot[m]
                            /\ at'[m] > MatchAt[Kind] => at[m] > MatchAt[Kind]
  PROVE  LookupInv'
<1>1. Kind' = Kind /\ Current' = Current /\ i' = i /\ operations' = operations
  BY SameBatchOps DEF SameTasks
<1>2. \A m \in Current : KeyFor(m)' = KeyFor(m)
  BY MemberOps
<1>3. \A m \in Current : at[m] > MatchAt[Kind] => slot[m] = KeyFor(m)
  BY DEF LookupInv
<1>4. \A m \in Current' : at'[m] > MatchAt[Kind'] => slot'[m] = KeyFor(m)'
  BY <1>1, <1>2, <1>3
<1>5. sum' = sum /\ normal_nodes' = normal_nodes
  BY DEF SameTasks
<1>6. SumOfKeys(i + Compared)' = SumOfKeys(i + Compared)
  BY <1>1 DEF SumOfKeys
<1> QED  BY <1>4, <1>5, <1>6 DEF LookupInv

(* The driver's steps, prefetches and suspensions,                         *)
LEMMA LookupWaits ==
  ASSUME InputInv, PositionInv, TypeInv, LookupInv, program = "coro_lookup", PositionInv',
         Resume \/ PoolRunsDry \/ Await \/ Return \/ Prefetch \/ EndOperations
  PROVE  LookupInv' /\ TypeInv'
<1>1. SameTasks /\ SameBatch /\ slot' = slot /\ round' = round /\ nodes' = nodes
  BY DEF Resume, PoolRunsDry, Await, Return, Prefetch, EndOperations, SameTasks, SameBatch, group_vars
<1>2. TypeInv'
  BY <1>1 DEF TypeInv, SameTasks
<1>3. /\ Kind \in LookupKinds /\ CompareAt[Kind] \in 1 .. 9 /\ MatchAt[Kind] \in 1 .. 9
      /\ CompareAt[Kind] = Len(Code[Kind]) /\ g \in Nat
      /\ There > CompareAt[Kind] <=> LastRound
      /\ Here <= CompareAt[Kind]
      /\ Compared = IF running /\ at[g] > CompareAt[Kind] THEN g + 1
                    ELSE IF LastRound THEN g ELSE 0
  BY ComparedOps
<1>4. Compared' = IF running' /\ at'[g'] > CompareAt[Kind] THEN g' + 1
                  ELSE IF LastRound THEN g' ELSE 0
  BY <1>1, ComparedAfter DEF LastRound
<1>5. at \in [Members -> 1 .. 10] /\ Here \in 1 .. 9 /\ There \in 1 .. 10
  BY RoundOps DEF PositionInv
<1>6. CASE PoolRunsDry \/ EndOperations
  <2>1. at' = at /\ g' = g /\ running' = running
    BY <1>6 DEF PoolRunsDry, EndOperations, group_vars
  <2>2. Compared' = Compared
    BY <1>3, <1>4, <2>1
  <2>3. LookupInv'
    BY <1>1, <2>1, <2>2, LookupStays
  <2> QED  BY <1>2, <2>3
<1>7. CASE Resume
  <2>1. at' = at /\ g' = g /\ ~ running /\ running' = TRUE /\ g < Batch
    BY <1>7 DEF Resume
  <2>2. at[g] = Here
    <3>1. g \in Members
      <4>1. Batch \in 1 .. GROUP_SIZE /\ Members = 0 .. GROUP_SIZE - 1 /\ GROUP_SIZE \in Nat
        BY BatchOps
      <4> QED  BY <1>3, <2>1, <4>1
    <3> QED  BY <2>1, <3>1 DEF PositionInv
  <2>3. Compared' = Compared
    BY <1>3, <1>4, <1>5, <2>1, <2>2
  <2>4. LookupInv'
    BY <1>1, <2>1, <2>3, LookupStays
  <2> QED  BY <1>2, <2>4
<1>8. CASE Return
  <2>1. at' = at /\ g' = g + 1 /\ running /\ running' = FALSE /\ at[g] > Len(Code[Kind])
    BY <1>8, RoundOps DEF Return
  <2>2. /\ g < Batch /\ Here <= at[g] /\ (at[g] < There \/ (LastRound /\ at[g] = There))
    BY <2>1 DEF PositionInv
  <2>3. at[g] \in 1 .. 10
    <3>1. g \in Members
      <4>1. Batch \in 1 .. GROUP_SIZE /\ Members = 0 .. GROUP_SIZE - 1 /\ GROUP_SIZE \in Nat
        BY BatchOps
      <4> QED  BY <1>3, <2>2, <4>1
    <3> QED  BY <1>5, <3>1
  <2>4. LastRound
    BY <1>3, <1>5, <2>1, <2>2, <2>3
  <2>5. Compared = g + 1 /\ Compared' = g + 1
    BY <1>3, <1>4, <2>1, <2>4
  <2>6. LookupInv'
    BY <1>1, <2>1, <2>5, LookupStays
  <2> QED  BY <1>2, <2>6
<1>9. CASE Await \/ Prefetch
  <2>1. PICK step : step \in {"await", "prefetch"} /\ Does(step) /\ GoOn
    BY <1>9 DEF Await, Prefetch
  <2>2. /\ g \in Members /\ at[g] \in 1 .. Len(Code[Kind]) /\ Code[Kind][at[g]] = step
        /\ running /\ at[g] < There
        /\ step = "await" => at[g] + 1 = There /\ ~ LastRound
    BY <2>1, DoesOps
  <2>3. at' = [at EXCEPT ![g] = @ + 1]
    BY <2>1 DEF GoOn
  <2>4. at[g] # MatchAt[Kind] /\ at[g] # CompareAt[Kind]
    BY <1>3, <2>1, <2>2, LookupTables
  <2>5. at'[g] = at[g] + 1 /\ (\A m \in Members : m # g => at'[m] = at[m])
        /\ at[g] < CompareAt[Kind] /\ at[g] \in 1 .. 10
    BY <1>3, <1>5, <2>2, <2>3, <2>4
  <2>6. ASSUME NEW m \in Current
        PROVE  at'[m] > MatchAt[Kind] => at[m] > MatchAt[Kind]
    <3>1. m \in Members
      BY BatchOps
    <3> QED  BY <1>3, <2>4, <2>5, <3>1
  <2>7. Compared' = Compared
    <3>1. CASE Await
      <4>1. running' = FALSE /\ g' = g + 1 /\ ~ LastRound
        <5>1. Does("await")
          BY <3>1 DEF Await
        <5>2. ~ LastRound
          BY <5>1, DoesOps
        <5> QED  BY <3>1, <5>2 DEF Await
      <4>2. Compared = 0
        BY <1>3, <2>5, <4>1
      <4> QED  BY <1>4, <4>1, <4>2
    <3>2. CASE Prefetch
      <4>1. running' = running /\ g' = g
        BY <3>2 DEF Prefetch
      <4>2. ~ (at'[g] > CompareAt[Kind]) /\ ~ (at[g] > CompareAt[Kind])
        BY <1>3, <2>5
      <4> QED  BY <1>3, <1>4, <4>1, <4>2
    <3> QED  BY <1>9, <3>1, <3>2
  <2>8. LookupInv'
    BY <1>1, <2>6, <2>7, LookupStays
  <2> QED  BY <1>2, <2>8
<1> QED  BY <1>6, <1>7, <1>8, <1>9

(* ... the match, which is there and is the right one,                     *)
LEMMA LookupMatches ==
  ASSUME InputInv, PositionInv, TypeInv, LookupInv, program = "coro_lookup", Match
  PROVE  PositionInv' /\ LookupInv' /\ TypeInv' /\ outcome' = "going"
<1>1. /\ SameTasks /\ SameBatch /\ UNCHANGED <<round, g, running>> /\ nodes' = nodes /\ Does("match") /\ GoOn
  BY DEF Match, SameTasks, SameBatch
<1>2. /\ g \in Members /\ g \in Current /\ at[g] \in 1 .. Len(Code[Kind]) /\ Code[Kind][at[g]] = "match"
      /\ running
  BY <1>1, DoesOps
<1>3. /\ Kind \in LookupKinds /\ CompareAt[Kind] \in 1 .. 9 /\ MatchAt[Kind] \in 1 .. 9
      /\ CompareAt[Kind] = Len(Code[Kind]) /\ MatchAt[Kind] < CompareAt[Kind] /\ g \in Nat
      /\ Compared = IF running /\ at[g] > CompareAt[Kind] THEN g + 1
                    ELSE IF LastRound THEN g ELSE 0
  BY ComparedOps
<1>4. at[g] = MatchAt[Kind]
  BY <1>2, <1>3, LookupTables
<1>5. PICK x, key : x = NodeFor(g) /\ key = KeyFor(g)
  OBVIOUS
<1>6. x \in Nodes /\ key \in Slots
  BY <1>2, <1>5, CurrentOps
<1>7. nodes[x] = Lookup!Initialize
  BY <1>6 DEF LookupInv
<1>8. Candidates = {key}
  <2>1. Op.node = x /\ Op.key = key
    BY <1>5 DEF Op, NodeFor, KeyFor
  <2> QED  BY <1>6, <1>7, <2>1, LookupNode DEF Candidates
<1>9. Min(Candidates) = key
  <2>1. key \in Nat
    BY <1>6, NodeConstants
  <2> QED  BY <1>8, <2>1 DEF Min
<1>10. outcome' = "going" /\ slot' = [slot EXCEPT ![g] = key]
  BY <1>8, <1>9 DEF Match
<1>11. slot \in [Members -> Slots]
  BY DEF TypeInv
<1>12. slot' \in [Members -> Slots] /\ slot'[g] = key /\ \A m \in Members : m # g => slot'[m] = slot[m]
  BY <1>2, <1>6, <1>10, <1>11
<1>13. TypeInv'
  BY <1>1, <1>12 DEF TypeInv, SameTasks
<1>14. PositionInv'
  BY <1>1, <1>10, PositionGoesOn
<1>15. at \in [Members -> 1 .. 10] /\ at' = [at EXCEPT ![g] = @ + 1]
  BY <1>1 DEF PositionInv, GoOn
<1>16. at'[g] = at[g] + 1 /\ \A m \in Members : m # g => at'[m] = at[m]
  BY <1>2, <1>15
<1>17. Compared' = Compared
  <2>1. Compared' = IF running' /\ at'[g'] > CompareAt[Kind] THEN g' + 1
                    ELSE IF round' = LastOf[Kind] THEN g' ELSE 0
    BY <1>1, <1>14, ComparedAfter
  <2>2. ~ (at'[g] > CompareAt[Kind]) /\ ~ (at[g] > CompareAt[Kind])
    BY <1>3, <1>4, <1>16
  <2> QED  BY <1>1, <1>3, <2>1, <2>2 DEF LastRound
<1>18. Kind' = Kind /\ Current' = Current /\ i' = i /\ operations' = operations
  BY <1>1, SameBatchOps
<1>19. \A m \in Current : KeyFor(m)' = KeyFor(m) /\ m \in Members
  BY <1>1, MemberOps
<1>20. \A m \in Current' : at'[m] > MatchAt[Kind'] => slot'[m] = KeyFor(m)'
  <2>1. SUFFICES ASSUME NEW m \in Current, at'[m] > MatchAt[Kind] PROVE slot'[m] = KeyFor(m)
    BY <1>18, <1>19
  <2>2. CASE m = g
    BY <1>5, <1>12, <2>2
  <2>3. CASE m # g
    <3>1. at'[m] = at[m] /\ slot'[m] = slot[m]
      BY <1>12, <1>16, <1>19, <2>3
    <3> QED  BY <2>1, <3>1 DEF LookupInv
  <2> QED  BY <2>2, <2>3
<1>21. SumOfKeys(i + Compared)' = SumOfKeys(i + Compared)
  BY <1>17, <1>18 DEF SumOfKeys
<1>22. LookupInv'
  BY <1>1, <1>20, <1>21 DEF LookupInv, SameTasks
<1> QED  BY <1>10, <1>13, <1>14, <1>22

(* ... the comparison, which adds the key,                                 *)
LEMMA LookupCompares ==
  ASSUME InputInv, PositionInv, TypeInv, LookupInv, program = "coro_lookup", Compare
  PROVE  PositionInv' /\ LookupInv' /\ TypeInv' /\ outcome' = "going"
<1>1. /\ SameBatch /\ UNCHANGED <<round, g, running>> /\ nodes' = nodes /\ slot' = slot
      /\ normal_nodes' = normal_nodes /\ Does("compare") /\ GoOn
  BY DEF Compare, SameBatch
<1>2. /\ g \in Members /\ g \in Current /\ at[g] \in 1 .. Len(Code[Kind]) /\ Code[Kind][at[g]] = "compare"
      /\ running /\ at[g] < There
  BY <1>1, DoesOps
<1>3. /\ Kind \in LookupKinds /\ CompareAt[Kind] \in 1 .. 9 /\ MatchAt[Kind] \in 1 .. 9
      /\ CompareAt[Kind] = Len(Code[Kind]) /\ MatchAt[Kind] < CompareAt[Kind] /\ g \in Nat
      /\ There > CompareAt[Kind] <=> LastRound
      /\ Compared = IF running /\ at[g] > CompareAt[Kind] THEN g + 1
                    ELSE IF LastRound THEN g ELSE 0
  BY ComparedOps
<1>4. at[g] = CompareAt[Kind]
  BY <1>2, <1>3, LookupTables
<1>5. PICK x, key : x = NodeFor(g) /\ key = KeyFor(g)
  OBVIOUS
<1>6. x \in Nodes /\ key \in Slots /\ i + g \in Operations
  BY <1>2, <1>5, CurrentOps
<1>7. nodes[x] = Lookup!Initialize /\ slot[g] = key
  BY <1>2, <1>3, <1>4, <1>5, <1>6 DEF LookupInv
<1>8. nodes[Op.node].entries[slot[g]].vol = key /\ Op.key = key
  <2>1. Op.node = x /\ Op.key = key
    BY <1>5 DEF Op, NodeFor, KeyFor
  <2> QED  BY <1>6, <1>7, <2>1, LookupNode
<1>9. outcome' = "going" /\ sum' = sum + key
  BY <1>8 DEF Compare
<1>10. TypeInv'
  BY <1>1 DEF TypeInv
<1>11. PositionInv'
  BY <1>1, <1>9, PositionGoesOn
<1>12. at \in [Members -> 1 .. 10] /\ at' = [at EXCEPT ![g] = @ + 1]
  BY <1>1 DEF PositionInv, GoOn
<1>13. at'[g] = at[g] + 1 /\ \A m \in Members : m # g => at'[m] = at[m]
  BY <1>2, <1>12
<1>14. Compared' = g + 1 /\ Compared = g
  <2>1. Compared' = IF running' /\ at'[g'] > CompareAt[Kind] THEN g' + 1
                    ELSE IF round' = LastOf[Kind] THEN g' ELSE 0
    BY <1>1, <1>11, ComparedAfter
  <2>2. at'[g] > CompareAt[Kind] /\ ~ (at[g] > CompareAt[Kind])
    BY <1>3, <1>4, <1>13
  <2>3. LastRound
    BY <1>2, <1>3, <1>4
  <2> QED  BY <1>1, <1>2, <1>3, <2>1, <2>2, <2>3
<1>15. Kind' = Kind /\ Current' = Current /\ i' = i /\ operations' = operations
  BY <1>1, SameBatchOps
<1>16. sum' = SumOfKeys(i + Compared)'
  <2>1. i + Compared' = (i + g) + 1 /\ i + Compared = i + g
    <3>1. i \in Nat
      BY BatchOps
    <3> QED  BY <1>3, <1>14, <3>1
  <2>2. SumOfKeys((i + g) + 1) = SumOfKeys(i + g) + operations[i + g].key
    BY <1>6, ExpectedOps
  <2>3. sum = SumOfKeys(i + g)
    BY <2>1 DEF LookupInv
  <2>4. operations[i + g].key = key
    BY <1>5 DEF KeyFor
  <2>5. sum' = SumOfKeys((i + g) + 1)
    BY <1>9, <2>2, <2>3, <2>4
  <2> QED  BY <1>15, <2>1, <2>5 DEF SumOfKeys
<1>17. \A m \in Current' : at'[m] > MatchAt[Kind'] => slot'[m] = KeyFor(m)'
  <2>1. \A m \in Members : KeyFor(m)' = KeyFor(m)
    BY <1>1, SameBatchOps
  <2>2. \A m \in Current : m \in Members
    BY BatchOps
  <2>3. SUFFICES ASSUME NEW m \in Current, at'[m] > MatchAt[Kind] PROVE slot[m] = KeyFor(m)
    BY <1>1, <1>15, <2>1, <2>2
  <2>4. CASE m = g
    BY <1>5, <1>7, <2>4
  <2>5. CASE m # g
    BY <1>13, <2>2, <2>3, <2>5 DEF LookupInv
  <2> QED  BY <2>4, <2>5
<1>18. LookupInv'
  BY <1>1, <1>16, <1>17 DEF LookupInv
<1> QED  BY <1>9, <1>10, <1>11, <1>18

(* ... and the ends of rounds, which fence nothing.                        *)
LEMMA LookupsNextRound ==
  ASSUME InputInv, PositionInv, TypeInv, LookupInv, program = "coro_lookup", PositionInv', EndRound
  PROVE  LookupInv' /\ TypeInv'
<1>1. /\ SameTasks /\ SameBatch /\ slot' = slot /\ at' = at /\ round' = round + 1 /\ g' = 0 /\ g = Batch
      /\ running' = running /\ round < Len(Rounds)
      /\ nodes' = IF Rounds[round] THEN FenceNodes ELSE nodes
  BY DEF EndRound, SameTasks, SameBatch
<1>2. /\ Kind \in LookupKinds /\ Kind \in Kinds /\ round \in 1 .. LastOf[Kind] /\ round < LastOf[Kind]
      /\ Rounds = FencedRounds[Kind]
  BY <1>1, KindOfBatch, RoundOps
<1>3. nodes' = nodes
  <2>1. ~ Rounds[round]
    BY <1>2, FenceTables DEF LookupKinds
  <2> QED  BY <1>1, <2>1
<1>4. TypeInv'
  BY <1>1, <1>3 DEF TypeInv, SameTasks
<1>5. ~ running
  <2>1. g \in Nat
    BY ComparedOps
  <2> QED  BY <1>1, <2>1 DEF PositionInv
<1>6. Compared = 0
  <2>1. ~ LastRound
    BY <1>2 DEF LastRound
  <2> QED  BY <1>5, <2>1, ComparedOps
<1>7. Compared' = 0
  <2>1. Compared' = IF running' /\ at'[g'] > CompareAt[Kind] THEN g' + 1
                    ELSE IF round' = LastOf[Kind] THEN g' ELSE 0
    BY <1>1, ComparedAfter
  <2> QED  BY <1>1, <1>5, <2>1
<1>8. LookupInv'
  BY <1>1, <1>3, <1>6, <1>7, LookupStays
<1> QED  BY <1>4, <1>8

(* ... and when all of a batch have compared, none of the next has.        *)
LEMMA LookupsNextBatch ==
  ASSUME InputInv, PositionInv, TypeInv, LookupInv, program = "coro_lookup", EndBatch
  PROVE  LookupInv' /\ TypeInv'
<1>1. /\ slot' = slot /\ at' = [m \in Members |-> 1] /\ g = Batch /\ sum' = sum
      /\ round = Len(Rounds) /\ i' = i + Batch
      /\ nodes' = IF Rounds[round] THEN FenceNodes ELSE nodes
      /\ normal_nodes' = NormalNodesAfter
  BY DEF EndBatch
<1>2. /\ PositionInv' /\ InputInv' /\ round' = 1 /\ g' = 0 /\ running' = FALSE
      /\ program' = program /\ style' = style /\ operations' = operations /\ (InGroup' => InGroup)
  BY NextBatch
<1>3. /\ Kind \in LookupKinds /\ Kind \in Kinds /\ round \in 1 .. LastOf[Kind]
      /\ Rounds = FencedRounds[Kind] /\ LastRound
  BY <1>1, KindOfBatch, RoundOps DEF LastRound
<1>4. nodes' = nodes /\ normal_nodes' = normal_nodes
  <2>1. ~ Rounds[round]
    BY <1>3, FenceTables DEF LookupKinds
  <2> QED  BY <1>1, <2>1 DEF NormalNodesAfter
<1>5. TypeInv'
  BY <1>1, <1>4 DEF TypeInv
<1>6. ~ running
  <2>1. g \in Nat
    BY ComparedOps
  <2> QED  BY <1>1, <2>1 DEF PositionInv
<1>7. Compared = Batch
  BY <1>1, <1>3, <1>6, ComparedOps
<1>8. Kind' \in LookupKinds
  BY <1>2 DEF Kind, LookupKinds
<1>9. MatchAt[Kind'] \in Nat /\ MatchAt[Kind'] >= 1 /\ CompareAt[Kind'] \in Nat /\ CompareAt[Kind'] >= 1
      /\ Starts[Kind'][1] = 1
  BY <1>8 DEF LookupKinds, MatchAt, CompareAt, Starts
<1>10. Compared' = 0
  <2>1. Here' = 1
    BY <1>2, <1>9 DEF Here
  <2> QED  BY <1>2, <1>9, <2>1 DEF Compared
<1>11. sum' = SumOfKeys(i + Compared)'
  <2>1. i' + Compared' = i + Compared
    <3>1. i \in Nat /\ Batch \in Nat
      BY BatchOps
    <3> QED  BY <1>1, <1>7, <1>10, <3>1
  <2> QED  BY <1>1, <1>2, <2>1 DEF SumOfKeys, LookupInv
<1>12. \A m \in Current' : at'[m] > MatchAt[Kind'] => slot'[m] = KeyFor(m)'
  <2>1. SUFFICES ASSUME NEW m \in Members, m \in Current', at'[m] > MatchAt[Kind'] PROVE FALSE
    BY DEF Current
  <2>2. at'[m] = 1
    BY <1>1
  <2> QED  BY <1>9, <2>1, <2>2
<1>13. LookupInv'
  BY <1>4, <1>11, <1>12 DEF LookupInv
<1> QED  BY <1>5, <1>13

(* A lookup stores nothing, and nothing of its nodes is left to be written *)
(* back.                                                                   *)
LEMMA LookupsOnlyLook ==
  ASSUME InputInv, PositionInv, LookupInv, program = "coro_lookup"
  PROVE  ~ ChooseSlot /\ ~ StoreEntry /\ ~ UseSlot /\ ~ Fence /\ ~ Drift
<1>1. ASSUME NEW step \in {"choose", "store", "use", "fence"}, Does(step)
      PROVE  FALSE
  <2>1. at[g] \in 1 .. Len(Code[Kind]) /\ Code[Kind][at[g]] = step
    BY <1>1, DoesOps
  <2>2. Kind \in LookupKinds
    BY KindOfBatch
  <2> QED  BY <1>1, <2>1, <2>2, LookupTables
<1>2. ~ Drift
  <2>1. SUFFICES ASSUME NEW n \in Nodes, NEW c \in EarlyNodes(nodes[n], Torn) PROVE FALSE
    BY DEF Drift
  <2>2. nodes[n] = Lookup!Initialize
    BY DEF LookupInv
  <2> QED  BY <2>2, LookupNode, DriftOps
<1> QED  BY <1>1, <1>2 DEF ChooseSlot, StoreEntry, UseSlot, Fence

-----------------------------------------------------------------------------
\* The initial states.

(* A node before any insert: whatever its free_bits are, no entry is of an *)
(* operation and all are durable.                                          *)
LEMMA FreshNode ==
  ASSUME NEW node,
         \/ \E free \in SUBSET Slots : node = Insert!Initialize(free)
         \/ \E free \in {{}, Slots} : node = Reuse!Initialize(free)
  PROVE  /\ node \in NodeSet
         /\ \A s \in Slots : node.entries[s] = Line(Initial)
<1>1. Slots = 0 .. Capacity - 1 /\ HashCount \in Nat \ {0} /\ Initial \in EntrySet
  BY NodeConstants
<1>2. PICK fps : fps = [s \in Slots |-> 0]
  OBVIOUS
<1>3. fps \in [Slots -> 0 .. HashCount - 1]
  BY <1>1, <1>2
<1>4. ASSUME NEW free \in SUBSET Slots
      PROVE  [free |-> free, fingerprints |-> fps] \in HeadSet
  BY <1>3 DEF HeadSet
<1>5. PICK entries : entries = [s \in Slots |-> Line(Initial)]
  OBVIOUS
<1>6. /\ entries \in [Slots -> LineSet(EntrySet)]
      /\ \A s \in Slots : entries[s] = Line(Initial)
  BY <1>1, <1>5 DEF Line, LineSet
<1>7. \E head \in LineSet(HeadSet) : node = [head |-> head, entries |-> entries]
  <2>1. CASE \E free \in SUBSET Slots : node = Insert!Initialize(free)
    <3>1. PICK free \in SUBSET Slots : node = Insert!Initialize(free)
      BY <2>1
    <3>2. PICK head : head = Line([free |-> free, fingerprints |-> fps])
      OBVIOUS
    <3>3. head \in LineSet(HeadSet)
      BY <1>4, <3>2 DEF Line, LineSet
    <3>4. node = [head |-> head, entries |-> entries]
      BY <1>2, <1>5, <3>1, <3>2 DEF Insert!Initialize, Insert!HeadLine, Insert!Line, Insert!Slots, Slots, Line
    <3> QED  BY <3>3, <3>4
  <2>2. CASE \E free \in {{}, Slots} : node = Reuse!Initialize(free)
    <3>1. PICK free \in {{}, Slots} : node = Reuse!Initialize(free)
      BY <2>2
    <3>2. PICK head : head = [vol |-> [free |-> Slots, fingerprints |-> fps],
                              fen |-> [free |-> free, fingerprints |-> fps],
                              dur |-> [free |-> free, fingerprints |-> fps]]
      OBVIOUS
    <3>3. head \in LineSet(HeadSet)
      BY <1>4, <3>1, <3>2 DEF LineSet
    <3>4. node = [head |-> head, entries |-> entries]
      BY <1>2, <1>5, <3>1, <3>2 DEF Reuse!Initialize, Reuse!HeadLine, Reuse!Line, Reuse!Store, Reuse!Slots, Slots, Line
    <3> QED  BY <3>3, <3>4
  <2> QED  BY <2>1, <2>2
<1> QED  BY <1>6, <1>7 DEF NodeSet

(* The contents of a node are what its lines hold for the program.         *)
LEMMA ContentsOps ==
  ASSUME NEW node \in NodeSet
  PROVE  Contents(node) \in ContentSet /\ IsFresh(node, Contents(node))
<1>1. /\ node.head.vol \in HeadSet
      /\ \A s \in Slots : node.entries[s].vol \in EntrySet
  BY NodeLines DEF LineSet
<1> QED  BY <1>1 DEF Contents, ContentSet, IsFresh

(* What Init chooses is of the kinds the invariant is about.               *)
LEMMA InitInput ==
  ASSUME Init
  PROVE  /\ InputInv
         /\ program # "coro_lookup" =>
              \A n \in Nodes : /\ nodes[n] \in NodeSet
                               /\ \A s \in Slots : nodes[n].entries[s] = Line(Initial)
         /\ program = "coro_lookup" => nodes = [n \in Nodes |-> Lookup!Initialize]
         /\ nodes = [n \in Nodes |-> nodes[n]]
<1>1. /\ operations \in Tasks /\ coroutine_count \in CoroutineCounts /\ nodes \in CreateNodes /\ i = 0
      /\ \E t \in Tried : program = t[1] /\ style = t[2]
  BY DEF Init
<1>2. <<program, style>> \in Tried /\ program \in {"coro_insert", "reuse", "coro_lookup"}
  <2>1. PICK t \in Tried : program = t[1] /\ style = t[2]
    BY <1>1
  <2>2. t \in Programs
    BY CoroutineTreeAssumption DEF CoroutineTreeAssumption
  <2>3. t = <<program, style>> /\ program \in {"coro_insert", "reuse", "coro_lookup"}
    BY <2>1, <2>2 DEF Programs
  <2> QED  BY <2>3
<1>3. OperationCount \in Nat /\ i \in 0 .. OperationCount
  BY <1>1, CoroutineTreeAssumption DEF CoroutineTreeAssumption
<1>4. InGroup => \E k \in 0 .. i : i = k * GROUP_SIZE
  <2>1. 0 \in 0 .. i /\ i = 0 * GROUP_SIZE
    BY <1>1, CoroutineTreeAssumption DEF CoroutineTreeAssumption
  <2> QED  BY <2>1
<1>5. CASE program = "coro_insert"
  <2>1. /\ operations \in [Operations -> [node : Nodes, key : Operations]]
        /\ \A op \in Operations : /\ operations[op].key = op
                                  /\ operations[op].node \in Insert!NodeOf(op)
    BY <1>1, <1>5 DEF Tasks, Insert!Tasks, Insert!Operations, Insert!Nodes, Operations, Nodes
  <2>2. nodes \in [Nodes -> {Insert!Initialize(free) : free \in SUBSET Slots}]
    BY <1>1, <1>5 DEF CreateNodes, Insert!CreateNodes, Insert!Nodes, Nodes, Insert!Slots, Slots
  <2>3. ASSUME NEW n \in Nodes
        PROVE  nodes[n] \in NodeSet /\ \A s \in Slots : nodes[n].entries[s] = Line(Initial)
    BY <2>2, FreshNode
  <2>4. operations \in [Operations -> [node : Nodes, key : Keys]]
    BY <2>1 DEF Keys
  <2> QED  BY <1>1, <1>2, <1>3, <1>4, <1>5, <2>1, <2>2, <2>3, <2>4 DEF InputInv
<1>6. CASE program = "reuse"
  <2>1. /\ operations \in [Operations -> [node : Nodes, key : Operations]]
        /\ \A op \in Operations : /\ operations[op].key = op
                                  /\ operations[op].node \in Insert!NodeOf(op)
    BY <1>1, <1>6 DEF Tasks, Reuse!Tasks, Reuse!Operations, Reuse!Nodes, Operations, Nodes, Insert!NodeOf
  <2>2. nodes \in [Nodes -> {Reuse!Initialize(free) : free \in {{}, Slots}}]
    BY <1>1, <1>6 DEF CreateNodes, Reuse!CreateNodes, Reuse!Nodes, Nodes, Reuse!Slots, Slots
  <2>3. ASSUME NEW n \in Nodes
        PROVE  nodes[n] \in NodeSet /\ \A s \in Slots : nodes[n].entries[s] = Line(Initial)
    BY <2>2, FreshNode
  <2>4. operations \in [Operations -> [node : Nodes, key : Keys]]
    BY <2>1 DEF Keys
  <2> QED  BY <1>1, <1>2, <1>3, <1>4, <1>6, <2>1, <2>2, <2>3, <2>4 DEF InputInv
<1>7. CASE program = "coro_lookup"
  <2>1. operations \in [Operations -> [node : Nodes, key : Slots]]
    BY <1>1, <1>7 DEF Tasks, Lookup!Tasks, Lookup!Operations, Lookup!Nodes, Operations, Nodes, Lookup!Slots, Slots
  <2>2. nodes = [n \in Nodes |-> Lookup!Initialize]
    BY <1>1, <1>7 DEF CreateNodes, Lookup!CreateNodes, Lookup!Nodes, Nodes
  <2>3. operations \in [Operations -> [node : Nodes, key : Keys]]
    BY <2>1 DEF Keys
  <2>4. \A op \in Operations : operations[op].key \in Slots
    BY <2>1
  <2>5. nodes = [n \in Nodes |-> nodes[n]]
    BY <2>2
  <2> QED  BY <1>1, <1>2, <1>3, <1>4, <1>7, <2>2, <2>3, <2>4, <2>5 DEF InputInv
<1> QED  BY <1>2, <1>5, <1>6, <1>7

(* At first all members are at the first step of the first round.          *)
LEMMA InitPosition ==
  ASSUME Init, InputInv
  PROVE  /\ PositionInv /\ FramesInv
         /\ \A m \in Members : at[m] = 1
<1>1. /\ round = 1 /\ g = 0 /\ running = FALSE /\ at = [m \in Members |-> 1] /\ i = 0
      /\ frames = <<>> /\ free_list = Setup([f \in 1 .. coroutine_count |-> f]) /\ outcome = "going"
  BY DEF Init
<1>2. /\ Batch \in Nat \ {0} /\ Kind \in Kinds /\ \A m \in Members : m \in Nat
  BY BatchOps, KindOfBatch
<1>3. /\ LastOf[Kind] \in 1 .. 4 /\ Starts[Kind][1] = 1
  BY <1>2, Tables
<1>4. Here = 1
  BY <1>1, <1>3 DEF Here
<1>5. PositionInv
  <2>1. at \in [Members -> 1 .. 10] /\ \A m \in Members : at[m] = 1 /\ ~ (m < g)
    BY <1>1, <1>2
  <2>2. round \in 1 .. LastOf[Kind] /\ g \in 0 .. Batch
    BY <1>1, <1>2, <1>3
  <2>3. \A m \in Members : at[m] = Here
    BY <1>4, <2>1
  <2> QED  BY <1>1, <2>1, <2>2, <2>3 DEF PositionInv
<1>6. coroutine_count \in Nat
  BY CoroutineTreeAssumption DEF CoroutineTreeAssumption, InputInv
<1>7. /\ free_list \in Seq(1 .. coroutine_count) /\ Len(free_list) = coroutine_count
      /\ Apart(free_list, frames)
  BY <1>1, <1>6, SetupOps
<1>8. InUse = 0
  BY <1>1 DEF InUse
<1>9. FramesInv
  BY <1>1, <1>6, <1>7, <1>8 DEF FramesInv
<1> QED  BY <1>1, <1>5, <1>9

(* The initial states satisfy the invariant.                               *)
LEMMA InitIInv ==
  ASSUME Init
  PROVE  IInv
<1>1. InputInv
  BY InitInput
<1>2. /\ PositionInv /\ FramesInv /\ \A m \in Members : at[m] = 1
  BY <1>1, InitPosition
<1>3. /\ slot = [m \in Members |-> 0] /\ sum = 0 /\ i = 0
      /\ normal_nodes = [n \in Nodes |-> Contents(nodes[n])]
  BY DEF Init
<1>4. slot \in [Members -> Slots]
  BY <1>3, NodeConstants
<1>5. \A n \in Nodes : nodes[n] \in NodeSet
  <2>1. CASE program = "coro_lookup"
    BY <2>1, InitInput, LookupNode
  <2>2. CASE program # "coro_lookup"
    BY <2>2, InitInput
  <2> QED  BY <2>1, <2>2
<1>6. TypeInv
  <2>1. nodes \in [Nodes -> NodeSet]
    BY <1>5, InitInput
  <2>2. normal_nodes \in [Nodes -> ContentSet]
    BY <1>3, <1>5, ContentsOps
  <2> QED  BY <1>4, <2>1, <2>2 DEF TypeInv
<1>7. ASSUME program # "coro_lookup"
      PROVE  InsertInv
  <2>1. /\ Kind \in InsertKinds
        /\ \A m \in Current : m \in Members /\ NodeFor(m) \in Nodes
    BY <1>1, <1>7, KindOfBatch, CurrentOps
  <2>3. ASSUME NEW m \in Current
        PROVE  ~ Chosen(m) /\ ~ Stored(m) /\ ~ Used(m) /\ ~ Finished(m)
    <3>1. at[m] = 1
      BY <1>2, <2>1
    <3> QED  BY <2>1, <3>1 DEF InsertKinds, Chosen, Stored, Used, Finished, ChooseAt, StoreAt, UseAt
  <2>4. ASSUME NEW n \in Nodes
        PROVE  /\ IsFresh(nodes[n], normal_nodes[n])
               /\ \A s \in Slots : nodes[n].entries[s] = Line(Initial)
    BY <1>3, <1>5, <1>7, ContentsOps, InitInput
  <2>5. ASSUME NEW m \in Current PROVE MemberInv(m)
    <3>1. IsFresh(nodes[NodeFor(m)], normal_nodes[NodeFor(m)])
      BY <2>1, <2>4
    <3> QED  BY <2>3, <3>1 DEF MemberInv
  <2>6. ASSUME NEW n \in Nodes, NEW s \in Slots
        PROVE  /\ nodes[n].entries[s].vol = Initial
               /\ nodes[n].entries[s].fen = nodes[n].entries[s].vol
               /\ Stable(nodes[n].entries[s])
    BY <2>4 DEF Line, Stable
  <2>7. ASSUME NEW n \in Nodes PROVE EntriesInv(n) /\ NodeInv(n)
    <3>1. ~ \E op \in 0 .. i - 1 : operations[op].node = n
      BY <1>3
    <3> QED  BY <2>4, <2>6, <3>1 DEF EntriesInv, NodeInv
  <2>8. ASSUME NEW n \in Nodes, NEW s \in Slots PROVE KeepsEntry(nodes[n], s)
    BY <2>6, NodeConstants DEF KeepsEntry, HoldsKey
  <2> QED  BY <1>3, <2>5, <2>7, <2>8 DEF InsertInv
<1>8. ASSUME program = "coro_lookup"
      PROVE  LookupInv
  <2>1. nodes = [n \in Nodes |-> Lookup!Initialize]
    BY <1>8, InitInput
  <2>2. normal_nodes = [n \in Nodes |-> Contents(Lookup!Initialize)]
    BY <1>3, <2>1
  <2>3. Kind \in LookupKinds
    BY <1>1, <1>8, KindOfBatch
  <2>4. MatchAt[Kind] >= 1 /\ CompareAt[Kind] >= 1 /\ Starts[Kind][1] = 1
    BY <2>3 DEF LookupKinds, MatchAt, CompareAt, Starts
  <2>5. ASSUME NEW m \in Current PROVE ~ (at[m] > MatchAt[Kind])
    <3>1. at[m] = 1
      BY <1>1, <1>2, CurrentOps
    <3> QED  BY <2>3, <3>1 DEF LookupKinds, MatchAt
  <2>6. Compared = 0
    <3>1. g = 0 /\ round = 1 /\ running = FALSE
      BY DEF Init
    <3>2. Here = 1
      BY <2>4, <3>1 DEF Here
    <3>3. ~ (Here > CompareAt[Kind])
      BY <2>3, <3>2 DEF LookupKinds, CompareAt
    <3> QED  BY <3>1, <3>3 DEF Compared
  <2>7. sum = SumOfKeys(i + Compared)
    <3>1. i + Compared = 0
      BY <1>3, <2>6
    <3> QED  BY <1>1, <1>3, <3>1, ExpectedOps
  <2> QED  BY <2>1, <2>2, <2>5, <2>7 DEF LookupInv
<1> QED  BY <1>1, <1>2, <1>6, <1>7, <1>8 DEF IInv

-----------------------------------------------------------------------------
\* Every step, and the theorems.

\* The part of the invariant that does not depend on what the program does.
Driver == InputInv /\ PositionInv /\ FramesInv

(* A step of a coroutine that does not give control back,                  *)
LEMMA DriverGoesOn ==
  ASSUME Driver, NEW step, step # "await", Does(step), GoOn,
         SameBatch, UNCHANGED <<round, g, running, frames, free_list>>, outcome' = "going"
  PROVE  Driver'
<1>1. InputInv' /\ InGroup' = InGroup
  BY SameBatchOps DEF Driver
<1>2. PositionInv'
  BY PositionGoesOn DEF Driver
<1>3. InUse' = InUse
  BY <1>1 DEF InUse
<1>4. FramesInv'
  BY <1>3, FramesStay DEF Driver
<1> QED  BY <1>1, <1>2, <1>4 DEF Driver

(* ... one of the driver or of the hardware,                               *)
LEMMA DriverStays ==
  ASSUME Driver, SameBatch, UNCHANGED group_vars,
         outcome' \in {"going", "done", "crashed"}, outcome' = "crashed" => outcome = "crashed"
  PROVE  Driver'
<1>1. InputInv' /\ InGroup' = InGroup
  BY SameBatchOps DEF Driver
<1>2. PositionInv'
  BY PositionStays DEF Driver, group_vars
<1>3. InUse' = InUse
  BY <1>1 DEF InUse, group_vars
<1>4. FramesInv'
  BY <1>3, FramesStay DEF Driver, group_vars
<1> QED  BY <1>1, <1>2, <1>4 DEF Driver

(* ... or one that ends something or begins it.                            *)
LEMMA DriverSteps ==
  ASSUME Driver, Resume \/ PoolRunsDry \/ Await \/ Return \/ EndRound \/ EndBatch
  PROVE  Driver'
<1>1. InputInv /\ PositionInv /\ FramesInv
  BY DEF Driver
<1>2. CASE Resume
  <2>1. SameBatch
    BY <1>2 DEF Resume, SameBatch
  <2> QED  BY <1>1, <1>2, <2>1, SameBatchOps, PositionResumes, FramesTaken DEF Driver
<1>3. CASE PoolRunsDry
  <2>1. SameBatch /\ UNCHANGED <<round, g, running, at>> /\ outcome' = "crashed"
    BY <1>3 DEF PoolRunsDry, SameBatch, group_vars
  <2>2. PositionInv'
    BY <1>1, <2>1, PositionStays
  <2> QED  BY <1>1, <1>3, <2>1, <2>2, SameBatchOps, FramesRunOut DEF Driver
<1>4. CASE Await \/ Return
  <2>1. SameBatch
    BY <1>4 DEF Await, Return, SameBatch
  <2> QED  BY <1>1, <1>4, <2>1, SameBatchOps, PositionGivesBack, FramesKept DEF Driver
<1>5. CASE EndRound
  <2>1. SameBatch
    BY <1>5 DEF EndRound, SameBatch
  <2> QED  BY <1>1, <1>5, <2>1, SameBatchOps, PositionNextRound, FramesKept DEF Driver
<1>6. CASE EndBatch
  BY <1>1, <1>6, NextBatch, FramesGivenBack DEF Driver
<1> QED  BY <1>2, <1>3, <1>4, <1>5, <1>6

(* Every step of the inserts keeps the invariant,                          *)
LEMMA InsertSteps ==
  ASSUME IInv, program # "coro_lookup", Next
  PROVE  IInv'
<1>1. Driver /\ InputInv /\ PositionInv /\ TypeInv /\ InsertInv
  BY DEF IInv, Driver
<1>2. SUFFICES Driver' /\ InsertInv' /\ TypeInv' /\ program' = program
  BY DEF IInv, Driver
<1>3. CASE Resume \/ PoolRunsDry \/ Await \/ Return
  <2>1. program' = program
    BY <1>3 DEF Resume, PoolRunsDry, Await, Return, input_vars
  <2> QED  BY <1>1, <1>3, <2>1, DriverSteps, InsertWaits
<1>4. CASE Prefetch
  <2>1. /\ Does("prefetch") /\ GoOn /\ SameBatch /\ UNCHANGED <<round, g, running, frames, free_list>>
        /\ outcome' = "going" /\ program' = program
    BY <1>4 DEF Prefetch, SameBatch, Does, input_vars
  <2>2. Driver'
    BY <1>1, <2>1, DriverGoesOn
  <2> QED  BY <1>1, <1>4, <2>1, <2>2, InsertWaits
<1>5. CASE ChooseSlot
  <2>1. /\ Does("choose") /\ GoOn /\ SameBatch /\ UNCHANGED <<round, g, running, frames, free_list>>
        /\ outcome' = "going" /\ program' = program
    BY <1>5 DEF ChooseSlot, SameBatch, Does, input_vars
  <2>2. Driver'
    BY <1>1, <2>1, DriverGoesOn
  <2> QED  BY <1>1, <1>5, <2>1, <2>2, InsertChooses
<1>6. CASE StoreEntry
  <2>1. /\ Does("store") /\ GoOn /\ SameBatch /\ UNCHANGED <<round, g, running, frames, free_list>>
        /\ outcome' = "going" /\ program' = program
    BY <1>6 DEF StoreEntry, SameBatch, Does, input_vars
  <2>2. Driver'
    BY <1>1, <2>1, DriverGoesOn
  <2> QED  BY <1>1, <1>6, <2>1, <2>2, InsertStores
<1>7. CASE Fence
  <2>1. /\ Does("fence") /\ GoOn /\ SameBatch /\ UNCHANGED <<round, g, running, frames, free_list>>
        /\ outcome' = "going" /\ program' = program
    BY <1>7 DEF Fence, SameBatch, Does, input_vars
  <2>2. Driver'
    BY <1>1, <2>1, DriverGoesOn
  <2> QED  BY <1>1, <1>7, <2>1, <2>2, InsertFences
<1>8. CASE UseSlot
  <2>1. /\ Does("use") /\ GoOn /\ SameBatch /\ UNCHANGED <<round, g, running, frames, free_list>>
        /\ outcome' = "going" /\ program' = program
    BY <1>8 DEF UseSlot, SameBatch, Does, input_vars
  <2>2. Driver'
    BY <1>1, <2>1, DriverGoesOn
  <2> QED  BY <1>1, <1>8, <2>1, <2>2, InsertUses
<1>9. CASE Match \/ Compare
  BY <1>1, <1>9, InsertsDoNotLook
<1>10. CASE EndRound
  <2>1. program' = program
    BY <1>10 DEF EndRound, input_vars
  <2> QED  BY <1>1, <1>10, <2>1, DriverSteps, InsertFences
<1>11. CASE EndBatch
  BY <1>1, <1>11, DriverSteps, NextBatch, InsertsNextBatch
<1>12. CASE EndOperations \/ Drift
  <2>1. /\ SameBatch /\ UNCHANGED group_vars /\ program' = program
        /\ outcome' \in {"done", outcome}
    BY <1>12 DEF EndOperations, Drift, SameBatch, input_vars
  <2>2. Driver'
    <3>1. outcome \in {"going", "done", "crashed"}
      BY <1>1 DEF PositionInv
    <3> QED  BY <1>1, <2>1, <3>1, DriverStays
  <2> QED  BY <1>1, <1>12, <2>1, <2>2, InsertWaits
<1> QED  BY <1>3, <1>4, <1>5, <1>6, <1>7, <1>8, <1>9, <1>10, <1>11, <1>12 DEF Next

(* ... and so does every step of the lookups.                              *)
LEMMA LookupSteps ==
  ASSUME IInv, program = "coro_lookup", Next
  PROVE  IInv'
<1>1. Driver /\ InputInv /\ PositionInv /\ TypeInv /\ LookupInv
  BY DEF IInv, Driver
<1>2. SUFFICES Driver' /\ LookupInv' /\ TypeInv' /\ program' = program
  BY DEF IInv, Driver
<1>3. CASE Resume \/ PoolRunsDry \/ Await \/ Return
  <2>1. program' = program
    BY <1>3 DEF Resume, PoolRunsDry, Await, Return, input_vars
  <2>2. Driver' /\ PositionInv'
    BY <1>1, <1>3, DriverSteps DEF Driver
  <2> QED  BY <1>1, <1>3, <2>1, <2>2, LookupWaits
<1>4. CASE Prefetch
  <2>1. /\ Does("prefetch") /\ GoOn /\ SameBatch /\ UNCHANGED <<round, g, running, frames, free_list>>
        /\ outcome' = "going" /\ program' = program
    BY <1>4 DEF Prefetch, SameBatch, Does, input_vars
  <2>2. Driver'
    BY <1>1, <2>1, DriverGoesOn
  <2>3. PositionInv'
    BY <2>2 DEF Driver
  <2> QED  BY <1>1, <1>4, <2>1, <2>2, <2>3, LookupWaits
<1>5. CASE ChooseSlot \/ StoreEntry \/ Fence \/ UseSlot \/ Drift
  BY <1>1, <1>5, LookupsOnlyLook
<1>6. CASE Match
  <2>1. LookupInv' /\ TypeInv' /\ outcome' = "going"
    BY <1>1, <1>6, LookupMatches
  <2>2. /\ Does("match") /\ GoOn /\ SameBatch /\ UNCHANGED <<round, g, running, frames, free_list>>
        /\ program' = program
    BY <1>6 DEF Match, SameBatch, input_vars
  <2>3. Driver'
    BY <1>1, <2>1, <2>2, DriverGoesOn
  <2> QED  BY <2>1, <2>2, <2>3
<1>7. CASE Compare
  <2>1. LookupInv' /\ TypeInv' /\ outcome' = "going"
    BY <1>1, <1>7, LookupCompares
  <2>2. /\ Does("compare") /\ GoOn /\ SameBatch /\ UNCHANGED <<round, g, running, frames, free_list>>
        /\ program' = program
    BY <1>7 DEF Compare, SameBatch, input_vars
  <2>3. Driver'
    BY <1>1, <2>1, <2>2, DriverGoesOn
  <2> QED  BY <2>1, <2>2, <2>3
<1>8. CASE EndRound
  <2>1. program' = program
    BY <1>8 DEF EndRound, input_vars
  <2>2. Driver' /\ PositionInv'
    BY <1>1, <1>8, DriverSteps DEF Driver
  <2> QED  BY <1>1, <1>8, <2>1, <2>2, LookupsNextRound
<1>9. CASE EndBatch
  BY <1>1, <1>9, DriverSteps, NextBatch, LookupsNextBatch
<1>10. CASE EndOperations
  <2>1. SameBatch /\ UNCHANGED group_vars /\ program' = program /\ outcome' = "done"
    BY <1>10 DEF EndOperations, SameBatch, input_vars
  <2>2. Driver'
    BY <1>1, <2>1, DriverStays
  <2>3. PositionInv'
    BY <2>2 DEF Driver
  <2> QED  BY <1>1, <1>10, <2>1, <2>2, <2>3, LookupWaits
<1> QED  BY <1>3, <1>4, <1>5, <1>6, <1>7, <1>8, <1>9, <1>10 DEF Next

(* A step that changes nothing keeps it as well.                           *)
LEMMA StutterIInv ==
  ASSUME IInv, UNCHANGED vars
  PROVE  IInv'
<1>1. /\ SameTasks /\ SameBatch /\ UNCHANGED group_vars /\ outcome' = outcome /\ program' = program
      /\ nodes' = nodes /\ slot' = slot /\ at' = at /\ round' = round /\ g' = g /\ running' = running
  BY DEF vars, input_vars, group_vars, SameTasks, SameBatch
<1>2. Driver /\ InputInv /\ PositionInv /\ TypeInv
  BY DEF IInv, Driver
<1>3. Driver'
  <2>1. outcome \in {"going", "done", "crashed"}
    BY <1>2 DEF PositionInv
  <2> QED  BY <1>1, <1>2, <2>1, DriverStays
<1>4. TypeInv'
  BY <1>1, <1>2 DEF TypeInv, SameTasks
<1>5. ASSUME program # "coro_lookup"
      PROVE  InsertInv'
  <2>1. AllKept
    BY <1>1, <1>2, KeptItself DEF TypeInv, AllKept
  <2>2. \A m \in Current : SameFlags(m)
    BY <1>1, <1>2, BatchOps, FlagsStay
  <2> QED  BY <1>1, <1>2, <1>5, <2>1, <2>2, InsertKept DEF IInv
<1>6. ASSUME program = "coro_lookup"
      PROVE  LookupInv'
  <2>1. Compared' = Compared
    <3>1. Kind' = Kind /\ Batch' = Batch
      BY <1>1, <1>2, SameBatchOps
    <3> QED  BY <1>1, <3>1 DEF Compared, Here, There
  <2>2. \A m \in Current : /\ slot'[m] = slot[m]
                           /\ at'[m] > MatchAt[Kind] => at[m] > MatchAt[Kind]
    BY <1>1
  <2> QED  BY <1>1, <1>2, <1>6, <2>1, <2>2, LookupStays DEF IInv
<1> QED  BY <1>1, <1>3, <1>4, <1>5, <1>6 DEF IInv, Driver

(* The invariant is one of the specification.                              *)
LEMMA Invariant == Spec => []IInv
<1>1. IInv /\ [Next]_vars => IInv'
  BY InsertSteps, LookupSteps, StutterIInv
<1> QED  BY InitIInv, <1>1, PTL DEF Spec

-----------------------------------------------------------------------------
(* Every variable keeps its type: no coroutine goes past its end, no slot  *)
(* is one that a node does not have, no frame one the pool does not have.  *)
THEOREM TypeCorrect == Spec => []TypeOK
<1>1. ASSUME IInv PROVE TypeOK
  <2>1. InputInv /\ PositionInv /\ FramesInv /\ TypeInv
    BY <1>1 DEF IInv
  <2>2. round \in 1 .. Len(Rounds)
    BY <2>1, RoundOps
  <2>3. at \in [Members -> 1 .. Len(Coroutine) + 1]
    <3>1. ASSUME NEW m \in Members PROVE at[m] \in 1 .. Len(Coroutine) + 1
      <4>1. /\ at[m] \in 1 .. 10 /\ Len(Coroutine) \in 2 .. 9 /\ There \in 1 .. 10 /\ Here \in 1 .. 9
            /\ Here < There
        BY <2>1, RoundOps DEF PositionInv
      <4>2. There <= Len(Coroutine) + 1
        <5>1. There - 1 \in Here .. There - 1
          BY <4>1
        <5>2. There - 1 \in 1 .. Len(Coroutine)
          BY <2>1, <5>1, RoundOps
        <5> QED  BY <4>1, <5>2
      <4>3. at[m] = 1 \/ at[m] = There \/ at[m] = Here \/ (m = g /\ running)
        <5>1. m \in Nat /\ g \in Nat /\ Batch \in Nat
          <6>1. g \in 0 .. Batch /\ Batch \in 1 .. GROUP_SIZE /\ m \in Nat /\ GROUP_SIZE \in Nat
            BY <2>1, BatchOps DEF PositionInv
          <6> QED  BY <6>1
        <5>2. /\ m >= Batch => at[m] = 1
              /\ m < g => at[m] = There
              /\ m < Batch /\ (m > g \/ (m = g /\ ~ running)) => at[m] = Here
          BY <2>1 DEF PositionInv
        <5> QED  BY <5>1, <5>2
      <4>4. m = g /\ running => at[m] <= There
        BY <2>1, <4>1 DEF PositionInv
      <4> QED  BY <4>1, <4>2, <4>3, <4>4
    <3> QED  BY <2>1, <3>1 DEF PositionInv
  <2>4. sum \in Nat
    <3>1. CASE program # "coro_lookup"
      BY <1>1, <3>1 DEF IInv, InsertInv
    <3>2. CASE program = "coro_lookup"
      <4>1. sum = SumOfKeys(i + Compared)
        BY <1>1, <3>2 DEF IInv, LookupInv
      <4>2. i + Compared \in 0 .. OperationCount
        <5>1. /\ i \in 0 .. OperationCount /\ OperationCount \in Nat /\ g \in Nat
              /\ Batch \in Nat /\ g <= Batch
              /\ i < OperationCount => i + Batch <= OperationCount
          <6>1. Batch \in 1 .. GROUP_SIZE /\ GROUP_SIZE \in Nat /\ g \in 0 .. Batch
            BY <2>1, BatchOps DEF PositionInv
          <6> QED  BY <2>1, <6>1, BatchOps
        <5>2. /\ running => g < Batch /\ i < OperationCount
              /\ i = OperationCount => g = 0
          BY <2>1 DEF PositionInv
        <5>3. Compared \in {0, g} \/ (running /\ Compared = g + 1)
          BY <2>1, <3>2, ComparedOps
        <5> QED  BY <5>1, <5>2, <5>3
      <4> QED  BY <2>1, <4>1, <4>2, ExpectedOps
    <3> QED  BY <3>1, <3>2
  <2> QED  BY <2>1, <2>2, <2>3, <2>4 DEF TypeOK, InputInv, PositionInv, FramesInv, TypeInv
<1> QED  BY Invariant, <1>1, PTL

(* A frame of the pool is free or belongs to one coroutine, whatever the   *)
(* group takes and gives back, and only a group larger than the pool makes *)
(* it run dry.                                                             *)
THEOREM FramesConserved == Spec => []FramesAreConserved
<1>1. ASSUME IInv PROVE FramesAreConserved
  <2>1. FramesInv
    BY <1>1 DEF IInv
  <2>2. IsInjective(free_list \o frames)
    BY <2>1, AllDifferent DEF FramesInv
  <2> QED  BY <2>1, <2>2 DEF FramesInv, FramesAreConserved
<1> QED  BY Invariant, <1>1, PTL

(* Between two batches no insert is on its way: every node is as it was    *)
(* when the last one ended.                                                *)
LEMMA BetweenOps ==
  ASSUME IInv, BetweenBatches
  PROVE  /\ program # "coro_lookup" =>
              /\ \A m \in Current : ~ Chosen(m) /\ ~ Stored(m)
              /\ \A n \in Nodes : Untouched(n)
              /\ \A n \in Nodes, s \in Slots : ~ Waits(n, s)
         /\ program = "coro_lookup" => Compared = 0
<1>1. /\ InputInv /\ PositionInv /\ round = 1 /\ g = 0 /\ ~ running
      /\ Kind \in Kinds
  BY KindOfBatch DEF IInv, BetweenBatches
<1>2. Here = 1
  BY <1>1, RoundOps
<1>3. ASSUME program # "coro_lookup", NEW m \in Current
      PROVE  ~ Chosen(m) /\ ~ Stored(m)
  <2>1. m \in Members /\ m \in Nat /\ m < Batch
    BY <1>1, BatchOps
  <2>2. at[m] = 1
    <3>1. m > g \/ m = g
      BY <1>1, <2>1
    <3> QED  BY <1>1, <1>2, <2>1, <3>1 DEF PositionInv
  <2>3. ChooseAt[Kind] \in 1 .. 9 /\ StoreAt[Kind] \in 1 .. 9
    BY <1>1, <1>3, <2>1, FlagsOps
  <2> QED  BY <2>2, <2>3 DEF Chosen, Stored
<1>4. ASSUME program = "coro_lookup"
      PROVE  Compared = 0
  <2>1. /\ CompareAt[Kind] \in 1 .. 9 /\ There \in 1 .. 10
    BY <1>1, <1>4, ComparedOps, RoundOps
  <2> QED  BY <1>1, <1>2, <2>1 DEF Compared
<1> QED  BY <1>3, <1>4 DEF Untouched, Waits

(* After every batch the nodes are what the same inserts leave when one    *)
(* comes after the other, in every style of both programs.                 *)
THEOREM GroupsAreNormal == Spec => []CoroutineEqualsScalar
<1>1. ASSUME IInv PROVE CoroutineEqualsScalar
  <2>1. SUFFICES ASSUME BetweenBatches, NEW n \in Nodes PROVE Contents(nodes[n]) = normal_nodes[n]
    BY DEF CoroutineEqualsScalar
  <2>2. normal_nodes[n] \in ContentSet
    BY <1>1 DEF IInv, TypeInv
  <2>3. IsFresh(nodes[n], normal_nodes[n])
    <3>1. CASE program # "coro_lookup"
      <4>1. Untouched(n) /\ NodeInv(n)
        BY <1>1, <2>1, <3>1, BetweenOps DEF IInv, InsertInv
      <4> QED  BY <4>1 DEF NodeInv
    <3>2. CASE program = "coro_lookup"
      <4>1. nodes[n] = Lookup!Initialize /\ normal_nodes[n] = Contents(Lookup!Initialize)
        BY <1>1, <3>2 DEF IInv, LookupInv
      <4> QED  BY <4>1, LookupNode, ContentsOps
    <3> QED  BY <3>1, <3>2
  <2>4. normal_nodes[n].entries = [s \in Slots |-> nodes[n].entries[s].vol]
    <3>1. normal_nodes[n].entries \in [Slots -> EntrySet]
      BY <2>2 DEF ContentSet
    <3>2. \A s \in Slots : normal_nodes[n].entries[s] = nodes[n].entries[s].vol
      BY <2>3 DEF IsFresh
    <3> QED  BY <3>1, <3>2
  <2>5. normal_nodes[n] = [head |-> nodes[n].head.vol, entries |-> normal_nodes[n].entries]
    BY <2>2, <2>3 DEF ContentSet, IsFresh
  <2> QED  BY <2>4, <2>5 DEF Contents
<1> QED  BY Invariant, <1>1, PTL

(* ... and a power failure then takes nothing of them.                     *)
THEOREM BatchesAreDurable == Spec => []InsertsAreDurable
<1>1. ASSUME IInv PROVE InsertsAreDurable
  <2>1. SUFFICES ASSUME BetweenBatches, NEW op \in 0 .. i - 1, NEW n, n = operations[op].node
                 PROVE  Stable(nodes[n].head) /\ \A s \in Slots : Stable(nodes[n].entries[s])
    BY DEF InsertsAreDurable
  <2>2. n \in Nodes
    <3>1. op \in Operations
      <4>1. i \in 0 .. OperationCount /\ OperationCount \in Nat
        BY <1>1, BatchOps DEF IInv
      <4> QED  BY <2>1, <4>1 DEF Operations
    <3> QED  BY <1>1, <2>1, <3>1 DEF IInv, InputInv
  <2>3. CASE program # "coro_lookup"
    <3>1. /\ Untouched(n) /\ NodeInv(n) /\ EntriesInv(n)
          /\ \A s \in Slots : ~ Waits(n, s)
      BY <1>1, <2>1, <2>2, <2>3, BetweenOps DEF IInv, InsertInv
    <3>2. Stable(nodes[n].head)
      BY <2>1, <3>1 DEF NodeInv
    <3> QED  BY <3>1, <3>2 DEF EntriesInv
  <2>4. CASE program = "coro_lookup"
    <3>1. nodes[n] = Lookup!Initialize
      BY <1>1, <2>2, <2>4 DEF IInv, LookupInv
    <3> QED  BY <3>1, LookupNode
  <2> QED  BY <2>3, <2>4
<1> QED  BY Invariant, <1>1, PTL

(* In coro_insert.cpp a slot is marked as used, at any moment and between  *)
(* any two members of a group, only if its entry and its fingerprint are   *)
(* durable.                                                                *)
THEOREM EntriesBeforeBits == Spec => []NewEntriesAreDurableFirst
<1>1. ASSUME IInv PROVE NewEntriesAreDurableFirst
  <2>1. program \in {"coro_insert", "reuse", "coro_lookup"}
    <3>1. <<program, style>> \in Programs
      BY <1>1, CoroutineTreeAssumption DEF IInv, InputInv, CoroutineTreeAssumption
    <3> QED  BY <3>1 DEF Programs
  <2>2. CASE program = "coro_insert"
    <3>1. \A n \in Nodes, s \in Slots : KeepsEntry(nodes[n], s)
      BY <1>1, <2>2 DEF IInv, InsertInv
    <3> QED  BY <3>1 DEF KeepsEntry, NewEntriesAreDurableFirst, UsedMeansDurable
  <2>3. CASE program \in {"reuse", "coro_lookup"}
    BY <2>3 DEF NewEntriesAreDurableFirst, UsedMeansDurable
  <2> QED  BY <2>1, <2>2, <2>3
<1> QED  BY Invariant, <1>1, PTL

(* A lookup finds its key whatever the order of the group, so that no      *)
(* assertion of the driver fails, and after every batch the sum of what    *)
(* was found is that of the keys.                                          *)
THEOREM LookupsFind == Spec => []LookupsFindTheirKey
<1>1. ASSUME IInv PROVE LookupsFindTheirKey
  <2>1. SUFFICES ASSUME program = "coro_lookup"
                 PROVE  /\ outcome = "crashed" => Empty(free_list)
                        /\ BetweenBatches => sum = Lookup!Expected(operations, i)
    BY DEF LookupsFindTheirKey
  <2>2. outcome = "crashed" => Empty(free_list)
    BY <1>1 DEF IInv, FramesInv
  <2>3. ASSUME BetweenBatches PROVE sum = Lookup!Expected(operations, i)
    <3>1. Compared = 0 /\ sum = SumOfKeys(i + Compared) /\ i \in Nat
      BY <1>1, <2>1, <2>3, BetweenOps, BatchOps DEF IInv, LookupInv
    <3>2. i + Compared = i
      BY <3>1
    <3> QED  BY <3>1, <3>2 DEF SumOfKeys
  <2> QED  BY <2>2, <2>3
<1> QED  BY Invariant, <1>1, PTL
=============================================================================
