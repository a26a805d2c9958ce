-------------------------- MODULE LogWritersProofs --------------------------
(***************************************************************************)
(* The theorems about the log writers (LogWriters.tla): whatever writer    *)
(* runs, however long the entries and the file are and whenever the cache  *)
(* writes a line out, the recovery finds the log and at most the entry     *)
(* being added, and every writer that keeps this promise implements the    *)
(* durable log.  First the two families that write an entry word by word,  *)
(* the zero writer with a buffered line (LW_ZeroCached.hpp) and the        *)
(* Mnemosyne writers (LW_Mnemosyne*.hpp), then the invariant of all.       *)
(***************************************************************************)
EXTENDS CopiedLogsProofs

-----------------------------------------------------------------------------
\* The zero writer with a buffer.

\* The words of an entry, from the length to the bit count.
BufferedCount(e) == ZeroCached!PopCount(ZeroCached!Layout(e))
BufferedFinal(e) == (<<Len(e)>> \o e) \o <<BufferedCount(e)>>
BufferedEnd(s, e) == s + Len(e) + 2

(* The instance's names are the ones of LogMemory.                         *)
LEMMA BufferedMemory ==
  /\ ZeroCached!ByteCount = ByteCount /\ ZeroCached!Slots = Slots
  /\ [ZeroCached!LogLines -> ZeroCached!LineSet([ZeroCached!Slots -> Nat])] = Memory(Nat)
  /\ \A m, l, w : ZeroCached!StreamLine(m, l, w) = StreamLine(m, l, w)
  /\ \A m : ZeroCached!Fence(m) = Fence(m)
  /\ \A m, a : ZeroCached!Durable(m, a) = Durable(m, a)
  /\ \A m, a : ZeroCached!Cached(m, a) = Cached(m, a)
  /\ \A m : ZeroCached!StreamDrift(m) = StreamDrift(m)
  /\ \A v : ZeroCached!Filled(v) = Filled(v)
  /\ ZeroCached!alex_PopCount = alex_PopCount
  /\ \A ns : ZeroCached!Total(ns) = Total(ns)
<1>1. /\ ZeroCached!ByteCount = ByteCount /\ ZeroCached!Addresses = Addresses
      /\ ZeroCached!LogLines = LogLines /\ ZeroCached!Slots = Slots
      /\ \A a : ZeroCached!LineOf(a) = LineOf(a) /\ ZeroCached!SlotOf(a) = SlotOf(a)
  BY DEF ZeroCached!ByteCount, ByteCount, ZeroCached!Addresses, Addresses, ZeroCached!LogLines,
         LogLines, ZeroCached!Slots, Slots, ZeroCached!LineOf, LineOf, ZeroCached!SlotOf, SlotOf
<1>2. [ZeroCached!LogLines -> ZeroCached!LineSet([ZeroCached!Slots -> Nat])] = Memory(Nat)
  BY <1>1 DEF ZeroCached!LineSet, LineSet, Memory
<1>3. ASSUME NEW m, NEW l, NEW w
      PROVE  ZeroCached!StreamLine(m, l, w) = StreamLine(m, l, w)
  BY DEF ZeroCached!StreamLine, StreamLine, ZeroCached!CopyAndFlush, CopyAndFlush,
         ZeroCached!WriteBack, WriteBack, ZeroCached!Store, Store
<1>4. \A m : ZeroCached!Fence(m) = Fence(m)
  BY <1>1 DEF ZeroCached!Fence, Fence, ZeroCached!SFence, SFence
<1>5. /\ \A m, a : ZeroCached!Durable(m, a) = Durable(m, a)
      /\ \A m, a : ZeroCached!Cached(m, a) = Cached(m, a)
  BY <1>1 DEF ZeroCached!Durable, Durable, ZeroCached!Cached, Cached
<1>6. ASSUME NEW m
      PROVE  ZeroCached!StreamDrift(m) = StreamDrift(m)
  BY <1>1, <1>5 DEF ZeroCached!StreamDrift, StreamDrift
<1>7. ASSUME NEW v
      PROVE  ZeroCached!Filled(v) = Filled(v)
  BY <1>1 DEF ZeroCached!Filled, Filled, ZeroCached!Line, Line
<1>8. ZeroCached!alex_PopCount = alex_PopCount
  BY DEF ZeroCached!alex_PopCount, alex_PopCount
<1>9. ASSUME NEW ns
      PROVE  ZeroCached!Total(ns) = Total(ns)
  BY DEF ZeroCached!Total, Total, ZeroCached!MapThenFoldSet,
         MapThenFoldSet, ZeroCached!Max, Max
<1> QED  BY <1>1, <1>2, <1>3, <1>4, <1>5, <1>6, <1>7, <1>8, <1>9

\* The bits of a sequence of numbers, one by one.
BitsIn(ws) == [i \in DOMAIN ws |-> alex_PopCount[ws[i]]]

(* Every word counts.                                                      *)
LEMMA PopCounts ==
  ASSUME NEW ws \in Seq(Nat)
  PROVE  /\ ZeroCached!PopCount(ws) = Total(BitsIn(ws))
         /\ BitsIn(ws) \in Seq(Nat) /\ Len(BitsIn(ws)) = Len(ws)
         /\ \A i \in 1 .. Len(ws) : BitsIn(ws)[i] = alex_PopCount[ws[i]]
         /\ ZeroCached!PopCount(ws) \in Nat
         /\ Len(ws) > 0 /\ ws[1] # 0 => ZeroCached!PopCount(ws) # 0
<1> DEFINE b == BitsIn(ws)
<1>1. DOMAIN ws = 1 .. Len(ws) /\ Len(ws) \in Nat
  OBVIOUS
<1>2. ZeroCached!PopCount(ws) = Total(b)
  BY BufferedMemory DEF ZeroCached!PopCount, BitsIn
<1>3. \A i \in 1 .. Len(ws) : ws[i] \in Nat
  OBVIOUS
<1>4. \A i \in 1 .. Len(ws) : b[i] = alex_PopCount[ws[i]] /\ b[i] \in Nat /\ (b[i] = 0 <=> ws[i] = 0)
  BY <1>1, <1>3, PopCountZero DEF BitsIn
<1>5. b \in Seq(Nat) /\ Len(b) = Len(ws)
  <2>1. b = [i \in 1 .. Len(ws) |-> b[i]]
    BY <1>1 DEF BitsIn
  <2> HIDE DEF b
  <2> QED  BY <1>1, <1>4, <2>1
<1> HIDE DEF b
<1>6. Total(b) \in Nat /\ \A i \in 1 .. Len(b) : b[i] <= Total(b)
  BY <1>5, TotalBounds
<1>7. Len(ws) > 0 /\ ws[1] # 0 => Total(b) # 0
  <2>1. Len(ws) > 0 => 1 \in 1 .. Len(ws)
    BY <1>1
  <2> QED  BY <1>4, <1>5, <1>6, <2>1
<1> QED  BY <1>2, <1>4, <1>5, <1>6, <1>7 DEF b

(* A sequence some words of which are still zero has fewer bits.           *)
LEMMA PopCountsMissing ==
  ASSUME NEW e \in Seq(Nat), NEW p \in Seq(Nat), Len(p) = Len(e),
         \A i \in 1 .. Len(e) : p[i] \in {0, e[i]},
         ZeroCached!PopCount(p) = ZeroCached!PopCount(e)
  PROVE  p = e
<1> DEFINE n == Len(e)
           b == BitsIn(e)
           c == BitsIn(p)
<1>1. /\ n \in Nat /\ b \in Seq(Nat) /\ c \in Seq(Nat) /\ Len(b) = n /\ Len(c) = n
      /\ Total(c) = Total(b)
  BY PopCounts
<1>2. ASSUME NEW i \in 1 .. n
      PROVE  /\ b[i] = alex_PopCount[e[i]] /\ c[i] = alex_PopCount[p[i]]
             /\ b[i] \in Nat /\ c[i] \in Nat /\ c[i] <= b[i]
             /\ c[i] = b[i] => p[i] = e[i]
  <2>1. /\ b[i] = alex_PopCount[e[i]] /\ c[i] = alex_PopCount[p[i]]
    BY PopCounts
  <2>2. e[i] \in Nat /\ p[i] \in Nat
    OBVIOUS
  <2>3. /\ alex_PopCount[e[i]] \in Nat /\ (alex_PopCount[e[i]] = 0 <=> e[i] = 0)
        /\ alex_PopCount[p[i]] \in Nat /\ (alex_PopCount[p[i]] = 0 <=> p[i] = 0)
    BY <2>2, PopCountZero
  <2>4. p[i] = 0 \/ p[i] = e[i]
    OBVIOUS
  <2> HIDE DEF b, c
  <2> QED  BY <2>1, <2>3, <2>4
<1> HIDE DEF b, c
<1>3. \A i \in 1 .. n : c[i] = b[i]
  <2>1. \A i \in 1 .. Len(b) : c[i] <= b[i]
    BY <1>1, <1>2
  <2>2. \A i \in 1 .. Len(b) : c[i] = b[i]
    BY <1>1, <2>1, TotalGrows
  <2> QED  BY <1>1, <2>2
<1>4. \A i \in 1 .. n : p[i] = e[i]
  BY <1>2, <1>3
<1>5. p = [i \in 1 .. n |-> p[i]] /\ e = [i \in 1 .. n |-> e[i]]
  BY <1>1
<1> QED  BY <1>4, <1>5

(* An entry takes its words, its length and its bit count.                 *)
LEMMA BufferedSizes ==
  ASSUME NEW s \in Nat, NEW e \in ZeroCached!Entries
  PROVE  /\ e \in Seq(Nat) /\ Len(e) \in 1 .. MaxPayload /\ Len(e) \in Nat \ {0}
         /\ ZeroCached!Blocks(e) = Len(e) + 1
         /\ BufferedCount(e) \in Nat \ {0}
         /\ ZeroCached!Layout(e) \in Seq(Nat) /\ Len(ZeroCached!Layout(e)) = Len(e) + 1
         /\ BufferedFinal(e) \in Seq(Nat) /\ Len(BufferedFinal(e)) = Len(e) + 2
         /\ BufferedFinal(e)[1] = Len(e)
         /\ \A i \in 1 .. Len(e) : BufferedFinal(e)[i + 1] = e[i]
         /\ \A i \in 1 .. Len(e) + 1 : BufferedFinal(e)[i] = ZeroCached!Layout(e)[i]
         /\ BufferedFinal(e)[Len(e) + 2] = BufferedCount(e)
         /\ BufferedEnd(s, e) \in Nat /\ s < BufferedEnd(s, e)
<1> DEFINE l == ZeroCached!Layout(e)
           f == BufferedFinal(e)
           k == Len(e)
<1>1. PICK n \in 1 .. MaxPayload : e \in [1 .. n -> Value]
  BY DEF ZeroCached!Entries
<1>2. MaxPayload \in Nat /\ Value \subseteq Nat
  BY LogMemoryAssumption
<1>3. n \in Nat \ {0}
  BY <1>2
<1>4. e \in Seq(Nat) /\ k = n
  <2>1. e \in [1 .. n -> Nat]
    BY <1>1, <1>2
  <2> QED  BY <1>3, <2>1
<1>5. l = <<k>> \o e
  BY DEF ZeroCached!Layout
<1>6. k \in Nat \ {0} /\ k \in 1 .. MaxPayload
  BY <1>3, <1>4
<1> HIDE DEF k
<1>7. l \in Seq(Nat) /\ Len(l) = k + 1 /\ l[1] = k /\ \A i \in 1 .. k : l[i + 1] = e[i]
  <2>1. Len(e) = k
    BY DEF k
  <2> HIDE DEF l
  <2> QED  BY <1>4, <1>5, <1>6, <2>1, InFront
<1> HIDE DEF l
<1>8. BufferedCount(e) \in Nat /\ BufferedCount(e) # 0
  <2>1. BufferedCount(e) = ZeroCached!PopCount(l)
    BY DEF BufferedCount, l
  <2>2. Len(l) > 0 /\ l[1] # 0
    BY <1>6, <1>7
  <2> QED  BY <1>7, <2>1, <2>2, PopCounts
<1> DEFINE x == BufferedCount(e)
<1>9. f = l \o <<x>>
  BY <1>5 DEF BufferedFinal, k
<1> HIDE DEF f, x
<1>10. /\ f \in Seq(Nat) /\ Len(f) = k + 2
       /\ \A i \in 1 .. k + 1 : f[i] = l[i]
       /\ f[k + 2] = x
  <2>1. x \in Nat /\ l \in Seq(Nat) /\ Len(l) = k + 1 /\ k \in Nat
    BY <1>6, <1>7, <1>8 DEF x
  <2> QED  BY <1>9, <2>1
<1>11. f[1] = k /\ \A i \in 1 .. k : f[i + 1] = e[i]
  <2>1. 1 \in 1 .. k + 1 /\ \A i \in 1 .. k : i + 1 \in 1 .. k + 1
    BY <1>6
  <2> QED  BY <1>7, <1>10, <2>1
<1>12. s + k + 2 \in Nat /\ s < s + k + 2
  BY <1>6
<1> QED  BY <1>4, <1>6, <1>7, <1>8, <1>10, <1>11, <1>12
         DEF l, f, k, x, ZeroCached!Blocks, BufferedEnd

\* Where the line l begins.
LineFront(l) == LineWords * l

(* The next word is in the same line or is the first of the next one.      *)
LEMMA NextWord ==
  ASSUME NEW a \in Nat
  PROVE  /\ a \div LineWords \in Nat /\ a % LineWords \in Slots
         /\ LineFront(a \div LineWords) \in Nat
         /\ a = LineFront(a \div LineWords) + (a % LineWords)
         /\ (a % LineWords) + 1 # LineWords =>
              /\ (a + 1) \div LineWords = a \div LineWords
              /\ (a + 1) % LineWords = (a % LineWords) + 1
         /\ (a % LineWords) + 1 = LineWords =>
              /\ (a + 1) \div LineWords = (a \div LineWords) + 1
              /\ (a + 1) % LineWords = 0
              /\ LineFront((a \div LineWords) + 1) = a + 1
         /\ a \in Addresses => a \div LineWords \in LogLines
<1> DEFINE q == a \div LineWords
           r == a % LineWords
<1>1. LineWords \in Nat \ {0, 1}
  BY LogMemoryAssumption
<1>2. q \in Nat /\ r \in 0 .. LineWords - 1 /\ a = LineWords * q + r
  BY <1>1, DivType
<1>3. a \in Addresses => q \in LogLines
  <2>1. a \in Addresses => LineOf(a) \in LogLines
    BY AddressParts
  <2> QED  BY <2>1 DEF LineOf
<1> HIDE DEF q, r
<1>4. LineWords * q \in Nat /\ LineWords * (q + 1) = LineWords * q + LineWords /\ q + 1 \in Nat
  BY <1>1, <1>2
<1>5. ASSUME r + 1 # LineWords
      PROVE  (a + 1) \div LineWords = q /\ (a + 1) % LineWords = r + 1
  <2>1. r + 1 \in 0 .. LineWords - 1 /\ a + 1 = LineWords * q + (r + 1)
    BY <1>1, <1>2, <1>4, <1>5
  <2>2. (LineWords * q + (r + 1)) \div LineWords = q /\ (LineWords * q + (r + 1)) % LineWords = r + 1
    BY <1>1, <1>2, <2>1, DivUnique
  <2> QED  BY <2>1, <2>2
<1>6. ASSUME r + 1 = LineWords
      PROVE  /\ (a + 1) \div LineWords = q + 1 /\ (a + 1) % LineWords = 0
             /\ LineWords * (q + 1) = a + 1
  <2>1. 0 \in 0 .. LineWords - 1 /\ a + 1 = LineWords * (q + 1)
    BY <1>1, <1>2, <1>4, <1>6
  <2>2. (LineWords * (q + 1) + 0) \div LineWords = q + 1 /\ (LineWords * (q + 1) + 0) % LineWords = 0
    BY <1>1, <1>4, <2>1, DivUnique
  <2>3. LineWords * (q + 1) + 0 = a + 1
    BY <1>1, <1>4, <2>1
  <2> QED  BY <2>1, <2>2, <2>3
<1>7. r \in Slots /\ q \in Nat /\ LineWords * q \in Nat /\ a = LineWords * q + r
  BY <1>2, <1>4 DEF Slots
<1>8. LineFront(q) = LineWords * q /\ LineFront(q + 1) = LineWords * (q + 1)
  BY DEF LineFront
<1>9. /\ q \in Nat /\ r \in Slots /\ LineFront(q) \in Nat /\ a = LineFront(q) + r
      /\ r + 1 # LineWords => (a + 1) \div LineWords = q /\ (a + 1) % LineWords = r + 1
      /\ r + 1 = LineWords =>
           (a + 1) \div LineWords = q + 1 /\ (a + 1) % LineWords = 0 /\ LineFront(q + 1) = a + 1
      /\ a \in Addresses => q \in LogLines
  BY <1>3, <1>5, <1>6, <1>7, <1>8, Zenon
<1> QED  BY <1>9, Zenon DEF q, r

(* The lines lie one behind the other.                                     *)
LEMMA LineOrder ==
  ASSUME NEW b \in Addresses, NEW l \in Nat
  PROVE  /\ LineOf(b) \in Nat /\ LineFront(l) \in Nat
         /\ LineOf(b) < l => b < LineFront(l)
         /\ LineOf(b) = l => b = LineFront(l) + SlotOf(b) /\ SlotOf(b) \in Slots
         /\ LineOf(b) > l => b >= LineFront(l) + LineWords
<1> DEFINE q == LineOf(b)
           r == SlotOf(b)
<1>1. LineWords \in Nat \ {0, 1} /\ LineCount \in Nat
  BY LogMemoryAssumption
<1>2. b \in Nat /\ q \in LogLines /\ r \in Slots /\ b = LineWords * q + r
  BY AddressParts
<1>3. q \in Nat /\ r \in Nat /\ r < LineWords
  BY <1>1, <1>2 DEF LogLines, Slots
<1> HIDE DEF q, r
<1>4. LineWords * q \in Nat /\ LineWords * l \in Nat
  BY <1>1, <1>3
<1>5. q < l => LineWords * q + LineWords <= LineWords * l
  BY <1>1, <1>3, Multiples
<1>6. l < q => LineWords * l + LineWords <= LineWords * q
  BY <1>1, <1>3, Multiples
<1> QED  BY <1>1, <1>2, <1>3, <1>4, <1>5, <1>6 DEF q, r, LineFront

\* <<s, e, n>> such that the entry e lies at s and the next one goes to n.
BufferedPlaces(m) ==
  {t \in Nat \X ZeroCached!Entries \X Nat :
     t[3] = BufferedEnd(t[1], t[2]) /\ Laid(m, t[1], BufferedFinal(t[2]))}

\* The word active_cl goes on with, and where it has been filled up to.
BufferedAt == next_free + pos
BufferedUpto == IF pc \in {"stream", "fence"} THEN BufferedAt + 1 ELSE BufferedAt
BufferedLine == BufferedAt \div LineWords

\* The word of the entry for the address a.
BufferedWord(a) == BufferedFinal(entry)[a - next_free + 1]

\* What has been streamed of it.
Streamed(a) ==
  IF a < BufferedUpto /\ (LineOf(a) < BufferedLine \/ pc = "fence")
  THEN BufferedWord(a) ELSE 0

BufferedEntry ==
  IF pc = "idle" THEN entry = <<>> /\ pos = 0
  ELSE /\ entry \in ZeroCached!Entries
       /\ BufferedEnd(next_free, entry) <= ByteCount
       /\ pos <= Len(entry) + 1
       /\ pc = "stream" => pos <= Len(entry) /\ cl_pos + 1 = LineWords
       /\ pc = "fence" => pos = Len(entry) + 1

\* The memory has what was streamed, zero behind it.
BufferedRest ==
  \A a \in Addresses :
    a >= next_free => /\ Rising(mem, a, 0, Streamed(a))
                      /\ Flushed(mem, a) = Streamed(a)

\* The buffer has what the memory has in its line, and what goes there.
BufferedHolds ==
  /\ cl_pos = BufferedAt % LineWords
  /\ \A s \in Slots :
       LET a == LineFront(BufferedLine) + s
       IN active_cl[s] = IF a < next_free THEN Cached(mem, a)
                         ELSE IF a < BufferedUpto THEN BufferedWord(a) ELSE 0

BufferedInv ==
  /\ ZeroCached!TypeOK
  /\ BufferedEntry
  /\ Places(log, next_free, BufferedPlaces(mem))
  /\ BufferedRest
  /\ BufferedHolds

(* The types, and where the entry lies.                                    *)
LEMMA BufferedFacts ==
  ASSUME BufferedInv
  PROVE  /\ mem \in Memory(Nat) /\ ByteCount \in Nat
         /\ next_free \in 0 .. ByteCount /\ writer \in ZeroCached!Writers
         /\ active_cl \in [Slots -> Nat] /\ cl_pos \in Slots
         /\ pc \in {"idle", "copy", "stream", "fence"}
         /\ log \in Seq(ZeroCached!Entries) /\ pos \in Nat
         /\ next_free \in Nat /\ BufferedAt \in Nat /\ next_free <= BufferedAt
         /\ BufferedUpto \in Nat
         /\ pc # "idle" => /\ entry \in ZeroCached!Entries
                           /\ BufferedEnd(next_free, entry) <= ByteCount
                           /\ BufferedAt < BufferedEnd(next_free, entry)
                           /\ BufferedUpto <= BufferedEnd(next_free, entry)
                           /\ BufferedAt < ByteCount /\ BufferedAt \in Addresses
         /\ pc = "idle" => entry = <<>> /\ pos = 0 /\ BufferedAt = next_free
                             /\ BufferedUpto = next_free
<1>1. /\ mem \in Memory(Nat)
      /\ next_free \in 0 .. ByteCount /\ writer \in ZeroCached!Writers
      /\ active_cl \in [Slots -> Nat] /\ cl_pos \in 0 .. LineWords - 1
      /\ pc \in {"idle", "copy", "stream", "fence"}
      /\ log \in Seq(ZeroCached!Entries) /\ pos \in 0 .. MaxPayload + 1
  BY BufferedMemory DEF BufferedInv, ZeroCached!TypeOK
<1>2. ByteCount \in Nat /\ MaxPayload \in Nat
  BY LogMemoryAssumption DEF ByteCount
<1>3. next_free \in Nat /\ pos \in Nat
  BY <1>1, <1>2
<1>4. cl_pos \in Slots
  BY <1>1 DEF Slots
<1>5. BufferedAt \in Nat /\ next_free <= BufferedAt /\ BufferedUpto \in Nat
  BY <1>3 DEF BufferedAt, BufferedUpto
<1>6. ASSUME pc # "idle"
      PROVE  /\ entry \in ZeroCached!Entries
             /\ BufferedEnd(next_free, entry) <= ByteCount
             /\ BufferedAt < BufferedEnd(next_free, entry)
             /\ BufferedUpto <= BufferedEnd(next_free, entry)
             /\ BufferedAt < ByteCount /\ BufferedAt \in Addresses
  <2>1. /\ entry \in ZeroCached!Entries
        /\ BufferedEnd(next_free, entry) <= ByteCount
        /\ pos <= Len(entry) + 1
    BY <1>6 DEF BufferedInv, BufferedEntry
  <2>2. Len(entry) \in Nat
    BY <1>3, <2>1, BufferedSizes
  <2>3. /\ BufferedAt < BufferedEnd(next_free, entry)
        /\ BufferedUpto <= BufferedEnd(next_free, entry)
        /\ BufferedEnd(next_free, entry) \in Nat
    BY <1>3, <2>1, <2>2 DEF BufferedAt, BufferedUpto, BufferedEnd
  <2>4. BufferedAt < ByteCount
    BY <1>2, <1>5, <2>1, <2>3
  <2> QED  BY <1>2, <1>5, <2>1, <2>3, <2>4 DEF Addresses
<1>7. pc = "idle" => entry = <<>> /\ pos = 0 /\ BufferedAt = next_free /\ BufferedUpto = next_free
  BY <1>3 DEF BufferedInv, BufferedEntry, BufferedAt, BufferedUpto
<1> QED  BY <1>1, <1>2, <1>3, <1>4, <1>5, <1>6, <1>7

(* What lies in front of an end stays there while words behind it change.  *)
LEMMA BufferedPlacesKept ==
  ASSUME NEW m, NEW n, NEW end \in 0 .. ByteCount, NEW found \in Seq(ZeroCached!Entries),
         Places(found, end, BufferedPlaces(m)),
         \A a, v : a \in Addresses /\ a < end /\ Settled(m, a, v) => Settled(n, a, v)
  PROVE  Places(found, end, BufferedPlaces(n))
<1>0. ByteCount \in Nat
  BY LogMemoryAssumption DEF ByteCount
<1>1. ASSUME NEW s \in 0 .. end, NEW to \in 0 .. end, NEW e \in ZeroCached!Entries,
             <<s, e, to>> \in BufferedPlaces(m)
      PROVE  <<s, e, to>> \in BufferedPlaces(n)
  <2>1. to = BufferedEnd(s, e) /\ Laid(m, s, BufferedFinal(e))
    BY <1>1 DEF BufferedPlaces
  <2>2. s \in Nat /\ to \in Nat /\ end \in Nat /\ end <= ByteCount
    BY <1>0
  <2>3. Len(BufferedFinal(e)) \in Nat /\ s + Len(BufferedFinal(e)) <= end
    <3>1. Len(BufferedFinal(e)) = Len(e) + 2 /\ Len(e) \in Nat
      BY <2>2, BufferedSizes
    <3>2. s + (Len(e) + 2) = to
      BY <2>1, <2>2, <3>1 DEF BufferedEnd
    <3> QED  BY <2>2, <3>1, <3>2
  <2>4. Laid(n, s, BufferedFinal(e))
    BY <2>1, <2>2, <2>3, LaidKept
  <2> QED  BY <2>1, <2>2, <2>4 DEF BufferedPlaces
<1>2. end \in Nat
  BY <1>0
<1> QED  BY <1>1, <1>2, PlacesKeep, Zenon

(* An empty log in zeroed memory, and an empty buffer.                     *)
LEMMA BufferedInit ==
  ASSUME ZeroCached!Init PROVE BufferedInv
<1>1. /\ writer \in ZeroCached!Writers /\ mem = Filled(0) /\ next_free = 0
      /\ active_cl = [s \in Slots |-> 0] /\ cl_pos = 0
      /\ pc = "idle" /\ entry = <<>> /\ pos = 0 /\ log = <<>>
  BY BufferedMemory DEF ZeroCached!Init, ZeroCached!EmptyLine
<1>2. ByteCount \in Nat /\ MaxPayload \in Nat /\ LineWords \in Nat \ {0, 1}
  BY LogMemoryAssumption DEF ByteCount
<1>3. mem \in Memory(Nat) /\ \A a \in Addresses : Settled(mem, a, 0)
  BY <1>1, FilledOps
<1>4. ZeroCached!TypeOK
  <2>1. mem \in [ZeroCached!LogLines -> ZeroCached!LineSet([ZeroCached!Slots -> Nat])]
    BY <1>3, BufferedMemory
  <2>2. /\ next_free \in 0 .. ZeroCached!ByteCount /\ cl_pos \in 0 .. LineWords - 1
        /\ active_cl \in [ZeroCached!Slots -> Nat] /\ pos \in 0 .. MaxPayload + 1
    BY <1>1, <1>2, BufferedMemory
  <2> QED  BY <1>1, <2>1, <2>2 DEF ZeroCached!TypeOK
<1>5. Places(log, next_free, BufferedPlaces(mem))
  BY <1>1, PlacesEmpty
<1>6. BufferedAt = 0 /\ BufferedUpto = 0
  BY <1>1 DEF BufferedAt, BufferedUpto
<1>7. BufferedRest
  <2>1. \A a \in Addresses : Streamed(a) = 0
    BY <1>6, AddressParts DEF Streamed
  <2> QED  BY <1>3, <2>1 DEF BufferedRest, Settled, Rising
<1>8. BufferedHolds
  <2>1. 0 \div LineWords \in Nat /\ 0 % LineWords \in Slots /\ LineFront(0 \div LineWords) \in Nat
        /\ 0 = LineFront(0 \div LineWords) + (0 % LineWords)
    BY NextWord
  <2> DEFINE r == 0 % LineWords
             q == LineFront(0 \div LineWords)
  <2>0. r = 0 /\ q = 0
    <3>1. r \in Slots /\ q \in Nat /\ 0 = q + r
      BY <2>1
    <3> HIDE DEF r, q
    <3> QED  BY <1>2, <3>1 DEF Slots
  <2>2. 0 % LineWords = 0 /\ LineFront(BufferedLine) = 0
    BY <1>6, <2>0 DEF BufferedLine
  <2>3. \A s \in Slots : 0 + s >= 0 /\ ~ (0 + s < 0)
    BY <1>2 DEF Slots
  <2> QED  BY <1>1, <1>6, <2>2, <2>3 DEF BufferedHolds
<1>9. BufferedEntry
  BY <1>1 DEF BufferedEntry
<1> QED  BY <1>4, <1>5, <1>7, <1>8, <1>9 DEF BufferedInv

(* AddLogEntry starts with nothing copied.                                 *)
LEMMA BufferedAddLogEntry ==
  ASSUME BufferedInv, NEW e \in ZeroCached!Entries, ZeroCached!AddLogEntry(e)
  PROVE  BufferedInv'
<1>1. /\ pc = "idle" /\ next_free + ZeroCached!Blocks(e) < ByteCount
      /\ entry' = e /\ pos' = 0 /\ pc' = "copy"
      /\ writer' = writer /\ mem' = mem /\ next_free' = next_free
      /\ active_cl' = active_cl /\ cl_pos' = cl_pos /\ log' = log
  BY BufferedMemory DEF ZeroCached!AddLogEntry
<1>2. /\ next_free \in Nat /\ ByteCount \in Nat /\ pos = 0 /\ BufferedUpto = next_free
      /\ BufferedAt = next_free
  BY <1>1, BufferedFacts
<1>3. Len(e) \in Nat \ {0} /\ ZeroCached!Blocks(e) = Len(e) + 1
  BY <1>2, BufferedSizes
<1>4. BufferedEnd(next_free, e) <= ByteCount
  BY <1>1, <1>2, <1>3 DEF BufferedEnd
<1>5. /\ BufferedAt' = BufferedAt /\ BufferedUpto' = BufferedUpto
      /\ BufferedLine' = BufferedLine
  BY <1>1, <1>2 DEF BufferedAt, BufferedUpto, BufferedLine
<1>6. ZeroCached!TypeOK'
  <2>1. 0 \in 0 .. MaxPayload + 1
    BY LogMemoryAssumption
  <2> QED  BY <1>1, <2>1 DEF BufferedInv, ZeroCached!TypeOK
<1>7. BufferedEntry'
  BY <1>1, <1>3, <1>4 DEF BufferedEntry
<1>8. BufferedRest'
  <2>1. ASSUME NEW a \in Addresses, a >= next_free
        PROVE  Streamed(a) = 0 /\ Streamed(a)' = 0
    <3>1. a \in Nat /\ ~ (a < BufferedUpto)
      BY <1>2, <2>1, AddressParts
    <3> QED  BY <1>5, <3>1 DEF Streamed
  <2> QED  BY <1>1, <2>1 DEF BufferedInv, BufferedRest
<1>9. BufferedHolds'
  <2>1. LineWords \in Nat
    BY LogMemoryAssumption
  <2>2. ASSUME NEW s \in Slots
        PROVE  LET a == LineFront(BufferedLine) + s
               IN active_cl'[s] = IF a < next_free THEN Cached(mem, a) ELSE 0
    BY <1>1, <1>2, <2>2 DEF BufferedInv, BufferedHolds
  <2> QED  BY <1>1, <1>2, <1>5, <2>2 DEF BufferedInv, BufferedHolds
<1>10. Places(log, next_free, BufferedPlaces(mem))'
  BY <1>1 DEF BufferedInv
<1> QED  BY <1>6, <1>7, <1>8, <1>9, <1>10 DEF BufferedInv

(* The word goes into the buffer, behind what the buffer has.              *)
LEMMA BufferedPut ==
  ASSUME BufferedInv, pc = "copy", NEW x, x = BufferedWord(BufferedAt)
  PROVE  LET filled == [active_cl EXCEPT ![cl_pos] = x]
         IN \A s \in Slots :
              LET a == LineFront(BufferedLine) + s
              IN filled[s] = IF a < next_free THEN Cached(mem, a)
                             ELSE IF a < BufferedAt + 1 THEN BufferedWord(a) ELSE 0
<1>1. /\ BufferedAt \in Nat /\ next_free \in Nat /\ next_free <= BufferedAt
      /\ active_cl \in [Slots -> Nat] /\ cl_pos \in Slots
  BY BufferedFacts
<1>2. /\ LineFront(BufferedLine) \in Nat
      /\ BufferedAt = LineFront(BufferedLine) + (BufferedAt % LineWords)
  BY <1>1, NextWord DEF BufferedLine
<1>3. cl_pos = BufferedAt % LineWords /\ BufferedUpto = BufferedAt
  BY DEF BufferedInv, BufferedHolds, BufferedUpto
<1> SUFFICES ASSUME NEW s \in Slots
             PROVE  LET a == LineFront(BufferedLine) + s
                    IN [active_cl EXCEPT ![cl_pos] = x][s] =
                         IF a < next_free THEN Cached(mem, a)
                         ELSE IF a < BufferedAt + 1 THEN BufferedWord(a) ELSE 0
  OBVIOUS
<1> DEFINE a == LineFront(BufferedLine) + s
<1>4. BufferedAt = LineFront(BufferedLine) + cl_pos
  BY <1>2, <1>3
<1>5. s \in Nat /\ cl_pos \in Nat
  <2>1. LineWords \in Nat
    BY LogMemoryAssumption
  <2> QED  BY <1>1, <2>1 DEF Slots
<1>6. CASE s = cl_pos
  <2>1. a = BufferedAt /\ ~ (a < next_free) /\ a < BufferedAt + 1
    BY <1>1, <1>4, <1>6
  <2>2. [active_cl EXCEPT ![cl_pos] = x][s] = x
    BY <1>1, <1>6
  <2> HIDE DEF a
  <2> QED  BY <2>1, <2>2 DEF a
<1>7. CASE s # cl_pos
  <2>1. [active_cl EXCEPT ![cl_pos] = x][s] = active_cl[s]
    BY <1>1, <1>7
  <2>2. active_cl[s] = IF a < next_free THEN Cached(mem, a)
                       ELSE IF a < BufferedAt THEN BufferedWord(a) ELSE 0
    BY <1>3 DEF BufferedInv, BufferedHolds
  <2>3. a < BufferedAt <=> a < BufferedAt + 1
    BY <1>1, <1>2, <1>4, <1>5, <1>7
  <2> HIDE DEF a
  <2> QED  BY <2>1, <2>2, <2>3 DEF a
<1> QED  BY <1>6, <1>7

(* The word that comes next is one of the entry.                           *)
LEMMA BufferedNextWord ==
  ASSUME BufferedInv, pc = "copy"
  PROVE  /\ pos < ZeroCached!Blocks(entry) =>
              BufferedWord(BufferedAt) = ZeroCached!Layout(entry)[pos + 1]
         /\ pos = ZeroCached!Blocks(entry) =>
              BufferedWord(BufferedAt) = ZeroCached!PopCount(ZeroCached!Layout(entry))
         /\ pos < ZeroCached!Blocks(entry) \/ pos = ZeroCached!Blocks(entry)
         /\ BufferedWord(BufferedAt) \in Nat
<1>1. pos \in Nat /\ next_free \in Nat /\ entry \in ZeroCached!Entries
  BY BufferedFacts
<1> DEFINE k == Len(entry)
<1>2. /\ k \in Nat /\ ZeroCached!Blocks(entry) = k + 1
      /\ BufferedFinal(entry) \in Seq(Nat) /\ Len(BufferedFinal(entry)) = k + 2
      /\ \A i \in 1 .. k + 1 : BufferedFinal(entry)[i] = ZeroCached!Layout(entry)[i]
      /\ BufferedFinal(entry)[k + 2] = BufferedCount(entry)
  BY <1>1, BufferedSizes
<1>3. pos <= k + 1
  BY DEF BufferedInv, BufferedEntry
<1>4. BufferedWord(BufferedAt) = BufferedFinal(entry)[pos + 1]
  <2>1. (next_free + pos) - next_free + 1 = pos + 1
    BY <1>1
  <2> QED  BY <2>1 DEF BufferedWord, BufferedAt
<1> HIDE DEF k
<1>5. pos < k + 1 => BufferedWord(BufferedAt) = ZeroCached!Layout(entry)[pos + 1]
  <2>1. pos < k + 1 => pos + 1 \in 1 .. k + 1
    BY <1>1, <1>2
  <2> QED  BY <1>2, <1>4, <2>1
<1>6. pos = k + 1 => BufferedWord(BufferedAt) = BufferedCount(entry)
  <2>1. pos = k + 1 => pos + 1 = k + 2
    BY <1>2
  <2> QED  BY <1>2, <1>4, <2>1
<1>7. BufferedWord(BufferedAt) \in Nat
  <2>1. pos + 1 \in 1 .. k + 2
    BY <1>1, <1>2, <1>3
  <2> QED  BY <1>2, <1>4, <2>1
<1> QED  BY <1>1, <1>2, <1>3, <1>5, <1>6, <1>7 DEF BufferedCount

(* A word is put into the buffer; when that is full the line is due.       *)
LEMMA BufferedCopyWord ==
  ASSUME BufferedInv, ZeroCached!CopyWord
  PROVE  BufferedInv'
<1> DEFINE x == ZeroCached!Layout(entry)[pos + 1]
<1>1. /\ pc = "copy" /\ pos < ZeroCached!Blocks(entry)
      /\ active_cl' = [active_cl EXCEPT ![cl_pos] = x]
      /\ writer' = writer /\ mem' = mem /\ next_free' = next_free /\ entry' = entry
      /\ log' = log
      /\ \/ cl_pos + 1 = LineWords /\ pc' = "stream" /\ cl_pos' = cl_pos /\ pos' = pos
         \/ cl_pos + 1 # LineWords /\ pc' = "copy" /\ cl_pos' = cl_pos + 1 /\ pos' = pos + 1
  BY DEF ZeroCached!CopyWord
<1>2. /\ BufferedAt \in Nat /\ next_free \in Nat /\ pos \in Nat /\ entry \in ZeroCached!Entries
      /\ active_cl \in [Slots -> Nat] /\ cl_pos \in Slots
      /\ BufferedEnd(next_free, entry) <= ByteCount
  BY <1>1, BufferedFacts
<1>3. /\ Len(entry) \in Nat /\ Len(entry) \in 1 .. MaxPayload
      /\ ZeroCached!Blocks(entry) = Len(entry) + 1
  BY <1>2, BufferedSizes
<1>4. x = BufferedWord(BufferedAt) /\ x \in Nat
  BY <1>1, BufferedNextWord
<1> HIDE DEF x
<1>5. cl_pos = BufferedAt % LineWords /\ LineWords \in Nat \ {0, 1} /\ MaxPayload \in Nat
  BY LogMemoryAssumption DEF BufferedInv, BufferedHolds
<1>6. /\ BufferedUpto' = BufferedAt + 1 /\ BufferedLine' = BufferedLine
      /\ cl_pos' = BufferedAt' % LineWords /\ cl_pos' \in 0 .. LineWords - 1
  <2>1. CASE cl_pos + 1 = LineWords
    <3>1. BufferedAt' = BufferedAt /\ BufferedUpto' = BufferedAt + 1
      BY <1>1, <2>1 DEF BufferedAt, BufferedUpto
    <3> QED  BY <1>1, <1>2, <1>5, <2>1, <3>1 DEF BufferedLine, Slots
  <2>2. CASE cl_pos + 1 # LineWords
    <3>1. BufferedAt' = BufferedAt + 1 /\ BufferedUpto' = BufferedAt + 1
      BY <1>1, <1>2, <2>2 DEF BufferedAt, BufferedUpto
    <3>2. /\ (BufferedAt + 1) \div LineWords = BufferedAt \div LineWords
          /\ (BufferedAt + 1) % LineWords = (BufferedAt % LineWords) + 1
      BY <1>2, <1>5, <2>2, NextWord
    <3>3. cl_pos + 1 \in 0 .. LineWords - 1
      BY <1>2, <1>5, <2>2 DEF Slots
    <3> QED  BY <1>1, <1>5, <2>2, <3>1, <3>2, <3>3 DEF BufferedLine
  <2> QED  BY <2>1, <2>2
<1>7. ZeroCached!TypeOK'
  <2>1. active_cl' \in [Slots -> Nat]
    BY <1>1, <1>2, <1>4
  <2>2. pos' \in 0 .. MaxPayload + 1
    BY <1>1, <1>2, <1>3, <1>5
  <2> QED  BY <1>1, <1>6, <2>1, <2>2, BufferedMemory DEF BufferedInv, ZeroCached!TypeOK
<1>8. BufferedEntry'
  BY <1>1, <1>2, <1>3 DEF BufferedEntry
<1>9. BufferedRest'
  <2>1. ASSUME NEW a \in Addresses
        PROVE  Streamed(a)' = Streamed(a)
    <3>1. LineOf(a) < BufferedLine => a < BufferedAt
      <4>1. BufferedLine \in Nat /\ LineFront(BufferedLine) <= BufferedAt
        <5>1. /\ BufferedLine \in Nat /\ (BufferedAt % LineWords) \in Slots
              /\ LineFront(BufferedLine) \in Nat
              /\ BufferedAt = LineFront(BufferedLine) + (BufferedAt % LineWords)
          BY <1>2, NextWord DEF BufferedLine
        <5>2. BufferedAt % LineWords \in Nat
          BY <1>5, <5>1 DEF Slots
        <5> QED  BY <5>1, <5>2
      <4>2. LineOf(a) < BufferedLine => a < LineFront(BufferedLine)
        BY <4>1, LineOrder
      <4>3. LineFront(BufferedLine) \in Nat /\ a \in Nat
        BY <4>1, LineOrder, AddressParts
      <4> QED  BY <1>2, <4>1, <4>2, <4>3
    <3>2. a \in Nat
      BY AddressParts
    <3>3. BufferedUpto = BufferedAt /\ BufferedWord(a)' = BufferedWord(a)
      BY <1>1 DEF BufferedUpto, BufferedWord
    <3>4. a < BufferedAt => a < BufferedAt + 1
      BY <1>2, <3>2
    <3> QED  BY <1>1, <1>6, <3>1, <3>3, <3>4 DEF Streamed
  <2> QED  BY <1>1, <2>1 DEF BufferedInv, BufferedRest
<1>10. BufferedHolds'
  <2>1. \A s \in Slots :
              LET a == LineFront(BufferedLine) + s
              IN active_cl'[s] = IF a < next_free THEN Cached(mem, a)
                                 ELSE IF a < BufferedAt + 1 THEN BufferedWord(a) ELSE 0
    BY <1>1, <1>4, BufferedPut
  <2>2. \A a : BufferedWord(a)' = BufferedWord(a)
    BY <1>1 DEF BufferedWord
  <2> QED  BY <1>1, <1>6, <2>1, <2>2 DEF BufferedHolds
<1>11. Places(log, next_free, BufferedPlaces(mem))'
  BY <1>1 DEF BufferedInv
<1> QED  BY <1>7, <1>8, <1>9, <1>10, <1>11 DEF BufferedInv

(* A line that has been streamed has the words of the buffer.              *)
LEMMA BufferedStream ==
  ASSUME BufferedInv, pc # "idle", NEW filled \in [Slots -> Nat], NEW upto \in Nat,
         BufferedAt < upto,
         \A s \in Slots :
           LET a == LineFront(BufferedLine) + s
           IN filled[s] = IF a < next_free THEN Cached(mem, a)
                          ELSE IF a < upto THEN BufferedWord(a) ELSE 0,
         NEW n, n = StreamLine(mem, BufferedLine, filled)
  PROVE  /\ n \in Memory(Nat)
         /\ Places(log, next_free, BufferedPlaces(n))
         /\ \A a \in Addresses :
              a >= next_free =>
                LET w == IF LineOf(a) = BufferedLine
                         THEN IF a < upto THEN BufferedWord(a) ELSE 0
                         ELSE Streamed(a)
                IN Cached(n, a) = w /\ Flushed(n, a) = w /\ Durable(n, a) \in {0, w}
<1>1. /\ mem \in Memory(Nat) /\ BufferedAt \in Addresses /\ BufferedAt \in Nat
      /\ next_free \in Nat /\ next_free \in 0 .. ByteCount /\ log \in Seq(ZeroCached!Entries)
      /\ pc # "fence" \/ BufferedUpto = BufferedAt + 1
  BY BufferedFacts DEF BufferedUpto
<1>2. BufferedLine \in LogLines /\ BufferedLine \in Nat
  BY <1>1, NextWord DEF BufferedLine
<1>3. /\ n \in Memory(Nat)
      /\ \A b \in Addresses :
           /\ Cached(n, b) = IF LineOf(b) = BufferedLine THEN filled[SlotOf(b)] ELSE Cached(mem, b)
           /\ Flushed(n, b) = IF LineOf(b) = BufferedLine THEN filled[SlotOf(b)] ELSE Flushed(mem, b)
           /\ Durable(n, b) = Durable(mem, b)
  BY <1>1, <1>2, StreamOps
<1>4. ASSUME NEW b \in Addresses, LineOf(b) = BufferedLine
      PROVE  filled[SlotOf(b)] = IF b < next_free THEN Cached(mem, b)
                                 ELSE IF b < upto THEN BufferedWord(b) ELSE 0
  <2>1. b = LineFront(BufferedLine) + SlotOf(b) /\ SlotOf(b) \in Slots
    BY <1>2, <1>4, LineOrder
  <2>2. \A s \in Slots : \A a : a = LineFront(BufferedLine) + s =>
          filled[s] = IF a < next_free THEN Cached(mem, a)
                      ELSE IF a < upto THEN BufferedWord(a) ELSE 0
    OBVIOUS
  <2> QED  BY <2>1, <2>2
<1>5. ASSUME NEW b, NEW v, b \in Addresses /\ b < next_free /\ Settled(mem, b, v)
      PROVE  Settled(n, b, v)
  <2>1. LineOf(b) = BufferedLine => filled[SlotOf(b)] = Cached(mem, b)
    BY <1>4, <1>5
  <2> QED  BY <1>3, <1>5, <2>1 DEF Settled
<1>6. Places(log, next_free, BufferedPlaces(n))
  <2>1. Places(log, next_free, BufferedPlaces(mem))
    BY DEF BufferedInv
  <2> QED  BY <1>1, <1>5, <2>1, BufferedPlacesKept
<1>7. ASSUME NEW a \in Addresses, a >= next_free, NEW w,
             w = IF LineOf(a) = BufferedLine
                 THEN IF a < upto THEN BufferedWord(a) ELSE 0
                 ELSE Streamed(a)
      PROVE  Cached(n, a) = w /\ Flushed(n, a) = w /\ Durable(n, a) \in {0, w}
  <2>1. Rising(mem, a, 0, Streamed(a)) /\ Flushed(mem, a) = Streamed(a)
    BY <1>7 DEF BufferedInv, BufferedRest
  <2>2. CASE LineOf(a) # BufferedLine
    BY <1>3, <1>7, <2>1, <2>2 DEF Rising
  <2>3. CASE LineOf(a) = BufferedLine
    <3>1. a \in Nat /\ ~ (a < next_free)
      BY <1>1, <1>7, AddressParts
    <3>2. Cached(n, a) = w /\ Flushed(n, a) = w
      BY <1>3, <1>4, <1>7, <2>3, <3>1
    <3>3. Durable(n, a) \in {0, Streamed(a)}
      BY <1>3, <1>7, <2>1 DEF Rising
    <3>4. Streamed(a) \in {0, w}
      <4>1. CASE Streamed(a) = 0
        BY <4>1
      <4>2. CASE Streamed(a) # 0
        <5>1. a < BufferedUpto /\ Streamed(a) = BufferedWord(a)
          BY <4>2 DEF Streamed
        <5>2. pc = "fence"
          BY <1>2, <2>3, <4>2 DEF Streamed
        <5>3. a < upto
          BY <1>1, <3>1, <5>1, <5>2
        <5> QED  BY <1>7, <2>3, <5>1, <5>3
      <4> QED  BY <4>1, <4>2
    <3> QED  BY <3>2, <3>3, <3>4
  <2> QED  BY <2>2, <2>3
<1> QED  BY <1>3, <1>6, <1>7

(* The full line is streamed and the next one begins.                      *)
LEMMA BufferedStreamFullLine ==
  ASSUME BufferedInv, ZeroCached!StreamFullLine
  PROVE  BufferedInv'
<1>1. /\ pc = "stream" /\ mem' = StreamLine(mem, BufferedLine, active_cl)
      /\ active_cl' = [s \in Slots |-> 0] /\ cl_pos' = 0 /\ pos' = pos + 1 /\ pc' = "copy"
      /\ writer' = writer /\ next_free' = next_free /\ entry' = entry /\ log' = log
  BY BufferedMemory DEF ZeroCached!StreamFullLine, ZeroCached!EmptyLine,
     ZeroCached!ActiveLine, BufferedLine, BufferedAt
<1>2. /\ BufferedAt \in Nat /\ next_free \in Nat /\ pos \in Nat /\ entry \in ZeroCached!Entries
      /\ active_cl \in [Slots -> Nat] /\ cl_pos \in Slots /\ next_free <= BufferedAt
      /\ BufferedEnd(next_free, entry) <= ByteCount /\ BufferedAt \in Addresses
  BY <1>1, BufferedFacts
<1>3. /\ pos <= Len(entry) /\ cl_pos + 1 = LineWords /\ cl_pos = BufferedAt % LineWords
      /\ BufferedUpto = BufferedAt + 1
  BY <1>1 DEF BufferedInv, BufferedEntry, BufferedHolds, BufferedUpto
<1>4. Len(entry) \in Nat /\ Len(entry) \in 1 .. MaxPayload
  BY <1>2, BufferedSizes
<1>5. LineWords \in Nat \ {0, 1} /\ MaxPayload \in Nat
  BY LogMemoryAssumption
<1>6. /\ BufferedAt' = BufferedAt + 1 /\ BufferedUpto' = BufferedAt + 1
      /\ BufferedLine' = BufferedLine + 1 /\ BufferedLine \in Nat
      /\ cl_pos' = BufferedAt' % LineWords
      /\ LineFront(BufferedLine + 1) = BufferedAt + 1
  <2>1. BufferedAt' = BufferedAt + 1
    BY <1>1, <1>2 DEF BufferedAt
  <2>2. BufferedUpto' = BufferedAt'
    BY <1>1 DEF BufferedUpto
  <2>3. /\ BufferedLine \in Nat
        /\ (BufferedAt + 1) \div LineWords = BufferedLine + 1
        /\ (BufferedAt + 1) % LineWords = 0
        /\ LineFront(BufferedLine + 1) = BufferedAt + 1
    BY <1>2, <1>3, NextWord DEF BufferedLine
  <2>4. BufferedLine' = BufferedAt' \div LineWords
    BY DEF BufferedLine
  <2> QED  BY <1>1, <2>1, <2>2, <2>3, <2>4
<1>7. /\ mem' \in Memory(Nat)
      /\ Places(log, next_free, BufferedPlaces(mem'))
      /\ \A a \in Addresses :
           a >= next_free =>
             LET w == IF LineOf(a) = BufferedLine
                      THEN IF a < BufferedAt + 1 THEN BufferedWord(a) ELSE 0
                      ELSE Streamed(a)
             IN Cached(mem', a) = w /\ Flushed(mem', a) = w /\ Durable(mem', a) \in {0, w}
  <2>1. \A s \in Slots :
           LET a == LineFront(BufferedLine) + s
           IN active_cl[s] = IF a < next_free THEN Cached(mem, a)
                             ELSE IF a < BufferedAt + 1 THEN BufferedWord(a) ELSE 0
    BY <1>3 DEF BufferedInv, BufferedHolds
  <2>2. BufferedAt + 1 \in Nat /\ BufferedAt < BufferedAt + 1 /\ pc # "idle"
    BY <1>1, <1>2
  <2> QED  BY <1>1, <1>2, <2>1, <2>2, BufferedStream
<1>8. ZeroCached!TypeOK'
  <2>1. cl_pos' \in 0 .. LineWords - 1 /\ pos' \in 0 .. MaxPayload + 1
    BY <1>1, <1>2, <1>3, <1>4, <1>5
  <2>2. active_cl' \in [Slots -> Nat]
    BY <1>1
  <2> QED  BY <1>1, <1>7, <2>1, <2>2, BufferedMemory DEF BufferedInv, ZeroCached!TypeOK
<1>9. BufferedEntry'
  BY <1>1, <1>2, <1>3, <1>4 DEF BufferedEntry
<1>10. BufferedRest'
  <2>1. ASSUME NEW a \in Addresses, a >= next_free
        PROVE  Streamed(a)' = IF LineOf(a) = BufferedLine
                              THEN IF a < BufferedAt + 1 THEN BufferedWord(a) ELSE 0
                              ELSE Streamed(a)
    <3>1. /\ a \in Nat /\ LineOf(a) \in Nat
          /\ LineOf(a) < BufferedLine + 1 <=> LineOf(a) < BufferedLine \/ LineOf(a) = BufferedLine
      <4>1. LineOf(a) \in Nat
        BY <1>6, LineOrder
      <4> QED  BY <1>6, <4>1, AddressParts
    <3>2. BufferedWord(a)' = BufferedWord(a)
      BY <1>1 DEF BufferedWord
    <3>3. Streamed(a)' = IF a < BufferedAt + 1 /\ LineOf(a) < BufferedLine + 1
                         THEN BufferedWord(a) ELSE 0
      BY <1>1, <1>6, <3>2 DEF Streamed
    <3>4. Streamed(a) = IF a < BufferedAt + 1 /\ LineOf(a) < BufferedLine
                        THEN BufferedWord(a) ELSE 0
      BY <1>1, <1>3 DEF Streamed
    <3> QED  BY <3>1, <3>3, <3>4
  <2> QED  BY <1>1, <1>7, <2>1 DEF BufferedRest, Rising
<1>11. BufferedHolds'
  <2>1. ASSUME NEW s \in Slots
        PROVE  LET a == LineFront(BufferedLine + 1) + s
               IN ~ (a < next_free) /\ ~ (a < BufferedAt + 1)
    <3>1. s \in Nat
      BY <1>5 DEF Slots
    <3> QED  BY <1>2, <1>6, <3>1
  <2>2. \A s \in Slots : active_cl'[s] = 0
    BY <1>1
  <2> QED  BY <1>1, <1>6, <2>1, <2>2 DEF BufferedHolds
<1>12. Places(log, next_free, BufferedPlaces(mem))'
  BY <1>1, <1>7
<1> QED  BY <1>8, <1>9, <1>10, <1>11, <1>12 DEF BufferedInv

(* The bit count is put into the buffer and the line streamed.             *)
LEMMA BufferedStreamPopCount ==
  ASSUME BufferedInv, ZeroCached!StreamPopCount
  PROVE  BufferedInv'
<1> DEFINE x == ZeroCached!PopCount(ZeroCached!Layout(entry))
<1>1. /\ pc = "copy" /\ pos = ZeroCached!Blocks(entry)
      /\ active_cl' = [active_cl EXCEPT ![cl_pos] = x]
      /\ mem' = StreamLine(mem, BufferedLine, active_cl') /\ pc' = "fence"
      /\ cl_pos' = cl_pos /\ pos' = pos
      /\ writer' = writer /\ next_free' = next_free /\ entry' = entry /\ log' = log
  BY BufferedMemory DEF ZeroCached!StreamPopCount, ZeroCached!ActiveLine, BufferedLine, BufferedAt
<1>2. /\ BufferedAt \in Nat /\ next_free \in Nat /\ pos \in Nat /\ entry \in ZeroCached!Entries
      /\ active_cl \in [Slots -> Nat] /\ cl_pos \in Slots /\ next_free <= BufferedAt
      /\ BufferedEnd(next_free, entry) <= ByteCount /\ BufferedAt \in Addresses
  BY <1>1, BufferedFacts
<1>3. cl_pos = BufferedAt % LineWords /\ BufferedUpto = BufferedAt
  BY <1>1 DEF BufferedInv, BufferedHolds, BufferedUpto
<1>4. Len(entry) \in Nat /\ pos = Len(entry) + 1
  BY <1>1, <1>2, BufferedSizes
<1>5. x = BufferedWord(BufferedAt) /\ x \in Nat
  BY <1>1, BufferedNextWord
<1> HIDE DEF x
<1>6. /\ BufferedAt' = BufferedAt /\ BufferedUpto' = BufferedAt + 1
      /\ BufferedLine' = BufferedLine /\ cl_pos' = BufferedAt' % LineWords
  BY <1>1, <1>3 DEF BufferedAt, BufferedUpto, BufferedLine
<1>7. active_cl' \in [Slots -> Nat]
  BY <1>1, <1>2, <1>5
<1>8. \A s \in Slots :
        LET a == LineFront(BufferedLine) + s
        IN active_cl'[s] = IF a < next_free THEN Cached(mem, a)
                           ELSE IF a < BufferedAt + 1 THEN BufferedWord(a) ELSE 0
  BY <1>1, <1>5, BufferedPut
<1>9. /\ mem' \in Memory(Nat)
      /\ Places(log, next_free, BufferedPlaces(mem'))
      /\ \A a \in Addresses :
           a >= next_free =>
             LET w == IF LineOf(a) = BufferedLine
                      THEN IF a < BufferedAt + 1 THEN BufferedWord(a) ELSE 0
                      ELSE Streamed(a)
             IN Cached(mem', a) = w /\ Flushed(mem', a) = w /\ Durable(mem', a) \in {0, w}
  <2>1. BufferedAt + 1 \in Nat /\ BufferedAt < BufferedAt + 1 /\ pc # "idle"
    BY <1>1, <1>2
  <2>2. PICK filled \in [Slots -> Nat] : filled = active_cl'
    BY <1>7
  <2>3. \A s \in Slots :
          LET a == LineFront(BufferedLine) + s
          IN filled[s] = IF a < next_free THEN Cached(mem, a)
                         ELSE IF a < BufferedAt + 1 THEN BufferedWord(a) ELSE 0
    BY <1>8, <2>2
  <2>4. mem' = StreamLine(mem, BufferedLine, filled)
    BY <1>1, <2>2
  <2> QED  BY <2>1, <2>3, <2>4, BufferedStream
<1>10. ZeroCached!TypeOK'
  BY <1>1, <1>7, <1>9, BufferedMemory DEF BufferedInv, ZeroCached!TypeOK
<1>11. BufferedEntry'
  BY <1>1, <1>2, <1>4 DEF BufferedEntry
<1>12. /\ BufferedLine \in Nat /\ LineFront(BufferedLine) \in Nat
       /\ LineFront(BufferedLine) <= BufferedAt /\ BufferedAt < LineFront(BufferedLine) + LineWords
       /\ LineWords \in Nat
  <2>1. LineWords \in Nat
    BY LogMemoryAssumption
  <2>2. /\ BufferedLine \in Nat /\ LineFront(BufferedLine) \in Nat /\ cl_pos \in Slots
        /\ BufferedAt = LineFront(BufferedLine) + cl_pos
    BY <1>2, <1>3, NextWord DEF BufferedLine
  <2> QED  BY <1>2, <2>1, <2>2 DEF Slots
<1>13. BufferedRest'
  <2>1. ASSUME NEW a \in Addresses, a >= next_free
        PROVE  Streamed(a)' = IF LineOf(a) = BufferedLine
                              THEN IF a < BufferedAt + 1 THEN BufferedWord(a) ELSE 0
                              ELSE Streamed(a)
    <3>1. BufferedWord(a)' = BufferedWord(a)
      BY <1>1 DEF BufferedWord
    <3>2. Streamed(a)' = IF a < BufferedAt + 1 THEN BufferedWord(a) ELSE 0
      BY <1>1, <1>6, <3>1 DEF Streamed
    <3>3. Streamed(a) = IF a < BufferedAt /\ LineOf(a) < BufferedLine
                        THEN BufferedWord(a) ELSE 0
      BY <1>1, <1>3 DEF Streamed
    <3>4. /\ a \in Nat /\ LineOf(a) \in Nat
          /\ LineOf(a) < BufferedLine => a < LineFront(BufferedLine)
          /\ LineOf(a) > BufferedLine => a >= LineFront(BufferedLine) + LineWords
      BY <1>12, LineOrder, AddressParts
    <3>5. /\ LineOf(a) < BufferedLine => a < BufferedAt /\ a < BufferedAt + 1
          /\ LineOf(a) > BufferedLine => ~ (a < BufferedAt + 1)
          /\ LineOf(a) # BufferedLine => LineOf(a) < BufferedLine \/ LineOf(a) > BufferedLine
          /\ LineOf(a) > BufferedLine => ~ (LineOf(a) < BufferedLine)
      BY <1>2, <1>12, <3>4
    <3> QED  BY <3>2, <3>3, <3>5
  <2> QED  BY <1>1, <1>9, <2>1 DEF BufferedRest, Rising
<1>14. BufferedHolds'
  <2>1. \A s \in Slots : LineFront(BufferedLine) + s < next_free =>
          Cached(mem', LineFront(BufferedLine) + s) = Cached(mem, LineFront(BufferedLine) + s)
    <3> SUFFICES ASSUME NEW s \in Slots, LineFront(BufferedLine) + s < next_free
                 PROVE  Cached(mem', LineFront(BufferedLine) + s) = Cached(mem, LineFront(BufferedLine) + s)
      OBVIOUS
    <3>1. BufferedLine \in LogLines
      BY <1>2, NextWord DEF BufferedLine
    <3> DEFINE b == LineFront(BufferedLine) + s
    <3>2. b \in Addresses /\ LineOf(b) = BufferedLine /\ SlotOf(b) = s
      BY <3>1, PartsAddress DEF LineFront
    <3>3. Cached(mem', b) = active_cl'[SlotOf(b)]
      <4>1. mem \in Memory(Nat)
        BY BufferedFacts
      <4>2. PICK filled \in [Slots -> Nat] : filled = active_cl'
        BY <1>7
      <4>3. mem' = StreamLine(mem, BufferedLine, filled)
        BY <1>1, <4>2
      <4> QED  BY <3>1, <3>2, <4>1, <4>2, <4>3, StreamOps
    <3>4. active_cl'[s] = Cached(mem, b)
      BY <1>8
    <3> QED  BY <3>2, <3>3, <3>4
  <2>2. \A a : BufferedWord(a)' = BufferedWord(a)
    BY <1>1 DEF BufferedWord
  <2> QED  BY <1>1, <1>6, <1>8, <2>1, <2>2 DEF BufferedHolds
<1>15. Places(log, next_free, BufferedPlaces(mem))'
  BY <1>1, <1>9
<1> QED  BY <1>10, <1>11, <1>13, <1>14, <1>15 DEF BufferedInv

(* The entry as it lies when all of it has been streamed.                  *)
LEMMA BufferedAll ==
  ASSUME BufferedInv, pc = "fence"
  PROVE  /\ BufferedUpto = BufferedEnd(next_free, entry)
         /\ \A a \in next_free .. next_free + Len(BufferedFinal(entry)) - 1 :
              /\ a \in Addresses /\ a >= next_free
              /\ Streamed(a) = BufferedWord(a)
<1>1. /\ next_free \in Nat /\ pos \in Nat /\ entry \in ZeroCached!Entries
      /\ BufferedEnd(next_free, entry) <= ByteCount /\ ByteCount \in Nat
  BY BufferedFacts
<1>2. Len(entry) \in Nat /\ Len(BufferedFinal(entry)) = Len(entry) + 2
  BY <1>1, BufferedSizes
<1>3. pos = Len(entry) + 1
  BY DEF BufferedInv, BufferedEntry
<1>4. BufferedUpto = next_free + Len(entry) + 2 /\ BufferedUpto = BufferedEnd(next_free, entry)
  BY <1>1, <1>2, <1>3 DEF BufferedUpto, BufferedAt, BufferedEnd
<1>5. ASSUME NEW a \in next_free .. next_free + Len(BufferedFinal(entry)) - 1
      PROVE  a \in Addresses /\ a >= next_free /\ a < BufferedUpto
  BY <1>1, <1>2, <1>4 DEF Addresses
<1> QED  BY <1>4, <1>5 DEF Streamed

(* After the fence the entry is in NVM and the buffer goes on.             *)
LEMMA BufferedAdvance ==
  ASSUME BufferedInv, ZeroCached!Advance
  PROVE  BufferedInv'
<1> DEFINE end == BufferedEnd(next_free, entry)
           f == BufferedFinal(entry)
<1>1. /\ pc = "fence" /\ mem' = Fence(mem) /\ pc' = "idle" /\ pos' = 0 /\ entry' = <<>>
      /\ next_free' = next_free + ZeroCached!Blocks(entry) + 1
      /\ log' = Append(log, entry) /\ writer' = writer
      /\ \/ cl_pos + 1 = LineWords /\ cl_pos' = 0 /\ active_cl' = [s \in Slots |-> 0]
         \/ cl_pos + 1 # LineWords /\ cl_pos' = cl_pos + 1 /\ active_cl' = active_cl
  BY BufferedMemory DEF ZeroCached!Advance, ZeroCached!EmptyLine
<1>2. /\ BufferedAt \in Nat /\ next_free \in Nat /\ pos \in Nat /\ entry \in ZeroCached!Entries
      /\ active_cl \in [Slots -> Nat] /\ cl_pos \in Slots /\ next_free <= BufferedAt
      /\ end <= ByteCount /\ BufferedAt \in Addresses /\ mem \in Memory(Nat)
      /\ log \in Seq(ZeroCached!Entries) /\ next_free \in 0 .. ByteCount /\ ByteCount \in Nat
  BY <1>1, BufferedFacts
<1>3. /\ Len(entry) \in Nat /\ Len(f) = Len(entry) + 2
      /\ ZeroCached!Blocks(entry) = Len(entry) + 1
      /\ end \in Nat /\ next_free < end
  BY <1>2, BufferedSizes
<1>4. /\ BufferedUpto = end /\ next_free' = end /\ BufferedAt + 1 = end
      /\ cl_pos = BufferedAt % LineWords /\ LineWords \in Nat \ {0, 1} /\ MaxPayload \in Nat
  <2>1. BufferedUpto = end /\ BufferedUpto = BufferedAt + 1 /\ cl_pos = BufferedAt % LineWords
    BY <1>1, BufferedAll DEF BufferedInv, BufferedHolds, BufferedUpto
  <2>2. next_free + (Len(entry) + 1) + 1 = end
    BY <1>2, <1>3 DEF BufferedEnd
  <2> QED  BY <1>1, <1>3, <2>1, <2>2, LogMemoryAssumption
<1> HIDE DEF end, f
<1>5. mem' \in Memory(Nat) /\ Keeps(mem, mem', Addresses)
      /\ \A b \in Addresses : /\ Cached(mem', b) = Cached(mem, b)
                              /\ Flushed(mem', b) = Flushed(mem, b)
                              /\ Durable(mem', b) = Flushed(mem, b)
  BY <1>1, <1>2, FenceOps, SettledKept
<1>6. \A a \in Addresses : a >= next_free =>
        Flushed(mem, a) = Streamed(a) /\ Cached(mem, a) = Streamed(a)
  BY DEF BufferedInv, BufferedRest, Rising
<1>7. \A a \in Addresses : a >= next_free => Settled(mem', a, Streamed(a))
  BY <1>5, <1>6 DEF Settled
<1>8. Laid(mem', next_free, f)
  <2>1. \A a \in next_free .. next_free + Len(f) - 1 :
          a \in Addresses /\ a >= next_free /\ Streamed(a) = f[a - next_free + 1]
    BY <1>1, BufferedAll DEF BufferedWord, f
  <2> QED  BY <1>7, <2>1 DEF Laid
<1>9. Places(log, next_free, BufferedPlaces(mem))'
  <2>1. <<next_free, entry, end>> \in BufferedPlaces(mem')
    BY <1>2, <1>3, <1>8 DEF BufferedPlaces, end, f
  <2>2. Places(log, next_free, BufferedPlaces(mem))
    BY DEF BufferedInv
  <2>3. \A a, v : a \in Addresses /\ a < next_free /\ Settled(mem, a, v) => Settled(mem', a, v)
    BY <1>5 DEF Keeps
  <2>4. Places(log, next_free, BufferedPlaces(mem'))
    BY <1>2, <2>2, <2>3, BufferedPlacesKept
  <2>5. next_free <= end
    BY <1>2, <1>3
  <2>6. Places(Append(log, entry), end, BufferedPlaces(mem'))
    BY <1>2, <1>3, <2>1, <2>4, <2>5, PlacesAppend
  <2> QED  BY <1>1, <1>4, <2>6
<1>10. /\ BufferedAt' = end /\ BufferedUpto' = end
  <2>1. BufferedAt' = end
    BY <1>1, <1>3, <1>4 DEF BufferedAt
  <2> QED  BY <1>1, <2>1 DEF BufferedUpto
<1>11. \A a \in Addresses : a >= end => Streamed(a) = 0 /\ Streamed(a)' = 0 /\ a >= next_free
  <2>1. \A a \in Addresses : a \in Nat
    BY AddressParts
  <2> QED  BY <1>2, <1>3, <1>4, <1>10, <2>1 DEF Streamed
<1>12. BufferedRest'
  BY <1>4, <1>7, <1>11 DEF BufferedRest, Settled, Rising
<1>13. /\ cl_pos' = BufferedAt' % LineWords /\ cl_pos' \in 0 .. LineWords - 1
       /\ cl_pos + 1 # LineWords => BufferedLine' = BufferedLine
       /\ cl_pos + 1 = LineWords => LineFront(BufferedLine') = end
  <2>1. BufferedLine' = BufferedAt' \div LineWords
    BY DEF BufferedLine
  <2>2. CASE cl_pos + 1 = LineWords
    <3>1. /\ (BufferedAt + 1) \div LineWords = (BufferedAt \div LineWords) + 1
          /\ (BufferedAt + 1) % LineWords = 0
          /\ LineFront((BufferedAt \div LineWords) + 1) = BufferedAt + 1
      BY <1>2, <1>4, <2>2, NextWord
    <3>2. 0 \in 0 .. LineWords - 1
      BY <1>4
    <3> QED  BY <1>1, <1>4, <1>10, <2>1, <2>2, <3>1, <3>2
  <2>3. CASE cl_pos + 1 # LineWords
    <3>1. /\ (BufferedAt + 1) \div LineWords = BufferedAt \div LineWords
          /\ (BufferedAt + 1) % LineWords = (BufferedAt % LineWords) + 1
      BY <1>2, <1>4, <2>3, NextWord
    <3>2. cl_pos + 1 \in 0 .. LineWords - 1
      BY <1>2, <1>4, <2>3 DEF Slots
    <3> QED  BY <1>1, <1>4, <1>10, <2>1, <2>3, <3>1, <3>2 DEF BufferedLine
  <2> QED  BY <2>2, <2>3
<1>14. ZeroCached!TypeOK'
  <2>1. active_cl' \in [Slots -> Nat]
    BY <1>1, <1>2
  <2>2. end \in 0 .. ByteCount /\ 0 \in 0 .. MaxPayload + 1
    BY <1>2, <1>3, <1>4
  <2>3. Append(log, entry) \in Seq(ZeroCached!Entries)
    BY <1>2
  <2> QED  BY <1>1, <1>4, <1>5, <1>13, <2>1, <2>2, <2>3, BufferedMemory
           DEF BufferedInv, ZeroCached!TypeOK
<1>15. BufferedHolds'
  <2>1. ASSUME NEW s \in Slots, NEW a, a = LineFront(BufferedLine') + s
        PROVE  active_cl'[s] = IF a < end THEN Cached(mem', a) ELSE 0
    <3>1. s \in Nat
      BY <1>4 DEF Slots
    <3>2. CASE cl_pos + 1 = LineWords
      <4>1. ~ (a < end)
        BY <1>3, <1>13, <2>1, <3>1, <3>2
      <4> QED  BY <1>1, <3>2, <4>1
    <3>3. CASE cl_pos + 1 # LineWords
      <4>1. a = LineFront(BufferedLine) + s
        BY <1>13, <2>1, <3>3
      <4>2. active_cl[s] = IF a < next_free THEN Cached(mem, a)
                           ELSE IF a < end THEN BufferedWord(a) ELSE 0
        BY <1>4, <4>1 DEF BufferedInv, BufferedHolds
      <4>3. a \in Addresses
        <5>1. BufferedLine \in LogLines
          BY <1>2, NextWord DEF BufferedLine
        <5> QED  BY <4>1, <5>1, PartsAddress DEF LineFront
      <4>4. a \in Nat /\ Cached(mem', a) = Cached(mem, a)
        BY <1>5, <4>3, AddressParts
      <4>5. CASE a < next_free
        <5>1. a < end
          BY <1>2, <1>3, <4>4, <4>5
        <5> QED  BY <1>1, <3>3, <4>2, <4>4, <4>5, <5>1
      <4>6. CASE ~ (a < next_free) /\ a < end
        <5>1. a >= next_free /\ Streamed(a) = BufferedWord(a)
          BY <1>1, <1>2, <1>4, <4>4, <4>6 DEF Streamed
        <5>2. Cached(mem, a) = BufferedWord(a)
          BY <1>6, <4>3, <5>1
        <5> QED  BY <1>1, <3>3, <4>2, <4>4, <4>6, <5>2
      <4>7. CASE ~ (a < next_free) /\ ~ (a < end)
        BY <1>1, <3>3, <4>2, <4>7
      <4> QED  BY <4>5, <4>6, <4>7
    <3> QED  BY <3>2, <3>3
  <2> QED  BY <1>4, <1>10, <1>13, <2>1 DEF BufferedHolds
<1>16. BufferedEntry'
  BY <1>1 DEF BufferedEntry
<1> QED  BY <1>9, <1>12, <1>14, <1>15, <1>16 DEF BufferedInv

(* A word of a streamed line arrives.                                      *)
LEMMA BufferedDrift ==
  ASSUME BufferedInv, ZeroCached!Drift
  PROVE  BufferedInv'
<1>1. /\ mem' \in StreamDrift(mem) /\ writer' = writer /\ next_free' = next_free
      /\ active_cl' = active_cl /\ cl_pos' = cl_pos /\ pc' = pc /\ entry' = entry
      /\ pos' = pos /\ log' = log
  BY BufferedMemory DEF ZeroCached!Drift
<1>2. /\ mem \in Memory(Nat) /\ next_free \in 0 .. ByteCount /\ log \in Seq(ZeroCached!Entries)
  BY BufferedFacts
<1>3. /\ mem' \in Memory(Nat) /\ Keeps(mem, mem', Addresses)
      /\ \A b \in Addresses :
              /\ Cached(mem', b) = Cached(mem, b)
              /\ Flushed(mem', b) = Flushed(mem, b)
              /\ Durable(mem', b) = Durable(mem, b) \/ Durable(mem', b) = Cached(mem, b)
  BY <1>1, <1>2, StreamDriftOps, SettledKept
<1>4. BufferedAt' = BufferedAt /\ BufferedUpto' = BufferedUpto /\ BufferedLine' = BufferedLine
  BY <1>1 DEF BufferedAt, BufferedUpto, BufferedLine
<1>5. \A a : BufferedWord(a)' = BufferedWord(a) /\ Streamed(a)' = Streamed(a)
  BY <1>1, <1>4 DEF BufferedWord, Streamed
<1>6. Places(log, next_free, BufferedPlaces(mem))'
  <2>1. \A a, v : a \in Addresses /\ a < next_free /\ Settled(mem, a, v) => Settled(mem', a, v)
    BY <1>3 DEF Keeps
  <2>2. Places(log, next_free, BufferedPlaces(mem))
    BY DEF BufferedInv
  <2>3. Places(log, next_free, BufferedPlaces(mem'))
    BY <1>2, <2>1, <2>2, BufferedPlacesKept
  <2> QED  BY <1>1, <2>3
<1>7. BufferedRest'
  BY <1>1, <1>3, <1>5 DEF BufferedInv, BufferedRest, Rising
<1>8. BufferedHolds'
  <2>1. ASSUME NEW s \in Slots, LineFront(BufferedLine) + s < next_free
        PROVE  Cached(mem', LineFront(BufferedLine) + s) = Cached(mem, LineFront(BufferedLine) + s)
    <3>1. next_free \in Nat /\ LineWords \in Nat /\ ByteCount \in Nat /\ BufferedAt \in Nat
      BY BufferedFacts, LogMemoryAssumption
    <3>2. LineFront(BufferedLine) \in Nat
      BY <3>1, NextWord DEF BufferedLine
    <3>3. LineFront(BufferedLine) + s \in Addresses
      BY <1>2, <2>1, <3>1, <3>2 DEF Slots, Addresses
    <3> QED  BY <1>3, <3>3
  <2> QED  BY <1>1, <1>4, <1>5, <2>1 DEF BufferedInv, BufferedHolds
<1>9. BufferedEntry'
  BY <1>1 DEF BufferedInv, BufferedEntry
<1>10. ZeroCached!TypeOK'
  BY <1>1, <1>3, BufferedMemory DEF BufferedInv, ZeroCached!TypeOK
<1> QED  BY <1>6, <1>7, <1>8, <1>9, <1>10 DEF BufferedInv

\* The words from s on are, in NVM, an entry and its bit count.
BufferedWhole(m, s) ==
  LET n == Durable(m, s)
  IN /\ n > 0
     /\ s + n + 2 <= ByteCount
     /\ Durable(m, (s + n + 2) - 1) =
          ZeroCached!PopCount(<<Len([i \in 1 .. n |-> Durable(m, s + i)])>>
                                \o [i \in 1 .. n |-> Durable(m, s + i)])

(* A log that ends where no entry is whole is read as it was written.      *)
LEMMA BufferedReading ==
  ASSUME mem \in Memory(Nat), NEW end \in 0 .. ByteCount,
         end < ByteCount => ~ BufferedWhole(mem, end),
         NEW found \in Seq(ZeroCached!Entries), Places(found, end, BufferedPlaces(mem))
  PROVE  ZeroCached!Recovered = found
<1> DEFINE D(s) == Durable(mem, s)
           p(s) == [i \in 1 .. D(s) |-> D(s + i)]
           to(s) == s + D(s) + 2
           whole(s) == /\ D(s) > 0 /\ to(s) <= ByteCount
                       /\ D(to(s) - 1) = ZeroCached!PopCount(<<Len(p(s))>> \o p(s))
           W == {s \in 0 .. ByteCount : s < ByteCount /\ whole(s)}
           P == [s \in W |-> p(s)]
           N == [s \in W |-> to(s)]
           read == CHOOSE f : IsReading(f, ByteCount, W, P, N)
<1>1. ByteCount \in Nat
  BY LogMemoryAssumption DEF ByteCount
<1>2. ASSUME NEW s \in 0 .. ByteCount, s < ByteCount
      PROVE  D(s) \in Nat
  <2>1. s \in Addresses
    BY <1>1, <1>2 DEF Addresses
  <2> QED  BY <2>1, WordTypes
<1>3. ZeroCached!Recovered = read[0]
  <2> DEFINE F(s, f) ==
               IF s < ZeroCached!ByteCount
                    /\ /\ ZeroCached!Durable(mem, s) > 0
                       /\ s + ZeroCached!Durable(mem, s) + 2 <= ZeroCached!ByteCount
                       /\ ZeroCached!Durable(mem, (s + ZeroCached!Durable(mem, s) + 2) - 1) =
                            ZeroCached!PopCount(ZeroCached!Layout(
                              [i \in 1 .. ZeroCached!Durable(mem, s) |->
                                             ZeroCached!Durable(mem, s + i)]))
               THEN <<[i \in 1 .. ZeroCached!Durable(mem, s) |-> ZeroCached!Durable(mem, s + i)]>>
                      \o f[s + ZeroCached!Durable(mem, s) + 2]
               ELSE <<>>
             G(f) == f = [s \in 0 .. ZeroCached!ByteCount |-> F(s, f)]
  <2>1. ZeroCached!Recovered = (CHOOSE f : G(f))[0]
    BY DEF ZeroCached!Recovered, ZeroCached!ReadLog
  <2>2. ASSUME NEW f
        PROVE  G(f) <=> IsReading(f, ByteCount, W, P, N)
    <3>1. ASSUME NEW s \in 0 .. ByteCount
          PROVE  F(s, f) = (IF s \in W THEN <<P[s]>> \o f[N[s]] ELSE <<>>)
      <4>1. /\ ZeroCached!ByteCount = ByteCount
            /\ \A a : ZeroCached!Durable(mem, a) = D(a)
        BY BufferedMemory
      <4>2. [i \in 1 .. ZeroCached!Durable(mem, s) |-> ZeroCached!Durable(mem, s + i)] = p(s)
        BY <4>1
      <4>3. ZeroCached!Layout(p(s)) = <<Len(p(s))>> \o p(s)
        BY DEF ZeroCached!Layout
      <4>4. s \in W => P[s] = p(s) /\ N[s] = to(s)
        OBVIOUS
      <4>5. s \in W <=> s < ByteCount /\ whole(s)
        OBVIOUS
      <4>6. F(s, f) = IF s < ByteCount /\ whole(s) THEN <<p(s)>> \o f[to(s)] ELSE <<>>
        <5> HIDE DEF D, p, W, P, N
        <5> QED  BY <4>1, <4>2, <4>3
      <4> HIDE DEF D, p, to, W, P, N, whole, F
      <4> QED  BY <4>4, <4>5, <4>6
    <3> QED  BY <3>1, BufferedMemory DEF IsReading
  <2> HIDE DEF G
  <2>3. (CHOOSE f : G(f)) = read
    BY <2>2
  <2> QED  BY <2>1, <2>3
<1>4. ASSUME NEW s \in W
      PROVE  N[s] \in s + 1 .. ByteCount
  <2>1. s \in Nat /\ s < ByteCount /\ D(s) \in Nat /\ to(s) <= ByteCount
    BY <1>1, <1>2
  <2> DEFINE d == D(s)
  <2>2. N[s] = s + d + 2
    OBVIOUS
  <2>3. d \in Nat /\ s + d + 2 <= ByteCount
    BY <2>1
  <2> HIDE DEF d
  <2>4. s + d + 2 \in s + 1 .. ByteCount
    BY <1>1, <2>1, <2>3
  <2> QED  BY <2>2, <2>4
<1>5. Reader(read, ByteCount, W, P, N)
  <2> HIDE DEF W, P, N
  <2>1. GoesForward(ByteCount, W, N)
    BY <1>4 DEF GoesForward
  <2> QED  BY <1>1, <2>1, ChosenReader
<1>6. ASSUME NEW s \in 0 .. end, NEW t \in 0 .. end, NEW e \in ZeroCached!Entries,
             <<s, e, t>> \in BufferedPlaces(mem)
      PROVE  s \in W /\ P[s] = e /\ N[s] = t
  <2>1. t = BufferedEnd(s, e) /\ Laid(mem, s, BufferedFinal(e))
    BY <1>6 DEF BufferedPlaces
  <2> DEFINE l == BufferedFinal(e)
             k == Len(e)
  <2>2. s \in Nat /\ t \in Nat /\ t <= ByteCount
    BY <1>1
  <2>3. /\ k \in Nat \ {0} /\ e \in Seq(Nat) /\ Len(l) = k + 2
        /\ l[1] = k /\ (\A i \in 1 .. k : l[i + 1] = e[i]) /\ l[k + 2] = BufferedCount(e)
    BY <2>2, BufferedSizes
  <2>4. t = s + k + 2 /\ s < ByteCount
    BY <1>1, <2>1, <2>2, <2>3 DEF BufferedEnd
  <2>5. \A a \in s .. s + k + 1 : D(a) = l[a - s + 1]
    <3>1. \A a \in s .. s + Len(l) - 1 : Settled(mem, a, l[a - s + 1])
      BY <2>1 DEF Laid
    <3>2. s + Len(l) - 1 = s + k + 1
      BY <2>2, <2>3
    <3> QED  BY <3>1, <3>2 DEF Settled
  <2>6. D(s) = k /\ (\A i \in 1 .. k : D(s + i) = e[i]) /\ D((s + k + 2) - 1) = BufferedCount(e)
    <3> HIDE DEF D, l, k
    <3>1. s \in s .. s + k + 1 /\ s - s + 1 = 1
      BY <2>2, <2>3
    <3>2. ASSUME NEW i \in 1 .. k
          PROVE  s + i \in s .. s + k + 1 /\ (s + i) - s + 1 = i + 1
      BY <2>2, <2>3
    <3>3. (s + k + 2) - 1 \in s .. s + k + 1 /\ ((s + k + 2) - 1) - s + 1 = k + 2
      BY <2>2, <2>3
    <3> QED  BY <2>3, <2>5, <3>1, <3>2, <3>3
  <2>7. p(s) = e
    <3>1. e = [i \in 1 .. k |-> e[i]]
      BY <2>3
    <3> HIDE DEF D, k
    <3> QED  BY <2>6, <3>1
  <2>8. to(s) = t
    BY <2>4, <2>6
  <2>9. whole(s)
    <3>1. BufferedCount(e) = ZeroCached!PopCount(<<Len(e)>> \o e)
      BY DEF BufferedCount, ZeroCached!Layout
    <3>2. D(s) > 0
      BY <2>3, <2>6
    <3>3. to(s) <= ByteCount
      BY <2>2, <2>8
    <3>4. D(to(s) - 1) = BufferedCount(e)
      <4>1. to(s) = s + k + 2
        BY <2>4, <2>8
      <4> HIDE DEF to, D, k
      <4> QED  BY <2>6, <4>1
    <3> HIDE DEF to, D, p, k
    <3> QED  BY <2>7, <3>1, <3>2, <3>3, <3>4
  <2>10. s \in W
    <3> HIDE DEF whole
    <3> QED  BY <1>1, <2>2, <2>4, <2>9
  <2> QED  BY <2>7, <2>8, <2>10
<1>7. end \notin W /\ end \in Nat /\ end <= ByteCount
  <2>1. BufferedWhole(mem, end) <=> whole(end)
    BY DEF BufferedWhole
  <2> HIDE DEF whole
  <2> QED  BY <1>1, <2>1
<1>8. read[0] = found
  <2> HIDE DEF W, P, N, read
  <2> QED  BY <1>1, <1>5, <1>6, <1>7, PlacesRead
<1> QED  BY <1>3, <1>8

(* An entry not all of which has arrived is not whole.                     *)
LEMMA BufferedStops ==
  ASSUME mem \in Memory(Nat), NEW s \in Nat, NEW e \in ZeroCached!Entries,
         BufferedEnd(s, e) <= ByteCount,
         \A i \in 1 .. Len(e) + 2 : Durable(mem, (s + i) - 1) \in {0, BufferedFinal(e)[i]},
         \E i \in 1 .. Len(e) + 2 : Durable(mem, (s + i) - 1) # BufferedFinal(e)[i]
  PROVE  ~ BufferedWhole(mem, s)
<1> DEFINE D(a) == Durable(mem, a)
           k == Len(e)
           f == BufferedFinal(e)
           p == [i \in 1 .. k |-> D(s + i)]
           l == <<k>> \o p
<1>1. /\ e \in Seq(Nat) /\ k \in Nat \ {0} /\ Len(f) = k + 2
      /\ f[1] = k /\ (\A i \in 1 .. k : f[i + 1] = e[i]) /\ f[k + 2] = BufferedCount(e)
      /\ ZeroCached!Layout(e) \in Seq(Nat) /\ Len(ZeroCached!Layout(e)) = k + 1
  BY BufferedSizes
<1> HIDE DEF D, f, k, p, l
<1>2. /\ D(s) \in {0, k}
      /\ \A i \in 1 .. k : D(s + i) \in {0, e[i]}
      /\ D(s + k + 1) \in {0, BufferedCount(e)}
  <2>1. 1 \in 1 .. k + 2 /\ (s + 1) - 1 = s
    BY <1>1
  <2>2. ASSUME NEW i \in 1 .. k
        PROVE  i + 1 \in 1 .. k + 2 /\ (s + (i + 1)) - 1 = s + i
    <3>1. k \in Nat
      BY <1>1
    <3> QED  BY <3>1
  <2>3. k + 2 \in 1 .. k + 2 /\ (s + (k + 2)) - 1 = s + k + 1
    BY <1>1
  <2>4. \A i \in 1 .. k + 2 : D((s + i) - 1) \in {0, f[i]}
    BY DEF D, k, f
  <2>5. D((s + 1) - 1) \in {0, f[1]}
    BY <2>1, <2>4
  <2>6. D((s + (k + 2)) - 1) \in {0, f[k + 2]}
    BY <2>3, <2>4
  <2>7. \A i \in 1 .. k : D((s + (i + 1)) - 1) \in {0, f[i + 1]}
    BY <2>2, <2>4
  <2> QED  BY <1>1, <2>1, <2>2, <2>3, <2>5, <2>6, <2>7
<1>3. \/ D(s) # k \/ D(s + k + 1) # BufferedCount(e) \/ \E i \in 1 .. k : D(s + i) # e[i]
  <2>1. PICK i \in 1 .. k + 2 : D((s + i) - 1) # f[i]
    BY DEF D, k, f
  <2>2. CASE i = 1
    <3>1. (s + i) - 1 = s
      BY <2>2
    <3> QED  BY <1>1, <2>1, <2>2, <3>1
  <2>3. CASE i = k + 2
    <3>1. (s + i) - 1 = s + k + 1
      BY <1>1, <2>3
    <3> QED  BY <1>1, <2>1, <2>3, <3>1
  <2>4. CASE i # 1 /\ i # k + 2
    <3>1. i - 1 \in 1 .. k /\ (i - 1) + 1 = i /\ (s + i) - 1 = s + (i - 1)
      BY <1>1, <2>4
    <3>2. f[(i - 1) + 1] = e[i - 1]
      BY <1>1, <3>1
    <3> QED  BY <2>1, <3>1, <3>2
  <2> QED  BY <2>2, <2>3, <2>4
<1>4. p \in Seq(Nat) /\ Len(p) = k /\ \A i \in 1 .. k : p[i] = D(s + i)
  <2>1. ASSUME NEW i \in 1 .. k
        PROVE  D(s + i) \in Nat
    <3>1. e[i] \in Nat /\ 0 \in Nat
      BY <1>1 DEF k
    <3> QED  BY <1>2, <3>1
  <2> QED  BY <1>1, <2>1 DEF p
<1>5. /\ l \in Seq(Nat) /\ Len(l) = k + 1 /\ l[1] = k
      /\ \A i \in 1 .. k : l[i + 1] = p[i]
  BY <1>1, <1>4, InFront DEF l
<1>6. /\ ZeroCached!Layout(e)[1] = k
      /\ \A i \in 1 .. k : ZeroCached!Layout(e)[i + 1] = e[i]
  BY <1>1, InFront DEF ZeroCached!Layout, k
<1>7. CASE D(s) # k
  BY <1>2, <1>7 DEF BufferedWhole, D
<1>8. CASE D(s) = k
  <2>1. ASSUME BufferedWhole(mem, s)
        PROVE  D(s + k + 1) = ZeroCached!PopCount(l)
    <3>1. LET n == D(s)
          IN D((s + n + 2) - 1) = ZeroCached!PopCount(<<Len([i \in 1 .. n |-> D(s + i)])>>
                                \o [i \in 1 .. n |-> D(s + i)])
      BY <2>1 DEF BufferedWhole, D
    <3>2. D((s + k + 2) - 1) = ZeroCached!PopCount(<<Len(p)>> \o p)
      BY <1>8, <3>1 DEF p
    <3>3. (s + k + 2) - 1 = s + k + 1
      BY <1>1
    <3> QED  BY <1>4, <3>2, <3>3 DEF l
  <2>2. ZeroCached!PopCount(l) # 0
    <3>1. Len(l) > 0 /\ l[1] # 0
      BY <1>1, <1>5
    <3> QED  BY <1>5, <3>1, PopCounts
  <2>3. CASE D(s + k + 1) # BufferedCount(e)
    BY <1>2, <2>1, <2>2, <2>3
  <2>4. CASE D(s + k + 1) = BufferedCount(e) /\ \E i \in 1 .. k : D(s + i) # e[i]
    <3>1. \A i \in 1 .. k + 1 : l[i] \in {0, ZeroCached!Layout(e)[i]}
      <4> SUFFICES ASSUME NEW i \in 1 .. k + 1
                   PROVE  l[i] \in {0, ZeroCached!Layout(e)[i]}
        OBVIOUS
      <4>1. CASE i = 1
        BY <1>5, <1>6, <4>1
      <4>2. CASE i # 1
        <5>1. i - 1 \in 1 .. k /\ (i - 1) + 1 = i
          BY <1>1, <4>2
        <5>2. l[(i - 1) + 1] = D(s + (i - 1)) /\ ZeroCached!Layout(e)[(i - 1) + 1] = e[i - 1]
          BY <1>4, <1>5, <1>6, <5>1
        <5> QED  BY <1>2, <5>1, <5>2
      <4> QED  BY <4>1, <4>2
    <3>2. l # ZeroCached!Layout(e)
      BY <1>4, <1>5, <1>6, <2>4
    <3>3. ZeroCached!PopCount(l) # ZeroCached!PopCount(ZeroCached!Layout(e))
      BY <1>1, <1>5, <3>1, <3>2, PopCountsMissing
    <3> QED  BY <2>1, <2>4, <3>3 DEF BufferedCount
  <2> QED  BY <1>3, <1>8, <2>3, <2>4
<1> QED  BY <1>7, <1>8

\* The entry being added is in NVM, bit count and all.
BufferedArrived == pc = "fence" /\ Laid(mem, next_free, BufferedFinal(entry))

\* What a power failure leaves of the log.
BufferedShown ==
  /\ Adding = IF pc = "idle" THEN <<>> ELSE <<entry>>
  /\ Recovered = IF BufferedArrived THEN log \o Adding ELSE log

(* The entry being added is not read before all of it is there.            *)
LEMMA BufferedMissing ==
  ASSUME BufferedInv, pc # "idle", ~ BufferedArrived
  PROVE  ~ BufferedWhole(mem, next_free)
<1> DEFINE k == Len(entry)
           f == BufferedFinal(entry)
<1>1. /\ mem \in Memory(Nat) /\ next_free \in Nat /\ entry \in ZeroCached!Entries
      /\ BufferedEnd(next_free, entry) <= ByteCount /\ ByteCount \in Nat
      /\ pc \in {"copy", "stream", "fence"} /\ pos \in Nat
  BY BufferedFacts
<1>2. k \in Nat /\ Len(f) = k + 2 /\ f[k + 2] = BufferedCount(entry) /\ BufferedCount(entry) # 0
  BY <1>1, BufferedSizes
<1> HIDE DEF k, f
<1>3. ASSUME NEW i \in 1 .. k + 2
      PROVE  /\ (next_free + i) - 1 \in Addresses /\ (next_free + i) - 1 >= next_free
             /\ BufferedWord((next_free + i) - 1) = f[i]
  <2>1. BufferedEnd(next_free, entry) = next_free + k + 2
    BY DEF BufferedEnd, k
  <2>2. ((next_free + i) - 1) - next_free + 1 = i
    BY <1>1, <1>2
  <2>3. (next_free + i) - 1 \in Addresses /\ (next_free + i) - 1 >= next_free
    BY <1>1, <1>2, <2>1 DEF Addresses
  <2> QED  BY <2>2, <2>3 DEF BufferedWord, f
<1>4. \A a \in Addresses : a >= next_free =>
        /\ Durable(mem, a) \in {0, Streamed(a)} /\ Flushed(mem, a) = Streamed(a)
        /\ Cached(mem, a) = Streamed(a) /\ Streamed(a) \in {0, BufferedWord(a)}
  BY DEF BufferedInv, BufferedRest, Rising, Streamed
<1>5. \A i \in 1 .. k + 2 : Durable(mem, (next_free + i) - 1) \in {0, f[i]}
  BY <1>3, <1>4
<1>6. \E i \in 1 .. k + 2 : Durable(mem, (next_free + i) - 1) # f[i]
  <2>1. CASE pc = "fence"
    <3>1. PICK a \in next_free .. next_free + Len(f) - 1 : ~ Settled(mem, a, f[a - next_free + 1])
      BY <2>1 DEF BufferedArrived, Laid, f
    <3>2. a \in Addresses /\ a >= next_free /\ Streamed(a) = f[a - next_free + 1]
      BY <2>1, BufferedAll DEF BufferedWord, f
    <3>3. Durable(mem, a) # f[a - next_free + 1]
      BY <1>4, <3>1, <3>2 DEF Settled
    <3>4. a - next_free + 1 \in 1 .. k + 2 /\ (next_free + (a - next_free + 1)) - 1 = a
      BY <1>1, <1>2
    <3> QED  BY <3>3, <3>4
  <2>2. CASE pc # "fence"
    <3> DEFINE a == (next_free + (k + 2)) - 1
    <3>1. ~ (a < BufferedUpto)
      <4>1. pos <= k + 1 /\ (pc = "stream" => pos <= k)
        BY <1>1 DEF BufferedInv, BufferedEntry, k
      <4> QED  BY <1>1, <1>2, <2>2, <4>1 DEF BufferedUpto, BufferedAt
    <3>2. Streamed(a) = 0
      BY <3>1 DEF Streamed
    <3>3. k + 2 \in 1 .. k + 2
      BY <1>2
    <3>4. Durable(mem, a) = 0
      BY <1>3, <1>4, <3>2, <3>3
    <3> QED  BY <1>2, <3>3, <3>4
  <2> QED  BY <2>1, <2>2
<1> QED  BY <1>1, <1>5, <1>6, BufferedStops DEF k, f

(* It leaves the entries added, and the one being added once it is there.  *)
LEMMA BufferedIsFaithful ==
  BufferedInv => BufferedShown /\ Faithful
<1> SUFFICES ASSUME BufferedInv PROVE BufferedShown /\ Faithful
  OBVIOUS
<1>1. /\ mem \in Memory(Nat) /\ ByteCount \in Nat
      /\ next_free \in 0 .. ByteCount /\ writer \in ZeroCached!Writers
      /\ log \in Seq(ZeroCached!Entries) /\ next_free \in Nat
      /\ pc # "idle" => /\ entry \in ZeroCached!Entries
                        /\ BufferedEnd(next_free, entry) <= ByteCount
      /\ pc = "idle" => BufferedUpto = next_free
  BY BufferedFacts
<1>2. writer \in Writers \ Classic!Writers
  BY <1>1 DEF Writers, ZeroCached!Writers, Classic!Writers
<1>3. /\ Recovered = ZeroCached!Recovered
      /\ Adding = IF pc = "idle" THEN <<>> ELSE <<entry>>
  BY <1>1, <1>2, Families
<1>4. Places(log, next_free, BufferedPlaces(mem))
  BY DEF BufferedInv
<1>5. ASSUME NEW end \in 0 .. ByteCount, end < ByteCount, BufferedUpto = end, end >= next_free
      PROVE  ~ BufferedWhole(mem, end)
  <2>1. end \in Addresses /\ end \in Nat
    BY <1>1, <1>5 DEF Addresses
  <2>2. Streamed(end) = 0
    BY <1>5, <2>1 DEF Streamed
  <2>3. Durable(mem, end) = 0
    BY <1>5, <2>1, <2>2 DEF BufferedInv, BufferedRest, Rising
  <2> QED  BY <2>3 DEF BufferedWhole
<1>6. CASE pc = "idle"
  <2>1. next_free < ByteCount => ~ BufferedWhole(mem, next_free)
    BY <1>1, <1>5, <1>6
  <2>2. ZeroCached!Recovered = log
    BY <1>1, <1>4, <2>1, BufferedReading
  <2> QED  BY <1>3, <1>6, <2>2 DEF BufferedShown, Faithful, BufferedArrived
<1>7. CASE pc # "idle" /\ ~ BufferedArrived
  <2>1. ZeroCached!Recovered = log
    BY <1>1, <1>4, <1>7, BufferedMissing, BufferedReading
  <2> QED  BY <1>3, <1>7, <2>1 DEF BufferedShown, Faithful
<1>8. CASE BufferedArrived
  <2> DEFINE end == BufferedEnd(next_free, entry)
  <2>1. pc = "fence" /\ BufferedUpto = end /\ entry \in ZeroCached!Entries /\ end <= ByteCount
    BY <1>1, <1>8, BufferedAll DEF BufferedArrived
  <2>2. end \in Nat /\ next_free < end
    BY <1>1, <2>1, BufferedSizes
  <2>3. <<next_free, entry, end>> \in BufferedPlaces(mem)
    BY <1>1, <1>8, <2>1, <2>2 DEF BufferedPlaces, BufferedArrived
  <2> HIDE DEF end
  <2>4. end \in 0 .. ByteCount /\ end >= next_free /\ next_free <= end
    BY <1>1, <2>1, <2>2
  <2>5. Append(log, entry) \in Seq(ZeroCached!Entries) /\ Append(log, entry) = log \o <<entry>>
    BY <1>1, <2>1
  <2>6. Places(Append(log, entry), end, BufferedPlaces(mem))
    BY <1>1, <1>4, <2>1, <2>2, <2>3, <2>4, PlacesAppend
  <2>7. end < ByteCount => ~ BufferedWhole(mem, end)
    BY <1>5, <2>1, <2>4
  <2>8. ZeroCached!Recovered = Append(log, entry)
    BY <1>1, <2>4, <2>5, <2>6, <2>7, BufferedReading
  <2> QED  BY <1>3, <1>8, <2>1, <2>5, <2>8 DEF BufferedShown, Faithful
<1> QED  BY <1>6, <1>7, <1>8

(* The same of the next state.                                             *)
LEMMA BufferedIsFaithfulNext ==
  BufferedInv' => BufferedShown' /\ Faithful'
<1>1. BufferedInv => BufferedShown /\ Faithful
  BY BufferedIsFaithful
<1> QED  BY <1>1, PTL

(* Every step of the writer with a buffer is a step of the abstract log.   *)
LEMMA BufferedNext ==
  ASSUME BufferedInv, ZeroCached!Next
  PROVE  BufferedInv' /\ Faithful /\ Faithful' /\ (Begins \/ GoesOn \/ Returns \/ Rests)
<1>1. BufferedShown /\ Faithful
  BY BufferedIsFaithful
<1>2. BufferedInv'
  BY BufferedAddLogEntry, BufferedCopyWord, BufferedStreamFullLine, BufferedStreamPopCount,
     BufferedAdvance, BufferedDrift DEF ZeroCached!Next
<1>3. BufferedShown' /\ Faithful'
  BY <1>2, BufferedIsFaithfulNext
<1>4. ASSUME NEW e \in ZeroCached!Entries, ZeroCached!AddLogEntry(e)
      PROVE  Begins
  <2>1. pc = "idle" /\ pc' = "copy" /\ log' = log
    BY <1>4 DEF ZeroCached!AddLogEntry
  <2>2. ~ BufferedArrived'
    BY <2>1 DEF BufferedArrived
  <2> QED  BY <1>3, <2>1, <2>2 DEF BufferedShown, Begins
<1>5. ASSUME pc # "idle"
      PROVE  log # log \o Adding
  <2>1. Adding = <<entry>> /\ entry \in ZeroCached!Entries /\ log \in Seq(ZeroCached!Entries)
    BY <1>1, <1>5, BufferedFacts DEF BufferedShown
  <2> QED  BY <2>1
<1>6. ASSUME ZeroCached!CopyWord \/ ZeroCached!StreamFullLine \/ ZeroCached!StreamPopCount
      PROVE  GoesOn
  <2>1. pc \in {"copy", "stream"} /\ pc' # "idle" /\ log' = log /\ entry' = entry
    BY <1>6 DEF ZeroCached!CopyWord, ZeroCached!StreamFullLine, ZeroCached!StreamPopCount
  <2>2. ~ BufferedArrived
    BY <2>1 DEF BufferedArrived
  <2>3. Adding' = Adding /\ Recovered = log /\ log # log \o Adding
    BY <1>1, <1>3, <1>5, <2>1, <2>2 DEF BufferedShown
  <2> QED  BY <2>1, <2>3 DEF GoesOn
<1>7. ASSUME ZeroCached!Drift, pc # "idle"
      PROVE  GoesOn
  <2>1. pc' = pc /\ log' = log /\ entry' = entry /\ next_free' = next_free
    BY <1>7 DEF ZeroCached!Drift
  <2>2. Adding' = Adding
    BY <1>1, <1>3, <2>1 DEF BufferedShown
  <2>3. ASSUME BufferedArrived PROVE BufferedArrived'
    <3>1. mem \in Memory(Nat) /\ mem' \in StreamDrift(mem)
      BY <1>7, BufferedFacts, BufferedMemory DEF ZeroCached!Drift
    <3>2. Keeps(mem, mem', Addresses)
      BY <3>1, SettledKept
    <3> DEFINE f == BufferedFinal(entry)
    <3>3. \A a \in next_free .. next_free + Len(f) - 1 :
            a \in Addresses /\ Settled(mem, a, f[a - next_free + 1])
      BY <2>3, BufferedAll DEF BufferedArrived, Laid
    <3> HIDE DEF f
    <3>4. Laid(mem', next_free, f)
      BY <3>2, <3>3 DEF Laid, Keeps
    <3> QED  BY <2>1, <2>3, <3>4 DEF BufferedArrived, f
  <2>4. Recovered = log \o Adding => Recovered' = log \o Adding
    BY <1>1, <1>3, <1>5, <1>7, <2>1, <2>2, <2>3 DEF BufferedShown
  <2> QED  BY <1>7, <2>1, <2>2, <2>4 DEF GoesOn
<1>8. ASSUME ZeroCached!Drift, pc = "idle"
      PROVE  Rests
  BY <1>8 DEF ZeroCached!Drift, Rests
<1>9. ASSUME ZeroCached!Advance
      PROVE  Returns
  <2>1. pc # "idle" /\ pc' = "idle" /\ log' = Append(log, entry)
    BY <1>9 DEF ZeroCached!Advance
  <2>2. log \in Seq(ZeroCached!Entries) /\ entry \in ZeroCached!Entries /\ Adding = <<entry>>
    BY <1>1, <2>1, BufferedFacts DEF BufferedShown
  <2>3. log' = log \o Adding
    BY <2>1, <2>2
  <2> QED  BY <2>1, <2>3 DEF Returns
<1> QED  BY <1>1, <1>2, <1>3, <1>4, <1>6, <1>7, <1>8, <1>9 DEF ZeroCached!Next

(* Between two entries the buffer and the last line of the log agree.      *)
LEMMA BufferedMatches ==
  ASSUME BufferedInv PROVE ZeroCached!BufferMatchesLog
<1> SUFFICES ASSUME pc = "idle"
             PROVE  /\ cl_pos = next_free % LineWords
                    /\ \A s \in ZeroCached!Slots : s >= cl_pos => active_cl[s] = 0
                    /\ next_free < ZeroCached!ByteCount =>
                         \A s \in ZeroCached!Slots :
                           active_cl[s] =
                             ZeroCached!Cached(mem, (next_free \div LineWords) * LineWords + s)
  BY DEF ZeroCached!BufferMatchesLog
<1> DEFINE L == next_free \div LineWords
           base == LineFront(L)
<1>1. /\ next_free \in Nat /\ BufferedAt = next_free /\ BufferedUpto = next_free
      /\ next_free \in 0 .. ByteCount /\ ByteCount \in Nat
  BY BufferedFacts
<1>2. LineWords \in Nat \ {0, 1}
  BY LogMemoryAssumption
<1>3. /\ cl_pos = next_free % LineWords
      /\ \A s \in Slots : active_cl[s] = IF base + s < next_free THEN Cached(mem, base + s) ELSE 0
  BY <1>1 DEF BufferedInv, BufferedHolds, BufferedLine
<1>4. L \in Nat /\ cl_pos \in Slots /\ base \in Nat /\ next_free = base + cl_pos
  BY <1>1, <1>3, NextWord
<1>5. base = (next_free \div LineWords) * LineWords
  <2> HIDE DEF L
  <2>1. LineWords * L = L * LineWords
    BY <1>2, <1>4
  <2>2. base = L * LineWords
    BY <2>1 DEF LineFront
  <2> QED  BY <2>2 DEF L
<1>6. next_free < ByteCount => L \in LogLines
  <2>1. next_free < ByteCount => next_free \in Addresses
    BY <1>1 DEF Addresses
  <2> QED  BY <1>1, <2>1, NextWord
<1> HIDE DEF base
<1>7. ASSUME NEW s \in Slots, s >= cl_pos
      PROVE  active_cl[s] = 0
  <2>1. ~ (base + s < next_free)
    BY <1>2, <1>4, <1>7 DEF Slots
  <2> QED  BY <1>3, <2>1
<1>8. ASSUME next_free < ByteCount, NEW s \in Slots
      PROVE  active_cl[s] = Cached(mem, base + s)
  <2>1. base + s \in Addresses /\ base + s \in Nat
    <3>1. base + s \in Addresses
      BY <1>6, <1>8, PartsAddress DEF base, LineFront
    <3> QED  BY <3>1, AddressParts
  <2>2. CASE base + s < next_free
    BY <1>3, <2>2
  <2>3. CASE ~ (base + s < next_free)
    <3>1. base + s >= next_free
      BY <1>1, <2>1, <2>3
    <3>2. Streamed(base + s) = 0
      BY <1>1, <2>3 DEF Streamed
    <3>3. Cached(mem, base + s) = 0
      BY <2>1, <3>1, <3>2 DEF BufferedInv, BufferedRest, Rising
    <3> QED  BY <1>3, <2>3, <3>3
  <2> QED  BY <2>2, <2>3
<1> QED  BY <1>3, <1>5, <1>7, <1>8, BufferedMemory

-----------------------------------------------------------------------------
\* The Mnemosyne writers.

TornWords == Nat \X Torn!Bit
TornAfter(w, n) == IF w = "MnemosyneAligned" THEN RoundUp(n) ELSE n
TornEnd(w, s, e) == TornAfter(w, s + Torn!Size(Len(e)))

(* The instance's names are the ones of LogMemory.                         *)
LEMMA TornMemory ==
  /\ Torn!ByteCount = ByteCount /\ Torn!Addresses = Addresses
  /\ [Torn!LogLines -> Torn!LineSet([Torn!Slots -> Nat \X Torn!Bit])] = Memory(TornWords)
  /\ \A m, a, w : Torn!StoreWord(m, a, w) = StoreWord(m, a, w)
  /\ \A m, as : Torn!WriteBackWords(m, as) = WriteBackWords(m, as)
  /\ \A m : Torn!Fence(m) = Fence(m)
  /\ \A m, a : Torn!Durable(m, a) = Durable(m, a)
  /\ \A m : Torn!LineDrift(m) = LineDrift(m)
  /\ \A v : Torn!Filled(v) = Filled(v)
  /\ \A n : Torn!After(n) = TornAfter(writer, n)
<1>1. /\ Torn!ByteCount = ByteCount /\ Torn!Addresses = Addresses
      /\ Torn!LogLines = LogLines /\ Torn!Slots = Slots
      /\ \A a : Torn!LineOf(a) = LineOf(a) /\ Torn!SlotOf(a) = SlotOf(a)
  BY DEF Torn!ByteCount, ByteCount, Torn!Addresses, Addresses, Torn!LogLines,
         LogLines, Torn!Slots, Slots, Torn!LineOf, LineOf, Torn!SlotOf, SlotOf
<1>2. [Torn!LogLines -> Torn!LineSet([Torn!Slots -> Nat \X Torn!Bit])] = Memory(TornWords)
  BY <1>1 DEF Torn!LineSet, LineSet, Memory, TornWords
<1>3. \A m, a, w : Torn!StoreWord(m, a, w) = StoreWord(m, a, w)
  BY <1>1 DEF Torn!StoreWord, StoreWord, Torn!Store, Store
<1>4. \A m : Torn!Fence(m) = Fence(m)
  BY <1>1 DEF Torn!Fence, Fence, Torn!SFence, SFence
<1>5. ASSUME NEW m, NEW as
      PROVE  Torn!WriteBackWords(m, as) = WriteBackWords(m, as)
  BY <1>1 DEF Torn!WriteBackWords, WriteBackWords, Torn!WriteBack, WriteBack
<1>6. \A m, a : Torn!Durable(m, a) = Durable(m, a)
  BY <1>1 DEF Torn!Durable, Durable
<1>7. ASSUME NEW m
      PROVE  Torn!LineDrift(m) = LineDrift(m)
  BY <1>1 DEF Torn!LineDrift, LineDrift, Torn!Evict, Evict, Torn!Dirty, Dirty
<1>8. ASSUME NEW v
      PROVE  Torn!Filled(v) = Filled(v)
  BY <1>1 DEF Torn!Filled, Filled, Torn!Line, Line
<1>9. ASSUME NEW n
      PROVE  Torn!After(n) = TornAfter(writer, n)
  <2>1. Torn!RoundUp(n) = RoundUp(n)
    BY DEF Torn!RoundUp, RoundUp
  <2> QED  BY <2>1 DEF Torn!After, TornAfter, Torn!Aligned
<1> QED  BY <1>1, <1>2, <1>3, <1>4, <1>5, <1>6, <1>7, <1>8, <1>9

\* Bits are shifted out of a word.
Halving(f, w, c) == f = [i \in 0 .. c |-> IF i = 0 THEN w ELSE f[i - 1] \div 2]

(* The shift is what its recursion says ...                                *)
LEMMA HalvingExists ==
  ASSUME NEW w \in Nat, NEW c \in Nat
  PROVE  \E f \in [0 .. c -> Nat] : Halving(f, w, c)
<1> DEFINE S == {n \in Nat : \E f \in [0 .. n -> Nat] : Halving(f, w, n)}
<1>1. 0 \in S
  <2> DEFINE f == [i \in 0 .. 0 |-> w]
  <2>1. f \in [0 .. 0 -> Nat] /\ Halving(f, w, 0)
    BY DEF Halving
  <2> QED  BY <2>1
<1>2. ASSUME NEW n \in Nat, n \in S
      PROVE  n + 1 \in S
  <2>1. PICK g \in [0 .. n -> Nat] : Halving(g, w, n)
    BY <1>2
  <2> DEFINE f == [i \in 0 .. n + 1 |-> IF i = n + 1 THEN g[n] \div 2 ELSE g[i]]
  <2>2. g[n] \div 2 \in Nat
    BY DivType
  <2>3. f \in [0 .. n + 1 -> Nat]
    BY <2>2
  <2>4. \A i \in 0 .. n : g[i] = IF i = 0 THEN w ELSE g[i - 1] \div 2
    BY <2>1 DEF Halving
  <2>5. \A i \in 0 .. n + 1 : f[i] = IF i = 0 THEN w ELSE f[i - 1] \div 2
    BY <2>4
  <2> HIDE DEF f
  <2>6. Halving(f, w, n + 1)
    BY <2>3, <2>5 DEF Halving
  <2> QED  BY <2>3, <2>6
<1> HIDE DEF S
<1>3. c \in S
  BY <1>1, <1>2, Induction
<1> QED  BY <1>3 DEF S

(* Shifting c times to the right is halving step by step: the recovery     *)
(* reads the bit of a word off the buffer that way.                        *)
LEMMA HalvedUnfolds ==
  ASSUME NEW w \in Nat, NEW c \in Nat
  PROVE  \E f \in [0 .. c -> Nat] :
           /\ f[0] = w /\ \A i \in 0 .. c - 1 : f[i + 1] = f[i] \div 2
           /\ Torn!Halved(w, c) = f[c]
<1>1. \E f : Halving(f, w, c)
  BY HalvingExists
<1> DEFINE h == CHOOSE f : Halving(f, w, c)
<1>2. Halving(h, w, c)
  BY <1>1
<1>3. Torn!Halved(w, c) = h[c]
  BY DEF Torn!Halved, Halving
<1> HIDE DEF h
<1>4. \A i \in 0 .. c : h[i] = IF i = 0 THEN w ELSE h[i - 1] \div 2
  BY <1>2 DEF Halving
<1>5. h[0] = w /\ \A i \in 0 .. c - 1 : h[i + 1] = h[i] \div 2
  <2>1. 0 \in 0 .. c /\ \A i \in 0 .. c - 1 : i + 1 \in 0 .. c /\ i + 1 # 0 /\ (i + 1) - 1 = i
    OBVIOUS
  <2> QED  BY <1>4, <2>1
<1>6. \A i \in 0 .. c : h[i] \in Nat
  <2> DEFINE S == {i \in Nat : i <= c => h[i] \in Nat}
  <2>1. 0 \in S
    BY <1>5
  <2>2. ASSUME NEW i \in Nat, i \in S
        PROVE  i + 1 \in S
    <3>1. SUFFICES ASSUME i + 1 <= c PROVE h[i + 1] \in Nat
      OBVIOUS
    <3>2. h[i] \in Nat /\ h[i + 1] = h[i] \div 2
      BY <1>5, <2>2, <3>1
    <3>3. \A x \in Nat : x \div 2 \in Nat
      BY DivType
    <3> QED  BY <3>2, <3>3
  <2> HIDE DEF S
  <2>3. \A i \in Nat : i \in S
    BY <2>1, <2>2, Induction
  <2> QED  BY <2>3 DEF S
<1>7. h \in [0 .. c -> Nat]
  <2>1. h = [i \in 0 .. c |-> h[i]]
    BY <1>2 DEF Halving
  <2> QED  BY <1>6, <2>1
<1> QED  BY <1>3, <1>5, <1>7

(* ... and so a bit that is put in comes out last.                         *)
LEMMA HalvedOnce ==
  ASSUME NEW w \in Nat, NEW b \in {0, 1}
  PROVE  /\ 2 * w + b \in Nat
         /\ Torn!Halved(2 * w + b, 0) % 2 = b
         /\ \A c \in Nat : Torn!Halved(2 * w + b, c + 1) = Torn!Halved(w, c)
<1> DEFINE v == 2 * w + b
<1>1. v \in Nat /\ v \div 2 = w /\ v % 2 = b
  <2>1. 2 \in Nat \ {0} /\ b \in 0 .. 2 - 1
    OBVIOUS
  <2>2. (2 * w + b) \div 2 = w /\ (2 * w + b) % 2 = b
    BY <2>1, DivUnique
  <2> QED  BY <2>2
<1> HIDE DEF v
<1>2. Torn!Halved(v, 0) = v
  BY <1>1, HalvedUnfolds
<1>3. ASSUME NEW c \in Nat
      PROVE  Torn!Halved(v, c + 1) = Torn!Halved(w, c)
  <2>0. c + 1 \in Nat
    OBVIOUS
  <2>1. PICK f \in [0 .. c + 1 -> Nat] :
          /\ f[0] = v /\ \A i \in 0 .. (c + 1) - 1 : f[i + 1] = f[i] \div 2
          /\ Torn!Halved(v, c + 1) = f[c + 1]
    BY <1>1, <2>0, HalvedUnfolds
  <2>2. PICK g \in [0 .. c -> Nat] :
          /\ g[0] = w /\ \A i \in 0 .. c - 1 : g[i + 1] = g[i] \div 2
          /\ Torn!Halved(w, c) = g[c]
    BY HalvedUnfolds
  <2> DEFINE S == {i \in Nat : i <= c => f[i + 1] = g[i]}
  <2>3. 0 \in S
    <3>1. f[0 + 1] = f[0] \div 2
      BY <2>1
    <3> QED  BY <1>1, <2>1, <2>2, <3>1
  <2>4. ASSUME NEW i \in Nat, i \in S
        PROVE  i + 1 \in S
    <3>1. SUFFICES ASSUME i + 1 <= c PROVE f[(i + 1) + 1] = g[i + 1]
      OBVIOUS
    <3>2. f[(i + 1) + 1] = f[i + 1] \div 2 /\ g[i + 1] = g[i] \div 2
      BY <2>1, <2>2, <3>1
    <3>3. f[i + 1] = g[i]
      BY <2>4, <3>1
    <3> QED  BY <3>2, <3>3
  <2> HIDE DEF S
  <2>5. c \in S
    BY <2>3, <2>4, Induction
  <2> QED  BY <2>1, <2>2, <2>5 DEF S
<1> QED  BY <1>1, <1>2, <1>3 DEF v

(* The checker words in front of payload word k, which q full groups       *)
(* precede, and where it lies.                                             *)
LEMMA TornGroup ==
  ASSUME NEW q \in Nat, NEW k \in Nat, CheckerPeriod * q < k, k <= CheckerPeriod * q + CheckerPeriod
  PROVE  /\ Torn!Checkers(k) = q + 1
         /\ \A s \in Nat : Torn!PayloadAddress(s, k) = s + k + q
<1> DEFINE r == k - CheckerPeriod * q - 1
<1>1. CheckerPeriod \in Nat \ {0} /\ CheckerPeriod * q \in Nat
  BY LogMemoryAssumption
<1>2. r \in 0 .. CheckerPeriod - 1
  BY <1>1
<1>3. CheckerPeriod * (q + 1) = CheckerPeriod * q + CheckerPeriod
  BY <1>1
<1>4. k + CheckerPeriod - 1 = CheckerPeriod * (q + 1) + r
  BY <1>1, <1>2, <1>3
<1> HIDE DEF r
<1>5. (CheckerPeriod * (q + 1) + r) \div CheckerPeriod = q + 1
  <2>1. q + 1 \in Nat
    OBVIOUS
  <2> QED  BY <1>1, <1>2, <2>1, DivUnique
<1>6. Torn!Checkers(k) = q + 1
  BY <1>4, <1>5 DEF Torn!Checkers
<1>7. k # 0
  BY <1>1
<1> QED  BY <1>6, <1>7 DEF Torn!PayloadAddress

(* Every number of payload words ends in some group.                       *)
LEMMA TornGroups ==
  ASSUME NEW n \in Nat \ {0}
  PROVE  /\ Torn!Checkers(n) \in Nat \ {0}
         /\ CheckerPeriod * (Torn!Checkers(n) - 1) < n
         /\ n <= CheckerPeriod * (Torn!Checkers(n) - 1) + CheckerPeriod
<1> DEFINE q == (n - 1) \div CheckerPeriod
           r == (n - 1) % CheckerPeriod
<1>1. CheckerPeriod \in Nat \ {0} /\ n - 1 \in Nat
  BY LogMemoryAssumption
<1>2. q \in Nat /\ r \in 0 .. CheckerPeriod - 1 /\ n - 1 = CheckerPeriod * q + r
  BY <1>1, DivType
<1> HIDE DEF q, r
<1>3. CheckerPeriod * q \in Nat
  BY <1>1, <1>2
<1>4. CheckerPeriod * q < n /\ n <= CheckerPeriod * q + CheckerPeriod
  BY <1>1, <1>2, <1>3
<1>5. Torn!Checkers(n) = q + 1
  BY <1>2, <1>4, TornGroup
<1>6. (q + 1) - 1 = q /\ q + 1 \in Nat \ {0}
  BY <1>2
<1> QED  BY <1>4, <1>5, <1>6

(* An entry takes a word for its length, and the next one lies behind it.  *)
LEMMA TornSizes ==
  ASSUME NEW n \in Nat
  PROVE  /\ Torn!Checkers(n) \in Nat
         /\ Torn!Size(n) = 1 + n + Torn!Checkers(n) /\ Torn!Size(n) \in Nat \ {0}
         /\ \A s \in Nat : \A w :
              /\ TornAfter(w, s + Torn!Size(n)) \in Nat
              /\ s + Torn!Size(n) <= TornAfter(w, s + Torn!Size(n))
              /\ s + Torn!Size(n) <= ByteCount => TornAfter(w, s + Torn!Size(n)) <= ByteCount
<1>1. Torn!Checkers(n) \in Nat
  <2>1. CheckerPeriod \in Nat \ {0} /\ n + (CheckerPeriod - 1) \in Nat
    BY LogMemoryAssumption
  <2>2. n + CheckerPeriod - 1 = n + (CheckerPeriod - 1)
    BY <2>1
  <2> QED  BY <2>1, <2>2, DivType DEF Torn!Checkers
<1>2. Torn!Size(n) = 1 + n + Torn!Checkers(n) /\ Torn!Size(n) \in Nat \ {0}
  BY <1>1 DEF Torn!Size
<1>3. ASSUME NEW s \in Nat, NEW w
      PROVE  /\ TornAfter(w, s + Torn!Size(n)) \in Nat
             /\ s + Torn!Size(n) <= TornAfter(w, s + Torn!Size(n))
             /\ s + Torn!Size(n) <= ByteCount => TornAfter(w, s + Torn!Size(n)) <= ByteCount
  <2> DEFINE end == s + Torn!Size(n)
  <2>1. end \in Nat
    BY <1>2
  <2> HIDE DEF end
  <2>2. /\ RoundUp(end) \in Nat /\ end <= RoundUp(end)
        /\ end <= ByteCount => RoundUp(end) <= ByteCount
    BY <2>1, RoundUpBounds
  <2>3. /\ TornAfter(w, end) \in Nat /\ end <= TornAfter(w, end)
        /\ end <= ByteCount => TornAfter(w, end) <= ByteCount
    BY <2>1, <2>2 DEF TornAfter
  <2> QED  BY <2>3 DEF end
<1> QED  BY <1>1, <1>2, <1>3

(* As long as there are payload words to come, so is a checker word.       *)
LEMMA TornRoom ==
  ASSUME NEW q \in Nat, NEW n \in Nat, CheckerPeriod * q < n
  PROVE  q + 1 <= Torn!Checkers(n)
<1> DEFINE c == Torn!Checkers(n)
<1>1. CheckerPeriod \in Nat \ {0} /\ CheckerPeriod * q \in Nat /\ n \in Nat \ {0}
  BY LogMemoryAssumption
<1>2. c \in Nat \ {0} /\ n <= CheckerPeriod * (c - 1) + CheckerPeriod
  BY <1>1, TornGroups
<1> HIDE DEF c
<1>3. SUFFICES ASSUME c - 1 < q PROVE FALSE
  BY <1>2 DEF c
<1>4. c - 1 \in Nat
  BY <1>2
<1>5. CheckerPeriod * (c - 1) + CheckerPeriod <= CheckerPeriod * q
  BY <1>1, <1>3, <1>4, Multiples
<1>6. CheckerPeriod * (c - 1) \in Nat
  BY <1>1, <1>4
<1> QED  BY <1>1, <1>2, <1>5, <1>6

(* The checker word of a group is written behind its last word, the bits   *)
(* of which come last.                                                     *)
LEMMA TornCover ==
  ASSUME NEW q \in Nat, NEW n \in Nat, NEW p \in Nat, NEW s \in Nat,
         CheckerPeriod * q < p, p <= CheckerPeriod * q + CheckerPeriod, p <= n,
         p = CheckerPeriod * q + CheckerPeriod \/ p = n,
         NEW k \in Nat, CheckerPeriod * q < k, k <= p
  PROVE  Torn!CheckerAddress(s, n, k) = s + p + q + 1 /\ Torn!CheckerBit(n, k) = p - k
<1>1. CheckerPeriod \in Nat \ {0} /\ CheckerPeriod * q \in Nat
  BY LogMemoryAssumption
<1>2. Torn!Checkers(k) = q + 1
  BY <1>1, TornGroup
<1>3. (q + 1) * CheckerPeriod = CheckerPeriod * q + CheckerPeriod
  BY <1>1
<1>4. (IF (q + 1) * CheckerPeriod < n THEN (q + 1) * CheckerPeriod ELSE n) = p
  BY <1>1, <1>3
<1>5. Torn!PayloadAddress(s, p) = s + p + q
  BY TornGroup
<1>6. Torn!CheckerAddress(s, n, k) = Torn!PayloadAddress(s, p) + 1
  BY <1>2, <1>4 DEF Torn!CheckerAddress
<1>7. Torn!CheckerBit(n, k) = p - k
  BY <1>2, <1>4 DEF Torn!CheckerBit
<1> QED  BY <1>5, <1>6, <1>7

\* A word whose torn bit is set in the cache, on its way to NVM from a zero.
Written(m, a) ==
  a \in Addresses /\ Cached(m, a)[2] = 1 /\ Rising(m, a, Torn!Zero, Cached(m, a))

\* Of the entry e at s the words up to next are written: its length, p words of
\* payload, and checker words with the lowest bits of c of them.
TornParts(m, s, e, next, p, c) ==
  /\ Cached(m, s) = <<Len(e), 1>>
  /\ \A a \in s .. next - 1 : Written(m, a)
  /\ \A k \in 1 .. p :
       /\ Torn!PayloadAddress(s, k) \in s .. next - 1
       /\ Cached(m, Torn!PayloadAddress(s, k)) = <<e[k][1], 1>>
  /\ \A k \in 1 .. c :
       /\ Torn!CheckerAddress(s, Len(e), k) \in s .. next - 1
       /\ Torn!Halved(Cached(m, Torn!CheckerAddress(s, Len(e), k))[1],
                      Torn!CheckerBit(Len(e), k)) % 2 = e[k][2]

\* The whole entry.
TornLaid(m, s, e) == TornParts(m, s, e, s + Torn!Size(Len(e)), Len(e), Len(e))

\* <<s, e, n>> such that the entry e lies at s and the next one goes to n.
TornPlaces(w, m) ==
  {t \in Nat \X Torn!Entries \X Nat :
     t[3] = TornEnd(w, t[1], t[2]) /\ TornLaid(m, t[1], t[2])}

\* Behind the log the memory is as it was.
TornRest == \A a \in Addresses : a >= next_free => Settled(mem, a, Torn!Zero)

\* In front of s lies the log, safely in NVM if the writer aligns it.
TornSafe(s) ==
  writer = "MnemosyneAligned" =>
    /\ s % LineWords = 0
    /\ \A a \in Addresses : a < s => Settled(mem, a, Cached(mem, a))
TornBefore(s) == Places(log, s, TornPlaces(writer, mem)) /\ TornSafe(s)

TornFits(s) == entry \in Torn!Entries /\ s + Torn!Size(Len(entry)) <= ByteCount

\* All but the line being filled is on its way to NVM; when it is full it is
\* written back before another is begun.
TornFlushed(s) ==
  writer = "MnemosyneAligned" =>
    /\ \A a \in s .. next_free - 1 :
         Flushed(mem, a) = Cached(mem, a) \/ LineOf(a) = LineOf(next_free - 1)
    /\ \/ pc \in {"payload", "checker", "tail"} /\ next_free % LineWords = 0
       \/ pc = "fence"
       => \A a \in s .. next_free - 1 : Flushed(mem, a) = Cached(mem, a)

\* Where the writer stands after q groups of payload words.
TornAt(q) ==
  /\ pos <= Len(entry)
  /\ checker = pos - CheckerPeriod * q
  /\ \/ pc = "payload" /\ CheckerPeriod * q <= pos /\ pos < CheckerPeriod * q + CheckerPeriod
     \/ pc = "flush" /\ CheckerPeriod * q < pos /\ pos <= CheckerPeriod * q + CheckerPeriod
     \/ pc = "checker" /\ pos = CheckerPeriod * q + CheckerPeriod
     \/ pc = "flush_checker" /\ pos = CheckerPeriod * q
     \/ /\ pc = "tail" /\ pos = Len(entry)
        /\ CheckerPeriod * q < pos /\ pos < CheckerPeriod * q + CheckerPeriod

\* The lowest bits of the words behind the first c are in the buffer.
TornBuffer(c) ==
  \A k \in c + 1 .. pos : Torn!Halved(buffer, pos - k) % 2 = entry[k][2]

\* The entry being added at s is written up to next_free ...
TornAdding(s, q) ==
  /\ next_free = s + 1 + pos + q
  /\ TornAt(q)
  /\ TornParts(mem, s, entry, next_free, pos, CheckerPeriod * q)
  /\ TornBuffer(CheckerPeriod * q)
  /\ TornFlushed(s)

\* ... or to its end.
TornAdded(s) ==
  /\ next_free = s + Torn!Size(Len(entry))
  /\ TornLaid(mem, s, entry)
  /\ TornFlushed(s)

TornFilling == {"payload", "flush", "checker", "flush_checker", "tail"}

TornInv ==
  /\ Torn!TypeOK
  /\ TornRest
  /\ pc = "idle" => entry = <<>> /\ TornBefore(next_free)
  /\ pc = "length" => TornBefore(next_free) /\ TornFits(next_free)
  /\ pc \in TornFilling =>
       \E s \in 0 .. ByteCount : \E q \in 0 .. ByteCount :
         TornBefore(s) /\ TornFits(s) /\ TornAdding(s, q)
  /\ pc \in {"flush_tail", "fence"} =>
       \E s \in 0 .. ByteCount : TornBefore(s) /\ TornFits(s) /\ TornAdded(s)

\* From m to n no written word is lost, on its way to NVM or in it.
TornKeeps(m, n) ==
  \A a : Written(m, a) =>
    /\ Written(n, a) /\ Cached(n, a) = Cached(m, a)
    /\ Flushed(m, a) = Cached(m, a) => Flushed(n, a) = Cached(n, a)
    /\ Durable(m, a) = Cached(m, a) => Durable(n, a) = Cached(n, a)

\* Nothing is stored between them either.
TornQuiet(m, n) == n \in Memory(TornWords) /\ TornKeeps(m, n) /\ Keeps(m, n, Addresses)

(* The zeroed word is a word whose torn bit is not set.                    *)
LEMMA TornZero ==
  Torn!Zero \in TornWords /\ Torn!Zero[2] = 0 /\ 0 \in Torn!Bit /\ 1 \in Torn!Bit
  BY DEF Torn!Zero, TornWords, Torn!Bit

(* Fences, write-backs and lines that leave the cache on their own store   *)
(* nothing: they keep what is durable and settled.                         *)
LEMMA TornQuiets ==
  ASSUME NEW m \in Memory(TornWords)
  PROVE  /\ TornQuiet(m, m) /\ TornQuiet(m, Fence(m))
         /\ \A as : TornQuiet(m, WriteBackWords(m, as))
         /\ \A n \in LineDrift(m) : TornQuiet(m, n)
<1>1. ASSUME NEW n, Raises(m, n, Addresses)
      PROVE  TornKeeps(m, n)
  <2> SUFFICES ASSUME NEW a, Written(m, a)
               PROVE  /\ Written(n, a) /\ Cached(n, a) = Cached(m, a)
                      /\ Flushed(m, a) = Cached(m, a) => Flushed(n, a) = Cached(n, a)
                      /\ Durable(m, a) = Cached(m, a) => Durable(n, a) = Cached(n, a)
    BY DEF TornKeeps
  <2> DEFINE w == Cached(m, a)
  <2>1. a \in Addresses /\ w[2] = 1 /\ Rising(m, a, Torn!Zero, w)
    BY DEF Written
  <2>2. /\ Rising(n, a, Torn!Zero, w) /\ Cached(n, a) = w
        /\ Flushed(m, a) = w => Flushed(n, a) = w
        /\ Durable(m, a) = w => Durable(n, a) = w
    BY <1>1, <2>1 DEF Raises
  <2> QED  BY <2>1, <2>2 DEF Written
<1>2. TornQuiet(m, m)
  BY DEF TornQuiet, TornKeeps, Keeps
<1>3. TornQuiet(m, Fence(m))
  BY <1>1, RisingKept, SettledKept, FenceOps DEF TornQuiet
<1>4. ASSUME NEW as
      PROVE  TornQuiet(m, WriteBackWords(m, as))
  BY <1>1, RisingKept, SettledKept, WriteBackOps DEF TornQuiet
<1>5. ASSUME NEW n \in LineDrift(m)
      PROVE  TornQuiet(m, n)
  BY <1>1, RisingKept, SettledKept, LineDriftOps DEF TornQuiet
<1> QED  BY <1>2, <1>3, <1>4, <1>5

\* The word v with its torn bit is stored at a.
TornStored(m, n, a, v) ==
  /\ n \in Memory(TornWords) /\ TornKeeps(m, n) /\ Keeps(m, n, Addresses \ {a})
  /\ Written(n, a) /\ Cached(n, a) = <<v, 1>>
  /\ \A b \in Addresses \ {a} : Cached(n, b) = Cached(m, b) /\ Flushed(n, b) = Flushed(m, b)

(* A word stored where nothing was written is written.                     *)
LEMMA TornStore ==
  ASSUME NEW m \in Memory(TornWords), NEW a \in Addresses, Settled(m, a, Torn!Zero),
         NEW v \in Nat
  PROVE  TornStored(m, StoreWord(m, a, <<v, 1>>), a, v)
<1> DEFINE n == StoreWord(m, a, <<v, 1>>)
<1> DEFINE w == <<v, 1>>
<1>1. w \in TornWords /\ w[2] = 1
  BY TornZero DEF TornWords
<1>2. n = StoreWord(m, a, w)
  OBVIOUS
<1> HIDE DEF w, n
<1>3. /\ n \in Memory(TornWords)
      /\ \A b \in Addresses : /\ Cached(n, b) = IF b = a THEN w ELSE Cached(m, b)
                              /\ Flushed(n, b) = Flushed(m, b) /\ Durable(n, b) = Durable(m, b)
  <2>1. /\ StoreWord(m, a, w) \in Memory(TornWords)
        /\ \A b \in Addresses :
             /\ Cached(StoreWord(m, a, w), b) = IF b = a THEN w ELSE Cached(m, b)
             /\ Flushed(StoreWord(m, a, w), b) = Flushed(m, b)
             /\ Durable(StoreWord(m, a, w), b) = Durable(m, b)
    BY <1>1, StoreWordOps
  <2> QED  BY <1>2, <2>1
<1>4. ~ Written(m, a)
  BY TornZero DEF Written, Settled
<1>5. Keeps(m, n, Addresses \ {a})
  BY <1>1, <1>2, SettledKept
<1>6. TornKeeps(m, n)
  <2> SUFFICES ASSUME NEW b, Written(m, b)
               PROVE  /\ Written(n, b) /\ Cached(n, b) = Cached(m, b)
                      /\ Flushed(m, b) = Cached(m, b) => Flushed(n, b) = Cached(n, b)
                      /\ Durable(m, b) = Cached(m, b) => Durable(n, b) = Cached(n, b)
    BY DEF TornKeeps
  <2>1. b \in Addresses /\ b # a
    BY <1>4 DEF Written
  <2>2. Cached(n, b) = Cached(m, b) /\ Flushed(n, b) = Flushed(m, b) /\ Durable(n, b) = Durable(m, b)
    BY <1>3, <2>1
  <2> QED  BY <2>2 DEF Written, Rising
<1>7. Cached(n, a) = w /\ Written(n, a)
  <2>1. Cached(n, a) = w /\ Flushed(n, a) = Torn!Zero /\ Durable(n, a) = Torn!Zero
    BY <1>3 DEF Settled
  <2>2. w # Torn!Zero
    BY <1>1, TornZero
  <2> QED  BY <1>1, <2>1, <2>2 DEF Written, Rising
<1>8. TornStored(m, n, a, v)
  BY <1>3, <1>5, <1>6, <1>7 DEF w, TornStored
<1> QED  BY <1>8 DEF n

(* What is written of an entry stays, and may be told of a longer part.    *)
LEMMA TornPartsKept ==
  ASSUME NEW m, NEW n, TornKeeps(m, n), NEW s \in Nat, NEW e, NEW next \in Nat, NEW p, NEW c,
         s < next, TornParts(m, s, e, next, p, c)
  PROVE  TornParts(n, s, e, next, p, c)
<1>1. \A a \in s .. next - 1 : Written(n, a) /\ Cached(n, a) = Cached(m, a)
  BY DEF TornParts, TornKeeps
<1>2. s \in s .. next - 1
  OBVIOUS
<1>3. Cached(n, s) = <<Len(e), 1>>
  BY <1>1, <1>2 DEF TornParts
<1>4. ASSUME NEW k \in 1 .. p
      PROVE  /\ Torn!PayloadAddress(s, k) \in s .. next - 1
             /\ Cached(n, Torn!PayloadAddress(s, k)) = <<e[k][1], 1>>
  BY <1>1 DEF TornParts
<1>5. ASSUME NEW k \in 1 .. c
      PROVE  /\ Torn!CheckerAddress(s, Len(e), k) \in s .. next - 1
             /\ Torn!Halved(Cached(n, Torn!CheckerAddress(s, Len(e), k))[1],
                            Torn!CheckerBit(Len(e), k)) % 2 = e[k][2]
  <2> DEFINE a == Torn!CheckerAddress(s, Len(e), k)
  <2>1. a \in s .. next - 1 /\ Torn!Halved(Cached(m, a)[1], Torn!CheckerBit(Len(e), k)) % 2 = e[k][2]
    BY DEF TornParts
  <2> HIDE DEF a
  <2>2. Cached(n, a) = Cached(m, a)
    BY <1>1, <2>1
  <2> QED  BY <2>1, <2>2 DEF a
<1> QED  BY <1>1, <1>3, <1>4, <1>5 DEF TornParts

(* An entry is a non-empty sequence of words, each its high bits and its   *)
(* torn bit.                                                               *)
LEMMA TornEntries ==
  ASSUME NEW e \in Torn!Entries
  PROVE  /\ e \in Seq(Nat \X Torn!Bit) /\ Len(e) \in Nat \ {0} /\ Len(e) <= MaxPayload
         /\ \A k \in 1 .. Len(e) : e[k] = <<e[k][1], e[k][2]>> /\ e[k][1] \in Nat /\ e[k][2] \in {0, 1}
<1>1. PICK n \in 1 .. MaxPayload : e \in [1 .. n -> High \X Torn!Bit]
  BY DEF Torn!Entries
<1>2. MaxPayload \in Nat /\ High \subseteq Nat /\ Torn!Bit = {0, 1}
  BY LogMemoryAssumption DEF Torn!Bit
<1>3. n \in Nat \ {0} /\ n <= MaxPayload
  BY <1>2
<1>4. ASSUME NEW k \in 1 .. n
      PROVE  e[k] = <<e[k][1], e[k][2]>> /\ e[k][1] \in Nat /\ e[k][2] \in {0, 1} /\ e[k] \in Nat \X Torn!Bit
  <2>1. e[k] \in High \X {0, 1}
    BY <1>1, <1>2
  <2>2. PICK x \in High : \E y \in {0, 1} : e[k] = <<x, y>>
    BY <2>1
  <2>3. PICK y \in {0, 1} : e[k] = <<x, y>>
    BY <2>2
  <2>4. x \in Nat /\ e[k][1] = x /\ e[k][2] = y
    BY <1>2, <2>3
  <2> QED  BY <1>2, <2>3, <2>4
<1>5. e = [k \in 1 .. n |-> e[k]]
  BY <1>1
<1>6. e \in [1 .. n -> Nat \X Torn!Bit]
  BY <1>4, <1>5
<1>7. e \in Seq(Nat \X Torn!Bit) /\ Len(e) = n
  BY <1>3, <1>6
<1> QED  BY <1>3, <1>4, <1>7

(* The log in front of s stays as it is ...                                *)
LEMMA TornPlacesKept ==
  ASSUME NEW m, NEW n, TornKeeps(m, n), NEW w, NEW end \in Nat, NEW found \in Seq(Torn!Entries),
         Places(found, end, TornPlaces(w, m))
  PROVE  Places(found, end, TornPlaces(w, n))
<1>1. ASSUME NEW s \in 0 .. end, NEW to \in 0 .. end, NEW e \in Torn!Entries,
             <<s, e, to>> \in TornPlaces(w, m)
      PROVE  <<s, e, to>> \in TornPlaces(w, n)
  <2>1. to = TornEnd(w, s, e) /\ TornLaid(m, s, e) /\ s \in Nat /\ to \in Nat
    BY <1>1 DEF TornPlaces
  <2>2. s + Torn!Size(Len(e)) \in Nat /\ s < s + Torn!Size(Len(e))
    <3>1. Len(e) \in Nat
      BY TornEntries
    <3>2. Torn!Size(Len(e)) \in Nat \ {0}
      BY <3>1, TornSizes
    <3> QED  BY <2>1, <3>2
  <2>3. TornLaid(n, s, e)
    BY <2>1, <2>2, TornPartsKept DEF TornLaid
  <2> QED  BY <2>1, <2>3 DEF TornPlaces
<1> QED  BY <1>1, PlacesKeep, Zenon

(* ... as long as what is stored is stored behind it.                      *)
LEMMA TornBeforeKept ==
  ASSUME NEW s \in 0 .. ByteCount, TornBefore(s), log \in Seq(Torn!Entries),
         writer' = writer, log' = log, TornKeeps(mem, mem'),
         \A a, w : a \in Addresses /\ a < s /\ Settled(mem, a, w) => Settled(mem', a, w)
  PROVE  TornBefore(s)'
<1>1. s \in Nat
  BY LogMemoryAssumption DEF ByteCount
<1>2. Places(log, s, TornPlaces(writer, mem'))
  BY <1>1, TornPlacesKept DEF TornBefore
<1>3. TornSafe(s)'
  <2> SUFFICES ASSUME writer = "MnemosyneAligned"
               PROVE  /\ s % LineWords = 0
                      /\ \A a \in Addresses : a < s => Settled(mem', a, Cached(mem', a))
    BY DEF TornSafe
  <2>1. /\ s % LineWords = 0
        /\ \A a \in Addresses : a < s => Settled(mem, a, Cached(mem, a))
    BY DEF TornBefore, TornSafe
  <2>2. \A a \in Addresses : a < s => Settled(mem', a, Cached(mem, a))
    BY <2>1
  <2> QED  BY <2>1, <2>2 DEF Settled
<1> QED  BY <1>2, <1>3 DEF TornBefore

(* What the invariant says of the variables in every state.                *)
LEMMA TornFacts ==
  ASSUME TornInv
  PROVE  /\ mem \in Memory(TornWords) /\ ByteCount \in Nat /\ next_free \in 0 .. ByteCount
         /\ next_free \in Nat /\ writer \in Torn!Writers /\ log \in Seq(Torn!Entries)
         /\ pc \in Torn!Steps /\ pos \in Nat /\ pos <= MaxPayload /\ buffer \in Nat
         /\ checker \in 0 .. CheckerPeriod /\ entry \in Torn!Entries \union {<<>>}
         /\ MaxPayload \in Nat /\ CheckerPeriod \in Nat \ {0, 1} /\ LineWords \in Nat \ {0, 1}
<1>1. /\ mem \in Memory(TornWords) /\ next_free \in 0 .. ByteCount
      /\ writer \in Torn!Writers /\ log \in Seq(Torn!Entries)
      /\ pc \in Torn!Steps /\ pos \in 0 .. MaxPayload /\ buffer \in Nat
      /\ checker \in 0 .. CheckerPeriod /\ entry \in Torn!Entries \union {<<>>}
  BY TornMemory DEF TornInv, Torn!TypeOK
<1>2. /\ ByteCount \in Nat /\ MaxPayload \in Nat /\ CheckerPeriod \in Nat \ {0, 1}
      /\ LineWords \in Nat \ {0, 1}
  BY LogMemoryAssumption DEF ByteCount
<1> QED  BY <1>1, <1>2

\* A line is full when the next word begins another.
LEMMA SameLine ==
  ASSUME NEW a \in Nat, a % LineWords # 0
  PROVE  a # 0 /\ LineOf(a - 1) = LineOf(a)
<1> DEFINE l == a \div LineWords
           r == a % LineWords
<1>1. LineWords \in Nat \ {0}
  BY LogMemoryAssumption
<1>2. l \in Nat /\ r \in 0 .. LineWords - 1 /\ a = LineWords * l + r /\ r # 0
  BY <1>1, DivType
<1> HIDE DEF l, r
<1>3. LineWords * l \in Nat /\ r - 1 \in 0 .. LineWords - 1
  BY <1>1, <1>2
<1>4. a # 0 /\ a - 1 = LineWords * l + (r - 1)
  BY <1>1, <1>2, <1>3
<1>5. (LineWords * l + (r - 1)) \div LineWords = l
  BY <1>1, <1>2, <1>3, DivUnique
<1> QED  BY <1>4, <1>5 DEF LineOf, l

(* Numbers of an entry being added: there is room for what is to come.     *)
LEMMA TornNumbers ==
  ASSUME TornInv, NEW s \in 0 .. ByteCount, NEW q \in 0 .. ByteCount, TornFits(s), TornAdding(s, q)
  PROVE  /\ entry \in Torn!Entries /\ Len(entry) \in Nat \ {0}
         /\ s \in Nat /\ q \in Nat /\ CheckerPeriod * q \in Nat /\ CheckerPeriod * q <= pos
         /\ pos <= CheckerPeriod * q + CheckerPeriod
         /\ pos <= Len(entry) /\ s < next_free
         /\ s + Torn!Size(Len(entry)) = s + 1 + Len(entry) + Torn!Checkers(Len(entry))
         /\ Torn!Checkers(Len(entry)) \in Nat
         /\ CheckerPeriod * q < Len(entry) =>
              /\ next_free \in Addresses /\ next_free < s + Torn!Size(Len(entry))
              /\ Settled(mem, next_free, Torn!Zero)
<1> DEFINE n == Len(entry)
           c == Torn!Checkers(n)
<1>1. entry \in Torn!Entries /\ n \in Nat \ {0}
  BY TornEntries DEF TornFits
<1>2. /\ ByteCount \in Nat /\ pos \in Nat /\ CheckerPeriod \in Nat \ {0, 1}
      /\ next_free \in Nat
  BY TornFacts
<1>3. s \in Nat /\ q \in Nat /\ CheckerPeriod * q \in Nat
  BY <1>2
<1>4. /\ pos <= n /\ next_free = s + 1 + pos + q
      /\ CheckerPeriod * q <= pos /\ pos <= CheckerPeriod * q + CheckerPeriod
  BY <1>2, <1>3 DEF TornAdding, TornAt
<1>5. c \in Nat /\ Torn!Size(n) = 1 + n + c
  BY <1>1, TornSizes
<1>6. CheckerPeriod * q < n => q + 1 <= c
  BY <1>1, <1>3, TornRoom
<1>7. s + Torn!Size(n) <= ByteCount
  BY DEF TornFits
<1> HIDE DEF n, c
<1>8. ASSUME CheckerPeriod * q < n
      PROVE  next_free < s + Torn!Size(n) /\ next_free \in Addresses
  BY <1>1, <1>2, <1>3, <1>4, <1>5, <1>6, <1>7, <1>8 DEF Addresses
<1>9. ASSUME next_free \in Addresses PROVE Settled(mem, next_free, Torn!Zero)
  <2>1. next_free >= next_free
    BY <1>2
  <2> QED  BY <1>9, <2>1 DEF TornInv, TornRest
<1>10. s < next_free
  BY <1>2, <1>3, <1>4
<1>11. s + Torn!Size(n) = s + 1 + n + c
  BY <1>1, <1>3, <1>5
<1> QED  BY <1>1, <1>3, <1>4, <1>5, <1>8, <1>9, <1>10, <1>11 DEF n, c

(* What storing the next word does to the log ...                          *)
LEMMA TornPut ==
  ASSUME TornInv, NEW s \in 0 .. ByteCount, s <= next_free, TornBefore(s),
         next_free \in Addresses, NEW v \in Nat,
         mem' = StoreWord(mem, next_free, <<v, 1>>), next_free' = next_free + 1,
         writer' = writer, log' = log
  PROVE  /\ mem' \in Memory(TornWords) /\ TornKeeps(mem, mem')
         /\ next_free' \in 0 .. ByteCount /\ TornRest' /\ TornBefore(s)'
         /\ Written(mem', next_free) /\ Cached(mem', next_free) = <<v, 1>>
         /\ \A b \in Addresses \ {next_free} :
              Cached(mem', b) = Cached(mem, b) /\ Flushed(mem', b) = Flushed(mem, b)
<1>1. /\ mem \in Memory(TornWords) /\ ByteCount \in Nat /\ next_free \in Nat
      /\ log \in Seq(Torn!Entries)
  BY TornFacts
<1>2. Settled(mem, next_free, Torn!Zero)
  <2>1. next_free >= next_free
    BY <1>1
  <2> QED  BY <2>1 DEF TornInv, TornRest
<1>3. /\ mem' \in Memory(TornWords) /\ TornKeeps(mem, mem')
      /\ Keeps(mem, mem', Addresses \ {next_free})
      /\ Written(mem', next_free) /\ Cached(mem', next_free) = <<v, 1>>
      /\ \A b \in Addresses \ {next_free} :
           Cached(mem', b) = Cached(mem, b) /\ Flushed(mem', b) = Flushed(mem, b)
  <2>1. TornStored(mem, mem', next_free, v)
    BY <1>1, <1>2, TornStore
  <2> QED  BY <2>1 DEF TornStored
<1>4. next_free' \in 0 .. ByteCount
  BY <1>1 DEF Addresses
<1>5. TornRest'
  <2>1. ASSUME NEW a \in Addresses, a >= next_free'
        PROVE  Settled(mem', a, Torn!Zero)
    <3>1. a \in Nat
      BY AddressParts
    <3>2. a >= next_free /\ a # next_free
      BY <1>1, <2>1, <3>1
    <3>3. Settled(mem, a, Torn!Zero)
      BY <3>2 DEF TornInv, TornRest
    <3> QED  BY <1>3, <3>2, <3>3 DEF Keeps
  <2> QED  BY <2>1, TornMemory DEF TornRest
<1>6. TornBefore(s)'
  <2>1. ASSUME NEW a, NEW w, a \in Addresses, a < s, Settled(mem, a, w)
        PROVE  Settled(mem', a, w)
    <3>1. a \in Nat
      BY <2>1, AddressParts
    <3>2. a # next_free
      BY <1>1, <2>1, <3>1
    <3> QED  BY <1>3, <2>1, <3>2 DEF Keeps
  <2> QED  BY <1>1, <1>3, <2>1, TornBeforeKept
<1> QED  BY <1>3, <1>4, <1>5, <1>6

(* ... and to the entry being added.                                       *)
LEMMA TornPutInEntry ==
  ASSUME TornInv, NEW s \in 0 .. ByteCount, NEW q \in 0 .. ByteCount, TornBefore(s), TornFits(s),
         TornAdding(s, q), CheckerPeriod * q < Len(entry), NEW v \in Nat,
         mem' = StoreWord(mem, next_free, <<v, 1>>), next_free' = next_free + 1,
         writer' = writer, log' = log, entry' = entry,
         pc \in {"payload", "checker", "tail"}, pc' \in {"flush", "flush_checker", "flush_tail"}
  PROVE  /\ mem' \in Memory(TornWords) /\ next_free' \in 0 .. ByteCount
         /\ TornRest' /\ TornBefore(s)' /\ TornFits(s)' /\ TornFlushed(s)'
         /\ TornParts(mem', s, entry, next_free', pos, CheckerPeriod * q)
         /\ Cached(mem', next_free) = <<v, 1>>
<1>1. /\ next_free \in Addresses /\ s < next_free /\ s \in Nat
  BY TornNumbers
<1>2. next_free \in Nat
  BY TornFacts
<1>3. /\ mem' \in Memory(TornWords) /\ TornKeeps(mem, mem')
      /\ next_free' \in 0 .. ByteCount /\ TornRest' /\ TornBefore(s)'
      /\ Written(mem', next_free) /\ Cached(mem', next_free) = <<v, 1>>
      /\ \A b \in Addresses \ {next_free} :
           Cached(mem', b) = Cached(mem, b) /\ Flushed(mem', b) = Flushed(mem, b)
  <2>1. s <= next_free
    BY <1>1, <1>2
  <2> QED  BY <1>1, <2>1, TornPut
<1>4. TornFits(s)'
  BY TornMemory DEF TornFits
<1>5. TornParts(mem', s, entry, next_free', pos, CheckerPeriod * q)
  <2>1. TornParts(mem', s, entry, next_free, pos, CheckerPeriod * q)
    BY <1>1, <1>2, <1>3, TornPartsKept DEF TornAdding
  <2>2. \A a \in s .. next_free' - 1 : Written(mem', a)
    <3>1. \A a \in s .. next_free' - 1 : a = next_free \/ a \in s .. next_free - 1
      BY <1>1, <1>2
    <3> QED  BY <1>3, <2>1, <3>1 DEF TornParts
  <2>3. \A a : a \in s .. next_free - 1 => a \in s .. next_free' - 1
    BY <1>1, <1>2
  <2> QED  BY <2>1, <2>2, <2>3 DEF TornParts
<1>6. TornFlushed(s)'
  <2> SUFFICES ASSUME writer = "MnemosyneAligned", NEW a \in s .. next_free' - 1
               PROVE  Flushed(mem', a) = Cached(mem', a) \/ LineOf(a) = LineOf(next_free' - 1)
    BY DEF TornFlushed
  <2>1. next_free' - 1 = next_free
    BY <1>2
  <2>2. CASE a = next_free
    BY <2>1, <2>2
  <2>3. CASE a # next_free
    <3>1. a \in s .. next_free - 1 /\ a \in Nat
      BY <1>1, <1>2, <2>1, <2>3
    <3>2. Written(mem, a)
      BY <3>1 DEF TornAdding, TornParts
    <3>3. Cached(mem', a) = Cached(mem, a) /\ Flushed(mem', a) = Flushed(mem, a)
      BY <1>3, <2>3, <3>2 DEF Written
    <3>4. CASE next_free % LineWords = 0
      <4>1. Flushed(mem, a) = Cached(mem, a)
        BY <3>1, <3>4 DEF TornAdding, TornFlushed
      <4> QED  BY <3>3, <4>1
    <3>5. CASE next_free % LineWords # 0
      <4>1. LineOf(next_free - 1) = LineOf(next_free)
        BY <1>2, <3>5, SameLine
      <4>2. Flushed(mem, a) = Cached(mem, a) \/ LineOf(a) = LineOf(next_free - 1)
        BY <3>1 DEF TornAdding, TornFlushed
      <4> QED  BY <2>1, <3>3, <4>1, <4>2
    <3> QED  BY <3>4, <3>5
  <2> QED  BY <2>2, <2>3
<1> QED  BY <1>3, <1>4, <1>5, <1>6

(* The zeroed memory holds no entry.                                       *)
LEMMA TornInit ==
  ASSUME Torn!Init PROVE TornInv
<1>1. /\ writer \in Torn!Writers /\ mem = Filled(Torn!Zero)
      /\ next_free = 0 /\ pc = "idle" /\ entry = <<>> /\ pos = 0 /\ buffer = 0 /\ checker = 0
      /\ log = <<>>
  BY TornMemory DEF Torn!Init
<1>2. ByteCount \in Nat /\ MaxPayload \in Nat /\ CheckerPeriod \in Nat /\ LineWords \in Nat \ {0}
  BY LogMemoryAssumption DEF ByteCount
<1>3. mem \in Memory(TornWords) /\ \A a \in Addresses : Settled(mem, a, Torn!Zero)
  BY <1>1, TornZero, FilledOps
<1>4. Torn!TypeOK
  <2>1. mem \in [Torn!LogLines -> Torn!LineSet([Torn!Slots -> Nat \X Torn!Bit])]
    BY <1>3, TornMemory
  <2>2. next_free \in 0 .. Torn!ByteCount
    BY <1>1, <1>2, TornMemory
  <2>3. pos \in 0 .. MaxPayload /\ checker \in 0 .. CheckerPeriod /\ buffer \in Nat
    BY <1>1, <1>2
  <2>4. log \in Seq(Torn!Entries) /\ entry \in Torn!Entries \union {<<>>} /\ pc \in Torn!Steps
    BY <1>1 DEF Torn!Steps
  <2> QED  BY <1>1, <2>1, <2>2, <2>3, <2>4 DEF Torn!TypeOK
<1>5. TornRest
  BY <1>3 DEF TornRest
<1>6. TornBefore(next_free)
  <2>1. Places(log, next_free, TornPlaces(writer, mem))
    BY <1>1, PlacesEmpty
  <2>2. next_free % LineWords = 0
    BY <1>1, <1>2
  <2>3. \A a \in Addresses : Settled(mem, a, Cached(mem, a))
    BY <1>3 DEF Settled
  <2> QED  BY <2>1, <2>2, <2>3 DEF TornBefore, TornSafe
<1> QED  BY <1>1, <1>4, <1>5, <1>6 DEF TornInv, TornFilling

(* A call that starts finds an idle writer and fits into the file.         *)
LEMMA TornAddLogEntry ==
  ASSUME TornInv, NEW e \in Torn!Entries, Torn!AddLogEntry(e)
  PROVE  TornInv'
<1>1. /\ pc = "idle" /\ next_free + Torn!Size(Len(e)) <= ByteCount
      /\ entry' = e /\ pc' = "length"
      /\ writer' = writer /\ mem' = mem /\ next_free' = next_free /\ pos' = pos
      /\ buffer' = buffer /\ checker' = checker /\ log' = log
  BY TornMemory DEF Torn!AddLogEntry
<1>2. Torn!TypeOK'
  BY <1>1, TornMemory DEF TornInv, Torn!TypeOK, Torn!Steps
<1>3. TornRest'
  BY <1>1 DEF TornInv, TornRest
<1>4. TornBefore(next_free)'
  BY <1>1 DEF TornInv, TornBefore, TornSafe
<1>5. TornFits(next_free)'
  BY <1>1 DEF TornFits
<1> QED  BY <1>1, <1>2, <1>3, <1>4, <1>5 DEF TornInv, TornFilling

(* The length is stored with its torn bit set at the end of the log.       *)
LEMMA TornWriteLength ==
  ASSUME TornInv, Torn!WriteLength
  PROVE  TornInv'
<1>1. /\ pc = "length" /\ mem' = StoreWord(mem, next_free, <<Len(entry), 1>>)
      /\ next_free' = next_free + 1 /\ pos' = 0 /\ buffer' = 0 /\ checker' = 0
      /\ pc' = "payload" /\ writer' = writer /\ entry' = entry /\ log' = log
  BY TornMemory DEF Torn!WriteLength, Torn!PutWord
<1>2. PICK s \in 0 .. ByteCount : s = next_free
  BY TornFacts
<1>3. TornBefore(s) /\ TornFits(s)
  BY <1>1, <1>2 DEF TornInv
<1>4. /\ ByteCount \in Nat /\ s \in Nat /\ CheckerPeriod \in Nat \ {0, 1}
      /\ LineWords \in Nat \ {0, 1}
  BY <1>2, TornFacts
<1>5. entry \in Torn!Entries /\ Len(entry) \in Nat \ {0}
  BY <1>3, TornEntries DEF TornFits
<1>6. next_free \in Addresses
  <2>1. Torn!Size(Len(entry)) \in Nat \ {0}
    BY <1>5, TornSizes
  <2>2. s + Torn!Size(Len(entry)) <= ByteCount
    BY <1>3 DEF TornFits
  <2> QED  BY <1>2, <1>4, <2>1, <2>2 DEF Addresses
<1>7. /\ mem' \in Memory(TornWords) /\ next_free' \in 0 .. ByteCount /\ TornRest' /\ TornBefore(s)'
      /\ Written(mem', s) /\ Cached(mem', s) = <<Len(entry), 1>>
  <2>1. s <= next_free /\ Len(entry) \in Nat
    BY <1>2, <1>4, <1>5
  <2> QED  BY <1>1, <1>2, <1>3, <1>6, <2>1, TornPut
<1>8. Torn!TypeOK'
  <2>1. mem' \in [Torn!LogLines -> Torn!LineSet([Torn!Slots -> Nat \X Torn!Bit])]
    BY <1>7, TornMemory
  <2>2. pos' \in 0 .. MaxPayload /\ checker' \in 0 .. CheckerPeriod /\ buffer' \in Nat
    BY <1>1, <1>4, TornFacts
  <2>3. next_free' \in 0 .. Torn!ByteCount
    BY <1>7, TornMemory
  <2> QED  BY <1>1, <2>1, <2>2, <2>3 DEF TornInv, Torn!TypeOK, Torn!Steps
<1>9. TornFits(s)'
  BY <1>1, <1>3, TornMemory DEF TornFits
<1>10. next_free' - 1 = s /\ s .. next_free' - 1 = {s} /\ next_free' = s + 1 + 0 + 0
  BY <1>1, <1>2, <1>4
<1>11. TornFlushed(s)'
  <2> SUFFICES ASSUME writer = "MnemosyneAligned"
               PROVE  /\ \A a \in s .. next_free' - 1 :
                           Flushed(mem', a) = Cached(mem', a) \/ LineOf(a) = LineOf(next_free' - 1)
                      /\ next_free' % LineWords # 0
    BY <1>1 DEF TornFlushed
  <2>1. s % LineWords = 0
    BY <1>3 DEF TornBefore, TornSafe
  <2> DEFINE l == s \div LineWords
  <2>2. l \in Nat /\ s = LineWords * l + 0
    BY <1>4, <2>1, DivType
  <2> HIDE DEF l
  <2>3. (LineWords * l + 1) % LineWords = 1
    <3>1. 1 \in 0 .. LineWords - 1
      BY <1>4
    <3> QED  BY <1>4, <2>2, <3>1, DivUnique
  <2>4. next_free' = LineWords * l + 1
    <3>1. LineWords * l \in Nat
      BY <1>4, <2>2
    <3> QED  BY <1>1, <1>2, <2>2, <3>1
  <2> QED  BY <1>10, <2>3, <2>4
<1>12. TornAdding(s, 0)'
  <2>1. CheckerPeriod * 0 = 0
    BY <1>4
  <2>2. TornAt(0)'
    BY <1>1, <1>4, <1>5, <2>1 DEF TornAt
  <2>3. TornParts(mem', s, entry, next_free', 0, 0)
    BY <1>7, <1>10 DEF TornParts
  <2>4. TornBuffer(0)'
    BY <1>1 DEF TornBuffer
  <2> QED  BY <1>1, <1>10, <1>11, <2>1, <2>2, <2>3, <2>4 DEF TornAdding
<1>13. (TornBefore(s) /\ TornFits(s) /\ TornAdding(s, 0))'
  BY <1>7, <1>9, <1>12
<1>14. (\E r \in 0 .. ByteCount : \E q \in 0 .. ByteCount :
          TornBefore(r) /\ TornFits(r) /\ TornAdding(r, q))'
  <2>1. 0 \in 0 .. ByteCount
    BY <1>4
  <2> QED  BY <1>13, <2>1
<1> QED  BY <1>1, <1>7, <1>8, <1>14 DEF TornInv, TornFilling

(* A payload word is stored with its torn bit set, and its own last bit    *)
(* moves into the buffer.                                                  *)
LEMMA TornWritePayload ==
  ASSUME TornInv, Torn!WritePayload
  PROVE  TornInv'
<1>1. /\ pc = "payload" /\ pos < Len(entry)
      /\ mem' = StoreWord(mem, next_free, <<entry[pos + 1][1], 1>>)
      /\ next_free' = next_free + 1 /\ pos' = pos + 1
      /\ buffer' = 2 * buffer + entry[pos + 1][2] /\ checker' = checker + 1
      /\ pc' = "flush" /\ writer' = writer /\ entry' = entry /\ log' = log
  BY TornMemory DEF Torn!WritePayload, Torn!PutWord
<1>2. PICK s \in 0 .. ByteCount : \E q \in 0 .. ByteCount :
        TornBefore(s) /\ TornFits(s) /\ TornAdding(s, q)
  BY <1>1 DEF TornInv, TornFilling
<1>3. PICK q \in 0 .. ByteCount : TornBefore(s) /\ TornFits(s) /\ TornAdding(s, q)
  BY <1>2
<1> DEFINE g == CheckerPeriod * q
           n == Len(entry)
<1>4. /\ entry \in Torn!Entries /\ n \in Nat \ {0} /\ s \in Nat /\ q \in Nat /\ g \in Nat
      /\ g <= pos /\ s < next_free
  BY <1>3, TornNumbers
<1>5. /\ pos \in Nat /\ buffer \in Nat /\ next_free \in Nat /\ ByteCount \in Nat
      /\ MaxPayload \in Nat /\ CheckerPeriod \in Nat \ {0, 1}
  BY TornFacts
<1>6. pos < g + CheckerPeriod /\ checker = pos - g /\ next_free = s + 1 + pos + q
  BY <1>1, <1>3 DEF TornAdding, TornAt
<1> HIDE DEF g, n
<1>7. pos < n /\ g < n /\ pos + 1 \in 1 .. n /\ pos + 1 \in Nat
  BY <1>1, <1>4, <1>5 DEF n
<1>8. entry[pos + 1][1] \in Nat /\ entry[pos + 1][2] \in {0, 1}
  BY <1>4, <1>7, TornEntries DEF n
<1>9. /\ mem' \in Memory(TornWords) /\ next_free' \in 0 .. ByteCount
      /\ TornRest' /\ TornBefore(s)' /\ TornFits(s)' /\ TornFlushed(s)'
      /\ TornParts(mem', s, entry, next_free', pos, g)
      /\ Cached(mem', next_free) = <<entry[pos + 1][1], 1>>
  <2>1. CheckerPeriod * q < Len(entry)
    BY <1>7 DEF g, n
  <2>2. pc \in {"payload", "checker", "tail"} /\ pc' \in {"flush", "flush_checker", "flush_tail"}
    BY <1>1
  <2> QED  BY <1>1, <1>3, <1>8, <2>1, <2>2, TornPutInEntry DEF g
<1>10. TornParts(mem', s, entry, next_free', pos + 1, g)
  <2>1. Torn!PayloadAddress(s, pos + 1) = next_free
    <3>1. CheckerPeriod * q < pos + 1 /\ pos + 1 <= CheckerPeriod * q + CheckerPeriod
      BY <1>4, <1>5, <1>6 DEF g
    <3>2. Torn!PayloadAddress(s, pos + 1) = s + (pos + 1) + q
      BY <1>4, <1>7, <3>1, TornGroup
    <3> QED  BY <1>4, <1>5, <1>6, <3>2
  <2>2. next_free \in s .. next_free' - 1
    BY <1>1, <1>4, <1>5
  <2>3. ASSUME NEW k \in 1 .. pos + 1
        PROVE  /\ Torn!PayloadAddress(s, k) \in s .. next_free' - 1
               /\ Cached(mem', Torn!PayloadAddress(s, k)) = <<entry[k][1], 1>>
    <3>1. CASE k = pos + 1
      BY <1>9, <2>1, <2>2, <3>1
    <3>2. CASE k # pos + 1
      <4>1. k \in 1 .. pos
        BY <1>5, <3>2
      <4> QED  BY <1>9, <4>1 DEF TornParts
    <3> QED  BY <3>1, <3>2
  <2> QED  BY <1>9, <2>3 DEF TornParts
<1>11. TornBuffer(g)'
  <2> SUFFICES ASSUME NEW k \in g + 1 .. pos'
               PROVE  Torn!Halved(buffer', pos' - k) % 2 = entry'[k][2]
    BY DEF TornBuffer
  <2> DEFINE b == entry[pos + 1][2]
  <2>1. /\ Torn!Halved(2 * buffer + b, 0) % 2 = b
        /\ \A c \in Nat : Torn!Halved(2 * buffer + b, c + 1) = Torn!Halved(buffer, c)
    BY <1>5, <1>8, HalvedOnce
  <2>2. CASE k = pos + 1
    <3>1. pos' - k = 0
      BY <1>1, <1>5, <2>2
    <3> QED  BY <1>1, <2>1, <2>2, <3>1
  <2>3. CASE k # pos + 1
    <3>1. k \in g + 1 .. pos /\ pos - k \in Nat /\ pos' - k = (pos - k) + 1
      BY <1>1, <1>4, <1>5, <2>3
    <3>2. Torn!Halved(buffer, pos - k) % 2 = entry[k][2]
      BY <1>3, <3>1 DEF TornAdding, TornBuffer, g
    <3>3. Torn!Halved(2 * buffer + b, (pos - k) + 1) = Torn!Halved(buffer, pos - k)
      BY <2>1, <3>1
    <3> QED  BY <1>1, <3>1, <3>2, <3>3
  <2> QED  BY <2>2, <2>3
<1>12. TornAt(q)'
  <2>1. pos' <= Len(entry') /\ checker' = pos' - CheckerPeriod * q
    BY <1>1, <1>4, <1>5, <1>6, <1>7 DEF g, n
  <2>2. CheckerPeriod * q < pos' /\ pos' <= CheckerPeriod * q + CheckerPeriod
    BY <1>1, <1>4, <1>5, <1>6 DEF g
  <2> QED  BY <1>1, <2>1, <2>2 DEF TornAt
<1>13. next_free' = s + 1 + pos' + q
  BY <1>1, <1>4, <1>5, <1>6
<1>14. TornAdding(s, q)'
  BY <1>1, <1>9, <1>10, <1>11, <1>12, <1>13 DEF TornAdding, g
<1>15. Torn!TypeOK'
  <2>1. mem' \in [Torn!LogLines -> Torn!LineSet([Torn!Slots -> Nat \X Torn!Bit])]
    BY <1>9, TornMemory
  <2>2. pos' \in 0 .. MaxPayload
    <3>1. n <= MaxPayload
      BY <1>4, TornEntries DEF n
    <3> QED  BY <1>1, <1>4, <1>5, <1>7, <3>1
  <2>3. buffer' \in Nat /\ checker' \in 0 .. CheckerPeriod
    BY <1>1, <1>4, <1>5, <1>6, <1>8
  <2> QED  BY <1>1, <1>9, <2>1, <2>2, <2>3, TornMemory DEF TornInv, Torn!TypeOK, Torn!Steps
<1>16. (\E r \in 0 .. ByteCount : \E p \in 0 .. ByteCount :
          TornBefore(r) /\ TornFits(r) /\ TornAdding(r, p))'
  BY <1>9, <1>14
<1> QED  BY <1>1, <1>9, <1>15, <1>16 DEF TornInv, TornFilling

(* A step that stores nothing leaves what there is ...                     *)
LEMMA TornStays ==
  ASSUME TornInv, NEW s \in 0 .. ByteCount, TornBefore(s), TornQuiet(mem, mem'),
         writer' = writer, next_free' = next_free, log' = log
  PROVE  mem' \in Memory(TornWords) /\ TornRest' /\ TornBefore(s)'
<1>1. mem' \in Memory(TornWords) /\ TornKeeps(mem, mem') /\ Keeps(mem, mem', Addresses)
  BY DEF TornQuiet
<1>2. TornRest'
  BY <1>1 DEF TornInv, TornRest, Keeps
<1>3. TornBefore(s)'
  <2>1. \A a, w : a \in Addresses /\ a < s /\ Settled(mem, a, w) => Settled(mem', a, w)
    BY <1>1 DEF Keeps
  <2>2. log \in Seq(Torn!Entries)
    BY TornFacts
  <2> QED  BY <1>1, <2>1, <2>2, TornBeforeKept
<1> QED  BY <1>1, <1>2, <1>3

(* ... and a line that is written back is on its way to NVM.               *)
LEMMA TornFlush ==
  ASSUME TornInv, NEW s \in Nat, s < next_free, TornFlushed(s), writer = "MnemosyneAligned",
         \A a \in s .. next_free - 1 : Written(mem, a),
         TornQuiet(mem, mem'),
         \/ mem' = WriteBackWords(mem, {next_free - 1})
         \/ pc # "flush_tail" /\ next_free % LineWords # 0
  PROVE  /\ \A a \in s .. next_free - 1 :
              Flushed(mem', a) = Cached(mem', a) \/ LineOf(a) = LineOf(next_free - 1)
         /\ pc = "flush_tail" \/ next_free % LineWords = 0 =>
              \A a \in s .. next_free - 1 : Flushed(mem', a) = Cached(mem', a)
<1>1. ASSUME NEW a \in s .. next_free - 1
      PROVE  Flushed(mem', a) = Cached(mem', a) \/ LineOf(a) = LineOf(next_free - 1)
  <2>1. Written(mem, a)
    OBVIOUS
  <2>2. Flushed(mem, a) = Cached(mem, a) \/ LineOf(a) = LineOf(next_free - 1)
    BY DEF TornFlushed
  <2> QED  BY <2>1, <2>2 DEF TornQuiet, TornKeeps
<1>2. ASSUME NEW a \in s .. next_free - 1, mem' = WriteBackWords(mem, {next_free - 1})
      PROVE  Flushed(mem', a) = Cached(mem', a)
  <2>1. CASE LineOf(a) = LineOf(next_free - 1)
    <3>1. Touched({next_free - 1}, a)
      BY <2>1 DEF Touched
    <3>2. a \in Addresses /\ mem \in Memory(TornWords)
      BY TornFacts DEF Written
    <3>3. /\ Cached(WriteBackWords(mem, {next_free - 1}), a) = Cached(mem, a)
          /\ Flushed(WriteBackWords(mem, {next_free - 1}), a) = Cached(mem, a)
      BY <3>1, <3>2, WriteBackOps
    <3> QED  BY <1>2, <3>3
  <2>2. CASE LineOf(a) # LineOf(next_free - 1)
    BY <1>1, <2>2
  <2> QED  BY <2>1, <2>2
<1> QED  BY <1>1, <1>2

(* A line the payload filled is written back.                              *)
LEMMA TornFlushFullLine ==
  ASSUME TornInv, Torn!FlushFullLine
  PROVE  TornInv'
<1>1. /\ pc = "flush"
      /\ mem' = IF next_free % LineWords = 0 THEN WriteBackWords(mem, {next_free - 1}) ELSE mem
      /\ pc' = IF pos % CheckerPeriod = 0 THEN "checker" ELSE "payload"
      /\ writer' = writer /\ next_free' = next_free /\ entry' = entry /\ pos' = pos
      /\ buffer' = buffer /\ checker' = checker /\ log' = log
  BY TornMemory DEF Torn!FlushFullLine, Torn!FlushLast, Torn!LineIsFull
<1>2. PICK s \in 0 .. ByteCount : \E q \in 0 .. ByteCount :
        TornBefore(s) /\ TornFits(s) /\ TornAdding(s, q)
  BY <1>1 DEF TornInv, TornFilling
<1>3. PICK q \in 0 .. ByteCount : TornBefore(s) /\ TornFits(s) /\ TornAdding(s, q)
  BY <1>2
<1>4. /\ s \in Nat /\ q \in Nat /\ CheckerPeriod * q \in Nat /\ s < next_free
  BY <1>3, TornNumbers
<1>5. /\ mem \in Memory(TornWords) /\ pos \in Nat /\ next_free \in Nat
      /\ CheckerPeriod \in Nat \ {0}
  BY TornFacts
<1>6. TornQuiet(mem, mem')
  BY <1>1, <1>5, TornQuiets
<1>7. mem' \in Memory(TornWords) /\ TornRest' /\ TornBefore(s)'
  BY <1>1, <1>3, <1>6, TornStays
<1>8. TornFits(s)'
  BY <1>1, <1>3, TornMemory DEF TornFits
<1>9. TornParts(mem', s, entry, next_free, pos, CheckerPeriod * q)
  BY <1>3, <1>4, <1>5, <1>6, TornPartsKept DEF TornAdding, TornQuiet
<1>10. TornFlushed(s)'
  <2> SUFFICES ASSUME writer = "MnemosyneAligned"
               PROVE  /\ \A a \in s .. next_free - 1 :
                           Flushed(mem', a) = Cached(mem', a) \/ LineOf(a) = LineOf(next_free - 1)
                      /\ next_free % LineWords = 0 =>
                           \A a \in s .. next_free - 1 : Flushed(mem', a) = Cached(mem', a)
    BY <1>1 DEF TornFlushed
  <2>1. \A a \in s .. next_free - 1 : Written(mem, a)
    BY <1>3 DEF TornAdding, TornParts
  <2>2. TornFlushed(s)
    BY <1>3 DEF TornAdding
  <2>3. \/ mem' = WriteBackWords(mem, {next_free - 1})
        \/ pc # "flush_tail" /\ next_free % LineWords # 0
    BY <1>1
  <2> QED  BY <1>4, <1>6, <2>1, <2>2, <2>3, TornFlush
<1>11. TornAt(q)'
  <2> DEFINE g == CheckerPeriod * q
  <2>1. pos <= Len(entry) /\ checker = pos - g /\ g < pos /\ pos <= g + CheckerPeriod
    BY <1>1, <1>3 DEF TornAdding, TornAt
  <2>2. pos % CheckerPeriod = 0 <=> pos = g + CheckerPeriod
    <3>1. ASSUME pos = g + CheckerPeriod PROVE pos % CheckerPeriod = 0
      <4>1. pos = CheckerPeriod * (q + 1) + 0 /\ q + 1 \in Nat /\ 0 \in 0 .. CheckerPeriod - 1
        BY <1>4, <1>5, <3>1
      <4>2. (CheckerPeriod * (q + 1) + 0) % CheckerPeriod = 0
        BY <1>5, <4>1, DivUnique
      <4> QED  BY <4>1, <4>2
    <3>2. ASSUME pos # g + CheckerPeriod PROVE pos % CheckerPeriod # 0
      <4> DEFINE r == pos - g
      <4>1. r \in 0 .. CheckerPeriod - 1 /\ r # 0 /\ pos = g + r
        BY <1>4, <1>5, <2>1, <3>2
      <4> HIDE DEF r
      <4>2. (CheckerPeriod * q + r) % CheckerPeriod = r
        BY <1>4, <1>5, <4>1, DivUnique
      <4> QED  BY <4>1, <4>2
    <3> QED  BY <3>1, <3>2
  <2> HIDE DEF g
  <2>3. pc' = IF pos = g + CheckerPeriod THEN "checker" ELSE "payload"
    BY <1>1, <2>2
  <2>4. \/ pc' = "payload" /\ g <= pos /\ pos < g + CheckerPeriod
        \/ pc' = "checker" /\ pos = g + CheckerPeriod
    BY <1>4, <1>5, <2>1, <2>3 DEF g
  <2> QED  BY <1>1, <2>1, <2>4 DEF TornAt, g
<1>12. TornAdding(s, q)'
  BY <1>1, <1>3, <1>9, <1>10, <1>11 DEF TornAdding, TornBuffer
<1>13. Torn!TypeOK'
  BY <1>1, <1>7, TornMemory DEF TornInv, Torn!TypeOK, Torn!Steps
<1>14. (\E r \in 0 .. ByteCount : \E p \in 0 .. ByteCount :
          TornBefore(r) /\ TornFits(r) /\ TornAdding(r, p))'
  BY <1>7, <1>8, <1>12
<1> QED  BY <1>1, <1>7, <1>13, <1>14 DEF TornInv, TornFilling

(* A line the checker word filled is written back.                         *)
LEMMA TornFlushChecker ==
  ASSUME TornInv, Torn!FlushChecker
  PROVE  TornInv'
<1>1. /\ pc = "flush_checker"
      /\ mem' = IF next_free % LineWords = 0 THEN WriteBackWords(mem, {next_free - 1}) ELSE mem
      /\ pc' = "payload"
      /\ writer' = writer /\ next_free' = next_free /\ entry' = entry /\ pos' = pos
      /\ buffer' = buffer /\ checker' = checker /\ log' = log
  BY TornMemory DEF Torn!FlushChecker, Torn!FlushLast, Torn!LineIsFull
<1>2. PICK s \in 0 .. ByteCount : \E q \in 0 .. ByteCount :
        TornBefore(s) /\ TornFits(s) /\ TornAdding(s, q)
  BY <1>1 DEF TornInv, TornFilling
<1>3. PICK q \in 0 .. ByteCount : TornBefore(s) /\ TornFits(s) /\ TornAdding(s, q)
  BY <1>2
<1>4. /\ s \in Nat /\ q \in Nat /\ CheckerPeriod * q \in Nat /\ s < next_free
  BY <1>3, TornNumbers
<1>5. /\ mem \in Memory(TornWords) /\ pos \in Nat /\ next_free \in Nat
      /\ CheckerPeriod \in Nat \ {0}
  BY TornFacts
<1>6. TornQuiet(mem, mem')
  BY <1>1, <1>5, TornQuiets
<1>7. mem' \in Memory(TornWords) /\ TornRest' /\ TornBefore(s)'
  BY <1>1, <1>3, <1>6, TornStays
<1>8. TornFits(s)'
  BY <1>1, <1>3, TornMemory DEF TornFits
<1>9. TornParts(mem', s, entry, next_free, pos, CheckerPeriod * q)
  BY <1>3, <1>4, <1>5, <1>6, TornPartsKept DEF TornAdding, TornQuiet
<1>10. TornFlushed(s)'
  <2> SUFFICES ASSUME writer = "MnemosyneAligned"
               PROVE  /\ \A a \in s .. next_free - 1 :
                           Flushed(mem', a) = Cached(mem', a) \/ LineOf(a) = LineOf(next_free - 1)
                      /\ next_free % LineWords = 0 =>
                           \A a \in s .. next_free - 1 : Flushed(mem', a) = Cached(mem', a)
    BY <1>1 DEF TornFlushed
  <2>1. \A a \in s .. next_free - 1 : Written(mem, a)
    BY <1>3 DEF TornAdding, TornParts
  <2>2. TornFlushed(s)
    BY <1>3 DEF TornAdding
  <2>3. \/ mem' = WriteBackWords(mem, {next_free - 1})
        \/ pc # "flush_tail" /\ next_free % LineWords # 0
    BY <1>1
  <2> QED  BY <1>4, <1>6, <2>1, <2>2, <2>3, TornFlush
<1>11. TornAt(q)'
  <2> DEFINE g == CheckerPeriod * q
  <2>1. pos <= Len(entry) /\ checker = pos - g /\ pos = g
    BY <1>1, <1>3 DEF TornAdding, TornAt
  <2>2. g <= pos /\ pos < g + CheckerPeriod
    BY <1>4, <1>5, <2>1
  <2> QED  BY <1>1, <2>1, <2>2 DEF TornAt
<1>12. TornAdding(s, q)'
  BY <1>1, <1>3, <1>9, <1>10, <1>11 DEF TornAdding, TornBuffer
<1>13. Torn!TypeOK'
  BY <1>1, <1>7, TornMemory DEF TornInv, Torn!TypeOK, Torn!Steps
<1>14. (\E r \in 0 .. ByteCount : \E p \in 0 .. ByteCount :
          TornBefore(r) /\ TornFits(r) /\ TornAdding(r, p))'
  BY <1>7, <1>8, <1>12
<1> QED  BY <1>1, <1>7, <1>13, <1>14 DEF TornInv, TornFilling

(* After the last payload word either a checker is left to write, or the   *)
(* last line to flush.                                                     *)
LEMMA TornEndPayload ==
  ASSUME TornInv, Torn!EndPayload
  PROVE  TornInv'
<1>1. /\ pc = "payload" /\ pos = Len(entry)
      /\ pc' = IF pos % CheckerPeriod # 0 THEN "tail" ELSE "flush_tail"
      /\ writer' = writer /\ mem' = mem /\ next_free' = next_free /\ entry' = entry /\ pos' = pos
      /\ buffer' = buffer /\ checker' = checker /\ log' = log
  BY DEF Torn!EndPayload
<1>2. PICK s \in 0 .. ByteCount : \E q \in 0 .. ByteCount :
        TornBefore(s) /\ TornFits(s) /\ TornAdding(s, q)
  BY <1>1 DEF TornInv, TornFilling
<1>3. PICK q \in 0 .. ByteCount : TornBefore(s) /\ TornFits(s) /\ TornAdding(s, q)
  BY <1>2
<1> DEFINE g == CheckerPeriod * q
<1>4. /\ s \in Nat /\ q \in Nat /\ g \in Nat /\ s < next_free /\ pos \in Nat \ {0}
  BY <1>1, <1>3, TornNumbers
<1>5. /\ mem \in Memory(TornWords) /\ next_free \in Nat /\ CheckerPeriod \in Nat \ {0}
  BY TornFacts
<1>6. g <= pos /\ pos < g + CheckerPeriod /\ checker = pos - g /\ next_free = s + 1 + pos + q
  BY <1>1, <1>3 DEF TornAdding, TornAt
<1>7. pos % CheckerPeriod = pos - g
  <2> DEFINE r == pos - g
  <2>1. r \in 0 .. CheckerPeriod - 1 /\ pos = g + r
    BY <1>4, <1>5, <1>6
  <2> HIDE DEF r
  <2>2. (CheckerPeriod * q + r) % CheckerPeriod = r
    BY <1>4, <1>5, <2>1, DivUnique
  <2> QED  BY <2>1, <2>2 DEF r
<1>8. TornBefore(s)' /\ TornFits(s)' /\ TornRest'
  BY <1>1, <1>3 DEF TornInv, TornBefore, TornSafe, TornFits, TornRest
<1>9. Torn!TypeOK'
  BY <1>1, TornMemory DEF TornInv, Torn!TypeOK, Torn!Steps
<1>10. CASE pos % CheckerPeriod # 0
  <2>1. pc' = "tail" /\ g < pos
    <3>1. pos - g # 0
      BY <1>7, <1>10
    <3> QED  BY <1>1, <1>4, <1>6, <1>10, <3>1
  <2>2. TornAt(q)'
    BY <1>1, <1>3, <1>6, <2>1 DEF TornAdding, TornAt
  <2>3. TornFlushed(s)'
    BY <1>1, <1>3, <2>1 DEF TornAdding, TornFlushed
  <2>4. TornAdding(s, q)'
    BY <1>1, <1>3, <2>2, <2>3 DEF TornAdding, TornBuffer
  <2>5. (\E r \in 0 .. ByteCount : \E p \in 0 .. ByteCount :
            TornBefore(r) /\ TornFits(r) /\ TornAdding(r, p))'
    BY <1>8, <2>4
  <2> QED  BY <1>8, <1>9, <2>1, <2>5 DEF TornInv, TornFilling
<1>11. CASE pos % CheckerPeriod = 0
  <2>1. pc' = "flush_tail" /\ pos = g
    BY <1>1, <1>4, <1>6, <1>7, <1>11
  <2>2. Torn!Checkers(pos) = q
    <3>1. q # 0
      BY <1>4, <1>5, <2>1
    <3>2. q - 1 \in Nat /\ CheckerPeriod * q = CheckerPeriod * (q - 1) + CheckerPeriod
      BY <1>4, <1>5, <3>1
    <3>3. CheckerPeriod * (q - 1) < pos /\ pos <= CheckerPeriod * (q - 1) + CheckerPeriod
      <4>1. CheckerPeriod * (q - 1) \in Nat
        BY <1>5, <3>2
      <4> QED  BY <1>4, <1>5, <2>1, <3>2, <4>1
    <3>4. Torn!Checkers(pos) = (q - 1) + 1
      BY <1>4, <3>2, <3>3, TornGroup
    <3> QED  BY <1>4, <3>4
  <2>3. next_free = s + Torn!Size(Len(entry))
    <3>1. Torn!Size(pos) = 1 + pos + q
      BY <1>4, <2>2, TornSizes
    <3> QED  BY <1>1, <1>4, <1>6, <3>1
  <2>4. TornLaid(mem, s, entry)
    BY <1>1, <1>3, <2>1, <2>3 DEF TornAdding, TornLaid
  <2>5. TornFlushed(s)'
    BY <1>1, <1>3, <2>1 DEF TornAdding, TornFlushed
  <2>6. TornAdded(s)'
    BY <1>1, <2>3, <2>4, <2>5 DEF TornAdded
  <2>7. (\E r \in 0 .. ByteCount : TornBefore(r) /\ TornFits(r) /\ TornAdded(r))'
    BY <1>8, <2>6
  <2> QED  BY <1>8, <1>9, <2>1, <2>7 DEF TornInv, TornFilling
<1> QED  BY <1>10, <1>11

\* k is in the group behind q full ones, whose last word is p, of n words.
TornInGroup(q, n, p, k) ==
  /\ CheckerPeriod * q < p /\ p <= CheckerPeriod * q + CheckerPeriod /\ p <= n
  /\ p = CheckerPeriod * q + CheckerPeriod \/ p = n
  /\ CheckerPeriod * q < k /\ k <= p

(* Its bit is in the checker word behind p.                                *)
LEMMA TornCovers ==
  ASSUME NEW q \in Nat, NEW n \in Nat, NEW p \in Nat, NEW s \in Nat, NEW k \in Nat,
         TornInGroup(q, n, p, k)
  PROVE  Torn!CheckerAddress(s, n, k) = s + p + q + 1 /\ Torn!CheckerBit(n, k) = p - k
  BY TornCover DEF TornInGroup

(* The checker word has the lowest bits of its group.                      *)
LEMMA TornChecked ==
  ASSUME TornInv, NEW s \in 0 .. ByteCount, NEW q \in 0 .. ByteCount, TornFits(s),
         TornAdding(s, q), CheckerPeriod * q < pos,
         pos = CheckerPeriod * q + CheckerPeriod \/ pos = Len(entry),
         NEW m, TornParts(m, s, entry, next_free + 1, pos, CheckerPeriod * q),
         Cached(m, next_free) = <<buffer, 1>>
  PROVE  TornParts(m, s, entry, next_free + 1, pos, pos)
<1> DEFINE g == CheckerPeriod * q
           n == Len(entry)
<1>1. /\ s \in Nat /\ q \in Nat /\ g \in Nat /\ s < next_free /\ n \in Nat \ {0} /\ pos <= n
      /\ pos <= g + CheckerPeriod
  BY TornNumbers
<1>2. next_free \in Nat /\ pos \in Nat /\ CheckerPeriod \in Nat \ {0}
  BY TornFacts
<1>3. next_free = s + 1 + pos + q
  BY DEF TornAdding
<1>4. next_free \in s .. (next_free + 1) - 1
  BY <1>1, <1>2
<1>5. ASSUME NEW k \in 1 .. pos, k > g
      PROVE  /\ Torn!CheckerAddress(s, n, k) = next_free
             /\ Torn!Halved(buffer, Torn!CheckerBit(n, k)) % 2 = entry[k][2]
  <2>1. k \in Nat /\ g < k /\ k <= pos /\ k \in g + 1 .. pos
    BY <1>1, <1>2, <1>5
  <2> HIDE DEF n
  <2>2. n \in Nat
    BY <1>1
  <2>3. Torn!CheckerAddress(s, n, k) = s + pos + q + 1 /\ Torn!CheckerBit(n, k) = pos - k
    <3>1. PICK x \in Nat : x = n
      BY <2>2
    <3>2. PICK p \in Nat : p = pos
      BY <1>2
    <3>3. TornInGroup(q, x, p, k)
      BY <1>1, <2>1, <3>1, <3>2 DEF n, TornInGroup
    <3>4. s \in Nat /\ q \in Nat /\ k \in Nat
      BY <1>1, <2>1
    <3>5. Torn!CheckerAddress(s, x, k) = s + p + q + 1 /\ Torn!CheckerBit(x, k) = p - k
      BY <3>3, <3>4, TornCovers
    <3> QED  BY <3>1, <3>2, <3>5
  <2>4. Torn!Halved(buffer, pos - k) % 2 = entry[k][2]
    BY <2>1 DEF TornAdding, TornBuffer
  <2> QED  BY <1>1, <1>2, <1>3, <2>3, <2>4
<1>6. ASSUME NEW k \in 1 .. pos
      PROVE  /\ Torn!CheckerAddress(s, n, k) \in s .. (next_free + 1) - 1
             /\ Torn!Halved(Cached(m, Torn!CheckerAddress(s, n, k))[1],
                            Torn!CheckerBit(n, k)) % 2 = entry[k][2]
  <2>1. CASE k > g
    <3>1. Cached(m, next_free)[1] = buffer
      OBVIOUS
    <3> QED  BY <1>4, <1>5, <2>1, <3>1
  <2>2. CASE k <= g
    <3>1. k \in 1 .. g
      BY <1>1, <1>2, <2>2
    <3> QED  BY <3>1 DEF TornParts
  <2> QED  BY <1>1, <1>2, <2>1, <2>2
<1> QED  BY <1>6 DEF TornParts

(* The checker word holds the last bits of its whole group.                *)
LEMMA TornWriteChecker ==
  ASSUME TornInv, Torn!WriteChecker
  PROVE  TornInv'
<1>1. /\ pc = "checker" /\ mem' = StoreWord(mem, next_free, <<buffer, 1>>)
      /\ next_free' = next_free + 1 /\ buffer' = 0 /\ checker' = 0 /\ pc' = "flush_checker"
      /\ writer' = writer /\ entry' = entry /\ pos' = pos /\ log' = log
  BY TornMemory DEF Torn!WriteChecker, Torn!PutWord
<1>2. PICK s \in 0 .. ByteCount : \E q \in 0 .. ByteCount :
        TornBefore(s) /\ TornFits(s) /\ TornAdding(s, q)
  BY <1>1 DEF TornInv, TornFilling
<1>3. PICK q \in 0 .. ByteCount : TornBefore(s) /\ TornFits(s) /\ TornAdding(s, q)
  BY <1>2
<1> DEFINE g == CheckerPeriod * q
<1>4. /\ s \in Nat /\ q \in Nat /\ g \in Nat /\ s < next_free /\ pos <= Len(entry)
      /\ Len(entry) \in Nat
  BY <1>3, TornNumbers
<1>5. /\ pos \in Nat /\ buffer \in Nat /\ next_free \in Nat /\ ByteCount \in Nat
      /\ CheckerPeriod \in Nat \ {0, 1}
  BY TornFacts
<1>6. pos = g + CheckerPeriod /\ next_free = s + 1 + pos + q
  BY <1>1, <1>3 DEF TornAdding, TornAt
<1>7. g < pos /\ g < Len(entry)
  BY <1>4, <1>5, <1>6
<1>8. /\ mem' \in Memory(TornWords) /\ next_free' \in 0 .. ByteCount
      /\ TornRest' /\ TornBefore(s)' /\ TornFits(s)' /\ TornFlushed(s)'
      /\ TornParts(mem', s, entry, next_free + 1, pos, g)
      /\ Cached(mem', next_free) = <<buffer, 1>>
  <2>1. pc \in {"payload", "checker", "tail"} /\ pc' \in {"flush", "flush_checker", "flush_tail"}
    BY <1>1
  <2> QED  BY <1>1, <1>3, <1>5, <1>7, <2>1, TornPutInEntry
<1>9. TornParts(mem', s, entry, next_free', pos, pos)
  BY <1>1, <1>3, <1>6, <1>7, <1>8, TornChecked
<1>10. PICK p \in 0 .. ByteCount : p = q + 1
  <2>1. q + 1 <= next_free'
    BY <1>1, <1>4, <1>5, <1>6
  <2> QED  BY <1>4, <1>5, <1>8, <2>1
<1>11. CheckerPeriod * p = pos
  <2>1. CheckerPeriod * (q + 1) = CheckerPeriod * q + CheckerPeriod
    BY <1>4, <1>5
  <2> QED  BY <1>6, <1>10, <2>1
<1>12. TornAdding(s, p)'
  <2>1. next_free' = s + 1 + pos' + p
    BY <1>1, <1>4, <1>5, <1>6, <1>10
  <2>2. TornAt(p)'
    BY <1>1, <1>4, <1>5, <1>11 DEF TornAt
  <2>3. TornBuffer(CheckerPeriod * p)'
    <3>1. pos + 1 .. pos = {}
      BY <1>5
    <3> QED  BY <1>1, <1>11, <3>1 DEF TornBuffer
  <2> QED  BY <1>1, <1>8, <1>9, <1>11, <2>1, <2>2, <2>3 DEF TornAdding
<1>13. (\E r \in 0 .. ByteCount : \E x \in 0 .. ByteCount :
          TornBefore(r) /\ TornFits(r) /\ TornAdding(r, x))'
  BY <1>8, <1>12
<1>14. Torn!TypeOK'
  <2>1. mem' \in [Torn!LogLines -> Torn!LineSet([Torn!Slots -> Nat \X Torn!Bit])]
    BY <1>8, TornMemory
  <2>2. checker' \in 0 .. CheckerPeriod /\ buffer' \in Nat
    BY <1>1, <1>5
  <2>3. next_free' \in 0 .. Torn!ByteCount
    BY <1>8, TornMemory
  <2> QED  BY <1>1, <2>1, <2>2, <2>3 DEF TornInv, Torn!TypeOK, Torn!Steps
<1> QED  BY <1>1, <1>8, <1>13, <1>14 DEF TornInv, TornFilling

(* The last checker word holds the bits of a group that is not full.       *)
LEMMA TornWriteTail ==
  ASSUME TornInv, Torn!WriteTail
  PROVE  TornInv'
<1>1. /\ pc = "tail" /\ mem' = StoreWord(mem, next_free, <<buffer, 1>>)
      /\ next_free' = next_free + 1 /\ pc' = "flush_tail"
      /\ writer' = writer /\ entry' = entry /\ pos' = pos /\ log' = log
      /\ buffer' = buffer /\ checker' = checker
  BY TornMemory DEF Torn!WriteTail, Torn!PutWord
<1>2. PICK s \in 0 .. ByteCount : \E q \in 0 .. ByteCount :
        TornBefore(s) /\ TornFits(s) /\ TornAdding(s, q)
  BY <1>1 DEF TornInv, TornFilling
<1>3. PICK q \in 0 .. ByteCount : TornBefore(s) /\ TornFits(s) /\ TornAdding(s, q)
  BY <1>2
<1> DEFINE g == CheckerPeriod * q
<1>4. /\ s \in Nat /\ q \in Nat /\ g \in Nat /\ s < next_free /\ Len(entry) \in Nat
  BY <1>3, TornNumbers
<1>5. /\ pos \in Nat /\ buffer \in Nat /\ next_free \in Nat /\ ByteCount \in Nat
      /\ CheckerPeriod \in Nat \ {0, 1}
  BY TornFacts
<1>6. /\ pos = Len(entry) /\ g < pos /\ pos < g + CheckerPeriod
      /\ next_free = s + 1 + pos + q
  BY <1>1, <1>3 DEF TornAdding, TornAt
<1>7. /\ mem' \in Memory(TornWords) /\ next_free' \in 0 .. ByteCount
      /\ TornRest' /\ TornBefore(s)' /\ TornFits(s)' /\ TornFlushed(s)'
      /\ TornParts(mem', s, entry, next_free + 1, pos, g)
      /\ Cached(mem', next_free) = <<buffer, 1>>
  <2>1. pc \in {"payload", "checker", "tail"} /\ pc' \in {"flush", "flush_checker", "flush_tail"}
    BY <1>1
  <2> QED  BY <1>1, <1>3, <1>5, <1>6, <2>1, TornPutInEntry
<1>8. TornParts(mem', s, entry, next_free', pos, pos)
  BY <1>1, <1>3, <1>6, <1>7, TornChecked
<1>9. next_free' = s + Torn!Size(Len(entry))
  <2>1. Torn!Checkers(pos) = q + 1
    BY <1>4, <1>5, <1>6, TornGroup
  <2>2. Torn!Size(pos) = 1 + pos + (q + 1)
    BY <1>5, <2>1, TornSizes
  <2> QED  BY <1>1, <1>4, <1>5, <1>6, <2>2
<1>10. TornAdded(s)'
  <2>1. TornLaid(mem', s, entry)
    BY <1>6, <1>8, <1>9 DEF TornLaid
  <2> QED  BY <1>1, <1>7, <1>9, <2>1 DEF TornAdded
<1>11. (\E r \in 0 .. ByteCount : TornBefore(r) /\ TornFits(r) /\ TornAdded(r))'
  BY <1>7, <1>10
<1>12. Torn!TypeOK'
  <2>1. mem' \in [Torn!LogLines -> Torn!LineSet([Torn!Slots -> Nat \X Torn!Bit])]
    BY <1>7, TornMemory
  <2>2. next_free' \in 0 .. Torn!ByteCount
    BY <1>7, TornMemory
  <2> QED  BY <1>1, <2>1, <2>2 DEF TornInv, Torn!TypeOK, Torn!Steps
<1> QED  BY <1>1, <1>7, <1>11, <1>12 DEF TornInv, TornFilling

(* Once the last word is stored the whole entry lies in the memory.        *)
LEMMA TornAddedFacts ==
  ASSUME TornInv, NEW s \in 0 .. ByteCount, TornFits(s), TornAdded(s)
  PROVE  /\ s \in Nat /\ s < next_free /\ entry \in Torn!Entries
         /\ next_free = s + Torn!Size(Len(entry))
         /\ TornParts(mem, s, entry, next_free, Len(entry), Len(entry))
<1>1. s \in Nat /\ entry \in Torn!Entries
  BY TornFacts DEF TornFits
<1>2. Torn!Size(Len(entry)) \in Nat \ {0}
  BY <1>1, TornEntries, TornSizes
<1>3. next_free = s + Torn!Size(Len(entry)) /\ TornLaid(mem, s, entry)
  BY DEF TornAdded
<1> QED  BY <1>1, <1>2, <1>3 DEF TornLaid

(* The last line is written back before the fence.                         *)
LEMMA TornFlushTail ==
  ASSUME TornInv, Torn!FlushTail
  PROVE  TornInv'
<1>1. /\ pc = "flush_tail" /\ mem' = WriteBackWords(mem, {next_free - 1}) /\ pc' = "fence"
      /\ writer' = writer /\ next_free' = next_free /\ entry' = entry /\ pos' = pos
      /\ buffer' = buffer /\ checker' = checker /\ log' = log
  BY TornMemory DEF Torn!FlushTail, Torn!FlushLast
<1>2. PICK s \in 0 .. ByteCount : TornBefore(s) /\ TornFits(s) /\ TornAdded(s)
  BY <1>1 DEF TornInv
<1>3. /\ s \in Nat /\ s < next_free /\ entry \in Torn!Entries
      /\ next_free = s + Torn!Size(Len(entry))
      /\ TornParts(mem, s, entry, next_free, Len(entry), Len(entry))
  BY <1>2, TornAddedFacts
<1>4. mem \in Memory(TornWords) /\ next_free \in Nat
  BY TornFacts
<1>5. TornQuiet(mem, mem')
  BY <1>1, <1>4, TornQuiets
<1>6. mem' \in Memory(TornWords) /\ TornRest' /\ TornBefore(s)'
  BY <1>1, <1>2, <1>5, TornStays
<1>7. TornFits(s)'
  BY <1>1, <1>2, TornMemory DEF TornFits
<1>8. TornParts(mem', s, entry, next_free, Len(entry), Len(entry))
  BY <1>3, <1>4, <1>5, TornPartsKept DEF TornQuiet
<1>9. TornFlushed(s)'
  <2> SUFFICES ASSUME writer = "MnemosyneAligned"
               PROVE  \A a \in s .. next_free - 1 : Flushed(mem', a) = Cached(mem', a)
    BY <1>1 DEF TornFlushed
  <2>1. \A a \in s .. next_free - 1 : Written(mem, a)
    BY <1>3 DEF TornParts
  <2>2. TornFlushed(s)
    BY <1>2 DEF TornAdded
  <2> QED  BY <1>1, <1>3, <1>5, <2>1, <2>2, TornFlush
<1>10. TornAdded(s)'
  BY <1>1, <1>3, <1>8, <1>9 DEF TornAdded, TornLaid
<1>11. (\E r \in 0 .. ByteCount : TornBefore(r) /\ TornFits(r) /\ TornAdded(r))'
  BY <1>6, <1>7, <1>10
<1>12. Torn!TypeOK'
  BY <1>1, <1>6, TornMemory DEF TornInv, Torn!TypeOK, Torn!Steps
<1> QED  BY <1>1, <1>6, <1>11, <1>12 DEF TornInv, TornFilling

(* When a call returns the entry is the last one of the log.               *)
LEMMA TornFenceAndReturn ==
  ASSUME TornInv, Torn!FenceAndReturn
  PROVE  TornInv'
<1>1. /\ pc = "fence" /\ mem' = Fence(mem) /\ pc' = "idle"
      /\ next_free' = TornAfter(writer, next_free) /\ log' = Append(log, entry)
      /\ entry' = <<>> /\ pos' = 0
      /\ writer' = writer /\ buffer' = buffer /\ checker' = checker
  BY TornMemory DEF Torn!FenceAndReturn
<1>2. PICK s \in 0 .. ByteCount : TornBefore(s) /\ TornFits(s) /\ TornAdded(s)
  BY <1>1 DEF TornInv
<1>3. /\ s \in Nat /\ s < next_free /\ entry \in Torn!Entries
      /\ next_free = s + Torn!Size(Len(entry))
      /\ TornParts(mem, s, entry, next_free, Len(entry), Len(entry))
  BY <1>2, TornAddedFacts
<1>4. /\ mem \in Memory(TornWords) /\ next_free \in Nat /\ log \in Seq(Torn!Entries)
      /\ ByteCount \in Nat /\ next_free <= ByteCount
  BY TornFacts
<1>5. TornQuiet(mem, mem')
  BY <1>1, <1>4, TornQuiets
<1>6. mem' \in Memory(TornWords) /\ TornKeeps(mem, mem') /\ Keeps(mem, mem', Addresses)
  BY <1>5 DEF TornQuiet
<1>7. /\ TornAfter(writer, next_free) \in Nat /\ next_free <= TornAfter(writer, next_free)
      /\ TornAfter(writer, next_free) <= ByteCount
      /\ writer = "MnemosyneAligned" => TornAfter(writer, next_free) % LineWords = 0
  <2>1. PICK x \in Nat : x = next_free
    BY <1>4
  <2>2. /\ RoundUp(x) \in Nat /\ x <= RoundUp(x) /\ RoundUp(x) % LineWords = 0
        /\ x <= ByteCount => RoundUp(x) <= ByteCount
    BY RoundUpBounds
  <2>3. x <= ByteCount
    BY <1>4, <2>1
  <2>4. /\ TornAfter(writer, x) \in Nat /\ x <= TornAfter(writer, x)
        /\ TornAfter(writer, x) <= ByteCount
        /\ writer = "MnemosyneAligned" => TornAfter(writer, x) % LineWords = 0
    <3>1. CASE writer = "MnemosyneAligned"
      <4>1. TornAfter(writer, x) = RoundUp(x)
        BY <3>1 DEF TornAfter
      <4> QED  BY <2>2, <2>3, <4>1, Zenon
    <3>2. CASE writer # "MnemosyneAligned"
      <4>1. TornAfter(writer, x) = x
        BY <3>2 DEF TornAfter
      <4>2. x <= x
        OBVIOUS
      <4> QED  BY <2>1, <2>3, <3>2, <4>1, <4>2, Zenon
    <3> QED  BY <3>1, <3>2
  <2> QED  BY <2>1, <2>4
<1>8. PICK t \in 0 .. ByteCount : t = TornAfter(writer, next_free)
  BY <1>4, <1>7
<1>9. TornRest'
  <2>1. ASSUME NEW a \in Addresses, a >= t
        PROVE  Settled(mem', a, Torn!Zero)
    <3>1. a \in Nat /\ a >= next_free
      BY <1>4, <1>7, <1>8, <2>1, AddressParts
    <3>2. Settled(mem, a, Torn!Zero)
      BY <3>1 DEF TornInv, TornRest
    <3> QED  BY <1>6, <3>2 DEF Keeps
  <2> QED  BY <1>1, <1>8, <2>1, TornMemory DEF TornRest
<1>10. Places(log', t, TornPlaces(writer, mem'))
  <2>1. Places(log, s, TornPlaces(writer, mem'))
    BY <1>2, <1>3, <1>4, <1>6, TornPlacesKept DEF TornBefore
  <2>2. TornLaid(mem', s, entry)
    BY <1>3, <1>4, <1>6, TornPartsKept DEF TornLaid
  <2>3. <<s, entry, t>> \in TornPlaces(writer, mem')
    BY <1>3, <1>7, <1>8, <2>2 DEF TornPlaces, TornEnd
  <2>4. s <= t /\ t \in Nat
    BY <1>3, <1>4, <1>7, <1>8
  <2>5. PICK e \in Torn!Entries : e = entry
    BY <1>3
  <2>6. PICK found \in Seq(Torn!Entries) : found = log
    BY <1>4
  <2>7. Places(Append(found, e), t, TornPlaces(writer, mem'))
    BY <1>3, <2>1, <2>3, <2>4, <2>5, <2>6, PlacesAppend
  <2> QED  BY <1>1, <2>5, <2>6, <2>7
<1>11. TornSafe(t)'
  <2> SUFFICES ASSUME writer = "MnemosyneAligned", NEW a \in Addresses, a < t
               PROVE  Settled(mem', a, Cached(mem', a))
    BY <1>1, <1>7, <1>8 DEF TornSafe
  <2>1. a \in Nat
    BY AddressParts
  <2>2. CASE a < s
    <3>1. Settled(mem, a, Cached(mem, a))
      BY <1>2, <2>2 DEF TornBefore, TornSafe
    <3>2. Settled(mem', a, Cached(mem, a))
      BY <1>6, <3>1 DEF Keeps
    <3> QED  BY <3>2 DEF Settled
  <2>3. CASE a >= s /\ a < next_free
    <3>1. a \in s .. next_free - 1
      BY <1>3, <1>4, <2>1, <2>3
    <3>2. Flushed(mem, a) = Cached(mem, a)
      BY <1>1, <1>2, <3>1 DEF TornAdded, TornFlushed
    <3>3. /\ Cached(Fence(mem), a) = Cached(mem, a) /\ Flushed(Fence(mem), a) = Flushed(mem, a)
          /\ Durable(Fence(mem), a) = Flushed(mem, a)
      BY <1>4, FenceOps
    <3> QED  BY <1>1, <3>2, <3>3 DEF Settled
  <2>4. CASE a >= next_free
    <3>1. Settled(mem, a, Torn!Zero)
      BY <2>4 DEF TornInv, TornRest
    <3>2. Settled(mem', a, Torn!Zero)
      BY <1>6, <3>1 DEF Keeps
    <3> QED  BY <3>2 DEF Settled
  <2> QED  BY <1>3, <1>4, <2>1, <2>2, <2>3, <2>4
<1>12. (TornBefore(next_free))'
  <2>1. TornSafe(next_free)'
    BY <1>1, <1>8, <1>11 DEF TornSafe
  <2> QED  BY <1>1, <1>8, <1>10, <2>1 DEF TornBefore
<1>13. Torn!TypeOK'
  <2>1. mem' \in [Torn!LogLines -> Torn!LineSet([Torn!Slots -> Nat \X Torn!Bit])]
    BY <1>6, TornMemory
  <2>2. next_free' \in 0 .. Torn!ByteCount
    BY <1>1, <1>8, TornMemory
  <2>3. pos' \in 0 .. MaxPayload
    BY <1>1, TornFacts
  <2>4. log' \in Seq(Torn!Entries)
    BY <1>1, <1>3, <1>4, AppendProperties
  <2> QED  BY <1>1, <2>1, <2>2, <2>3, <2>4 DEF TornInv, Torn!TypeOK, Torn!Steps
<1> QED  BY <1>1, <1>9, <1>12, <1>13 DEF TornInv, TornFilling

(* What the cache writes back on its own disturbs nothing.                 *)
LEMMA TornDrift ==
  ASSUME TornInv, Torn!Drift
  PROVE  TornInv'
<1>1. /\ mem' \in LineDrift(mem) /\ writer' = writer /\ next_free' = next_free /\ pc' = pc
      /\ entry' = entry /\ pos' = pos /\ buffer' = buffer /\ checker' = checker /\ log' = log
  BY TornMemory DEF Torn!Drift
<1>2. mem \in Memory(TornWords) /\ next_free \in Nat
  BY TornFacts
<1>3. TornQuiet(mem, mem')
  BY <1>1, <1>2, TornQuiets
<1>4. TornKeeps(mem, mem')
  BY <1>3 DEF TornQuiet
<1>5. ASSUME NEW s \in 0 .. ByteCount, TornBefore(s)
      PROVE  mem' \in Memory(TornWords) /\ TornRest' /\ TornBefore(s)'
  BY <1>1, <1>3, <1>5, TornStays
<1>6. ASSUME NEW s, TornFits(s) PROVE TornFits(s)'
  BY <1>1, <1>6, TornMemory DEF TornFits
<1>7. ASSUME NEW s, TornFlushed(s), \A a \in s .. next_free - 1 : Written(mem, a)
      PROVE  TornFlushed(s)'
  <2>1. \A a \in s .. next_free - 1 :
          Flushed(mem, a) = Cached(mem, a) => Flushed(mem', a) = Cached(mem', a)
    BY <1>4, <1>7 DEF TornKeeps
  <2> QED  BY <1>1, <1>7, <2>1 DEF TornFlushed
<1>8. Torn!TypeOK'
  <2>1. mem' \in [Torn!LogLines -> Torn!LineSet([Torn!Slots -> Nat \X Torn!Bit])]
    BY <1>3, TornMemory DEF TornQuiet
  <2> QED  BY <1>1, <2>1 DEF TornInv, Torn!TypeOK
<1>9. CASE pc = "idle"
  <2>1. next_free \in 0 .. ByteCount /\ TornBefore(next_free) /\ entry = <<>>
    BY <1>9, TornFacts DEF TornInv
  <2>2. TornRest' /\ TornBefore(next_free)'
    <3>1. PICK s \in 0 .. ByteCount : s = next_free
      BY <2>1
    <3>2. TornRest' /\ TornBefore(s)'
      BY <1>5, <2>1, <3>1
    <3>3. s = next_free'
      BY <1>1, <3>1
    <3> QED  BY <3>2, <3>3 DEF TornBefore, TornSafe
  <2> QED  BY <1>1, <1>8, <1>9, <2>1, <2>2 DEF TornInv, TornFilling
<1>10. CASE pc = "length"
  <2>1. next_free \in 0 .. ByteCount /\ TornBefore(next_free) /\ TornFits(next_free)
    BY <1>10, TornFacts DEF TornInv
  <2>2. TornRest' /\ TornBefore(next_free)' /\ TornFits(next_free)'
    <3>1. PICK s \in 0 .. ByteCount : s = next_free
      BY <2>1
    <3>2. TornRest' /\ TornBefore(s)' /\ TornFits(s)'
      BY <1>5, <1>6, <2>1, <3>1
    <3>3. s = next_free'
      BY <1>1, <3>1
    <3> QED  BY <3>2, <3>3 DEF TornBefore, TornSafe, TornFits
  <2> QED  BY <1>1, <1>8, <1>10, <2>2 DEF TornInv, TornFilling
<1>11. CASE pc \in TornFilling
  <2>1. PICK s \in 0 .. ByteCount : \E q \in 0 .. ByteCount :
          TornBefore(s) /\ TornFits(s) /\ TornAdding(s, q)
    BY <1>11 DEF TornInv
  <2>2. PICK q \in 0 .. ByteCount : TornBefore(s) /\ TornFits(s) /\ TornAdding(s, q)
    BY <2>1
  <2>3. /\ s \in Nat /\ s < next_free
    BY <2>2, TornNumbers
  <2>4. TornRest' /\ TornBefore(s)' /\ TornFits(s)'
    BY <1>5, <1>6, <2>2
  <2>5. TornParts(mem', s, entry, next_free, pos, CheckerPeriod * q)
    BY <1>2, <1>4, <2>2, <2>3, TornPartsKept DEF TornAdding
  <2>6. TornFlushed(s)'
    BY <1>7, <2>2 DEF TornAdding, TornParts
  <2>7. TornAt(q)'
    BY <1>1, <2>2 DEF TornAdding, TornAt
  <2>8. TornAdding(s, q)'
    BY <1>1, <2>2, <2>5, <2>6, <2>7 DEF TornAdding, TornBuffer
  <2>9. (\E r \in 0 .. ByteCount : \E p \in 0 .. ByteCount :
            TornBefore(r) /\ TornFits(r) /\ TornAdding(r, p))'
    BY <2>4, <2>8
  <2> QED  BY <1>1, <1>8, <1>11, <2>4, <2>9 DEF TornInv, TornFilling
<1>12. CASE pc \in {"flush_tail", "fence"}
  <2>1. PICK s \in 0 .. ByteCount : TornBefore(s) /\ TornFits(s) /\ TornAdded(s)
    BY <1>12 DEF TornInv
  <2>2. /\ s \in Nat /\ s < next_free
        /\ next_free = s + Torn!Size(Len(entry))
        /\ TornParts(mem, s, entry, next_free, Len(entry), Len(entry))
    BY <2>1, TornAddedFacts
  <2>3. TornRest' /\ TornBefore(s)' /\ TornFits(s)'
    BY <1>5, <1>6, <2>1
  <2>4. TornParts(mem', s, entry, next_free, Len(entry), Len(entry))
    BY <1>2, <1>4, <2>2, TornPartsKept
  <2>5. TornFlushed(s)'
    BY <1>7, <2>1, <2>2 DEF TornAdded, TornParts
  <2>6. TornAdded(s)'
    BY <1>1, <2>2, <2>4, <2>5 DEF TornAdded, TornLaid
  <2>7. (\E r \in 0 .. ByteCount : TornBefore(r) /\ TornFits(r) /\ TornAdded(r))'
    BY <2>3, <2>6
  <2> QED  BY <1>1, <1>8, <1>12, <2>3, <2>7 DEF TornInv, TornFilling
<1>13. pc \in {"idle", "length"} \union TornFilling \union {"flush_tail", "fence"}
  BY TornFacts DEF Torn!Steps, TornFilling
<1> QED  BY <1>9, <1>10, <1>11, <1>12, <1>13

\* The words an entry at s takes by its length in NVM have their torn bits there.
TornWhole(m, s) ==
  /\ Durable(m, s)[2] = 1
  /\ s + Torn!Size(Durable(m, s)[1]) <= ByteCount
  /\ \A a \in s .. (s + Torn!Size(Durable(m, s)[1])) - 1 : Durable(m, a)[2] = 1

\* What is made of them.
TornLowest(m, s, k) ==
  Torn!Halved(Durable(m, Torn!CheckerAddress(s, Durable(m, s)[1], k))[1],
              Torn!CheckerBit(Durable(m, s)[1], k)) % 2
TornPayload(m, s) ==
  [k \in 1 .. Durable(m, s)[1] |->
     <<Durable(m, Torn!PayloadAddress(s, k))[1], TornLowest(m, s, k)>>]

(* A written word whose torn bit is in NVM is there.                       *)
LEMMA TornBitTells ==
  ASSUME NEW m, NEW a, Written(m, a)
  PROVE  Durable(m, a)[2] = 1 <=> Durable(m, a) = Cached(m, a)
  BY TornZero DEF Written, Rising

(* An entry all of which has its torn bits is read as it was written ...   *)
LEMMA TornEntryRead ==
  ASSUME NEW m, NEW s \in Nat, NEW e \in Torn!Entries, TornLaid(m, s, e), TornWhole(m, s)
  PROVE  Durable(m, s)[1] = Len(e) /\ TornPayload(m, s) = e
<1> DEFINE n == Len(e)
           D(a) == Durable(m, a)
<1>1. e \in Seq(Nat \X Torn!Bit) /\ n \in Nat \ {0}
  BY TornEntries
<1>2. Torn!Size(n) \in Nat \ {0}
  BY <1>1, TornSizes
<1> DEFINE to == s + Torn!Size(n)
<1>3. s \in s .. to - 1
  BY <1>2
<1>4. /\ Cached(m, s) = <<n, 1>> /\ \A a \in s .. to - 1 : Written(m, a)
      /\ \A k \in 1 .. n :
           /\ Torn!PayloadAddress(s, k) \in s .. to - 1
           /\ Cached(m, Torn!PayloadAddress(s, k)) = <<e[k][1], 1>>
      /\ \A k \in 1 .. n :
           /\ Torn!CheckerAddress(s, n, k) \in s .. to - 1
           /\ Torn!Halved(Cached(m, Torn!CheckerAddress(s, n, k))[1],
                          Torn!CheckerBit(n, k)) % 2 = e[k][2]
  BY DEF TornLaid, TornParts
<1>5. D(s) = Cached(m, s)
  BY <1>3, <1>4, TornBitTells DEF TornWhole
<1>6. D(s)[1] = n
  BY <1>4, <1>5
<1>7. \A a \in s .. to - 1 : D(a) = Cached(m, a)
  <2>1. \A a \in s .. to - 1 : D(a)[2] = 1
    BY <1>6 DEF TornWhole
  <2> QED  BY <1>4, <2>1, TornBitTells
<1> HIDE DEF to
<1>8. ASSUME NEW k \in 1 .. n
      PROVE  <<D(Torn!PayloadAddress(s, k))[1], TornLowest(m, s, k)>> = e[k]
  <2>1. D(Torn!PayloadAddress(s, k)) = <<e[k][1], 1>>
    BY <1>4, <1>7
  <2>2. D(Torn!PayloadAddress(s, k))[1] = e[k][1]
    BY <2>1
  <2>3. D(Torn!CheckerAddress(s, n, k)) = Cached(m, Torn!CheckerAddress(s, n, k))
    BY <1>4, <1>7
  <2>4. Torn!Halved(D(Torn!CheckerAddress(s, n, k))[1], Torn!CheckerBit(n, k)) % 2 = e[k][2]
    BY <1>4, <2>3
  <2>5. TornLowest(m, s, k) = e[k][2]
    BY <1>6, <2>4 DEF TornLowest
  <2>6. e[k] = <<e[k][1], e[k][2]>>
    BY TornEntries
  <2> QED  BY <2>2, <2>5, <2>6
<1>9. e = [k \in 1 .. n |-> e[k]]
  BY <1>1
<1>10. TornPayload(m, s) = [k \in 1 .. n |-> <<D(Torn!PayloadAddress(s, k))[1], TornLowest(m, s, k)>>]
  BY <1>6 DEF TornPayload
<1> HIDE DEF D, n
<1>11. TornPayload(m, s) = e
  BY <1>8, <1>9, <1>10
<1> QED  BY <1>6, <1>11 DEF D, n

(* ... and one that has all arrived has them.                              *)
LEMMA TornArrivedIsWhole ==
  ASSUME NEW m, NEW s \in Nat, NEW e \in Torn!Entries, TornLaid(m, s, e),
         s + Torn!Size(Len(e)) <= ByteCount,
         \A a \in s .. (s + Torn!Size(Len(e))) - 1 : Durable(m, a) = Cached(m, a)
  PROVE  TornWhole(m, s)
<1> DEFINE n == Len(e)
           to == s + Torn!Size(n)
<1>1. n \in Nat
  BY TornEntries
<1>2. Torn!Size(n) \in Nat \ {0}
  BY <1>1, TornSizes
<1>3. s \in s .. to - 1
  BY <1>2
<1>4. Cached(m, s) = <<n, 1>> /\ \A a \in s .. to - 1 : Cached(m, a)[2] = 1
  BY DEF TornLaid, TornParts, Written
<1>5. Durable(m, s) = <<n, 1>>
  BY <1>3, <1>4
<1>6. Durable(m, s)[1] = n /\ Durable(m, s)[2] = 1
  BY <1>5
<1> QED  BY <1>4, <1>6 DEF TornWhole

\* What a power failure leaves of the entries found.
TornFound(found, end) ==
  /\ \E i \in 0 .. Len(found) : Torn!Recovered = SubSeq(found, 1, i)
  /\ (\A a \in Addresses : a < end => Durable(mem, a) = Cached(mem, a)) => Torn!Recovered = found

(* A log that ends where no entry is whole is read entry by entry: all of  *)
(* it if it has arrived, or from its front.                                *)
LEMMA TornReading ==
  ASSUME mem \in Memory(TornWords), NEW end \in 0 .. ByteCount,
         end < ByteCount => ~ TornWhole(mem, end),
         NEW found \in Seq(Torn!Entries), Places(found, end, TornPlaces(writer, mem))
  PROVE  TornFound(found, end)
<1> DEFINE D(s) == Durable(mem, s)
           n(s) == D(s)[1]
           p(s) == TornPayload(mem, s)
           to(s) == TornAfter(writer, s + Torn!Size(n(s)))
           W == {s \in 0 .. ByteCount : s < ByteCount /\ TornWhole(mem, s)}
           P == [s \in W |-> p(s)]
           N == [s \in W |-> to(s)]
           read == CHOOSE f : IsReading(f, ByteCount, W, P, N)
<1>1. ByteCount \in Nat
  BY LogMemoryAssumption DEF ByteCount
<1>2. ASSUME NEW s \in 0 .. ByteCount, s < ByteCount
      PROVE  n(s) \in Nat
  <2>1. s \in Addresses
    BY <1>1, <1>2 DEF Addresses
  <2>2. D(s) \in Nat \X Torn!Bit
    BY <2>1, WordTypes DEF TornWords
  <2> HIDE DEF D
  <2> QED  BY <2>2
<1>3. Torn!Recovered = read[0]
  <2> DEFINE tD(s) == Torn!Durable(mem, s)
             tw(s) == /\ tD(s)[2] = 1
                      /\ s + Torn!Size(tD(s)[1]) <= Torn!ByteCount
                      /\ \A a \in s .. (s + Torn!Size(tD(s)[1])) - 1 : tD(a)[2] = 1
             tp(s) == [k \in 1 .. tD(s)[1] |->
                         <<tD(Torn!PayloadAddress(s, k))[1],
                           Torn!Halved(tD(Torn!CheckerAddress(s, tD(s)[1], k))[1],
                                       Torn!CheckerBit(tD(s)[1], k)) % 2>>]
             tn(s) == Torn!After(s + Torn!Size(tD(s)[1]))
             F(s, f) == IF s < Torn!ByteCount /\ tw(s) THEN <<tp(s)>> \o f[tn(s)] ELSE <<>>
             G(f) == f = [s \in 0 .. Torn!ByteCount |-> F(s, f)]
  <2>1. Torn!Recovered = (CHOOSE f : G(f))[0]
    BY DEF Torn!Recovered, Torn!ReadLog
  <2>2. ASSUME NEW f
        PROVE  G(f) <=> IsReading(f, ByteCount, W, P, N)
    <3>1. ASSUME NEW s \in 0 .. ByteCount
          PROVE  F(s, f) = (IF s \in W THEN <<P[s]>> \o f[N[s]] ELSE <<>>)
      <4>1. /\ Torn!ByteCount = ByteCount /\ \A a : tD(a) = D(a)
            /\ \A x : Torn!After(x) = TornAfter(writer, x)
        BY TornMemory
      <4>2. tp(s) = p(s)
        BY <4>1 DEF TornPayload, TornLowest
      <4>3. tn(s) = to(s)
        BY <4>1
      <4>4. tw(s) <=> TornWhole(mem, s)
        BY <4>1 DEF TornWhole
      <4>5. s \in W => P[s] = p(s) /\ N[s] = to(s)
        OBVIOUS
      <4>6. s \in W <=> s < ByteCount /\ TornWhole(mem, s)
        OBVIOUS
      <4> HIDE DEF tD, tw, tp, tn, D, n, p, to, W, P, N
      <4> QED  BY <4>1, <4>2, <4>3, <4>4, <4>5, <4>6
    <3> HIDE DEF F, W, P, N
    <3> QED  BY <3>1, TornMemory DEF IsReading
  <2> HIDE DEF G
  <2>3. (CHOOSE f : G(f)) = read
    BY <2>2
  <2> QED  BY <2>1, <2>3
<1>4. ASSUME NEW s \in W
      PROVE  N[s] \in s + 1 .. ByteCount
  <2>1. s \in Nat /\ s < ByteCount /\ n(s) \in Nat /\ s + Torn!Size(n(s)) <= ByteCount
    BY <1>1, <1>2 DEF TornWhole
  <2> DEFINE d == n(s)
  <2>2. N[s] = TornAfter(writer, s + Torn!Size(d))
    OBVIOUS
  <2> HIDE DEF d
  <2>3. d \in Nat /\ s + Torn!Size(d) <= ByteCount
    BY <2>1 DEF d
  <2>4. PICK x \in Nat : x = d
    BY <2>3
  <2>5. /\ Torn!Size(x) \in Nat \ {0}
        /\ TornAfter(writer, s + Torn!Size(x)) \in Nat
        /\ s + Torn!Size(x) <= TornAfter(writer, s + Torn!Size(x))
        /\ s + Torn!Size(x) <= ByteCount => TornAfter(writer, s + Torn!Size(x)) <= ByteCount
    BY <2>1, TornSizes
  <2>6. TornAfter(writer, s + Torn!Size(x)) \in s + 1 .. ByteCount
    BY <1>1, <2>1, <2>3, <2>4, <2>5
  <2> QED  BY <2>2, <2>4, <2>6
<1>5. Reader(read, ByteCount, W, P, N)
  <2> HIDE DEF W, P, N
  <2>1. GoesForward(ByteCount, W, N)
    BY <1>4 DEF GoesForward
  <2> QED  BY <1>1, <2>1, ChosenReader
<1>6. ASSUME NEW s \in 0 .. end, NEW t \in 0 .. end, NEW e \in Torn!Entries,
             <<s, e, t>> \in TornPlaces(writer, mem), s \in W
      PROVE  P[s] = e /\ N[s] = t
  <2>1. t = TornEnd(writer, s, e) /\ TornLaid(mem, s, e) /\ s \in Nat /\ TornWhole(mem, s)
    BY <1>1, <1>6 DEF TornPlaces
  <2>2. n(s) = Len(e) /\ p(s) = e
    BY <2>1, TornEntryRead
  <2> QED  BY <1>6, <2>1, <2>2 DEF TornEnd
<1>7. ASSUME \A a \in Addresses : a < end => Durable(mem, a) = Cached(mem, a),
             NEW s \in 0 .. end, NEW t \in 0 .. end, NEW e \in Torn!Entries,
             <<s, e, t>> \in TornPlaces(writer, mem)
      PROVE  s \in W
  <2>1. t = TornEnd(writer, s, e) /\ TornLaid(mem, s, e) /\ s \in Nat
    BY <1>1, <1>7 DEF TornPlaces
  <2>2. Len(e) \in Nat
    BY TornEntries
  <2>3. Torn!Size(Len(e)) \in Nat \ {0} /\ s + Torn!Size(Len(e)) <= t
    BY <2>1, <2>2, TornSizes DEF TornEnd
  <2>4. s + Torn!Size(Len(e)) <= ByteCount /\ s + Torn!Size(Len(e)) <= end
    BY <1>1, <2>1, <2>3
  <2>5. ASSUME NEW a \in s .. (s + Torn!Size(Len(e))) - 1
        PROVE  Durable(mem, a) = Cached(mem, a)
    <3>1. a \in Addresses /\ a < end
      BY <1>1, <2>1, <2>3, <2>4 DEF Addresses
    <3> QED  BY <1>7, <3>1
  <2>6. TornWhole(mem, s)
    BY <2>1, <2>4, <2>5, TornArrivedIsWhole
  <2> QED  BY <1>1, <2>1, <2>3, <2>4, <2>6
<1>8. end \notin W /\ end \in Nat /\ end <= ByteCount
  BY <1>1
<1>9. \E i \in 0 .. Len(found) : read[0] = SubSeq(found, 1, i)
  <2> HIDE DEF W, P, N, read
  <2> QED  BY <1>1, <1>5, <1>6, <1>8, PlacesReadFront
<1>10. ASSUME \A a \in Addresses : a < end => Durable(mem, a) = Cached(mem, a)
       PROVE  read[0] = found
  <2> HIDE DEF W, P, N, read
  <2>1. ASSUME NEW s \in 0 .. end, NEW t \in 0 .. end, NEW e \in Torn!Entries,
               <<s, e, t>> \in TornPlaces(writer, mem)
        PROVE  s \in W /\ P[s] = e /\ N[s] = t
    BY <1>6, <1>7, <1>10, <2>1
  <2> QED  BY <1>1, <1>5, <1>8, <2>1, PlacesRead
<1> QED  BY <1>3, <1>9, <1>10 DEF TornFound

\* All words of the entry being added are written ...
TornDone ==
  \/ pc \in {"flush_tail", "fence"}
  \/ pc \in {"payload", "flush_checker"} /\ pos = Len(entry) /\ pos % CheckerPeriod = 0

\* ... and have arrived in NVM.
TornThere(s) ==
  /\ TornBefore(s) /\ TornFits(s) /\ TornLaid(mem, s, entry) /\ TornWhole(mem, s)
  /\ next_free = s + Torn!Size(Len(entry))
TornArrived == TornDone /\ \E s \in 0 .. ByteCount : TornThere(s)

(* Behind the log nothing is whole.                                        *)
LEMMA TornEmpty ==
  ASSUME TornInv, NEW t \in 0 .. ByteCount, t >= next_free, t < ByteCount
  PROVE  ~ TornWhole(mem, t)
<1>1. t \in Addresses
  BY TornFacts DEF Addresses
<1>2. Settled(mem, t, Torn!Zero)
  BY <1>1 DEF TornInv, TornRest
<1>3. Durable(mem, t)[2] # 1
  BY <1>2, TornZero DEF Settled
<1> QED  BY <1>3 DEF TornWhole

(* An entry that is whole in NVM has been written to its end.              *)
LEMMA TornWholeIsDone ==
  ASSUME TornInv, NEW s \in 0 .. ByteCount, NEW q \in 0 .. ByteCount, TornBefore(s),
         TornFits(s), TornAdding(s, q), TornWhole(mem, s)
  PROVE  TornThere(s) /\ (pc \in TornFilling => TornDone)
<1> DEFINE n == Len(entry)
           g == CheckerPeriod * q
<1>1. /\ s \in Nat /\ q \in Nat /\ g \in Nat /\ g <= pos /\ pos <= n /\ n \in Nat \ {0}
      /\ s < next_free
      /\ g < n => /\ next_free < s + Torn!Size(n) /\ next_free \in Addresses
                  /\ Settled(mem, next_free, Torn!Zero)
  BY TornNumbers
<1>2. pos \in Nat /\ next_free \in Nat /\ CheckerPeriod \in Nat \ {0}
  BY TornFacts
<1>3. Durable(mem, s)[1] = n
  <2>1. s \in s .. next_free - 1
    BY <1>1, <1>2
  <2>2. Written(mem, s) /\ Cached(mem, s) = <<n, 1>>
    BY <2>1 DEF TornAdding, TornParts
  <2>3. Durable(mem, s) = <<n, 1>>
    BY <2>2, TornBitTells DEF TornWhole
  <2> QED  BY <2>3
<1>4. Torn!Size(n) \in Nat
  BY <1>1, TornSizes
<1>5. ASSUME g < n PROVE FALSE
  <2>1. next_free \in s .. (s + Torn!Size(n)) - 1
    BY <1>1, <1>2, <1>4, <1>5
  <2>2. Durable(mem, next_free)[2] = 1
    BY <1>3, <2>1 DEF TornWhole
  <2>3. Durable(mem, next_free) = Torn!Zero
    BY <1>1, <1>5 DEF Settled
  <2> QED  BY <2>2, <2>3, TornZero
<1>6. pos = n /\ g = pos
  BY <1>1, <1>2, <1>5
<1>7. TornAt(q) /\ next_free = s + 1 + pos + q
  BY DEF TornAdding
<1>8. Torn!Checkers(pos) = q
  <2>1. q # 0
    BY <1>1, <1>2, <1>6
  <2>2. q - 1 \in Nat /\ CheckerPeriod * q = CheckerPeriod * (q - 1) + CheckerPeriod
    BY <1>1, <1>2, <2>1
  <2>3. CheckerPeriod * (q - 1) < pos /\ pos <= CheckerPeriod * (q - 1) + CheckerPeriod
    <3>1. CheckerPeriod * (q - 1) \in Nat
      BY <1>2, <2>2
    <3> QED  BY <1>1, <1>2, <1>6, <2>2, <3>1
  <2>4. Torn!Checkers(pos) = (q - 1) + 1
    BY <1>2, <2>2, <2>3, TornGroup
  <2> QED  BY <1>1, <2>4
<1>9. next_free = s + Torn!Size(n)
  <2>1. Torn!Size(pos) = 1 + pos + q
    BY <1>2, <1>8, TornSizes
  <2> QED  BY <1>1, <1>2, <1>6, <1>7, <2>1
<1>10. TornLaid(mem, s, entry)
  BY <1>6, <1>9 DEF TornAdding, TornLaid
<1>11. pos % CheckerPeriod = 0
  <2>1. (CheckerPeriod * q + 0) % CheckerPeriod = 0
    <3>1. 0 \in 0 .. CheckerPeriod - 1
      BY <1>2
    <3> QED  BY <1>1, <1>2, <3>1, DivUnique, Zenon
  <2>2. CheckerPeriod * q + 0 = pos
    BY <1>1, <1>6
  <2> QED  BY <2>1, <2>2
<1>12. ASSUME pc \in TornFilling PROVE TornDone
  <2> HIDE DEF g, n
  <2>1. pc \in {"payload", "flush_checker"}
    <3>1. ~ (g < pos) /\ ~ (pos = g + CheckerPeriod)
      BY <1>1, <1>2, <1>6
    <3> QED  BY <1>7, <3>1 DEF TornAt, g
  <2> QED  BY <1>6, <1>11, <2>1 DEF TornDone, n
<1> QED  BY <1>9, <1>10, <1>12 DEF TornThere

(* All of the entry has arrived: it is read after the log ...              *)
LEMMA TornReadsAll ==
  ASSUME TornInv, NEW s \in 0 .. ByteCount, TornThere(s)
  PROVE  /\ TornFound(Append(log, entry), TornEnd(writer, s, entry))
         /\ writer = "MnemosyneAligned" => Torn!Recovered = Append(log, entry)
<1>1. /\ mem \in Memory(TornWords) /\ log \in Seq(Torn!Entries) /\ ByteCount \in Nat
      /\ next_free \in Nat
  BY TornFacts
<1>2. /\ s \in Nat /\ entry \in Torn!Entries /\ TornBefore(s) /\ TornLaid(mem, s, entry)
      /\ TornWhole(mem, s) /\ next_free = s + Torn!Size(Len(entry)) /\ next_free <= ByteCount
  BY <1>1 DEF TornThere, TornFits
<1>3. Len(entry) \in Nat
  BY <1>2, TornEntries
<1>4. PICK e \in Torn!Entries : e = entry
  BY <1>2
<1>5. /\ Torn!Size(Len(e)) \in Nat \ {0} /\ TornEnd(writer, s, e) \in Nat
      /\ s + Torn!Size(Len(e)) <= TornEnd(writer, s, e)
      /\ s + Torn!Size(Len(e)) <= ByteCount => TornEnd(writer, s, e) <= ByteCount
  <2>1. Len(e) \in Nat
    BY <1>3, <1>4
  <2> QED  BY <1>2, <2>1, TornSizes DEF TornEnd
<1>6. PICK t \in 0 .. ByteCount : t = TornEnd(writer, s, entry)
  BY <1>1, <1>2, <1>4, <1>5
<1>7. t \in Nat /\ s <= t /\ next_free <= t
  BY <1>1, <1>2, <1>4, <1>5, <1>6
<1>8. Places(Append(log, entry), t, TornPlaces(writer, mem))
  <2>1. Places(log, s, TornPlaces(writer, mem))
    BY <1>2 DEF TornBefore
  <2>2. <<s, e, t>> \in TornPlaces(writer, mem)
    BY <1>2, <1>4, <1>6, <1>7 DEF TornPlaces
  <2>3. PICK found \in Seq(Torn!Entries) : found = log
    BY <1>1
  <2>4. Places(Append(found, e), t, TornPlaces(writer, mem))
    BY <1>2, <1>7, <2>1, <2>2, <2>3, PlacesAppend
  <2> QED  BY <1>4, <2>3, <2>4
<1>9. t < ByteCount => ~ TornWhole(mem, t)
  BY <1>1, <1>7, TornEmpty
<1>10. Append(log, entry) \in Seq(Torn!Entries)
  BY <1>1, <1>2, AppendProperties
<1>11. TornFound(Append(log, entry), t)
  BY <1>1, <1>8, <1>9, <1>10, TornReading
<1>12. ASSUME writer = "MnemosyneAligned", NEW a \in Addresses, a < t
       PROVE  Durable(mem, a) = Cached(mem, a)
  <2>1. a \in Nat
    BY AddressParts
  <2>2. CASE a < s
    <3>1. Settled(mem, a, Cached(mem, a))
      BY <1>2, <1>12, <2>2 DEF TornBefore, TornSafe
    <3> QED  BY <3>1 DEF Settled
  <2>3. CASE s <= a /\ a < next_free
    <3>1. Durable(mem, s)[1] = Len(entry)
      BY <1>2, TornEntryRead
    <3>2. a \in s .. (s + Torn!Size(Len(entry))) - 1
      BY <1>1, <1>2, <2>1, <2>3
    <3>3. Durable(mem, a)[2] = 1
      BY <1>2, <3>1, <3>2 DEF TornWhole
    <3>4. Written(mem, a)
      BY <1>2, <3>2 DEF TornLaid, TornParts
    <3> QED  BY <3>3, <3>4, TornBitTells
  <2>4. CASE next_free <= a
    <3>1. Settled(mem, a, Torn!Zero)
      BY <1>1, <2>1, <2>4 DEF TornInv, TornRest
    <3> QED  BY <3>1 DEF Settled
  <2> QED  BY <1>1, <1>2, <2>1, <2>2, <2>3, <2>4
<1> QED  BY <1>6, <1>11, <1>12 DEF TornFound

(* ... or not all of it: the log is read, of which the writer that aligns  *)
(* it has lost nothing.                                                    *)
LEMMA TornReadsLog ==
  ASSUME TornInv, NEW s \in 0 .. ByteCount, TornBefore(s), s < ByteCount => ~ TornWhole(mem, s)
  PROVE  /\ TornFound(log, s)
         /\ writer = "MnemosyneAligned" => Torn!Recovered = log
<1>1. mem \in Memory(TornWords) /\ log \in Seq(Torn!Entries)
  BY TornFacts
<1>2. TornFound(log, s)
  BY <1>1, TornReading DEF TornBefore
<1>3. ASSUME writer = "MnemosyneAligned", NEW a \in Addresses, a < s
      PROVE  Durable(mem, a) = Cached(mem, a)
  BY <1>3 DEF TornBefore, TornSafe, Settled
<1> QED  BY <1>2, <1>3 DEF TornFound

(* The front of a log is the front of what it becomes.                     *)
LEMMA TornFronts ==
  ASSUME NEW found \in Seq(Torn!Entries), NEW i \in 0 .. Len(found), NEW e
  PROVE  SubSeq(found, 1, i) = SubSeq(Append(found, e), 1, i)
<1> DEFINE front == SubSeq(found, 1, i)
           more == Append(found, e)
<1>1. i \in Nat /\ Len(found) \in Nat /\ i <= Len(found)
  OBVIOUS
<1>2. Len(more) = Len(found) + 1 /\ \A k \in 1 .. i : more[k] = found[k]
  BY <1>1
<1>3. front = [k \in 1 .. i |-> found[k]]
  BY <1>1
<1>4. SubSeq(more, 1, i) = [k \in 1 .. i |-> more[k]]
  BY <1>1, <1>2
<1> HIDE DEF front, more
<1>5. SubSeq(more, 1, i) = front
  BY <1>2, <1>3, <1>4
<1> QED  BY <1>5 DEF more, front

(* What the torn bits let be read back, step by step of AddLogEntry.       *)
LEMMA TornSeen ==
  ASSUME TornInv
  PROVE  /\ Torn!RecoveredIsPrefix
         /\ writer = "MnemosyneAligned" =>
              Torn!Recovered = IF TornArrived THEN Append(log, entry) ELSE log
<1>1. log \in Seq(Torn!Entries) /\ next_free \in 0 .. ByteCount /\ next_free \in Nat
  BY TornFacts
<1>2. ASSUME NEW s \in 0 .. ByteCount, TornFound(log, s)
      PROVE  Torn!RecoveredIsPrefix
  <2>1. PICK i \in 0 .. Len(log) : Torn!Recovered = SubSeq(log, 1, i)
    BY <1>2 DEF TornFound
  <2>2. PICK found \in Seq(Torn!Entries) : found = log
    BY <1>1
  <2>3. PICK e : e = entry
    OBVIOUS
  <2>4. SubSeq(found, 1, i) = SubSeq(Append(found, e), 1, i)
    BY <2>2, TornFronts
  <2>5. i \in 0 .. Len(Append(found, e))
    BY <2>2
  <2> QED  BY <2>1, <2>2, <2>3, <2>4, <2>5 DEF Torn!RecoveredIsPrefix
<1>3. ASSUME pc \in {"idle", "length"}
      PROVE  /\ Torn!RecoveredIsPrefix
             /\ writer = "MnemosyneAligned" => Torn!Recovered = log
             /\ ~ TornArrived
  <2>1. PICK s \in 0 .. ByteCount : s = next_free
    BY <1>1
  <2>2. TornBefore(s)
    BY <1>3, <2>1 DEF TornInv
  <2>3. s < ByteCount => ~ TornWhole(mem, s)
    <3>1. s >= next_free
      BY <1>1, <2>1
    <3> QED  BY <3>1, TornEmpty
  <2>4. TornFound(log, s) /\ (writer = "MnemosyneAligned" => Torn!Recovered = log)
    BY <2>2, <2>3, TornReadsLog
  <2>5. ~ TornArrived
    BY <1>3 DEF TornArrived, TornDone
  <2> QED  BY <1>2, <2>4, <2>5
<1>4. ASSUME NEW s \in 0 .. ByteCount, TornBefore(s), ~ TornWhole(mem, s)
      PROVE  /\ Torn!RecoveredIsPrefix
             /\ writer = "MnemosyneAligned" => Torn!Recovered = log
  <2>1. TornFound(log, s) /\ (writer = "MnemosyneAligned" => Torn!Recovered = log)
    BY <1>4, TornReadsLog
  <2> QED  BY <1>2, <2>1
<1>5. ASSUME NEW s \in 0 .. ByteCount, TornThere(s), pc # "idle"
      PROVE  /\ Torn!RecoveredIsPrefix
             /\ writer = "MnemosyneAligned" => Torn!Recovered = Append(log, entry)
  <2>1. /\ TornFound(Append(log, entry), TornEnd(writer, s, entry))
        /\ writer = "MnemosyneAligned" => Torn!Recovered = Append(log, entry)
    BY <1>5, TornReadsAll
  <2>2. Append(log, entry) \in Seq(Torn!Entries)
    BY <1>1, <1>5, AppendProperties DEF TornThere, TornFits
  <2>3. PICK found \in Seq(Torn!Entries) : found = Append(log, entry)
    BY <2>2
  <2>4. PICK i \in 0 .. Len(found) : Torn!Recovered = SubSeq(found, 1, i)
    BY <2>1, <2>3 DEF TornFound
  <2> QED  BY <1>5, <2>1, <2>3, <2>4 DEF Torn!RecoveredIsPrefix
<1>6. ASSUME NEW s \in 0 .. ByteCount, TornBefore(s), pc \in TornFilling \union {"flush_tail", "fence"},
             TornWhole(mem, s) => TornThere(s) /\ TornDone
      PROVE  /\ Torn!RecoveredIsPrefix
             /\ writer = "MnemosyneAligned" =>
                  Torn!Recovered = IF TornArrived THEN Append(log, entry) ELSE log
  <2>1. pc # "idle"
    BY <1>6 DEF TornFilling
  <2>2. CASE TornArrived
    <3>1. PICK r \in 0 .. ByteCount : TornThere(r)
      BY <2>2 DEF TornArrived
    <3> QED  BY <1>5, <2>1, <2>2, <3>1
  <2>3. CASE ~ TornArrived
    <3>1. ~ TornWhole(mem, s)
      BY <1>6, <2>3 DEF TornArrived
    <3> QED  BY <1>4, <1>6, <2>3, <3>1
  <2> QED  BY <2>2, <2>3
<1>7. CASE pc \in TornFilling
  <2>1. PICK s \in 0 .. ByteCount : \E q \in 0 .. ByteCount :
          TornBefore(s) /\ TornFits(s) /\ TornAdding(s, q)
    BY <1>7 DEF TornInv
  <2>2. PICK q \in 0 .. ByteCount : TornBefore(s) /\ TornFits(s) /\ TornAdding(s, q)
    BY <2>1
  <2>3. TornWhole(mem, s) => TornThere(s) /\ TornDone
    BY <1>7, <2>2, TornWholeIsDone
  <2> QED  BY <1>6, <1>7, <2>2, <2>3
<1>8. CASE pc \in {"flush_tail", "fence"}
  <2>1. PICK s \in 0 .. ByteCount : TornBefore(s) /\ TornFits(s) /\ TornAdded(s)
    BY <1>8 DEF TornInv
  <2>2. TornWhole(mem, s) => TornThere(s) /\ TornDone
    BY <1>8, <2>1 DEF TornThere, TornAdded, TornDone
  <2> QED  BY <1>6, <1>8, <2>1, <2>2
<1>9. pc \in {"idle", "length"} \union TornFilling \union {"flush_tail", "fence"}
  BY TornFacts DEF Torn!Steps, TornFilling
<1> QED  BY <1>3, <1>7, <1>8, <1>9

\* The same as the abstract log sees it.
TornShown ==
  /\ log \in Seq(Torn!Entries)
  /\ pc = "idle" => Adding = <<>>
  /\ pc # "idle" => entry \in Torn!Entries /\ Adding = <<entry>>
  /\ Recovered = IF TornArrived THEN log \o Adding ELSE log

\* The writer that keeps what it is given.
TornKeepsAll == TornInv /\ writer = "MnemosyneAligned"

(* In every state what the recovery of the aligned writer finds is the     *)
(* log, and from the last store on possibly the entry being added.         *)
LEMMA TornIsFaithful ==
  TornKeepsAll => TornShown /\ Faithful
<1> SUFFICES ASSUME TornKeepsAll PROVE TornShown /\ Faithful
  OBVIOUS
<1>1. TornInv /\ writer = "MnemosyneAligned"
  BY DEF TornKeepsAll
<1>2. log \in Seq(Torn!Entries) /\ pc \in Torn!Steps
  BY <1>1, TornFacts
<1>3. pc # "idle" => entry \in Torn!Entries
  BY <1>1, <1>2 DEF TornInv, TornFilling, TornFits, Torn!Steps
<1>4. /\ Recovered = Torn!Recovered
      /\ Adding = IF pc = "idle" THEN <<>> ELSE <<entry>>
  <2>1. writer \in Torn!Writers /\ writer \in Writers \ Classic!Writers
    BY <1>1 DEF Torn!Writers, Writers, Classic!Writers
  <2> QED  BY <2>1, Families
<1>5. Recovered = IF TornArrived THEN Append(log, entry) ELSE log
  BY <1>1, <1>4, TornSeen
<1>6. TornArrived => pc # "idle"
  BY DEF TornArrived, TornDone
<1>7. pc # "idle" => Append(log, entry) = log \o Adding
  <2>1. ASSUME pc # "idle" PROVE Append(log, entry) = log \o <<entry>>
    BY <1>2, <1>3, <2>1
  <2> QED  BY <1>4, <2>1
<1>8. TornShown
  BY <1>2, <1>3, <1>4, <1>5, <1>6, <1>7 DEF TornShown
<1>9. Faithful
  <2>1. pc # "idle" => Len(Adding) = 1
    BY <1>4
  <2> QED  BY <1>4, <1>5, <1>6, <1>7, <2>1 DEF Faithful
<1> QED  BY <1>8, <1>9

(* The same of the state after a step.                                     *)
LEMMA TornIsFaithfulNext ==
  TornKeepsAll' => TornShown' /\ Faithful'
  BY TornIsFaithful, PTL

(* Each step of the writers keeps the invariant.                           *)
LEMMA TornStep ==
  ASSUME TornInv, Torn!Next PROVE TornInv'
<1>1. ASSUME NEW e \in Torn!Entries, Torn!AddLogEntry(e) PROVE TornInv'
  BY <1>1, TornAddLogEntry
<1> QED
  BY <1>1, TornWriteLength, TornWritePayload, TornFlushFullLine, TornWriteChecker,
     TornFlushChecker, TornEndPayload, TornWriteTail, TornFlushTail, TornFenceAndReturn,
     TornDrift
  DEF Torn!Next

(* What has arrived stays while nothing is stored.                         *)
LEMMA TornArrivedStays ==
  ASSUME TornInv, TornArrived, TornQuiet(mem, mem'), writer' = writer, log' = log,
         entry' = entry, next_free' = next_free, TornDone'
  PROVE  TornArrived'
<1>1. PICK s \in 0 .. ByteCount : TornThere(s)
  BY DEF TornArrived
<1>2. TornBefore(s)'
  BY <1>1, TornStays DEF TornThere
<1>3. TornFits(s)'
  BY <1>1 DEF TornThere, TornFits
<1>4. /\ s \in Nat /\ entry \in Torn!Entries /\ TornLaid(mem, s, entry) /\ TornWhole(mem, s)
      /\ TornKeeps(mem, mem') /\ next_free = s + Torn!Size(Len(entry))
  BY <1>1, TornFacts DEF TornThere, TornFits, TornQuiet
<1> DEFINE to == s + Torn!Size(Len(entry))
<1>5. to \in Nat /\ s < to
  <2>1. Torn!Size(Len(entry)) \in Nat \ {0}
    BY <1>4, TornEntries, TornSizes
  <2> QED  BY <1>4, <2>1
<1>6. TornLaid(mem', s, entry)
  BY <1>4, <1>5, TornPartsKept DEF TornLaid
<1>7. ASSUME NEW a \in s .. to - 1 PROVE Durable(mem', a)[2] = 1 /\ Durable(mem', a) = Durable(mem, a)
  <2>1. Durable(mem, s)[1] = Len(entry)
    BY <1>4, TornEntryRead
  <2>2. Durable(mem, a)[2] = 1
    BY <1>4, <2>1 DEF TornWhole
  <2>3. Written(mem, a)
    BY <1>4 DEF TornLaid, TornParts
  <2>4. Durable(mem, a) = Cached(mem, a)
    BY <2>2, <2>3, TornBitTells
  <2>5. Durable(mem', a) = Cached(mem', a) /\ Cached(mem', a) = Cached(mem, a)
    BY <1>4, <2>3, <2>4 DEF TornKeeps
  <2> QED  BY <2>2, <2>4, <2>5
<1>8. TornWhole(mem', s)
  <2>1. s \in s .. to - 1
    BY <1>4, <1>5
  <2>2. Durable(mem', s) = Durable(mem, s) /\ Durable(mem, s)[1] = Len(entry)
    BY <1>4, <1>7, <2>1, TornEntryRead
  <2> QED  BY <1>4, <1>7, <2>2 DEF TornWhole
<1>9. TornThere(s)'
  BY <1>2, <1>3, <1>4, <1>6, <1>8 DEF TornThere
<1> QED  BY <1>9, TornMemory DEF TornArrived

(* LogWriterMnemosyneAligned takes the steps of the abstract log.          *)
LEMMA TornNext ==
  ASSUME TornKeepsAll, Torn!Next
  PROVE  TornKeepsAll' /\ Faithful /\ Faithful' /\ (Begins \/ GoesOn \/ Returns \/ Rests)
<1>1. TornShown /\ Faithful /\ TornInv
  BY TornIsFaithful DEF TornKeepsAll
<1>2. TornKeepsAll'
  <2>1. TornInv'
    BY <1>1, TornStep
  <2>2. writer' = writer
    BY DEF Torn!Next, Torn!AddLogEntry, Torn!WriteLength, Torn!WritePayload, Torn!FlushFullLine,
           Torn!WriteChecker, Torn!FlushChecker, Torn!EndPayload, Torn!WriteTail,
           Torn!FlushTail, Torn!FenceAndReturn, Torn!Drift
  <2> QED  BY <2>1, <2>2 DEF TornKeepsAll
<1>3. TornShown' /\ Faithful'
  BY <1>2, TornIsFaithfulNext
<1>4. ASSUME NEW e \in Torn!Entries, Torn!AddLogEntry(e)
      PROVE  Begins
  <2>1. pc = "idle" /\ pc' = "length" /\ log' = log
    BY <1>4 DEF Torn!AddLogEntry
  <2>2. ~ TornArrived'
    BY <2>1 DEF TornArrived, TornDone
  <2> QED  BY <1>3, <2>1, <2>2 DEF TornShown, Begins
<1>5. ASSUME pc # "idle"
      PROVE  log # log \o Adding
  <2>1. Adding = <<entry>> /\ entry \in Torn!Entries /\ log \in Seq(Torn!Entries)
    BY <1>1, <1>5 DEF TornShown
  <2> QED  BY <2>1
<1>6. ASSUME Torn!WriteLength \/ Torn!WritePayload \/ Torn!FlushFullLine \/ Torn!WriteChecker
             \/ Torn!WriteTail
      PROVE  GoesOn
  <2>1. /\ pc # "idle" /\ pc' # "idle" /\ log' = log /\ entry' = entry
        /\ \/ pc \in {"length", "flush", "checker", "tail"}
           \/ pc = "payload" /\ pos < Len(entry)
    BY <1>6 DEF Torn!WriteLength, Torn!WritePayload, Torn!FlushFullLine, Torn!WriteChecker,
                Torn!WriteTail
  <2>2. ~ TornArrived
    <3>1. pos \in Nat
      BY <1>1, TornFacts
    <3> QED  BY <2>1, <3>1 DEF TornArrived, TornDone
  <2>3. Adding' = Adding /\ Recovered = log /\ log # log \o Adding
    BY <1>1, <1>3, <1>5, <2>1, <2>2 DEF TornShown
  <2> QED  BY <2>1, <2>3 DEF GoesOn
<1>7. ASSUME pc # "idle", Torn!FlushChecker \/ Torn!EndPayload \/ Torn!FlushTail \/ Torn!Drift
      PROVE  GoesOn
  <2>1. mem \in Memory(TornWords)
    BY <1>1, TornFacts
  <2>2. /\ pc' # "idle" /\ log' = log /\ entry' = entry /\ next_free' = next_free
        /\ writer' = writer
    BY <1>7 DEF Torn!FlushChecker, Torn!EndPayload, Torn!FlushTail, Torn!Drift
  <2>3. TornQuiet(mem, mem')
    BY <1>7, <2>1, TornMemory, TornQuiets
    DEF Torn!FlushChecker, Torn!EndPayload, Torn!FlushTail, Torn!Drift, Torn!FlushLast,
        Torn!LineIsFull
  <2>4. ASSUME TornArrived PROVE TornArrived'
    <3>1. TornDone
      BY <2>4 DEF TornArrived
    <3>2. TornDone'
      BY <1>7, <3>1
      DEF Torn!FlushChecker, Torn!EndPayload, Torn!FlushTail, Torn!Drift, TornDone
    <3> QED  BY <1>1, <2>2, <2>3, <2>4, <3>2, TornArrivedStays
  <2>5. Adding' = Adding
    BY <1>1, <1>3, <1>7, <2>2 DEF TornShown
  <2>6. Recovered = log \o Adding => Recovered' = log \o Adding
    BY <1>1, <1>3, <1>5, <1>7, <2>2, <2>4, <2>5 DEF TornShown
  <2> QED  BY <1>7, <2>2, <2>5, <2>6 DEF GoesOn
<1>8. ASSUME Torn!Drift, pc = "idle"
      PROVE  Rests
  BY <1>8 DEF Torn!Drift, Rests
<1>9. ASSUME Torn!FenceAndReturn
      PROVE  Returns
  <2>1. pc # "idle" /\ pc' = "idle" /\ log' = Append(log, entry)
    BY <1>9 DEF Torn!FenceAndReturn
  <2>2. log \in Seq(Torn!Entries) /\ entry \in Torn!Entries /\ Adding = <<entry>>
    BY <1>1, <2>1 DEF TornShown
  <2>3. log' = log \o Adding
    BY <2>1, <2>2
  <2> QED  BY <2>1, <2>3 DEF Returns
<1>10. Torn!FlushChecker \/ Torn!EndPayload \/ Torn!FlushTail => pc # "idle"
  BY DEF Torn!FlushChecker, Torn!EndPayload, Torn!FlushTail
<1>11. Begins \/ GoesOn \/ Returns \/ Rests
  BY <1>4, <1>6, <1>7, <1>8, <1>9, <1>10 DEF Torn!Next
<1> QED  BY <1>1, <1>2, <1>3, <1>11

-----------------------------------------------------------------------------
\* All of them.

\* The writer is one of those looked at, in a state of its family.
LogInv ==
  /\ writer \in Tried
  /\ writer \in Header!Writers => HeaderInv
  /\ writer \in Classic!Writers => ClassicInv
  /\ writer \in Zero!Writers => ZeroInv
  /\ writer \in ZeroCached!Writers => BufferedInv
  /\ writer \in Torn!Writers => TornInv

(* A writer belongs to one family.                                         *)
LEMMA OneFamily ==
  /\ Header!Writers \intersect Classic!Writers = {} /\ Header!Writers \intersect Zero!Writers = {}
  /\ Header!Writers \intersect ZeroCached!Writers = {} /\ Header!Writers \intersect Torn!Writers = {}
  /\ Classic!Writers \intersect Zero!Writers = {} /\ Classic!Writers \intersect ZeroCached!Writers = {}
  /\ Classic!Writers \intersect Torn!Writers = {} /\ Zero!Writers \intersect ZeroCached!Writers = {}
  /\ Zero!Writers \intersect Torn!Writers = {} /\ ZeroCached!Writers \intersect Torn!Writers = {}
  BY DEF Header!Writers, Classic!Writers, Zero!Writers, ZeroCached!Writers, Torn!Writers

(* Nothing happens, as far as the abstract log can see.                    *)
LEMMA StaysFaithful ==
  ASSUME Faithful, pc' = pc, log' = log, Adding' = Adding,
         Recovered = log \o Adding => Recovered' = log \o Adding
  PROVE  GoesOn \/ Rests
  BY DEF GoesOn, Rests

(* A step that changes nothing keeps all of it: the header family.         *)
LEMMA HeaderRests ==
  ASSUME HeaderInv, UNCHANGED vars
  PROVE  HeaderInv' /\ Faithful /\ Faithful' /\ (GoesOn \/ Rests)
<1>1. /\ writer' = writer /\ mem' = mem /\ next_free' = next_free /\ pc' = pc /\ entry' = entry
      /\ todo' = todo /\ log' = log /\ headers' = headers /\ next_header' = next_header
  BY DEF vars, header_vars
<1>2. Header!TypeOK'
  BY <1>1 DEF HeaderInv, Header!TypeOK, Header!Headers, Header!HeadersInUse
<1>3. HeaderEntry' /\ HeaderNamed'
  BY <1>1 DEF HeaderInv, HeaderEntry, HeaderNamed, Header!Headers, Header!HeadersInUse
<1>4. HeaderCopied'
  BY <1>1 DEF HeaderInv, HeaderCopied
<1>5. (pc = "persist_header" => \E old \in 0 .. ByteCount : HeaderSet(old))'
  BY <1>1 DEF HeaderInv, HeaderSet, Header!Headers, Header!HeadersInUse
<1>6. HeaderInv'
  BY <1>2, <1>3, <1>4, <1>5 DEF HeaderInv
<1>7. HeaderShown /\ Faithful /\ HeaderShown' /\ Faithful'
  BY <1>6, HeaderIsFaithful, HeaderIsFaithfulNext
<1>8. Adding' = Adding /\ Recovered' = Recovered
  BY <1>1, <1>7 DEF HeaderShown
<1> QED  BY <1>1, <1>6, <1>7, <1>8, StaysFaithful

(* A step that changes nothing keeps all of it: the classic family.        *)
LEMMA ClassicRests ==
  ASSUME ClassicInv, UNCHANGED vars
  PROVE  ClassicInv' /\ Faithful /\ Faithful' /\ (GoesOn \/ Rests)
<1>1. /\ writer' = writer /\ mem' = mem /\ next_free' = next_free /\ pc' = pc /\ entry' = entry
      /\ todo' = todo /\ log' = log
  BY DEF vars
<1>2. Classic!TypeOK'
  BY <1>1 DEF ClassicInv, Classic!TypeOK
<1>3. ClassicEntry' /\ ClassicCopied' /\ ClassicMarked' /\ ClassicRest'
  BY <1>1 DEF ClassicInv, ClassicEntry, ClassicCopied, ClassicMarked, ClassicRest
<1>4. ClassicInv'
  BY <1>1, <1>2, <1>3 DEF ClassicInv
<1>5. ClassicShown /\ Faithful /\ ClassicShown' /\ Faithful'
  BY <1>4, ClassicIsFaithful, ClassicIsFaithfulNext
<1>6. Adding' = Adding /\ Recovered' = Recovered
  BY <1>1, <1>5 DEF ClassicShown
<1> QED  BY <1>1, <1>4, <1>5, <1>6, StaysFaithful

(* A step that changes nothing keeps all of it: the zero family.           *)
LEMMA ZeroRests ==
  ASSUME ZeroInv, UNCHANGED vars
  PROVE  ZeroInv' /\ Faithful /\ Faithful' /\ (GoesOn \/ Rests)
<1>1. /\ writer' = writer /\ mem' = mem /\ next_free' = next_free /\ pc' = pc /\ entry' = entry
      /\ todo' = todo /\ log' = log
  BY DEF vars
<1>2. Zero!TypeOK'
  BY <1>1 DEF ZeroInv, Zero!TypeOK
<1>3. ZeroEntry' /\ ZeroCopied' /\ ZeroRest'
  BY <1>1 DEF ZeroInv, ZeroEntry, ZeroCopied, ZeroRest
<1>4. ZeroCounted'
  BY <1>1 DEF ZeroInv, ZeroCounted, Zero!Blocked
<1>5. ZeroInv'
  BY <1>1, <1>2, <1>3, <1>4 DEF ZeroInv
<1>6. ZeroShown /\ Faithful /\ ZeroShown' /\ Faithful'
  BY <1>5, ZeroIsFaithful, ZeroIsFaithfulNext
<1>7. Adding' = Adding /\ Recovered' = Recovered
  BY <1>1, <1>6 DEF ZeroShown, ZeroArrived
<1> QED  BY <1>1, <1>5, <1>6, <1>7, StaysFaithful

(* A step that changes nothing keeps all of it: the buffering writer.      *)
LEMMA BufferedRests ==
  ASSUME BufferedInv, UNCHANGED vars
  PROVE  BufferedInv' /\ Faithful /\ Faithful' /\ (GoesOn \/ Rests)
<1>1. /\ writer' = writer /\ mem' = mem /\ next_free' = next_free /\ pc' = pc /\ entry' = entry
      /\ pos' = pos /\ log' = log /\ active_cl' = active_cl /\ cl_pos' = cl_pos
  BY DEF vars, cached_vars
<1>2. ZeroCached!TypeOK'
  BY <1>1 DEF BufferedInv, ZeroCached!TypeOK
<1>3. /\ BufferedAt' = BufferedAt /\ BufferedUpto' = BufferedUpto /\ BufferedLine' = BufferedLine
      /\ \A a : BufferedWord(a)' = BufferedWord(a)
  BY <1>1 DEF BufferedAt, BufferedUpto, BufferedLine, BufferedWord
<1>4. \A a : Streamed(a)' = Streamed(a)
  BY <1>1, <1>3 DEF Streamed
<1>5. BufferedEntry' /\ BufferedRest' /\ BufferedHolds'
  BY <1>1, <1>3, <1>4 DEF BufferedInv, BufferedEntry, BufferedRest, BufferedHolds
<1>6. BufferedInv'
  BY <1>1, <1>2, <1>5 DEF BufferedInv
<1>7. BufferedShown /\ Faithful /\ BufferedShown' /\ Faithful'
  BY <1>6, BufferedIsFaithful, BufferedIsFaithfulNext
<1>8. Adding' = Adding /\ Recovered' = Recovered
  BY <1>1, <1>7 DEF BufferedShown, BufferedArrived
<1> QED  BY <1>1, <1>6, <1>7, <1>8, StaysFaithful

(* A step that changes nothing keeps all of it: the Mnemosyne family.      *)
LEMMA TornRests ==
  ASSUME TornInv, UNCHANGED vars
  PROVE  /\ TornInv'
         /\ TornKeepsAll => Faithful /\ Faithful' /\ (GoesOn \/ Rests)
<1>1. /\ writer' = writer /\ mem' = mem /\ next_free' = next_free /\ pc' = pc /\ entry' = entry
      /\ pos' = pos /\ buffer' = buffer /\ checker' = checker /\ log' = log
  BY DEF vars, torn_vars
<1>2. Torn!TypeOK' /\ TornRest'
  BY <1>1 DEF TornInv, Torn!TypeOK, TornRest
<1>3. \A s : (TornBefore(s)' <=> TornBefore(s)) /\ (TornFits(s)' <=> TornFits(s))
  BY <1>1 DEF TornBefore, TornSafe, TornFits
<1>4. TornBefore(next_free)' <=> TornBefore(next_free)
  BY <1>1 DEF TornBefore, TornSafe
<1>5. TornFits(next_free)' <=> TornFits(next_free)
  BY <1>1 DEF TornFits
<1>6. \A s : TornFlushed(s)' <=> TornFlushed(s)
  BY <1>1 DEF TornFlushed
<1>7. \A s, q : TornAdding(s, q)' <=> TornAdding(s, q)
  BY <1>1, <1>6 DEF TornAdding, TornAt, TornBuffer
<1>8. \A s : TornAdded(s)' <=> TornAdded(s)
  BY <1>1, <1>6 DEF TornAdded
<1>9. TornInv'
  BY <1>1, <1>2, <1>3, <1>4, <1>5, <1>7, <1>8 DEF TornInv
<1>10. TornArrived' <=> TornArrived
  BY <1>1, <1>3 DEF TornArrived, TornDone, TornThere
<1>11. ASSUME TornKeepsAll PROVE Faithful /\ Faithful' /\ (GoesOn \/ Rests)
  <2>1. TornKeepsAll'
    BY <1>1, <1>9, <1>11 DEF TornKeepsAll
  <2>2. TornShown /\ Faithful /\ TornShown' /\ Faithful'
    BY <1>11, <2>1, TornIsFaithful, TornIsFaithfulNext
  <2>3. Adding' = Adding /\ Recovered' = Recovered
    BY <1>1, <1>10, <2>2 DEF TornShown
  <2> QED  BY <1>1, <2>2, <2>3, StaysFaithful
<1> QED  BY <1>9, <1>11

(* No step makes another writer of it.                                     *)
LEMMA WriterStays ==
  /\ Header!Next => writer \in Header!Writers /\ writer' = writer
  /\ Classic!Next => writer \in Classic!Writers /\ writer' = writer
  /\ Zero!Next => writer \in Zero!Writers /\ writer' = writer
  /\ ZeroCached!Next => writer \in ZeroCached!Writers /\ writer' = writer
  /\ Torn!Next => writer \in Torn!Writers /\ writer' = writer
<1>1. Header!Next => writer \in Header!Writers /\ writer' = writer
  BY DEF Header!Next, Header!AddLogEntry, Header!CopyWord, Header!PersistEntry,
         Header!SetHeader, Header!PersistHeader, Header!Drift
<1>2. Classic!Next => writer \in Classic!Writers /\ writer' = writer
  BY DEF Classic!Next, Classic!AddLogEntry, Classic!CopyWord, Classic!PersistEntry,
         Classic!StoreFooter, Classic!PersistFooter, Classic!Drift
<1>3. Zero!Next => writer \in Zero!Writers /\ writer' = writer
  BY DEF Zero!Next, Zero!AddLogEntry, Zero!CopyWord, Zero!SetBitCount, Zero!PersistEntry,
         Zero!Drift
<1>4. ZeroCached!Next => writer \in ZeroCached!Writers /\ writer' = writer
  BY DEF ZeroCached!Next, ZeroCached!AddLogEntry, ZeroCached!CopyWord,
         ZeroCached!StreamFullLine, ZeroCached!StreamPopCount, ZeroCached!Advance,
         ZeroCached!Drift
<1>5. Torn!Next => writer \in Torn!Writers /\ writer' = writer
  BY DEF Torn!Next, Torn!AddLogEntry, Torn!WriteLength, Torn!WritePayload, Torn!FlushFullLine,
         Torn!WriteChecker, Torn!FlushChecker, Torn!EndPayload, Torn!WriteTail,
         Torn!FlushTail, Torn!FenceAndReturn, Torn!Drift
<1> QED  BY <1>1, <1>2, <1>3, <1>4, <1>5

(* At the start nothing is lost and nothing is made up.                    *)
LEMMA LogInit ==
  ASSUME Init PROVE LogInv /\ pc = "idle" /\ log = <<>>
<1>1. writer \in Tried
  BY DEF Init
<1>2. ASSUME Header!Init PROVE LogInv /\ pc = "idle" /\ log = <<>>
  <2>1. HeaderInv /\ writer \in Header!Writers /\ pc = "idle" /\ log = <<>>
    BY <1>2, HeaderInit DEF Header!Init
  <2> QED  BY <1>1, <2>1, OneFamily DEF LogInv
<1>3. ASSUME Classic!Init PROVE LogInv /\ pc = "idle" /\ log = <<>>
  <2>1. ClassicInv /\ writer \in Classic!Writers /\ pc = "idle" /\ log = <<>>
    BY <1>3, ClassicInit DEF Classic!Init
  <2> QED  BY <1>1, <2>1, OneFamily DEF LogInv
<1>4. ASSUME Zero!Init PROVE LogInv /\ pc = "idle" /\ log = <<>>
  <2>1. ZeroInv /\ writer \in Zero!Writers /\ pc = "idle" /\ log = <<>>
    BY <1>4, ZeroInit DEF Zero!Init
  <2> QED  BY <1>1, <2>1, OneFamily DEF LogInv
<1>5. ASSUME ZeroCached!Init PROVE LogInv /\ pc = "idle" /\ log = <<>>
  <2>1. BufferedInv /\ writer \in ZeroCached!Writers /\ pc = "idle" /\ log = <<>>
    BY <1>5, BufferedInit DEF ZeroCached!Init
  <2> QED  BY <1>1, <2>1, OneFamily DEF LogInv
<1>6. ASSUME Torn!Init PROVE LogInv /\ pc = "idle" /\ log = <<>>
  <2>1. TornInv /\ writer \in Torn!Writers /\ pc = "idle" /\ log = <<>>
    BY <1>6, TornInit DEF Torn!Init
  <2> QED  BY <1>1, <2>1, OneFamily DEF LogInv
<1> QED  BY <1>2, <1>3, <1>4, <1>5, <1>6 DEF Init

\* A step of a writer that keeps what it is given, as the abstract log sees it.
KeepsPromise == Faithful /\ Faithful' /\ (Begins \/ GoesOn \/ Returns \/ Rests)

(* In every state a writer that keeps all is faithful ...                  *)
LEMMA LogIsFaithful ==
  ASSUME LogInv, KeepsAll PROVE Faithful
<1>1. CASE writer \in Header!Writers
  BY <1>1, HeaderIsFaithful DEF LogInv
<1>2. CASE writer \in Classic!Writers
  BY <1>2, ClassicIsFaithful DEF LogInv
<1>3. CASE writer \in Zero!Writers
  BY <1>3, ZeroIsFaithful DEF LogInv
<1>4. CASE writer \in ZeroCached!Writers
  BY <1>4, BufferedIsFaithful DEF LogInv
<1>5. CASE writer \in Torn!Writers
  <2>1. TornKeepsAll
    BY <1>5 DEF LogInv, KeepsAll, TornKeepsAll, Torn!Writers
  <2> QED  BY <2>1, TornIsFaithful
<1> QED  BY <1>1, <1>2, <1>3, <1>4, <1>5, LogWritersAssumption DEF LogInv, Writers

(* ... and every step of every writer keeps the invariant and the promise. *)
LEMMA LogNext ==
  ASSUME LogInv, [Next]_vars
  PROVE  LogInv' /\ writer' = writer /\ (KeepsAll => KeepsPromise)
<1>1. CASE Header!Next
  <2>1. writer \in Header!Writers /\ writer' = writer
    BY <1>1, WriterStays
  <2>2. HeaderInv' /\ KeepsPromise
    BY <1>1, <2>1, HeaderNext DEF LogInv, KeepsPromise
  <2> QED  BY <2>1, <2>2, OneFamily DEF LogInv
<1>2. CASE Classic!Next
  <2>1. writer \in Classic!Writers /\ writer' = writer
    BY <1>2, WriterStays
  <2>2. ClassicInv' /\ KeepsPromise
    BY <1>2, <2>1, ClassicNext DEF LogInv, KeepsPromise
  <2> QED  BY <2>1, <2>2, OneFamily DEF LogInv
<1>3. CASE Zero!Next
  <2>1. writer \in Zero!Writers /\ writer' = writer
    BY <1>3, WriterStays
  <2>2. ZeroInv' /\ KeepsPromise
    BY <1>3, <2>1, ZeroNext DEF LogInv, KeepsPromise
  <2> QED  BY <2>1, <2>2, OneFamily DEF LogInv
<1>4. CASE ZeroCached!Next
  <2>1. writer \in ZeroCached!Writers /\ writer' = writer
    BY <1>4, WriterStays
  <2>2. BufferedInv' /\ KeepsPromise
    BY <1>4, <2>1, BufferedNext DEF LogInv, KeepsPromise
  <2> QED  BY <2>1, <2>2, OneFamily DEF LogInv
<1>5. CASE Torn!Next
  <2>1. writer \in Torn!Writers /\ writer' = writer
    BY <1>5, WriterStays
  <2>2. TornInv'
    BY <1>5, <2>1, TornStep DEF LogInv
  <2>3. ASSUME KeepsAll PROVE KeepsPromise
    <3>1. TornKeepsAll
      BY <2>1, <2>3 DEF LogInv, KeepsAll, TornKeepsAll, Torn!Writers
    <3> QED  BY <1>5, <3>1, TornNext DEF KeepsPromise
  <2> QED  BY <2>1, <2>2, <2>3, OneFamily DEF LogInv
<1>6. CASE UNCHANGED vars
  <2>1. writer' = writer
    BY <1>6 DEF vars
  <2>2. LogInv'
    BY <1>6, <2>1, HeaderRests, ClassicRests, ZeroRests, BufferedRests, TornRests DEF LogInv
  <2>3. ASSUME KeepsAll PROVE KeepsPromise
    <3>1. CASE writer \in Header!Writers
      BY <1>6, <3>1, HeaderRests DEF LogInv, KeepsPromise
    <3>2. CASE writer \in Classic!Writers
      BY <1>6, <3>2, ClassicRests DEF LogInv, KeepsPromise
    <3>3. CASE writer \in Zero!Writers
      BY <1>6, <3>3, ZeroRests DEF LogInv, KeepsPromise
    <3>4. CASE writer \in ZeroCached!Writers
      BY <1>6, <3>4, BufferedRests DEF LogInv, KeepsPromise
    <3>5. CASE writer \in Torn!Writers
      <4>1. TornKeepsAll
        BY <2>3, <3>5 DEF LogInv, KeepsAll, TornKeepsAll, Torn!Writers
      <4> QED  BY <1>6, <3>5, <4>1, TornRests DEF LogInv, KeepsPromise
    <3> QED  BY <3>1, <3>2, <3>3, <3>4, <3>5, LogWritersAssumption DEF LogInv, Writers
  <2> QED  BY <2>1, <2>2, <2>3
<1> QED  BY <1>1, <1>2, <1>3, <1>4, <1>5, <1>6 DEF Next

(* What the abstract log sees of a step: nothing, or one of its own.       *)
LEMMA LogRefines ==
  ASSUME LogInv, [Next]_vars
  PROVE  [Abstract!Next]_(Abstract!dvars)
<1>1. writer' = writer /\ (KeepsAll => KeepsPromise)
  BY LogNext
<1>2. KeepsAll' <=> KeepsAll
  BY <1>1 DEF KeepsAll
<1>3. CASE ~ KeepsAll
  BY <1>2, <1>3 DEF Abstract!dvars
<1>4. CASE KeepsAll
  <2>1. [Kept!Next]_<<log, Adding, Recovered>>
    BY <1>1, <1>4, KindsOfSteps DEF KeepsPromise
  <2>2. CASE UNCHANGED <<log, Adding, Recovered>>
    BY <1>2, <1>4, <2>2 DEF Abstract!dvars
  <2>3. CASE Kept!Next
    BY <1>2, <1>4, <2>3
    DEF Kept!Next, Kept!Begin, Kept!Commit, Kept!Return, Kept!CommitAndReturn,
        Abstract!Next, Abstract!Begin, Abstract!Commit, Abstract!Return, Abstract!CommitAndReturn
  <2> QED  BY <2>1, <2>2, <2>3
<1> QED  BY <1>3, <1>4

-----------------------------------------------------------------------------
(* The invariant holds in every state of every log writer.                 *)
THEOREM LogInvHolds == Spec => []LogInv
<1>1. Init => LogInv
  BY LogInit
<1>2. LogInv /\ [Next]_vars => LogInv'
  BY LogNext
<1> QED  BY <1>1, <1>2, PTL DEF Spec

(* What the variables of a log writer hold, whatever the writer: next_free *)
(* never leaves the memory, an entry's positions stay within it.           *)
THEOREM LogTypeOK == Spec => []TypeOK
<1>1. LogInv => TypeOK
  BY DEF LogInv, TypeOK, HeaderInv, ClassicInv, ZeroInv, BufferedInv, TornInv
<1> QED  BY <1>1, LogInvHolds, PTL

(* The footer of a classic writer never overtakes its entry, whatever the  *)
(* sizes, and whether they share a line or not.                            *)
THEOREM LogFooterImpliesEntry == Spec => []FooterImpliesEntry
<1>1. LogInv => FooterImpliesEntry
  BY ClassicFooter DEF LogInv, FooterImpliesEntry
<1> QED  BY <1>1, LogInvHolds, PTL

(* Behind the entry of a zero writer the memory is zero, so that the bit   *)
(* count in its header counts that entry's bits alone.                     *)
THEOREM LogRestIsZero == Spec => []RestIsZero
<1>1. LogInv => RestIsZero
  BY ZeroIsRest DEF LogInv, RestIsZero
<1> QED  BY <1>1, LogInvHolds, PTL

(* The buffer LogWriterZeroCached streams again with the next entry has    *)
(* what the line has, and zero behind it.                                  *)
THEOREM LogBufferMatchesLog == Spec => []BufferMatchesLog
<1>1. LogInv => BufferMatchesLog
  BY BufferedMatches DEF LogInv, BufferMatchesLog
<1> QED  BY <1>1, LogInvHolds, PTL

(* What is read back by the torn bits is a prefix of what was added: of    *)
(* the aligned writer, and of the one that may lose entries.               *)
THEOREM LogRecoveredIsPrefix == Spec => []RecoveredIsPrefix
<1>1. LogInv => RecoveredIsPrefix
  BY TornSeen DEF LogInv, RecoveredIsPrefix
<1> QED  BY <1>1, LogInvHolds, PTL

(* Every log writer but LogWriterMnemosyne appends atomically and durably, *)
(* for logs, lines, payloads, values, headers and checker periods of any   *)
(* size, wherever a power failure comes between two steps.                 *)
THEOREM LogImplementsDurableLog == Spec => ImplementsDurableLog
<1>1. Init => Abstract!Init
  <2> SUFFICES ASSUME Init PROVE Abstract!Init
    OBVIOUS
  <2>1. LogInv /\ pc = "idle" /\ log = <<>>
    BY LogInit
  <2>2. KeepsAll => Adding = <<>> /\ Recovered = <<>>
    BY <2>1, LogIsFaithful DEF Faithful
  <2> QED  BY <2>1, <2>2 DEF Abstract!Init
<1>2. LogInv /\ [Next]_vars => [Abstract!Next]_(Abstract!dvars)
  BY LogRefines
<1> QED  BY <1>1, <1>2, LogInvHolds, PTL DEF Spec, ImplementsDurableLog, Abstract!Spec

=============================================================================
