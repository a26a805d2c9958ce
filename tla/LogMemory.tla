----------------------------- MODULE LogMemory -----------------------------
(***************************************************************************)
(* The persistent memory a log writer fills: 8-byte words grouped in cache *)
(* lines.  A word is stored at once, a line is written back as a whole.    *)
(* Operators only, with the parameters of all the log writers, which hold  *)
(* the memory in a variable; LogWriters.tla puts them together.            *)
(***************************************************************************)
EXTENDS Naturals, Sequences, FiniteSetsExt, PMem

CONSTANTS
  LineWords,      \* words in a cache line (constants::kCacheLineByteCount / 8)
  LineCount,      \* lines the log has (nvm.GetByteCount())
  Value,          \* what a word of a payload may hold
  MaxPayload,     \* the longest payload, in words
  HeaderCount,    \* HEADER_COUNT of the dancing writers
  High,           \* upper bits of a payload word, for the Mnemosyne writers
  CheckerPeriod   \* their 63: payload words per checker word

ASSUME LogMemoryAssumption ==
  /\ LineWords \in Nat \ {0, 1}
  /\ LineCount \in Nat \ {0}
  /\ Value \subseteq Nat
  /\ MaxPayload \in Nat \ {0}
  /\ HeaderCount \in Nat \ {0}
  /\ High \subseteq Nat
  /\ CheckerPeriod \in Nat \ {0, 1}

Slots == 0 .. LineWords - 1
LogLines == 0 .. LineCount - 1
ByteCount == LineCount * LineWords   \* the size of the memory, in words
Addresses == 0 .. ByteCount - 1

LineOf(a) == a \div LineWords
SlotOf(a) == a % LineWords

\* alex_PopCount: how many bits of the word n are set.
alex_PopCount[n \in Nat] == IF n = 0 THEN 0 ELSE (n % 2) + alex_PopCount[n \div 2]

\* (n + 63) & ~63
RoundUp(n) == ((n + LineWords - 1) \div LineWords) * LineWords

\* The sum of a sequence of numbers.
Total(ns) == MapThenFoldSet(+, 0, LAMBDA i : ns[i], Max, DOMAIN ns)

\* A memory that holds the word w everywhere, durably.
Filled(w) == [l \in LogLines |-> Line([s \in Slots |-> w])]

Cached(mem, a) == mem[LineOf(a)].vol[SlotOf(a)]
Durable(mem, a) == mem[LineOf(a)].dur[SlotOf(a)]

StoreWord(mem, a, w) ==
  [mem EXCEPT ![LineOf(a)] = Store(@, [@.vol EXCEPT ![SlotOf(a)] = w])]

\* alex_WriteBack(addr, len) over the words as.
WriteBackWords(mem, as) ==
  LET ls == {LineOf(a) : a \in as}
  IN [l \in LogLines |-> IF l \in ls THEN WriteBack(mem[l]) ELSE mem[l]]

Fence(mem) == [l \in LogLines |-> SFence(mem[l])]

\* alex_WriteBack and alex_SFence; also pmem_persist.
PersistWords(mem, as) == Fence(WriteBackWords(mem, as))

\* alex_FlushClToNvm: a non-temporal store of a whole line.
StreamLine(mem, l, words) == [mem EXCEPT ![l] = CopyAndFlush(@, words)]

\* What the memory becomes when the cache writes back a line on its own ...
LineDrift(mem) ==
  {[mem EXCEPT ![l] = Evict(@)] : l \in {k \in LogLines : Dirty(mem[k])}}

\* ... or when some word of a line on its way to NVM gets there first.
StreamDrift(mem) ==
  {[mem EXCEPT ![LineOf(a)].dur[SlotOf(a)] = Cached(mem, a)] :
     a \in {b \in Addresses : Cached(mem, b) # Durable(mem, b)}}

\* A log read entry by entry from its front until a start has no whole one:
\* what a reader makes of the entry at a start, and where it goes on.
ReadLog(whole(_), payload(_), next(_)) ==
  LET read[start \in 0 .. ByteCount] ==
        IF start < ByteCount /\ whole(start)
        THEN <<payload(start)>> \o read[next(start)]
        ELSE <<>>
  IN read[0]
=============================================================================
