------------------------------ MODULE ZeroLog ------------------------------
(***************************************************************************)
(* LogWriterZero, LogWriterZeroAligned, LogWriterZeroBlocked and           *)
(* LogWriterZeroSimd: the log lies in zeroed memory and an entry is valid  *)
(* when it has as many bits set as its header says, so that one fence is   *)
(* enough.  A word is a pair of 4-byte halves; the header of an entry is   *)
(* <<payload_size, bit_count>>.                                            *)
(***************************************************************************)
EXTENDS LogMemory

Writers == {"Zero", "ZeroAligned", "ZeroBlocked", "ZeroSimd"}

VARIABLES
  writer,       \* which of the writers it is
  mem,          \* nvm.Data()
  next_free,
  pc,           \* where AddLogEntry stands
  entry,        \* the payload of the entry being added
  todo,         \* the words of it still to be copied
  log           \* the payloads added so far

vars == <<writer, mem, next_free, pc, entry, todo, log>>

\* Every entry starts on a cache line, or shares its first one.
Aligned == writer # "Zero"

\* The first line of an entry is held back until the bit count is in it.
Blocked == writer \in {"ZeroBlocked", "ZeroSimd"}

Zero == <<0, 0>>
Payload == Value \X {0}
Entries == UNION {[1 .. n -> Payload] : n \in 1 .. MaxPayload}

Steps == {"idle", "copy", "persist"}

TypeOK ==
  /\ writer \in Writers
  /\ mem \in [LogLines -> LineSet([Slots -> Nat \X Nat])]
  /\ next_free \in 0 .. ByteCount
  /\ pc \in Steps
  /\ entry \in Entries \union {<<>>}
  /\ todo \in SUBSET Addresses
  /\ log \in Seq(Entries)

Bits(w) == alex_PopCount[w[1]] + alex_PopCount[w[2]]
Layout(e) == << <<Len(e), 0>> >> \o e
Size(e) == Len(e) + 1
BitCount(e) == Total([i \in 1 .. Size(e) |-> Bits(Layout(e)[i])])

Region(start, n) == start .. start + n - 1
FirstLine(start) == Region(start, LineWords)
AfterPayloadOnly(start, n) == start + n - 1   \* a bug to catch
After(start, n) == IF Aligned THEN RoundUp(start + n) ELSE start + n

\* The memory was filled with zeroes, durably, before the log is created.
Init ==
  /\ writer \in Writers
  /\ mem = Filled(Zero)
  /\ next_free = 0
  /\ pc = "idle"
  /\ entry = <<>>
  /\ todo = {}
  /\ log = <<>>

\* AddLogEntry is called.  The benchmark maps four times the payload it logs,
\* so that the space asserted never runs out; here it is what ends the log.
\* The blocked writers assert an entry of a line at least.
AddLogEntry(e) ==
  /\ pc = "idle"
  /\ Blocked => Size(e) >= LineWords
  /\ After(next_free, Size(e)) <= ByteCount
  /\ entry' = e
  /\ todo' = Region(next_free, Size(e))
  /\ pc' = "copy"
  /\ UNCHANGED <<writer, mem, next_free, log>>

\* Copy the log entry, in any order of its words.
CopyWord ==
  /\ pc = "copy"
  /\ \E a \in todo :
       /\ mem' = StoreWord(mem, a, Layout(entry)[a - next_free + 1])
       /\ todo' = todo \ {a}
  /\ UNCHANGED <<writer, next_free, pc, entry, log>>

\* The bit count goes into the header.  A blocked writer has by then written
\* back every line but the first.
SetBitCount ==
  /\ pc = "copy"
  /\ todo = {}
  /\ LET rest == IF Blocked
                 THEN Region(next_free, Size(entry)) \ FirstLine(next_free)
                 ELSE {}
     IN mem' = StoreWord(WriteBackWords(mem, rest), next_free,
                         <<Len(entry), BitCount(entry)>>)
  /\ pc' = "persist"
  /\ UNCHANGED <<writer, next_free, entry, todo, log>>

\* A bug to catch: only the line of the header is written back.
PersistHeaderOnly ==
  /\ pc = "persist"
  /\ mem' = PersistWords(mem, {next_free})
  /\ next_free' = After(next_free, Size(entry))
  /\ log' = Append(log, entry)
  /\ entry' = <<>>
  /\ pc' = "idle"
  /\ UNCHANGED <<writer, todo>>

\* Write back and fence once, then advance and done.
PersistEntry ==
  /\ pc = "persist"
  /\ LET entry_words == Region(next_free, Size(entry))
     IN mem' = PersistWords(mem, IF Blocked THEN FirstLine(next_free) ELSE entry_words)
  /\ next_free' = After(next_free, Size(entry))
  /\ log' = Append(log, entry)
  /\ entry' = <<>>
  /\ pc' = "idle"
  /\ UNCHANGED <<writer, todo>>

\* The cache writes a line back although nobody asked it to.
Drift ==
  /\ mem' \in LineDrift(mem)
  /\ UNCHANGED <<writer, next_free, pc, entry, todo, log>>

\* One step of a call of AddLogEntry, or of the cache.
Next ==
  /\ writer \in Writers
  /\ \/ \E e \in Entries : AddLogEntry(e)
     \/ CopyWord \/ SetBitCount \/ PersistEntry
     \/ Drift

-----------------------------------------------------------------------------
\* The log as it would be read after a power failure: entry after entry,
\* until one is missing or has not the bits its header says.
Recovered ==
  LET size(start) == Durable(mem, start)[1]
      payload(start) == [i \in 1 .. size(start) |-> Durable(mem, start + i)]
      next(start) == After(start, size(start) + 1)
      whole(start) ==
        /\ size(start) > 0
        /\ start + size(start) < ByteCount
        /\ Durable(mem, start)[2] = BitCount(payload(start))
  IN ReadLog(whole, payload, next)

(* What the bit counts rest on: past the entry being added the memory is   *)
(* zero, in the cache and in NVM, however the entries before it were laid  *)
(* out.                                                                    *)
RestIsZero ==
  LET used == next_free + (IF pc = "idle" THEN 0 ELSE Size(entry))
  IN \A a \in Addresses :
       a >= used => Durable(mem, a) = Zero /\ Cached(mem, a) = Zero
=============================================================================
