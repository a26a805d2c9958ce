---------------------------- MODULE MnemosyneLog ---------------------------
(***************************************************************************)
(* LogWriterMnemosyne and LogWriterMnemosyneAligned: the lowest bit of     *)
(* every word of the log, its torn bit, says that the word was written.    *)
(* The lowest bits of the payload are collected in checker words, one      *)
(* after every CheckerPeriod payload words and one at the end.  Lines are  *)
(* written back as they fill up and one fence ends the entry.  A word is   *)
(* <<its upper bits, its lowest bit>>.                                     *)
(***************************************************************************)
EXTENDS LogMemory

Writers == {"Mnemosyne", "MnemosyneAligned"}

Bit == {0, 1}
Zero == <<0, 0>>
Entries == UNION {[1 .. n -> High \X Bit] : n \in 1 .. MaxPayload}

VARIABLES
  writer,       \* which of the writers it is
  mem,          \* file.data
  next_free,    \* advances word by word
  pc,           \* where AddLogEntry stands
  entry,        \* the payload of the entry being added
  pos,          \* how many of its words are written
  buffer,       \* their lowest bits since the last checker word
  checker,      \* how many these are
  log           \* the payloads added so far

vars == <<writer, mem, next_free, pc, entry, pos, buffer, checker, log>>

Steps == {"idle", "length", "payload", "flush", "checker", "flush_checker",
          "tail", "flush_tail", "fence"}

TypeOK ==
  /\ writer \in Writers
  /\ mem \in [LogLines -> LineSet([Slots -> Nat \X Bit])]
  /\ next_free \in 0 .. ByteCount
  /\ pc \in Steps
  /\ entry \in Entries \union {<<>>}
  /\ pos \in 0 .. MaxPayload
  /\ buffer \in Nat
  /\ checker \in 0 .. CheckerPeriod
  /\ log \in Seq(Entries)

Aligned == writer = "MnemosyneAligned"

\* How many words an entry of n payload words takes.
Checkers(n) == (n + CheckerPeriod - 1) \div CheckerPeriod
Size(n) == 1 + n + Checkers(n)
After(start) == IF Aligned THEN RoundUp(start) ELSE start

\* The memory was filled with zeroes, durably, before the log is created.
Init ==
  /\ writer \in Writers
  /\ mem = Filled(Zero)
  /\ next_free = 0
  /\ pc = "idle"
  /\ entry = <<>>
  /\ pos = 0
  /\ buffer = 0
  /\ checker = 0
  /\ log = <<>>

PutWord(w) ==
  /\ mem' = StoreWord(mem, next_free, w)
  /\ next_free' = next_free + 1

\* Write back the line of the word written last.
FlushLast == mem' = WriteBackWords(mem, {next_free - 1})

LineIsFull == next_free % LineWords = 0

\* AddLogEntry is called, with all the space the entry takes.
AddLogEntry(e) ==
  /\ pc = "idle"
  /\ next_free + Size(Len(e)) <= ByteCount
  /\ entry' = e
  /\ pc' = "length"
  /\ UNCHANGED <<writer, mem, next_free, pos, buffer, checker, log>>

\* Write length of log entry.  The line is not looked at, full or not.
WriteLength ==
  /\ pc = "length"
  /\ PutWord(<<Len(entry), 1>>)
  /\ pos' = 0
  /\ buffer' = 0
  /\ checker' = 0
  /\ pc' = "payload"
  /\ UNCHANGED <<writer, entry, log>>

\* Write payload of log entry, a word at a time.
WritePayload ==
  /\ pc = "payload"
  /\ pos < Len(entry)
  /\ PutWord(<<entry[pos + 1][1], 1>>)
  /\ buffer' = 2 * buffer + entry[pos + 1][2]
  /\ checker' = checker + 1
  /\ pos' = pos + 1
  /\ pc' = "flush"
  /\ UNCHANGED <<writer, entry, log>>

\* A bug to catch: a line that has just filled up is not written back.
FlushFullLineNever ==
  /\ pc = "flush"
  /\ pc' = IF pos % CheckerPeriod = 0 THEN "checker" ELSE "payload"
  /\ UNCHANGED <<writer, mem, next_free, entry, pos, buffer, checker, log>>

\* Flush cache line every cache line
FlushFullLine ==
  /\ pc = "flush"
  /\ IF LineIsFull THEN FlushLast ELSE UNCHANGED mem
  /\ pc' = IF pos % CheckerPeriod = 0 THEN "checker" ELSE "payload"
  /\ UNCHANGED <<writer, next_free, entry, pos, buffer, checker, log>>

\* Flush buffer every 63 8-byte blocks
WriteChecker ==
  /\ pc = "checker"
  /\ PutWord(<<buffer, 1>>)
  /\ buffer' = 0
  /\ checker' = 0
  /\ pc' = "flush_checker"
  /\ UNCHANGED <<writer, entry, pos, log>>

FlushChecker ==
  /\ pc = "flush_checker"
  /\ IF LineIsFull THEN FlushLast ELSE UNCHANGED mem
  /\ pc' = "payload"
  /\ UNCHANGED <<writer, next_free, entry, pos, buffer, checker, log>>

\* A bug to catch: the bits of the last words are dropped.
EndPayloadNoTail ==
  /\ pc = "payload"
  /\ pos = Len(entry)
  /\ pc' = "flush_tail"
  /\ UNCHANGED <<writer, mem, next_free, entry, pos, buffer, checker, log>>

EndPayload ==
  /\ pc = "payload"
  /\ pos = Len(entry)
  /\ pc' = IF pos % CheckerPeriod # 0 THEN "tail" ELSE "flush_tail"
  /\ UNCHANGED <<writer, mem, next_free, entry, pos, buffer, checker, log>>

WriteTail ==
  /\ pc = "tail"
  /\ PutWord(<<buffer, 1>>)
  /\ pc' = "flush_tail"
  /\ UNCHANGED <<writer, entry, pos, buffer, checker, log>>

FlushTail ==
  /\ pc = "flush_tail"
  /\ FlushLast
  /\ pc' = "fence"
  /\ UNCHANGED <<writer, next_free, entry, pos, buffer, checker, log>>

\* alex_SFence, then advance and done.
FenceAndReturn ==
  /\ pc = "fence"
  /\ mem' = Fence(mem)
  /\ next_free' = After(next_free)
  /\ log' = Append(log, entry)
  /\ entry' = <<>>
  /\ pos' = 0
  /\ pc' = "idle"
  /\ UNCHANGED <<writer, buffer, checker>>

\* The cache writes a line back although nobody asked it to.
Drift ==
  /\ mem' \in LineDrift(mem)
  /\ UNCHANGED <<writer, next_free, pc, entry, pos, buffer, checker, log>>

\* One step of a call of AddLogEntry, or of the cache.
Next ==
  /\ writer \in Writers
  /\ \/ \E e \in Entries : AddLogEntry(e)
     \/ WriteLength \/ WritePayload \/ FlushFullLine
     \/ WriteChecker \/ FlushChecker
     \/ EndPayload \/ WriteTail \/ FlushTail \/ FenceAndReturn
     \/ Drift

-----------------------------------------------------------------------------
\* Where the payload word k of an entry at start lies, and the checker word
\* that has its lowest bit.
PayloadAddress(start, k) == start + k + Checkers(k) - (IF k = 0 THEN 0 ELSE 1)
CheckerAddress(start, n, k) ==
  LET group == Checkers(k)
      last == IF group * CheckerPeriod < n THEN group * CheckerPeriod ELSE n
  IN PayloadAddress(start, last) + 1

\* The bit of the payload word k in its checker word: the last word of the
\* group comes lowest.
CheckerBit(n, k) ==
  LET group == Checkers(k)
      last == IF group * CheckerPeriod < n THEN group * CheckerPeriod ELSE n
  IN last - k

\* buffer = buffer >> 1, c times.
Halved(w, c) ==
  LET half[i \in 0 .. c] == IF i = 0 THEN w ELSE half[i - 1] \div 2 IN half[c]

\* GetNextLogEntry after a power failure, guarded by the torn bits: entry after
\* entry, until a word of one is not written.
Recovered ==
  LET word(a) == Durable(mem, a)
      length(start) == word(start)[1]
      end(start) == start + Size(length(start))
      next(start) == After(end(start))
      whole(start) ==
        /\ word(start)[2] = 1
        /\ end(start) <= ByteCount
        /\ \A a \in start .. end(start) - 1 : word(a)[2] = 1
      lowest(start, k) ==
        Halved(word(CheckerAddress(start, length(start), k))[1],
               CheckerBit(length(start), k)) % 2
      payload(start) ==
        [k \in 1 .. length(start) |->
           <<word(PayloadAddress(start, k))[1], lowest(start, k)>>]
  IN ReadLog(whole, payload, next)

(* The entries that are read back, the torn bits being what they are, are  *)
(* whole entries in the order they were added: nothing is made up, though  *)
(* the last ones may be missing.                                           *)
RecoveredIsPrefix ==
  LET added == IF pc = "idle" THEN log ELSE Append(log, entry)
  IN \E n \in 0 .. Len(added) : Recovered = SubSeq(added, 1, n)
=============================================================================
