--------------------------- MODULE ZeroCachedLog ---------------------------
(***************************************************************************)
(* LogWriterZeroCached: the last, partly filled cache line of the log is   *)
(* kept in DRAM (active_cl) and streamed to NVM as a whole, at the latest  *)
(* when the entry ends, and again when the next entry goes on filling it.  *)
(* Behind the payload lies the number of bits set in size and payload.     *)
(***************************************************************************)
EXTENDS LogMemory

Writers == {"ZeroCached"}

Entries == UNION {[1 .. n -> Value] : n \in 1 .. MaxPayload}

VARIABLES
  writer,       \* LogWriterZeroCached
  mem,          \* file.data
  next_free,
  active_cl,    \* the line of the log being filled
  cl_pos,       \* how many words of it are filled
  pc,           \* where AddLogEntry stands
  entry,        \* the payload of the entry being added
  pos,          \* how many of its words are in active_cl or in NVM
  log           \* the payloads added so far

vars == <<writer, mem, next_free, active_cl, cl_pos, pc, entry, pos, log>>

TypeOK ==
  /\ writer \in Writers
  /\ mem \in [LogLines -> LineSet([Slots -> Nat])]
  /\ next_free \in 0 .. ByteCount
  /\ active_cl \in [Slots -> Nat]
  /\ cl_pos \in 0 .. LineWords - 1
  /\ pc \in {"idle", "copy", "stream", "fence"}
  /\ entry \in Entries \union {<<>>}
  /\ pos \in 0 .. MaxPayload + 1
  /\ log \in Seq(Entries)

EmptyLine == [s \in Slots |-> 0]

Layout(e) == <<Len(e)>> \o e
Blocks(e) == Len(e) + 1                     \* blks
PopCount(words) == Total([i \in DOMAIN words |-> alex_PopCount[words[i]]])

\* nvm_begin: the line active_cl belongs to when pos words are copied.
ActiveLine == (next_free + pos) \div LineWords

\* The memory was filled with zeroes, durably, before the log is created.
Init ==
  /\ writer \in Writers
  /\ mem = Filled(0)
  /\ next_free = 0
  /\ active_cl = EmptyLine
  /\ cl_pos = 0
  /\ pc = "idle"
  /\ entry = <<>>
  /\ pos = 0
  /\ log = <<>>

\* AddLogEntry is called.  Its assertion asks for the space of the entry; the
\* bit count behind it has to fit as well.
AddLogEntry(e) ==
  /\ pc = "idle"
  /\ next_free + Blocks(e) < ByteCount
  /\ entry' = e
  /\ pos' = 0
  /\ pc' = "copy"
  /\ UNCHANGED <<writer, mem, next_free, active_cl, cl_pos, log>>

\* Head, body and tail put the words into active_cl one by one ...
CopyWord ==
  /\ pc = "copy"
  /\ pos < Blocks(entry)
  /\ active_cl' = [active_cl EXCEPT ![cl_pos] = Layout(entry)[pos + 1]]
  /\ IF cl_pos + 1 = LineWords
     THEN pc' = "stream" /\ UNCHANGED <<writer, cl_pos, pos>>
     ELSE cl_pos' = cl_pos + 1 /\ pos' = pos + 1 /\ UNCHANGED pc
  /\ UNCHANGED <<writer, mem, next_free, entry, log>>

\* A bug to catch: the buffer keeps the words of the line before.
StreamFullLineNoReset ==
  /\ pc = "stream"
  /\ mem' = StreamLine(mem, ActiveLine, active_cl)
  /\ cl_pos' = 0
  /\ pos' = pos + 1
  /\ pc' = "copy"
  /\ UNCHANGED <<writer, next_free, active_cl, entry, log>>

\* ... and stream the line when it is full.
StreamFullLine ==
  /\ pc = "stream"
  /\ mem' = StreamLine(mem, ActiveLine, active_cl)
  /\ active_cl' = EmptyLine
  /\ cl_pos' = 0
  /\ pos' = pos + 1
  /\ pc' = "copy"
  /\ UNCHANGED <<writer, next_free, entry, log>>

\* The bit count ends the entry; its line is streamed, full or not.
StreamPopCount ==
  /\ pc = "copy"
  /\ pos = Blocks(entry)
  /\ active_cl' = [active_cl EXCEPT ![cl_pos] = PopCount(Layout(entry))]
  /\ mem' = StreamLine(mem, ActiveLine, active_cl')
  /\ pc' = "fence"
  /\ UNCHANGED <<writer, next_free, cl_pos, entry, pos, log>>

\* A bug to catch: the buffer is emptied although its line goes on.
AdvanceAlwaysReset ==
  /\ pc = "fence"
  /\ mem' = Fence(mem)
  /\ cl_pos' = (cl_pos + 1) % LineWords
  /\ active_cl' = EmptyLine
  /\ next_free' = next_free + Blocks(entry) + 1
  /\ log' = Append(log, entry)
  /\ entry' = <<>>
  /\ pos' = 0
  /\ pc' = "idle"
  /\ UNCHANGED writer

\* alex_SFence, then advance and done.
Advance ==
  /\ pc = "fence"
  /\ mem' = Fence(mem)
  /\ IF cl_pos + 1 = LineWords
     THEN cl_pos' = 0 /\ active_cl' = EmptyLine
     ELSE cl_pos' = cl_pos + 1 /\ UNCHANGED active_cl
  /\ next_free' = next_free + Blocks(entry) + 1
  /\ log' = Append(log, entry)
  /\ entry' = <<>>
  /\ pos' = 0
  /\ pc' = "idle"
  /\ UNCHANGED writer

\* Words of a streamed line reach NVM before the fence, in any order.
Drift ==
  /\ mem' \in StreamDrift(mem)
  /\ UNCHANGED <<writer, next_free, active_cl, cl_pos, pc, entry, pos, log>>

\* One step of a call of AddLogEntry, or of the cache.
Next ==
  /\ writer \in Writers
  /\ \/ \E e \in Entries : AddLogEntry(e)
     \/ CopyWord \/ StreamFullLine \/ StreamPopCount \/ Advance
     \/ Drift

-----------------------------------------------------------------------------
\* GetNextLogEntry after a power failure: entry after entry, until one is
\* missing or fails its bit count.
Recovered ==
  LET size(start) == Durable(mem, start)
      payload(start) == [i \in 1 .. size(start) |-> Durable(mem, start + i)]
      next(start) == start + size(start) + 2
      whole(start) ==
        /\ size(start) > 0
        /\ next(start) <= ByteCount
        /\ Durable(mem, next(start) - 1) = PopCount(Layout(payload(start)))
  IN ReadLog(whole, payload, next)

(* The buffer and the log agree: active_cl holds the words the log already *)
(* has in its last line, and zero behind them, so that streaming it again  *)
(* takes back no word of an earlier entry.                                 *)
BufferMatchesLog ==
  pc = "idle" =>
    /\ cl_pos = next_free % LineWords
    /\ \A s \in Slots : s >= cl_pos => active_cl[s] = 0
    /\ next_free < ByteCount =>
         \A s \in Slots :
           active_cl[s] = Cached(mem, (next_free \div LineWords) * LineWords + s)
=============================================================================
