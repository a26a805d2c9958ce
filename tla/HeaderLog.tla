----------------------------- MODULE HeaderLog -----------------------------
(***************************************************************************)
(* LogWriterHeader, LogWriterHeaderAligned, LogWriterHeaderDancing and     *)
(* LogWriterHeaderAlignedDancing: an entry becomes part of the log when a  *)
(* header in front of the log says where the log ends.  The dancing        *)
(* writers use many headers in turn.  All four follow the same steps.      *)
(***************************************************************************)
EXTENDS LogMemory

Writers == {"Header", "HeaderAligned", "HeaderDancing", "HeaderAlignedDancing"}

Entries == UNION {[1 .. n -> Value] : n \in 1 .. MaxPayload}
Words == Value \union (0 .. MaxPayload)

VARIABLES
  writer,       \* which of the writers it is
  mem,          \* file.data
  headers,      \* file.headers[i].next_free, each in a line of its own
  next_free,
  next_header,
  pc,           \* where AddLogEntry stands
  entry,        \* the payload of the entry being added
  todo,         \* the words of it still to be copied
  log           \* the payloads added so far

vars == <<writer, mem, headers, next_free, next_header, pc, entry, todo, log>>

Steps == {"idle", "copy", "header", "persist_header"}

Aligned == writer \in {"HeaderAligned", "HeaderAlignedDancing"}
HeadersInUse == IF writer \in {"HeaderDancing", "HeaderAlignedDancing"} THEN HeaderCount ELSE 1
Headers == 0 .. HeadersInUse - 1

TypeOK ==
  /\ writer \in Writers
  /\ mem \in [LogLines -> LineSet([Slots -> Words])]
  /\ headers \in [Headers -> LineSet(0 .. ByteCount)]
  /\ next_free \in 0 .. ByteCount
  /\ next_header \in Headers
  /\ pc \in Steps
  /\ entry \in Entries \union {<<>>}
  /\ todo \in SUBSET Addresses
  /\ log \in Seq(Entries)

\* The entry as it lies in the log: its size, then its payload.
Layout(e) == <<Len(e)>> \o e
Size(e) == Len(e) + 1
Region(start, n) == start .. start + n - 1
After(start, n) == IF Aligned THEN RoundUp(start + n) ELSE start + n

Init ==
  /\ writer \in Writers
  /\ \E v \in Value : mem = Filled(v)
  /\ headers = [h \in Headers |-> Line(0)]
  /\ next_free = 0
  /\ next_header = 0
  /\ pc = "idle"
  /\ entry = <<>>
  /\ todo = {}
  /\ log = <<>>

\* AddLogEntry is called.  The benchmark maps four times the payload it logs,
\* so that the space asserted never runs out; here it is what ends the log.
AddLogEntry(e) ==
  /\ pc = "idle"
  /\ After(next_free, Size(e)) <= ByteCount
  /\ entry' = e
  /\ todo' = Region(next_free, Size(e))
  /\ pc' = "copy"
  /\ UNCHANGED <<writer, mem, headers, next_free, next_header, log>>

\* Copy the log entry (header + body): a memory copy stores its words in an
\* order of its own.
CopyWord ==
  /\ pc = "copy"
  /\ \E a \in todo :
       /\ mem' = StoreWord(mem, a, Layout(entry)[a - next_free + 1])
       /\ todo' = todo \ {a}
  /\ UNCHANGED <<writer, headers, next_free, next_header, pc, entry, log>>

\* A bug to catch: the header is updated before the entry is durable.
PersistEntryNever ==
  /\ pc = "copy"
  /\ todo = {}
  /\ pc' = "header"
  /\ UNCHANGED <<writer, mem, headers, next_free, next_header, entry, todo, log>>

PersistEntry ==
  /\ pc = "copy"
  /\ todo = {}
  /\ mem' = PersistWords(mem, Region(next_free, Size(entry)))
  /\ headers' = [h \in Headers |-> SFence(headers[h])]
  /\ pc' = "header"
  /\ UNCHANGED <<writer, next_free, next_header, entry, todo, log>>

\* Update the header
SetHeader ==
  /\ pc = "header"
  /\ next_free' = After(next_free, Size(entry))
  /\ headers' = [headers EXCEPT ![next_header] = Store(@, next_free')]
  /\ pc' = "persist_header"
  /\ UNCHANGED <<writer, mem, next_header, entry, todo, log>>

\* A bug to catch: the dance runs past the last header.
PersistHeaderNoWrap ==
  /\ pc = "persist_header"
  /\ headers' = [headers EXCEPT ![next_header] = Persist(@)]
  /\ next_header' = next_header + 1
  /\ log' = Append(log, entry)
  /\ entry' = <<>>
  /\ pc' = "idle"
  /\ UNCHANGED <<writer, mem, next_free, todo>>

PersistHeader ==
  /\ pc = "persist_header"
  /\ headers' = [h \in Headers |-> IF h = next_header THEN Persist(headers[h])
                                                      ELSE SFence(headers[h])]
  /\ mem' = Fence(mem)
  /\ next_header' = (next_header + 1) % HeadersInUse
  /\ log' = Append(log, entry)
  /\ entry' = <<>>
  /\ pc' = "idle"
  /\ UNCHANGED <<writer, next_free, todo>>

\* The cache writes a line back although nobody asked it to.
Drift ==
  /\ \/ mem' \in LineDrift(mem) /\ UNCHANGED headers
     \/ /\ \E h \in Headers : \E c \in WordDrift(headers[h]) :
             headers' = [headers EXCEPT ![h] = c]
        /\ UNCHANGED mem
  /\ UNCHANGED <<writer, next_free, next_header, pc, entry, todo, log>>

\* One step of a call of AddLogEntry, or of the cache.
Next ==
  /\ writer \in Writers
  /\ \/ \E e \in Entries : AddLogEntry(e)
     \/ CopyWord \/ PersistEntry \/ SetHeader \/ PersistHeader
     \/ Drift

-----------------------------------------------------------------------------
\* The log as it would be read after a power failure: entry after entry up
\* to the furthest end a header in NVM names.
EndOfLog == Max({headers[h].dur : h \in Headers})

Recovered ==
  LET next(start) == After(start, Durable(mem, start) + 1)
      whole(start) == start < EndOfLog /\ next(start) <= ByteCount
      payload(start) == [i \in 1 .. Durable(mem, start) |-> Durable(mem, start + i)]
  IN ReadLog(whole, payload, next)
=============================================================================
