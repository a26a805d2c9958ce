----------------------------- MODULE ClassicLog ----------------------------
(***************************************************************************)
(* LogWriterClassic and LogWriterClassicAligned: an entry is made durable, *)
(* then a footer behind it marks it as part of the log.  The footer is the *)
(* offset of the entry (Classic), or its own offset, on a cache line of    *)
(* its own (ClassicAligned).                                               *)
(***************************************************************************)
EXTENDS LogMemory

Writers == {"Classic", "ClassicAligned"}

Entries == UNION {[1 .. n -> Value] : n \in 1 .. MaxPayload}
Words == Value \union (0 .. ByteCount)

VARIABLES
  writer,       \* which of the writers it is
  mem,          \* file.data
  next_free,
  pc,           \* where AddLogEntry stands
  entry,        \* the payload of the entry being added
  todo,         \* the words of it still to be copied
  log           \* the entries added so far: where each starts, its payload

vars == <<writer, mem, next_free, pc, entry, todo, log>>

Steps == {"idle", "copy", "footer", "persist_footer"}
Aligned == writer = "ClassicAligned"
Placed == [start : 0 .. ByteCount, payload : Entries]

TypeOK ==
  /\ writer \in Writers
  /\ mem \in [LogLines -> LineSet([Slots -> Words])]
  /\ next_free \in 0 .. ByteCount
  /\ pc \in Steps
  /\ entry \in Entries \union {<<>>}
  /\ todo \in SUBSET Addresses
  /\ log \in Seq(Placed)

\* The entry as it lies in the log, its footer apart.
Layout(e) == <<Len(e)>> \o e
Size(e) == Len(e) + 1
Region(start, n) == start .. start + n - 1

\* Where the footer of the entry e at start goes, and what it says.
FooterAddress(start, e) ==
  IF Aligned THEN RoundUp(start + Size(e)) ELSE start + Size(e)
Footer(start, e) == IF Aligned THEN FooterAddress(start, e) ELSE start

\* Where the next entry starts.
After(start, e) == FooterAddress(start, e) + (IF Aligned THEN LineWords ELSE 1)

\* The memory was filled with zeroes before the log is created.
Init ==
  /\ writer \in Writers
  /\ mem = Filled(0)
  /\ next_free = 0
  /\ pc = "idle"
  /\ entry = <<>>
  /\ todo = {}
  /\ log = <<>>

\* AddLogEntry is called.  The benchmark maps four times the payload it logs,
\* so that the space asserted never runs out; here it is what ends the log.
AddLogEntry(e) ==
  /\ pc = "idle"
  /\ After(next_free, e) <= ByteCount
  /\ entry' = e
  /\ todo' = Region(next_free, Size(e))
  /\ pc' = "copy"
  /\ UNCHANGED <<writer, mem, next_free, log>>

\* Copy the log entry (header + body - footer), in any order of its words.
CopyWord ==
  /\ pc = "copy"
  /\ \E a \in todo :
       /\ mem' = StoreWord(mem, a, Layout(entry)[a - next_free + 1])
       /\ todo' = todo \ {a}
  /\ UNCHANGED <<writer, next_free, pc, entry, log>>

\* A bug to catch: no fence between the entry and its footer.
PersistEntryUnfenced ==
  /\ pc = "copy"
  /\ todo = {}
  /\ mem' = WriteBackWords(mem, Region(next_free, Size(entry)))
  /\ pc' = "footer"
  /\ UNCHANGED <<writer, next_free, entry, todo, log>>

PersistEntry ==
  /\ pc = "copy"
  /\ todo = {}
  /\ mem' = PersistWords(mem, Region(next_free, Size(entry)))
  /\ pc' = "footer"
  /\ UNCHANGED <<writer, next_free, entry, todo, log>>

\* Copy the footer
StoreFooter ==
  /\ pc = "footer"
  /\ mem' = StoreWord(mem, FooterAddress(next_free, entry), Footer(next_free, entry))
  /\ pc' = "persist_footer"
  /\ UNCHANGED <<writer, next_free, entry, todo, log>>

\* A bug to catch: the next entry starts where the footer lies.
PersistFooterOverlap ==
  /\ pc = "persist_footer"
  /\ mem' = PersistWords(mem, {FooterAddress(next_free, entry)})
  /\ next_free' = FooterAddress(next_free, entry)
  /\ log' = Append(log, [start |-> next_free, payload |-> entry])
  /\ entry' = <<>>
  /\ pc' = "idle"
  /\ UNCHANGED <<writer, todo>>

\* pmem_persist(footer_begin, 8), then advance and done.
PersistFooter ==
  /\ pc = "persist_footer"
  /\ mem' = PersistWords(mem, {FooterAddress(next_free, entry)})
  /\ next_free' = After(next_free, entry)
  /\ log' = Append(log, [start |-> next_free, payload |-> entry])
  /\ entry' = <<>>
  /\ pc' = "idle"
  /\ UNCHANGED <<writer, todo>>

\* The cache writes a line back although nobody asked it to.
Drift ==
  /\ mem' \in LineDrift(mem)
  /\ UNCHANGED <<writer, next_free, pc, entry, todo, log>>

\* One step of a call of AddLogEntry, or of the cache.
Next ==
  /\ writer \in Writers
  /\ \/ \E e \in Entries : AddLogEntry(e)
     \/ CopyWord \/ PersistEntry \/ StoreFooter \/ PersistFooter
     \/ Drift

-----------------------------------------------------------------------------
FooterIsDurable(start, e) ==
  Durable(mem, FooterAddress(start, e)) = Footer(start, e)

EntryIsDurable(start, e) ==
  \A i \in 1 .. Size(e) : Durable(mem, start + i - 1) = Layout(e)[i]

\* The log as it would be read after a power failure: entry after entry, each
\* with its footer, until one is missing.  Where they start is taken as known;
\* that no other footer is found is FooterImpliesEntry.
Recovered ==
  LET added ==
        IF pc = "idle" THEN log
        ELSE Append(log, [start |-> next_free, payload |-> entry])
      IsLost(r) ==
        ~ (EntryIsDurable(r.start, r.payload) /\ FooterIsDurable(r.start, r.payload))
      lost == {i \in 1 .. Len(added) : IsLost(added[i])}
  IN SubSeq(added, 1, Min(lost \union {Len(added) + 1}) - 1)

(* A footer in NVM stands behind an entry that is wholly in NVM.  The      *)
(* footer of Classic's first entry is 0, which zeroed memory holds from    *)
(* the start: it marks nothing, and the property leaves it out.            *)
FooterImpliesEntry ==
  pc # "idle" /\ Footer(next_free, entry) # 0 /\ FooterIsDurable(next_free, entry)
    => EntryIsDurable(next_free, entry)
=============================================================================
