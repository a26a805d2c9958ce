---------------------------- MODULE LogBasedCell ----------------------------
(***************************************************************************)
(* LogBasedUpdates: the update is appended to a redo log, with a fence,    *)
(* and then copied over the entry, with another.  LogWriterZeroCached of   *)
(* this program puts the payload and the number of its bits behind the     *)
(* entry before, through a buffer that holds the last line of the log.     *)
(* An entry of the log does not say which entry of the data it is for:     *)
(* whoever reads the log has to know that (own).                           *)
(***************************************************************************)
EXTENDS CellMemory, Sequences, SequencesExt, FiniteSetsExt

CONSTANTS
  EntryWords,   \* entry_size / 8
  LineWords,    \* kCacheLineByteCount / 8
  LogWords      \* LOG_BUFFER_SIZE

VARIABLES
  cells,       \* data_on_nvm
  pc,          \* where DoUpdate stands
  log_data,    \* file.data
  next_free,
  active_cl,   \* the first cl_pos words of the last line of the log
  todo         \* what AddLogEntry has still to put into active_cl

log_vars == <<log_data, next_free, active_cl, todo>>

Words == 0 .. EntryWords - 1

alex_PopCount[n \in Nat] == IF n = 0 THEN 0 ELSE (n % 2) + alex_PopCount[n \div 2]

PopCount(payload) == MapThenSumSet(LAMBDA w : alex_PopCount[payload[w]], Words)

\* LogBasedUpdates: the data is filled with 'a' and persisted ...
InitialCell(filler) == Durably([w \in Words |-> filler])

\* ... and the log begins at the start of a file of zeroes.
InitLog ==
  /\ log_data = Durably([a \in 0 .. LogWords - 1 |-> 0])
  /\ next_free = 0
  /\ active_cl = <<>>
  /\ todo = <<>>

Layout(input) == [n \in 1 .. EntryWords |-> input[n - 1]] \o <<PopCount(input)>>

\* AddLogEntry is called.
AddLogEntry(input) ==
  /\ pc = "begun"
  /\ next_free + EntryWords < LogWords
  /\ todo' = Layout(input)
  /\ pc' = "log"
  /\ UNCHANGED <<cells, log_data, next_free, active_cl>>

\* nvm_begin, when rest has still to be written: the line of its next word.
LineBegin(rest) ==
  LET next == next_free + EntryWords + 1 - Len(rest) IN next - Len(active_cl)

Room == LineWords - Len(active_cl)

Streamed(words) ==
  LET begin == LineBegin(todo)
  IN [a \in begin .. begin + LineWords - 1 |->
        IF a - begin < Len(words) THEN words[a - begin + 1] ELSE 0]

\* The line is filled as far as the entry goes and streamed, full or not.
StreamLine ==
  /\ pc = "log"
  /\ todo # <<>>
  /\ LET taken == IF Len(todo) < Room THEN Len(todo) ELSE Room
         line == active_cl \o SubSeq(todo, 1, taken)
     IN /\ log_data' = FastCopyAndWriteBack(log_data, Streamed(line))
        /\ active_cl' = IF Len(line) = LineWords THEN <<>> ELSE line
        /\ todo' = SubSeq(todo, taken + 1, Len(todo))
  /\ UNCHANGED <<cells, next_free, pc>>

\* A bug to catch: the entry is overwritten while the log is on its way.
CopyEntryUnfenced(i, input) ==
  /\ pc = "log"
  /\ todo = <<>>
  /\ next_free' = next_free + EntryWords + 1
  /\ cells' = [cells EXCEPT ![i] = FastCopyAndWriteBack(@, input)]
  /\ pc' = "fence"
  /\ UNCHANGED <<log_data, active_cl, todo>>

\* The fence of AddLogEntry, then the copy over the entry.
CopyEntry(i, input) ==
  /\ pc = "log"
  /\ todo = <<>>
  /\ log_data' = FenceWords(log_data)
  /\ next_free' = next_free + EntryWords + 1
  /\ cells' = [cells EXCEPT ![i] = FastCopyAndWriteBack(@, input)]
  /\ pc' = "fence"
  /\ UNCHANGED <<active_cl, todo>>

\* The log after a failure: its entries up to the first that is missing
\* or has the wrong number of bits.
Payload(n) ==
  [w \in Words |-> log_data[n * (EntryWords + 1) + w].dur]

IsWhole(n) ==
  LET checksum == log_data[n * (EntryWords + 1) + EntryWords].dur
  IN checksum # 0 /\ checksum = PopCount(Payload(n))

Survivors == {n \in 0 .. (LogWords \div (EntryWords + 1)) - 1 : \A k \in 0 .. n : IsWhole(k)}

\* The entry i after its updates in the log, whose numbers are own, have been
\* done again.
Redone(i, own) ==
  LET updates == Survivors \intersect own
  IN IF updates = {} THEN Surviving(cells[i]) ELSE Payload(Max(updates))
=============================================================================
