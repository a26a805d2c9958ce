---------------------------- MODULE InplaceBench ----------------------------
(***************************************************************************)
(* The in-place update benchmark: RunExperiment drives one scheme through  *)
(* passes of updates, of reads, and of updates followed by reads that      *)
(* depend on one another.  CowCell, VersionedCell and LogBasedCell have    *)
(* the steps of a DoUpdate; the log variables stay empty for a scheme that *)
(* keeps no log.                                                           *)
(***************************************************************************)
EXTENDS Naturals, Sequences, FiniteSets

CONSTANTS
  ENTRY_COUNT,
  ITERATION_COUNT,
  WordCount,       \* words of an entry
  Width,           \* bits of a word, for the version schemes
  LineWords,       \* words of a cache line, for the log
  Filler,          \* a word full of 'a'
  Data,            \* what the other words of an operation are filled with
  Tried            \* the schemes looked at

VARIABLES
  scheme,      \* COMPETITOR
  operations,  \* the entry_id of every operation
  cells,       \* the entries of the scheme
  pc,          \* where DoUpdate stands
  log_data, next_free, active_cl, todo,   \* LogBasedCell
  pass,        \* which loop of RunExperiment is running
  iteration,
  u,
  next_id,     \* the entry the next dependent read is for
  visited,     \* the entries this pass of reads has read
  acked,       \* what a ValidationBased would hold
  updated      \* the entries a DoUpdate has finished with

log_vars == <<log_data, next_free, active_cl, todo>>
cell_vars == <<cells, pc, log_vars>>
vars == <<scheme, operations, cell_vars, pass, iteration, u, next_id, visited,
          acked, updated>>

Ids == 0 .. ENTRY_COUNT - 1
Words == 0 .. WordCount - 1
UpdateCount == 2 * ITERATION_COUNT * ENTRY_COUNT

Log == INSTANCE LogBasedCell WITH
         EntryWords <- WordCount, LogWords <- UpdateCount * (WordCount + 1) + LineWords
Cow == INSTANCE CowCell
InPlace == INSTANCE VersionedCell

Schemes == {"log"} \union Cow!Schemes \union InPlace!Schemes

WordValues == 0 .. InPlace!Power2[Width] - 1

ASSUME InplaceBenchAssumption ==
  /\ ENTRY_COUNT \in Nat \ {0, 1}
  /\ ITERATION_COUNT \in Nat \ {0}
  /\ WordCount \in Nat \ {0}
  /\ Width \in Nat \ {0, 1}
  /\ LineWords \in Nat \ {0}
  /\ Filler \in WordValues \ {0}
  /\ Data \in [Ids -> WordValues]
  /\ ENTRY_COUNT <= InPlace!Power2[Width]
  /\ Tried \subseteq Schemes

\* entry_id and data of operations[i].
Operation(i) == [w \in Words |-> IF w = 0 THEN operations[i] ELSE Data[i]]
Payloads == [Words -> WordValues]

TypeOK ==
  /\ scheme \in Tried
  /\ operations \in [Ids -> Ids]
  /\ DOMAIN cells = Ids
  /\ pc \in {"idle", "begun", "log", "data", "fence"}
  /\ pass \in {"updates", "reads", "dependent_updates", "dependent_reads", "done"}
  /\ iteration \in 0 .. ITERATION_COUNT
  /\ u \in 0 .. ENTRY_COUNT
  /\ next_id \in Ids
  /\ visited \subseteq Ids
  /\ acked \in [Ids -> Payloads]
  /\ updated \subseteq Ids

-----------------------------------------------------------------------------
\* PrepareSequentialOperations: every entry refers to the next one.
SequentialOperations == [i \in Ids |-> (i + 1) % ENTRY_COUNT]

\* A bug to catch: the shuffled order is only looked up on one side.
RandomOperationsUnchained ==
  {[i \in Ids |-> helper[(i + 1) % ENTRY_COUNT]] :
     helper \in {f \in [Ids -> Ids] : \A i, j \in Ids : f[i] = f[j] => i = j}}

\* PrepareRandomOperations: the entries refer to one another in the order
\* that shuffling helper has left, which may be any.
RandomOperations ==
  {[i \in Ids |->
      LET position == CHOOSE p \in Ids : helper[p] = i
      IN helper[(position + 1) % ENTRY_COUNT]] :
     helper \in {f \in [Ids -> Ids] : \A i, j \in Ids : f[i] = f[j] => i = j}}

InitCells ==
  CASE scheme = "log" -> cells = [i \in Ids |-> Log!InitialCell(Filler)]
    [] scheme \in Cow!Schemes -> cells = [i \in Ids |-> Cow!InitialCell(Filler)]
    [] OTHER -> cells \in [Ids -> InPlace!InitialCells(Filler)]

\* ValidationBased is filled with 'a'.
ValidationInit == acked = [i \in Ids |-> [w \in Words |-> Filler]]

Init ==
  /\ scheme \in Tried
  /\ operations \in {SequentialOperations} \union RandomOperations
  /\ InitCells
  /\ pc = "idle"
  /\ IF scheme = "log" THEN Log!InitLog
     ELSE log_data = <<>> /\ next_free = 0 /\ active_cl = <<>> /\ todo = <<>>
  /\ pass = "updates"
  /\ iteration = 0
  /\ u = 0
  /\ next_id = 0
  /\ visited = {}
  /\ ValidationInit
  /\ updated = {}

-----------------------------------------------------------------------------
bench_vars == <<scheme, operations, pass, iteration, u, next_id, visited, acked, updated>>

\* Which entry operations[i] updates, in the first passes and the later ones.
TargetIn(p, i) == IF p = "updates" THEN operations[i] ELSE i

Target == TargetIn(pass, u)

\* The entry the n-th call of DoUpdate was for.
TargetOf(n) ==
  TargetIn(IF n < ITERATION_COUNT * ENTRY_COUNT THEN "updates" ELSE "dependent_updates",
           n % ENTRY_COUNT)

\* DoUpdate is called for operations[u].
BeginUpdate ==
  /\ pass \in {"updates", "dependent_updates"}
  /\ u < ENTRY_COUNT
  /\ pc = "idle"
  /\ pc' = "begun"
  /\ UNCHANGED <<bench_vars, cells, log_vars>>

\* The steps of DoUpdate up to its last fence.
CowStep ==
  /\ scheme \in Cow!Schemes
  /\ Cow!WriteData(Target, Operation(u)) \/ Cow!FenceAndTurn(Target)
  /\ UNCHANGED <<bench_vars, log_vars>>

InPlaceStep ==
  /\ scheme \in InPlace!Schemes
  /\ InPlace!WriteBlocks(Target, Operation(u))
  /\ UNCHANGED <<bench_vars, log_vars>>

LogStep ==
  /\ scheme = "log"
  /\ Log!AddLogEntry(Operation(u)) \/ Log!StreamLine \/ Log!CopyEntry(Target, Operation(u))
  /\ UNCHANGED bench_vars

\* ValidationBased::DoUpdate
ValidationUpdate(i, op) == acked' = [acked EXCEPT ![i] = op]

\* alex_SFence, and DoUpdate returns.
EndUpdate ==
  /\ pc = "fence"
  /\ cells' = [cells EXCEPT ![Target] = Log!FenceWords(@)]
  /\ pc' = "idle"
  /\ ValidationUpdate(Target, Operation(u))
  /\ updated' = updated \union {Target}
  /\ u' = u + 1
  /\ UNCHANGED <<scheme, operations, log_vars, pass, iteration, next_id, visited>>

\* ReadSingleResult
Read(i) ==
  LET value == Log!Volatile(cells[i])
  IN CASE scheme = "log" -> value
       [] scheme \in Cow!Schemes -> Cow!Read(value)
       [] OTHER -> InPlace!Read(value)

\* Reads of the first kind: ids_only[u].
ReadOne ==
  /\ pass = "reads"
  /\ u < ENTRY_COUNT
  /\ visited' = visited \union {operations[u]}
  /\ u' = u + 1
  /\ UNCHANGED <<scheme, operations, cell_vars, pass, iteration, next_id, acked, updated>>

\* A bug to catch: the loop goes on after the last entry.
ReadNextOnceMore ==
  /\ pass = "dependent_reads"
  /\ u <= ENTRY_COUNT
  /\ visited' = visited \union {next_id}
  /\ next_id' = Read(next_id)[0]
  /\ u' = u + 1
  /\ UNCHANGED <<scheme, operations, cell_vars, pass, iteration, acked, updated>>

\* Dependent reads: every entry read says which one comes next.
ReadNext ==
  /\ pass = "dependent_reads"
  /\ u < ENTRY_COUNT
  /\ visited' = visited \union {next_id}
  /\ next_id' = Read(next_id)[0]
  /\ u' = u + 1
  /\ UNCHANGED <<scheme, operations, cell_vars, pass, iteration, acked, updated>>

\* A pass over the operations ends, and the next one starts.
NextPass ==
  LET again == iteration + 1 < ITERATION_COUNT
      next == CASE pass = "updates" -> IF again THEN pass ELSE "reads"
                [] pass = "reads" -> IF again THEN pass ELSE "dependent_updates"
                [] pass = "dependent_updates" -> "dependent_reads"
                [] OTHER -> IF again THEN "dependent_updates" ELSE "done"
  IN /\ pass # "done"
     /\ u = ENTRY_COUNT
     /\ pass' = next
     /\ iteration' = IF pass = "dependent_updates" THEN iteration
                     ELSE IF again THEN iteration + 1 ELSE 0
     /\ u' = 0
     /\ next_id' = 0
     /\ visited' = {}
     /\ UNCHANGED <<scheme, operations, cell_vars, acked, updated>>

\* The cache writes back a word of the entry being updated, or of the log.
Drift ==
  /\ \/ /\ pc # "idle"
        /\ \E c \in Log!EarlyWords(cells[Target]) : cells' = [cells EXCEPT ![Target] = c]
        /\ UNCHANGED log_data
     \/ scheme = "log" /\ log_data' \in Log!EarlyWords(log_data) /\ UNCHANGED cells
  /\ UNCHANGED <<bench_vars, pc, next_free, active_cl, todo>>

Next ==
  \/ BeginUpdate \/ CowStep \/ InPlaceStep \/ LogStep \/ EndUpdate
  \/ ReadOne \/ ReadNext \/ NextPass
  \/ Drift

Spec == Init /\ [][Next]_vars

-----------------------------------------------------------------------------
\* What a power failure leaves of an entry, by the rules of the scheme.  The
\* constructor of the version schemes persists nothing: an entry counts from
\* its first update on.
Survivor(i) ==
  LET left == Log!Surviving(cells[i])
  IN CASE scheme = "log" -> Log!Redone(i, {n \in 0 .. UpdateCount - 1 : TargetOf(n) = i})
       [] scheme \in Cow!Schemes -> Cow!Read(left)
       [] OTHER -> IF i \in updated THEN InPlace!Survivor(left) ELSE acked[i]

Updating == IF pc = "idle" THEN <<>> ELSE <<Target, Operation(u)>>

Abstract == INSTANCE AtomicCells WITH
  acked <- acked,
  pending <- Updating,
  durable <- [i \in Ids |-> Survivor(i)]

(* DoUpdate of every scheme is atomic and durable: at every moment a power *)
(* failure leaves each entry as its last finished update made it, or as    *)
(* the one on its way does, whatever the cache writes back first and after *)
(* any number of updates.                                                  *)
ImplementsAtomicCells == Abstract!Spec

(* ReadSingleResult of every scheme gives back the whole of what was last  *)
(* written to the entry, as ValidationBased would, in every version of the *)
(* entry and for entries not yet updated, too.                             *)
ReadsReturnTheLastUpdate == pc = "idle" => \A i \in Ids : Read(i) = acked[i]

(* A pass of reads reads every entry, dependent reads as well: what the    *)
(* dependent updates leave in the entries is a single cycle through all of *)
(* them.                                                                   *)
ReadsVisitEveryEntry ==
  pass \in {"reads", "dependent_reads"} /\ u = ENTRY_COUNT => visited = Ids

(* Every block's old state is its own new state of before (tester.cpp,     *)
(* Block::WriteNoCheck: data = (data << 32) | new_state), that of a meta   *)
(* block, too: rolled back to the old states after a failure, an entry is  *)
(* what it was before the update.                                          *)
OldStatesAreTheLastUpdate ==
  \A i \in updated :
    \/ Survivor(i) = acked[i]
    \/ pc # "idle" /\ i = Target /\ Survivor(i) = Operation(u)
=============================================================================
