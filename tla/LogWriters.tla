----------------------------- MODULE LogWriters -----------------------------
(***************************************************************************)
(* The log writers of logging/, one of which a run of the benchmark        *)
(* creates on a memory of its own and calls again and again: HeaderLog,    *)
(* ClassicLog, ZeroLog, ZeroCachedLog and MnemosyneLog have the state and  *)
(* the steps of each family.  The variable writer says which writer it is; *)
(* the variables its family has no use for keep their first value.         *)
(* LogWriterZeroSimd copies with other instructions than                   *)
(* LogWriterZeroBlocked, in the same steps.                                *)
(***************************************************************************)
EXTENDS LogMemory

CONSTANT Tried   \* the writers looked at

VARIABLES
  writer,                \* the log writer class
  mem,                   \* the memory of the log
  next_free,             \* where the next entry goes
  pc,                    \* where AddLogEntry stands
  entry,                 \* the payload of the entry being added
  todo,                  \* the words of it still to be copied
  log,                   \* what was added so far
  headers, next_header,  \* HeaderLog
  active_cl, cl_pos,     \* ZeroCachedLog
  pos,                   \* ZeroCachedLog, MnemosyneLog: how far the entry is
  buffer, checker        \* MnemosyneLog

header_vars == <<headers, next_header>>
cached_vars == <<active_cl, cl_pos>>
torn_vars == <<buffer, checker>>
vars == <<writer, mem, next_free, pc, entry, todo, log, pos,
          header_vars, cached_vars, torn_vars>>

Header == INSTANCE HeaderLog
Classic == INSTANCE ClassicLog
Zero == INSTANCE ZeroLog
ZeroCached == INSTANCE ZeroCachedLog
Torn == INSTANCE MnemosyneLog

Writers ==
  Header!Writers \union Classic!Writers \union Zero!Writers
    \union ZeroCached!Writers \union Torn!Writers

ASSUME LogWritersAssumption == Tried \subseteq Writers

TypeOK ==
  /\ writer \in Tried
  /\ writer \in Header!Writers => Header!TypeOK
  /\ writer \in Classic!Writers => Classic!TypeOK
  /\ writer \in Zero!Writers => Zero!TypeOK
  /\ writer \in ZeroCached!Writers => ZeroCached!TypeOK
  /\ writer \in Torn!Writers => Torn!TypeOK

NoHeaders == headers = <<>> /\ next_header = 0
NoCachedLine == active_cl = <<>> /\ cl_pos = 0
NoTornBits == buffer = 0 /\ checker = 0

Init ==
  /\ writer \in Tried
  /\ \/ Header!Init /\ NoCachedLine /\ NoTornBits /\ pos = 0
     \/ (Classic!Init \/ Zero!Init) /\ NoHeaders /\ NoCachedLine /\ NoTornBits /\ pos = 0
     \/ ZeroCached!Init /\ NoHeaders /\ NoTornBits /\ todo = {}
     \/ Torn!Init /\ NoHeaders /\ NoCachedLine /\ todo = {}

Next ==
  \/ Header!Next /\ UNCHANGED <<cached_vars, torn_vars, pos>>
  \/ (Classic!Next \/ Zero!Next) /\ UNCHANGED <<header_vars, cached_vars, torn_vars, pos>>
  \/ ZeroCached!Next /\ UNCHANGED <<header_vars, torn_vars, todo>>
  \/ Torn!Next /\ UNCHANGED <<header_vars, cached_vars, todo>>

Spec == Init /\ [][Next]_vars

-----------------------------------------------------------------------------
\* The log as it would be read after a power failure, by the rules of the
\* writer's format.
Recovered ==
  CASE writer \in Header!Writers -> Header!Recovered
    [] writer \in Classic!Writers -> Classic!Recovered
    [] writer \in Zero!Writers -> Zero!Recovered
    [] writer \in ZeroCached!Writers -> ZeroCached!Recovered
    [] writer \in Torn!Writers -> Torn!Recovered

Adding ==
  IF pc = "idle" THEN <<>>
  ELSE IF writer \in Classic!Writers THEN <<[start |-> next_free, payload |-> entry]>>
  ELSE <<entry>>

\* LogWriterMnemosyne may lose entries (see AddedEntriesSurvive) and is left
\* out of the promise: it counts as adding nothing.
KeepsAll == writer # "Mnemosyne"

Abstract == INSTANCE DurableLog WITH
  acked <- IF KeepsAll THEN log ELSE <<>>,
  pending <- IF KeepsAll THEN Adding ELSE <<>>,
  durable <- IF KeepsAll THEN Recovered ELSE <<>>

(* AddLogEntry appends atomically and durably, with one fence or two,      *)
(* whatever lines the cache writes back first: at every moment a power     *)
(* failure leaves the entries whose AddLogEntry has returned, with or      *)
(* without the one being added, each of them whole.                        *)
ImplementsDurableLog == Abstract!Spec

(* The footer of a classic writer never reaches NVM before the entry it    *)
(* marks, in the same cache line or not.                                   *)
FooterImpliesEntry == writer \in Classic!Writers => Classic!FooterImpliesEntry

(* The bit count of a zero writer counts bits that are its entry's alone:  *)
(* the memory behind the entry is zero, in the cache and in NVM.           *)
RestIsZero == writer \in Zero!Writers => Zero!RestIsZero

(* LogWriterZeroCached streams the last line of the log again with the     *)
(* next entry: its buffer holds what the line has, so that nothing is      *)
(* taken back.                                                             *)
BufferMatchesLog == writer \in ZeroCached!Writers => ZeroCached!BufferMatchesLog

(* What the torn bits of a Mnemosyne writer let be read back is whole      *)
(* entries from the front of the log, lowest bits in place; the aligned    *)
(* writer and the other one, which may lose the last ones.                 *)
RecoveredIsPrefix == writer \in Torn!Writers => Torn!RecoveredIsPrefix

(* "Flush cache line every cache line" (LW_Mnemosyne.hpp): when            *)
(* AddLogEntry has returned, no word of any entry waits in the cache and   *)
(* nothing that was added can be lost.                                     *)
AddedEntriesSurvive == pc = "idle" => Recovered = log
=============================================================================
