------------------------------ MODULE CowCell ------------------------------
(***************************************************************************)
(* CowBasedUpdates: every entry is kept twice, as a and b, beside a byte   *)
(* that says which of the two is the entry.  An update fills the other one *)
(* and then turns the byte, each with a fence.  InplaceCow is specialised  *)
(* by the size of the entry: in 16 bytes everything is in one cache line,  *)
(* in 32 and 48 bytes the byte and a are, else each has its own.           *)
(***************************************************************************)
EXTENDS CellMemory

CONSTANT Words   \* the words of an entry

VARIABLES
  scheme,   \* the specialisation
  cells,    \* entries: an InplaceCow for every id
  pc        \* where DoUpdate stands

Schemes == {"cow", "cow16", "cow32", "cow48"}

\* is_a_active, active_version_id.
id == <<"id", 0>>
Version(v) == {v} \X Words

OneLine == {id} \union Version("a") \union Version("b")
FirstLine == {id} \union Version("a")

Units == OneLine

\* The words in one line with the byte.
LineOfId ==
  CASE scheme = "cow" -> {id}
    [] scheme = "cow16" -> OneLine
    [] OTHER -> FirstLine

\* is_a_active is set for a; active_version_id is 0 for a.
AIs == IF scheme = "cow" THEN 1 ELSE 0
Active(value) == IF value[id] = AIs THEN "a" ELSE "b"
Other(v) == IF v = "a" THEN "b" ELSE "a"

\* Read: the active one of the two, of the words as they are in value.
Read(value) == [w \in Words |-> value[<<Active(value), w>>]]

\* CowBasedUpdates: everything is filled with 'a', Init makes is_a_active
\* true, and active_version_id as well; all of it is persisted.
InitialCell(filler) ==
  Durably([x \in Units |-> IF x = id THEN 1 ELSE filler])

Into(v, input) == [x \in Version(v) |-> input[x[2]]]
Target(c) == Other(Active(Volatile(c)))

\* InplaceCow::Write fills the inactive version and writes it back.
WriteInactive(c, input) == FastCopyAndWriteBack(c, Into(Target(c), input))

\* InplaceCow<16>::Write fills it in the cache and streams the whole line.
WriteInactive16(c, input) ==
  WriteBackWords(StoreWords(c, Into(Target(c), input)), OneLine)

\* InplaceCow<32>::Write has b on a line of its own and uses clwb; a shares
\* the line of the byte, which is streamed.
WriteInactive32(c, input) ==
  IF Target(c) = "b"
  THEN FastCopyAndWriteBack(c, Into("b", input))
  ELSE WriteBackWords(StoreWords(c, Into("a", input)), FirstLine)

\* InplaceCow<48>::Write does the same with larger versions.
WriteInactive48(c, input) == WriteInactive32(c, input)

\* A bug to catch: the active version is overwritten.
WriteVersionActive(c, input) ==
  FastCopyAndWriteBack(c, Into(Active(Volatile(c)), input))

WriteVersion(c, input) ==
  CASE scheme = "cow" -> WriteInactive(c, input)
    [] scheme = "cow16" -> WriteInactive16(c, input)
    [] scheme = "cow32" -> WriteInactive32(c, input)
    [] scheme = "cow48" -> WriteInactive48(c, input)

\* The byte is turned, in the cache or in the register that is streamed.
TurnId(c) ==
  WriteBackWords(StoreWords(c, [x \in {id} |-> 1 - c[id].vol]), LineOfId)

\* Write, up to its last fence.
WriteData(i, input) ==
  /\ pc = "begun"
  /\ cells' = [cells EXCEPT ![i] = WriteVersion(@, input)]
  /\ pc' = "data"

FenceAndTurn(i) ==
  /\ pc = "data"
  /\ cells' = [cells EXCEPT ![i] = TurnId(FenceWords(@))]
  /\ pc' = "fence"
=============================================================================
