--------------------------- MODULE CoroutineTree ---------------------------
(***************************************************************************)
(* coro_insert.cpp, reuse.cpp and coro_lookup.cpp: one thread inserts into *)
(* tree nodes, or looks keys up in them, one operation after the other     *)
(* (scalar) or in groups of coroutines that it resumes in turn, so that    *)
(* the prefetches and write-backs of a group overlap.  A coroutine runs    *)
(* until it awaits the scheduler or returns; the driver resumes all of a   *)
(* group once per round, and fences after some of the rounds.              *)
(***************************************************************************)
EXTENDS Naturals, Sequences, FiniteSets, SequencesExt, TreeNode

CONSTANTS
  NODE_COUNT,
  GROUP_SIZE,
  OperationCount,    \* INSERT_COUNT, LOOKUP_COUNT
  CoroutineCounts,   \* promise_type::coroutine_count, of a few builds
  Initial,           \* the entries Initialize leaves, for the inserts
  Torn,              \* an entry with a new key and an old value, or so
  Tried              \* the programs and styles looked at

Styles == {"scalar", "coro_full", "coro_read", "coro_write"}

\* Every program with every style it has.
Programs ==
  ({"coro_insert", "reuse"} \X Styles) \union ({"coro_lookup"} \X {"scalar", "coro_read"})

ASSUME CoroutineTreeAssumption ==
  /\ Tried \subseteq Programs
  /\ NODE_COUNT \in Nat
  /\ GROUP_SIZE \in 1 .. NODE_COUNT
  /\ OperationCount \in Nat /\ OperationCount >= GROUP_SIZE
  /\ CoroutineCounts \subseteq Nat \ {0}
  /\ Capacity \in Nat \ {0}
  /\ HashCount \in Nat /\ Capacity <= HashCount
  /\ Initial \notin Nat /\ Torn \notin Nat /\ Initial # Torn

VARIABLES
  program,        \* the source file
  style,          \* coro_style
  operations,     \* node and key of every operation
  nodes,
  i,              \* the first operation of the group, as in DoInserts...
  round,          \* which loop over the group is running
  g,              \* how far it has got
  running,        \* the coroutine of g has been resumed
  at,             \* at[g]: where that coroutine is
  slot,           \* slot[g]: the local variable of its name
  frames,         \* the frame of every coroutine of the group
  free_list,
  sum,            \* what the lookups have returned
  outcome,
  coroutine_count,
  normal_nodes    \* what DoInsertsNormal does to another copy (Validate)

group_vars == <<round, g, running, at, slot, frames, free_list>>
input_vars == <<program, style, operations, coroutine_count>>
vars == <<input_vars, nodes, i, group_vars, sum, outcome, normal_nodes>>

Nodes == 0 .. NODE_COUNT - 1
Operations == 0 .. OperationCount - 1
Members == 0 .. GROUP_SIZE - 1

\* OverridingList, the frames that are free.  It links them through their
\* first words, which is why a frame must not be on it while it is in use.
Push(list, frame) == <<frame>> \o list
Pop(list) == Tail(list)
Top(list) == Head(list)
Empty(list) == list = <<>>

\* promise_type::Setup pushes its fixed number of frames one after the other.
Setup(all_frames) == FoldLeft(Push, <<>>, all_frames)

Insert == INSTANCE CoroInsert
Reuse == INSTANCE ReuseInsert
Lookup == INSTANCE CoroLookup

\* The loop over whole groups is left for the loop over what remains, which
\* does every operation by itself.
InGroup == style # "scalar" /\ i + GROUP_SIZE - 1 < OperationCount

Batch == IF InGroup THEN GROUP_SIZE ELSE 1

StyleOfBatch == IF InGroup THEN style ELSE "scalar"

Coroutine ==
  CASE program = "coro_insert" -> Insert!Coroutines[StyleOfBatch]
    [] program = "reuse" -> Reuse!Coroutines[StyleOfBatch]
    [] program = "coro_lookup" -> Lookup!Coroutines[StyleOfBatch]

Rounds ==
  CASE program = "coro_insert" -> Insert!Drivers[StyleOfBatch]
    [] program = "reuse" -> Reuse!Drivers[StyleOfBatch]
    [] program = "coro_lookup" -> Lookup!Drivers[StyleOfBatch]

-----------------------------------------------------------------------------
Keys == Operations \union Slots
EntrySet == Keys \union {Initial, Torn}
HeadSet == [free : SUBSET Slots, fingerprints : [Slots -> 0 .. HashCount - 1]]
NodeSet == [head : LineSet(HeadSet), entries : [Slots -> LineSet(EntrySet)]]
ContentSet == [head : HeadSet, entries : [Slots -> EntrySet]]

TypeOK ==
  /\ <<program, style>> \in Tried
  /\ operations \in [Operations -> [node : Nodes, key : Keys]]
  /\ nodes \in [Nodes -> NodeSet]
  /\ i \in 0 .. OperationCount
  /\ round \in 1 .. Len(Rounds)
  /\ g \in 0 .. Batch
  /\ running \in BOOLEAN
  /\ at \in [Members -> 1 .. Len(Coroutine) + 1]
  /\ slot \in [Members -> Slots]
  /\ frames \in Seq(1 .. coroutine_count) /\ free_list \in Seq(1 .. coroutine_count)
  /\ sum \in Nat
  /\ outcome \in {"going", "done", "crashed"}
  /\ normal_nodes \in [Nodes -> ContentSet]

Tasks ==
  CASE program = "coro_insert" -> Insert!Tasks
    [] program = "reuse" -> Reuse!Tasks
    [] program = "coro_lookup" -> Lookup!Tasks

CreateNodes ==
  CASE program = "coro_insert" -> Insert!CreateNodes
    [] program = "reuse" -> Reuse!CreateNodes
    [] program = "coro_lookup" -> Lookup!CreateNodes

Init ==
  /\ \E t \in Tried : program = t[1] /\ style = t[2]
  /\ operations \in Tasks
  /\ coroutine_count \in CoroutineCounts
  /\ nodes \in CreateNodes
  /\ i = 0
  /\ round = 1
  /\ g = 0
  /\ running = FALSE
  /\ at = [m \in Members |-> 1]
  /\ slot = [m \in Members |-> 0]
  /\ frames = <<>>
  /\ free_list = Setup([f \in 1 .. coroutine_count |-> f])
  /\ sum = 0
  /\ outcome = "going"
  /\ normal_nodes = [n \in Nodes |-> Contents(nodes[n])]

-----------------------------------------------------------------------------
Op == operations[i + g]

\* The driver calls the coroutine for the first time, which needs a frame,
\* or a plain function, which needs none, or resumes it.
Resume ==
  /\ outcome = "going"
  /\ i < OperationCount /\ g < Batch /\ ~running
  /\ IF InGroup /\ round = 1
     THEN /\ ~Empty(free_list)
          /\ frames' = Append(frames, Top(free_list))
          /\ free_list' = Pop(free_list)
     ELSE UNCHANGED <<frames, free_list>>
  /\ running' = TRUE
  /\ UNCHANGED <<input_vars, nodes, i, round, g, at, slot, sum, outcome, normal_nodes>>

\* Pop of the empty list reads through a null pointer.
PoolRunsDry ==
  /\ outcome = "going"
  /\ i < OperationCount /\ g < Batch /\ ~running
  /\ InGroup /\ round = 1
  /\ Empty(free_list)
  /\ outcome' = "crashed"
  /\ UNCHANGED <<input_vars, nodes, i, group_vars, sum, normal_nodes>>

Does(step) ==
  /\ outcome = "going"
  /\ running
  /\ at[g] <= Len(Coroutine)
  /\ Coroutine[at[g]] = step

GoOn == at' = [at EXCEPT ![g] = @ + 1]

\* The coroutine gives control back to the loop of the round.
Await ==
  /\ Does("await")
  /\ GoOn
  /\ running' = FALSE
  /\ g' = g + 1
  /\ UNCHANGED <<input_vars, nodes, i, round, slot, frames, free_list, sum, outcome, normal_nodes>>

Return ==
  /\ outcome = "going"
  /\ running
  /\ at[g] > Len(Coroutine)
  /\ running' = FALSE
  /\ g' = g + 1
  /\ UNCHANGED <<input_vars, nodes, i, round, at, slot, frames, free_list, sum, outcome, normal_nodes>>

Prefetch ==
  /\ Does("prefetch")
  /\ GoOn
  /\ UNCHANGED <<input_vars, nodes, i, round, g, running, slot, frames, free_list, sum, outcome, normal_nodes>>

Reset == IF program = "reuse" THEN Reuse!ResetBits ELSE Insert!ResetBits

\* Figure out the slot to put key and value; a full node is reset.
ChooseSlot ==
  /\ Does("choose")
  /\ GoOn
  /\ slot' = [slot EXCEPT ![g] = SlotFor(nodes[Op.node].head.vol)]
  /\ nodes' = [nodes EXCEPT ![Op.node].head = Store(@, ResetWhenFull(@.vol, Reset))]
  /\ UNCHANGED <<input_vars, i, round, g, running, frames, free_list, sum, outcome, normal_nodes>>

\* Add the new entry and write it back, with its fingerprint.
StoreEntry ==
  /\ Does("store")
  /\ GoOn
  /\ nodes' = [nodes EXCEPT
       ![Op.node].entries[slot[g]] = CopyAndFlush(@, Op.key),
       ![Op.node].head = CopyAndFlush(@, WithFingerprint(@.vol, slot[g], Op.key))]
  /\ UNCHANGED <<input_vars, i, round, g, running, slot, frames, free_list, sum, outcome, normal_nodes>>

FenceNodes == [n \in Nodes |-> FenceNode(nodes[n])]

Fence ==
  /\ Does("fence")
  /\ GoOn
  /\ nodes' = FenceNodes
  /\ UNCHANGED <<input_vars, i, round, g, running, slot, frames, free_list, sum, outcome, normal_nodes>>

\* Set the new entry valid and write that back.
UseSlot ==
  /\ Does("use")
  /\ GoOn
  /\ nodes' = [nodes EXCEPT
       ![Op.node].head = CopyAndFlush(@, Node_SetSlotAsUsed(@.vol, slot[g]))]
  /\ UNCHANGED <<input_vars, i, round, g, running, slot, frames, free_list, sum, outcome, normal_nodes>>

\* A bug to catch: the fingerprints are not looked at.
CandidatesUnfiltered == {s \in Slots : Node_IsSlotUsed(nodes[Op.node].head.vol, s)}

Candidates == Matches(nodes[Op.node].head.vol, Op.key)

\* The loop over the slots, up to the first whose fingerprint matches: no
\* match is the assertion behind the loop.
Match ==
  /\ Does("match")
  /\ GoOn
  /\ slot' = [slot EXCEPT ![g] = IF Candidates = {} THEN @ ELSE Min(Candidates)]
  /\ outcome' = IF Candidates = {} THEN "crashed" ELSE "going"
  /\ UNCHANGED <<input_vars, nodes, i, round, g, running, frames, free_list, sum, normal_nodes>>

\* With another key the coroutine would look on and await once more, and the
\* driver's assertion that it is done would fail.
Compare ==
  /\ Does("compare")
  /\ LET key == nodes[Op.node].entries[slot[g]].vol
     IN /\ outcome' = IF key = Op.key THEN "going" ELSE "crashed"
        /\ sum' = sum + key
  /\ GoOn
  /\ UNCHANGED <<input_vars, nodes, i, round, g, running, slot, frames, free_list, normal_nodes>>

\* A bug to catch: a frame is taken from the list again, not given back.
ClearFramesLeaked == frames' = <<>> /\ UNCHANGED free_list

\* groups.clear(): every Task destroys its coroutine, operator delete.
ClearFrames == frames' = <<>> /\ free_list' = FoldLeft(Push, free_list, frames)

Done == \A m \in 0 .. Batch - 1 : at[m] > Len(Coroutine)

InsertNormally(contents, op) ==
  [contents EXCEPT ![operations[op].node] = NormalInsert(@, operations[op].key, Reset)]

\* What Validate compares with, after the operations of this batch.
NormalNodesAfter ==
  IF program = "coro_lookup" THEN normal_nodes
  ELSE FoldLeft(InsertNormally, normal_nodes, [m \in 1 .. Batch |-> i + m - 1])

\* A round ends, with a fence or without.
EndRound ==
  /\ outcome = "going"
  /\ i < OperationCount /\ g = Batch /\ round < Len(Rounds)
  /\ nodes' = IF Rounds[round] THEN FenceNodes ELSE nodes
  /\ round' = round + 1
  /\ g' = 0
  /\ UNCHANGED <<input_vars, i, running, at, slot, frames, free_list, sum, outcome, normal_nodes>>

\* The last round ends, whose loop asserts that the coroutines are done.
EndBatch ==
  /\ outcome = "going"
  /\ i < OperationCount /\ g = Batch /\ round = Len(Rounds)
  /\ outcome' = IF Done THEN "going" ELSE "crashed"
  /\ nodes' = IF Rounds[round] THEN FenceNodes ELSE nodes
  /\ i' = i + Batch
  /\ round' = 1
  /\ g' = 0
  /\ at' = [m \in Members |-> 1]
  /\ ClearFrames
  /\ normal_nodes' = NormalNodesAfter
  /\ UNCHANGED <<input_vars, running, slot, sum>>

EndOperations ==
  /\ outcome = "going"
  /\ i = OperationCount
  /\ outcome' = "done"
  /\ UNCHANGED <<input_vars, nodes, i, group_vars, sum, normal_nodes>>

\* The cache writes a line of a node back.
Drift ==
  /\ \E n \in Nodes : \E c \in EarlyNodes(nodes[n], Torn) : nodes' = [nodes EXCEPT ![n] = c]
  /\ UNCHANGED <<input_vars, i, group_vars, sum, outcome, normal_nodes>>

Next ==
  \/ Resume \/ PoolRunsDry \/ Await \/ Return
  \/ Prefetch \/ ChooseSlot \/ StoreEntry \/ Fence \/ UseSlot
  \/ Match \/ Compare
  \/ EndRound \/ EndBatch \/ EndOperations
  \/ Drift

Spec == Init /\ [][Next]_vars

-----------------------------------------------------------------------------
BetweenBatches == round = 1 /\ g = 0 /\ ~running /\ outcome # "crashed"

\* After every group the nodes are what inserting one key after the other
\* makes of them: the members of a group never meet in a node, where the
\* second would choose the slot the first has not marked yet (Validate).
CoroutineEqualsScalar ==
  BetweenBatches => \A n \in Nodes : Contents(nodes[n]) = normal_nodes[n]

\* When DoInserts... goes on to the next group (or returns, or a normal insert
\* does), a power failure can take nothing of the inserts so far.
InsertsAreDurable ==
  BetweenBatches =>
    \A op \in 0 .. i - 1 :
      LET node == nodes[operations[op].node]
      IN Stable(node.head) /\ \A s \in Slots : Stable(node.entries[s])

HoldsKey(node, s) ==
  /\ Node_IsSlotUsed(node.head.vol, s)
  /\ node.entries[s].vol \in Operations

\* "Set new entry valid and persist": a slot is marked as used only when a
\* failure can no longer take its entry and fingerprint.
UsedMeansDurable ==
  program # "coro_lookup" =>
    \A n \in Nodes : \A s \in Slots :
      HoldsKey(nodes[n], s) =>
        /\ Stable(nodes[n].entries[s])
        /\ nodes[n].head.dur.fingerprints[s] = FingerprintHash(nodes[n].entries[s].vol)

\* ... which reuse.cpp breaks as soon as a node is full (UsedMeansDurable is
\* the property of a run of its own): as long as none is, it keeps to it.
NewEntriesAreDurableFirst == program # "reuse" => UsedMeansDurable

\* A frame is free or belongs to one coroutine, and the pool is only too
\* small for a group that is larger than it.
FramesAreConserved ==
  /\ IsInjective(free_list \o frames)
  /\ Len(free_list) + Len(frames) = coroutine_count
  /\ Empty(free_list) /\ outcome = "crashed" => coroutine_count < GROUP_SIZE

\* Every lookup finds its key, in whatever order the group's lookups reach
\* their nodes: no assertion fails, and the sum is the one Validate expects.
LookupsFindTheirKey ==
  program = "coro_lookup" =>
    /\ outcome = "crashed" => Empty(free_list)
    /\ BetweenBatches => sum = Lookup!Expected(operations, i)
=============================================================================
