------------------------------ MODULE TreeNode ------------------------------
(***************************************************************************)
(* A tree node of the coroutine programs: a cache line with the free_bits  *)
(* and the fingerprints, and the entries, whose key and value never are on *)
(* two lines.  An entry is known by its key; the value goes with it.  (The *)
(* nodes of reuse.cpp may begin anywhere in a line; the fingerprints of    *)
(* their last slots are treated as if they were on the line of free_bits.) *)
(***************************************************************************)
EXTENDS Naturals, FiniteSetsExt, PMem

CONSTANTS
  Capacity,    \* Node::CAPACITY
  HashCount    \* the values of a fingerprint (uint8_t)

Slots == 0 .. Capacity - 1

FingerprintHash(key) == key % HashCount

\* A slot is free when its bit in free_bits is set.
HeadLine(free, fingerprints) == [free |-> free, fingerprints |-> fingerprints]

Contents(node) ==
  [head |-> node.head.vol, entries |-> [s \in Slots |-> node.entries[s].vol]]

\* Node_GetFirstFreeSlot: 32 when there is none.
Node_GetFirstFreeSlot(head) == IF head.free = {} THEN Capacity ELSE Min(head.free)

IsFull(head) == Node_GetFirstFreeSlot(head) = Capacity

\* Node_SetSlotAsUsed
Node_SetSlotAsUsed(head, slot) == [head EXCEPT !.free = @ \ {slot}]

Node_IsSlotUsed(head, slot) == slot \notin head.free

\* "Simply reset node when full": what free_bits become is up to the program.
ResetWhenFull(head, reset_free) ==
  IF IsFull(head) THEN [head EXCEPT !.free = reset_free] ELSE head

\* A bug to catch: a full node is not noticed.
SlotForUnchecked(head) == Node_GetFirstFreeSlot(head)

\* The slot a new entry is given.
SlotFor(head) == IF IsFull(head) THEN 0 ELSE Node_GetFirstFreeSlot(head)

WithFingerprint(head, slot, key) ==
  [head EXCEPT !.fingerprints[slot] = FingerprintHash(key)]

\* An insert that nothing comes between, on the contents of a node.
NormalInsert(contents, key, reset_free) ==
  LET slot == SlotFor(contents.head)
      head == WithFingerprint(ResetWhenFull(contents.head, reset_free), slot, key)
  IN [head |-> Node_SetSlotAsUsed(head, slot),
      entries |-> [contents.entries EXCEPT ![slot] = key]]

\* The slots the fingerprints do not rule out.
Matches(head, key) ==
  {s \in Slots : Node_IsSlotUsed(head, s) /\ head.fingerprints[s] = FingerprintHash(key)}

FenceNode(node) ==
  [head |-> SFence(node.head), entries |-> [s \in Slots |-> SFence(node.entries[s])]]

\* What a node may become when the cache writes back one of its lines.
EarlyNodes(node, torn) ==
  {[node EXCEPT !.head = c] : c \in WordDrift(node.head)}
    \union UNION {{[node EXCEPT !.entries[s] = c] : c \in CopyDrift(node.entries[s], torn)} :
                    s \in Slots}
=============================================================================
