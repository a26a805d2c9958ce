--------------------------- MODULE VersionedCell ---------------------------
(***************************************************************************)
(* The InPlaceLikeUpdates of the sliding-bit and the high-bit scheme.  An  *)
(* entry of 4-byte words is spread over 8-byte blocks, each of which holds *)
(* an old and a new state of its word and a version.  Both states are in   *)
(* one block, so that an update of all the blocks needs no more than one   *)
(* fence: a failure leaves some blocks a version ahead of the others, and  *)
(* their old states go back.  The version takes a bit (or two) the word    *)
(* needs itself; these displaced bits have a meta block for every group of *)
(* words.                                                                  *)
(***************************************************************************)
EXTENDS CellMemory, FiniteSetsExt

CONSTANTS
  WordCount,   \* 4-byte words of an entry
  Width        \* bits of a word (32); a group has one word less

VARIABLES
  scheme,   \* which of the two
  cells,    \* entries[id]._blocks
  pc        \* where DoUpdate stands

Schemes == {"sliding", "high"}

Words == 0 .. WordCount - 1

Group == Width - 1   \* the words that share a meta block (31; 28 with high bits)

BlockCount == WordCount + ((WordCount + Group - 1) \div Group)

Blocks == 0 .. BlockCount - 1

FirstBlock(w) == (w \div Group) * (Group + 1)   \* blocks of WriteRec
Position(w) == w % Group                        \* index into blocks and input
CountOf(w) == WordCount - (w \div Group) * Group   \* the count of WriteRec

GroupOf(w) == {v \in Words : FirstBlock(v) = FirstBlock(w)}

\* 1 << n
Power2[n \in Nat] == IF n = 0 THEN 1 ELSE 2 * Power2[n - 1]

Bit(n, i) == (n \div Power2[i]) % 2
WithBit(n, i, b) == n - Bit(n, i) * Power2[i] + b * Power2[i]

-----------------------------------------------------------------------------
(* Sliding: the version of the word at position i is bit i of both states, *)
(* that of a meta block the highest bit.                                   *)

SlidingBlock(w) == FirstBlock(w) + Position(w)

\* meta_block_idx
MetaBlock(w) ==
  FirstBlock(w) + (IF CountOf(w) >= Width THEN Group ELSE CountOf(w))

\* blocks[count]: where the meta block's new old state is taken from.
MetaSource(w) == FirstBlock(w) + CountOf(w)

\* next_version_bit: the one the old state of the group's first block has not.
NextVersionBit(blocks, w) == 1 - Bit(blocks[FirstBlock(w)].old, 0)

\* A bug to catch: the mask of the first word is used for every word.
DisplacedBitsOfFirst(input, w) ==
  MapThenSumSet(LAMBDA v : Bit(input[v], 0) * Power2[Position(v)], GroupOf(w))

\* high_bits: what the versions take the place of.
DisplacedBits(input, w) ==
  MapThenSumSet(LAMBDA v : Bit(input[v], Position(v)) * Power2[Position(v)], GroupOf(w))

\* A bug to catch: the version bit is left to the word.
WriteWordUnversioned(blocks, input, w) ==
  [old |-> blocks[SlidingBlock(w)].new, new |-> input[w]]

WriteWord(blocks, input, w) ==
  [old |-> blocks[SlidingBlock(w)].new,
   new |-> WithBit(input[w], Position(w), NextVersionBit(blocks, w))]

WriteMeta(blocks, input, w) ==
  [old |-> blocks[MetaSource(w)].new,
   new |-> WithBit(DisplacedBits(input, w), Group, NextVersionBit(blocks, w))]

\* WriteRec.  A group comes after the one before it, and finds in its
\* blocks what it would have found at the start.
WriteSliding(blocks, input) ==
  [k \in Blocks |->
     LET w == CHOOSE v \in Words : k \in {SlidingBlock(v), MetaBlock(v)}
     IN IF k = SlidingBlock(w) THEN WriteWord(blocks, input, w)
        ELSE WriteMeta(blocks, input, w)]

\* ReadRec, given the state to take of every block.
WordOf(state, w) ==
  WithBit(state[SlidingBlock(w)], Position(w), Bit(state[MetaBlock(w)], Position(w)))

ReadSliding(blocks) ==
  [w \in Words |-> WordOf([k \in Blocks |-> blocks[k].new], w)]

\* GetVersionNoCheck: the version of a block is made of two bits that go
\* 00, 01, 11, 10 and again 00: this is its number in that order.
VersionBit(k) == IF \E w \in Words : k = MetaBlock(w) THEN Group
                 ELSE Position(CHOOSE w \in Words : k = SlidingBlock(w))

Phase(block, i) ==
  LET older == Bit(block.old, i) newer == Bit(block.new, i)
  IN IF older = 0 THEN newer ELSE 3 - newer

-----------------------------------------------------------------------------
(* High bit: the words give up their highest bit, the blocks have a        *)
(* version that counts, the first block of a group has the displaced bits. *)

HighBlock(w) == FirstBlock(w) + 1 + Position(w)

NextVersion(block) == (block.version + 1) % 4

\* currentHighBits
HighBits(input, w) ==
  MapThenSumSet(LAMBDA v : Bit(input[v], Group) * Power2[Position(v)], GroupOf(w))

WriteHigh(blocks, input) ==
  [k \in Blocks |->
     LET w == CHOOSE v \in Words : k \in {FirstBlock(v), HighBlock(v)}
     IN [version |-> NextVersion(blocks[k]),
         old |-> blocks[k].new,
         new |-> IF k = FirstBlock(w) THEN HighBits(input, w)
                 ELSE WithBit(input[w], Group, 0)]]

HighWordOf(state, w) ==
  WithBit(state[HighBlock(w)], Group, Bit(state[FirstBlock(w)], Position(w)))

ReadHigh(blocks) ==
  [w \in Words |-> HighWordOf([k \in Blocks |-> blocks[k].new], w)]

-----------------------------------------------------------------------------
\* WriteNoCheck, ReadNoCheck
Write(blocks, input) ==
  IF scheme = "sliding" THEN WriteSliding(blocks, input) ELSE WriteHigh(blocks, input)

Read(blocks) ==
  IF scheme = "sliding" THEN ReadSliding(blocks) ELSE ReadHigh(blocks)

\* Reset
ResetBlocks ==
  [k \in Blocks |-> IF scheme = "sliding" THEN [old |-> 0, new |-> 0]
                    ELSE [version |-> 0, old |-> 0, new |-> 0]]

\* What the constructor of the sliding scheme makes of an entry, by one write
\* or by two, and that of the high-bit scheme, by one.
Constructed(filler) ==
  LET data == [w \in Words |-> filler]
      once == Write(ResetBlocks, data)
  IN IF scheme = "sliding" THEN {once, Write(once, data)} ELSE {once}

\* ... with plain stores: NVM may still have the zeroes of a new file.
InitialCells(filler) ==
  {[k \in Blocks |-> Store(Line(ResetBlocks[k]), blocks[k])] : blocks \in Constructed(filler)}

\* DoUpdate: every block is stored once, the lines are written back.  No
\* fence keeps the stores apart: blocks may get to NVM in any order.
WriteBlocks(i, input) ==
  /\ pc = "begun"
  /\ cells' = [cells EXCEPT ![i] = FastCopyAndWriteBack(@, Write(Volatile(@), input))]
  /\ pc' = "fence"

\* What the versions are for: after a failure a block that is a version
\* ahead of another one goes back to its old state.
PhaseOf(blocks, k) ==
  IF scheme = "sliding" THEN Phase(blocks[k], VersionBit(k)) ELSE blocks[k].version

RolledBack(blocks) ==
  [k \in Blocks |->
     IF \E other \in Blocks : PhaseOf(blocks, k) = (PhaseOf(blocks, other) + 1) % 4
     THEN blocks[k].old
     ELSE blocks[k].new]

Survivor(blocks) ==
  [w \in Words |->
     IF scheme = "sliding" THEN WordOf(RolledBack(blocks), w)
     ELSE HighWordOf(RolledBack(blocks), w)]
=============================================================================
