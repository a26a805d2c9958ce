---------------------------- MODULE BufferFrame -----------------------------
(***************************************************************************)
(* The bookkeeping of page_flush/FullBufferFrame.hpp: which cache lines of *)
(* a page are loaded into the DRAM copy and which of them are dirty.  The  *)
(* operations are operators on the record of the four flags; the           *)
(* specifications of the flush techniques and FrameLife.tla use them.      *)
(***************************************************************************)
EXTENDS Naturals

CONSTANT LineCount   \* constants::kCacheLinesPerPage

ASSUME BufferFrameAssumption == LineCount \in Nat \ {0}

Lines == 0 .. LineCount - 1

FrameSet ==
  [all_resident : BOOLEAN, resident : SUBSET Lines,
   all_dirty : BOOLEAN, dirty : SUBSET Lines]

\* FullBufferFrame::Init
InitFrame ==
  [all_resident |-> FALSE, resident |-> {}, all_dirty |-> FALSE, dirty |-> {}]

Resident(f, l) == f.all_resident \/ l \in f.resident
IsResident(f, ls) == f.all_resident \/ ls \subseteq f.resident

IsDirty(f, ls) == f.all_dirty \/ ls \subseteq f.dirty
IsAnythingDirty(f) == f.all_dirty \/ f.dirty # {}

\* A bug to catch: loading lines that are in DRAM already.
LinesToLoadAgain(f, ls) == IF f.all_resident THEN {} ELSE ls

\* The lines EnsureResidency copies from NVM: those not loaded yet.
LinesToLoad(f, ls) == IF f.all_resident THEN {} ELSE ls \ f.resident

\* EnsureResidency(offset, length) leaves early when everything is loaded.
EnsureLines(f, ls) ==
  IF f.all_resident THEN f ELSE [f EXCEPT !.resident = @ \union ls]

\* EnsureResidency(): the fast path of an empty frame sets no bits.
EnsureAll(f) ==
  IF f.all_resident \/ f.resident = {}
  THEN [f EXCEPT !.all_resident = TRUE]
  ELSE [EnsureLines(f, Lines) EXCEPT !.all_resident = TRUE]

\* A bug to catch: a page written as a whole is not known to be resident.
MarkAllDirtyOnly(f) == [f EXCEPT !.all_dirty = TRUE]

\* MarkDirty(): the two summary flags, and no bit.
MarkAllDirty(f) == [f EXCEPT !.all_dirty = TRUE, !.all_resident = TRUE]

\* MarkDirty(offset, length) of an NVM-backed frame: the bits, and no flag.
MarkLinesDirty(f, ls) ==
  [f EXCEPT !.dirty = @ \union ls, !.resident = @ \union ls]

\* What every flush ends with.
MarkClean(f) == [f EXCEPT !.all_dirty = FALSE, !.dirty = {}]

\* MakeCleanAfterFlushOfPMDK: bitset::set(false) is set(position 0, true).
MakeCleanAfterFlushOfPMDK(f) ==
  [f EXCEPT !.all_dirty = FALSE, !.dirty = @ \union {0}]

\* A bug to catch: the summary flag outlives the page.
SwapOutFrameHalf(f) == [f EXCEPT !.resident = {}]

\* SwapOut resets what SwapIn then asserts to be reset.
SwapOutFrame(f) == [f EXCEPT !.all_resident = FALSE, !.resident = {}]

\* FullBufferFrame::Invariants of a frame that holds a page.
FrameInvariants(f) ==
  /\ f.all_dirty => f.all_resident
  /\ \A l \in Lines : l \in f.dirty => l \in f.resident
=============================================================================
