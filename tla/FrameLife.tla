----------------------------- MODULE FrameLife ------------------------------
(***************************************************************************)
(* The life of one FullBufferFrame (page_flush/FullBufferFrame.hpp) over   *)
(* several pages in NVM: a page is swapped in, read and written through    *)
(* Translate<mode>, flushed in place by Flush() and swapped out again.     *)
(*                                                                         *)
(* Bytes are modelled one by one, so a range may start and end inside a    *)
(* cache line.  There is no crash here: the module is about which copy of  *)
(* a byte, DRAM or NVM, is the current one.  The flush protocols and their *)
(* crashes are MicroLogFlush.tla and ShadowFlush.tla.                      *)
(***************************************************************************)
EXTENDS BufferFrame

CONSTANTS
  LineSize,   \* constants::kCacheLineByteCount
  Pages,      \* the pages that live in NVM
  Bytes,      \* what a byte may hold
  Techniques  \* the flushes a driver may use: "Strawman", "PMDK"

NoPage == "kInvalidPageId"

ASSUME FrameLifeAssumption ==
  /\ LineSize \in Nat \ {0}
  /\ NoPage \notin Pages
  /\ Techniques \subseteq {"Strawman", "PMDK"}

VARIABLES
  technique,  \* the flush this run of the benchmark uses throughout
  page_id,  \* the page in the frame
  frame,    \* its residency and dirty flags
  ram,      \* the DRAM copy, byte by byte
  nvm,      \* nvm[p] is the content of page p in NVM
  app       \* app[p] is what the users of page p wrote last (history variable)

vars == <<technique, page_id, frame, ram, nvm, app>>

PageSize == LineCount * LineSize

Offsets == 0 .. PageSize - 1

\* The cache lines a byte range touches, by the code's arithmetic.
FirstCacheLineId(offset) == offset \div LineSize
LastCacheLineIdPastEnd(offset, length) == ((offset + length) \div LineSize) + 1   \* a bug to catch
LastCacheLineId(offset, length) == ((offset + length - 1) \div LineSize) + 1
LineRange(offset, length) ==
  FirstCacheLineId(offset) .. LastCacheLineId(offset, length) - 1

\* The ranges Translate and EnsureResidency accept without an assertion.
Ranges == {r \in Offsets \X (1 .. PageSize) : r[1] + r[2] <= PageSize}

BytesOf(r) == r[1] .. r[1] + r[2] - 1
BytesOfLines(ls) == {b \in Offsets : b \div LineSize \in ls}

WholeLines(r) == BytesOfLines(LineRange(r[1], r[2])) = BytesOf(r)

TypeOK ==
  /\ technique \in Techniques
  /\ page_id \in Pages \union {NoPage}
  /\ frame \in FrameSet
  /\ ram \in [Offsets -> Bytes]
  /\ nvm \in [Pages -> [Offsets -> Bytes]]
  /\ app \in [Pages -> [Offsets -> Bytes]]

-----------------------------------------------------------------------------
Fill(mem, bs, v) == [b \in Offsets |-> IF b \in bs THEN v ELSE mem[b]]
Overlay(mem, bs, from) == [b \in Offsets |-> IF b \in bs THEN from[b] ELSE mem[b]]

Loaded(ls) == Overlay(ram, BytesOfLines(LinesToLoad(frame, ls)), nvm[page_id])

Init ==
  /\ technique \in Techniques
  /\ page_id = NoPage
  /\ frame = InitFrame
  /\ \E v \in Bytes : ram = [b \in Offsets |-> v]
  /\ \E v \in Bytes : nvm = [p \in Pages |-> [b \in Offsets |-> v]]
  /\ app = nvm

SwapIn(p) ==
  /\ page_id = NoPage
  /\ page_id' = p
  /\ UNCHANGED <<technique, frame, ram, nvm, app>>

\* Translate<EnsureMode::Ensure>(offset, size)
Ensure(r) ==
  LET ls == LineRange(r[1], r[2]) IN
  /\ page_id # NoPage
  /\ frame' = EnsureLines(frame, ls)
  /\ ram' = Loaded(ls)
  /\ UNCHANGED <<technique, page_id, nvm, app>>

\* Translate<EnsureMode::Ensure>()
EnsureResidency ==
  /\ page_id # NoPage
  /\ frame' = EnsureAll(frame)
  /\ ram' = Loaded(Lines)
  /\ UNCHANGED <<technique, page_id, nvm, app>>

\* Translate<EnsureMode::MarkDirty>(offset, size), then the caller fills the
\* range, as MakeRandomCacheLinesDirty does.  Nothing is loaded, so a caller
\* has to pass whole cache lines.
Overwrite(r, v) ==
  /\ page_id # NoPage
  /\ WholeLines(r)
  /\ frame' = MarkLinesDirty(frame, LineRange(r[1], r[2]))
  /\ ram' = Fill(ram, BytesOf(r), v)
  /\ app' = [app EXCEPT ![page_id] = Fill(@, BytesOf(r), v)]
  /\ UNCHANGED <<technique, page_id, nvm>>

\* Translate<EnsureMode::MarkDirty>(), then the caller fills the page, as
\* MakeAllCacheLinesDirty does.
OverwritePage(v) ==
  /\ page_id # NoPage
  /\ frame' = MarkAllDirty(frame)
  /\ ram' = Fill(ram, Offsets, v)
  /\ app' = [app EXCEPT ![page_id] = Fill(@, Offsets, v)]
  /\ UNCHANGED <<technique, page_id, nvm>>

\* Translate<EnsureMode::EnsureAndDirty>(offset, size), then a write.
Update(r, v) ==
  LET ls == LineRange(r[1], r[2]) IN
  /\ page_id # NoPage
  /\ frame' = MarkLinesDirty(EnsureLines(frame, ls), ls)
  /\ ram' = Fill(Loaded(ls), BytesOf(r), v)
  /\ app' = [app EXCEPT ![page_id] = Fill(@, BytesOf(r), v)]
  /\ UNCHANGED <<technique, page_id, nvm>>

\* Translate<EnsureMode::EnsureAndDirty>(), then a write somewhere.
UpdateSomewhere(r, v) ==
  /\ page_id # NoPage
  /\ frame' = MarkAllDirty(EnsureAll(frame))
  /\ ram' = Fill(Loaded(Lines), BytesOf(r), v)
  /\ app' = [app EXCEPT ![page_id] = Fill(@, BytesOf(r), v)]
  /\ UNCHANGED <<technique, page_id, nvm>>

\* WriteToNvmComplete
WriteToNvmComplete ==
  /\ nvm' = [nvm EXCEPT ![page_id] = ram]
  /\ frame' = MarkClean(frame)

\* WriteToNvmPartial
WriteToNvmPartial ==
  /\ nvm' = [nvm EXCEPT ![page_id] = Overlay(@, BytesOfLines(frame.dirty), ram)]
  /\ frame' = MarkClean(frame)

\* A bug to catch: Flush looks at the dirty bits only.
FlushDirtyLines ==
  /\ technique = "Strawman"
  /\ page_id # NoPage
  /\ IsAnythingDirty(frame)
  /\ WriteToNvmPartial
  /\ UNCHANGED <<technique, page_id, ram, app>>

\* Flush: everything when all_dirty is set, the dirty lines otherwise.
Flush ==
  /\ technique = "Strawman"
  /\ page_id # NoPage
  /\ IsAnythingDirty(frame)
  /\ IF frame.all_dirty THEN WriteToNvmComplete ELSE WriteToNvmPartial
  /\ UNCHANGED <<technique, page_id, ram, app>>

\* FlushAll_PMDK: pmemblk_write copies the DRAM page to a pool of its own
\* that nothing in the repository reads back, so only the flags are seen.
FlushPMDK ==
  /\ technique = "PMDK"
  /\ page_id # NoPage
  /\ IsAnythingDirty(frame)
  /\ frame' = MakeCleanAfterFlushOfPMDK(frame)
  /\ UNCHANGED <<technique, page_id, ram, nvm, app>>

\* SwapOut asserts that nothing is dirty.
SwapOut ==
  /\ page_id # NoPage
  /\ ~IsAnythingDirty(frame)
  /\ page_id' = NoPage
  /\ frame' = SwapOutFrame(frame)
  /\ UNCHANGED <<technique, ram, nvm, app>>

Next ==
  \/ \E p \in Pages : SwapIn(p)
  \/ \E r \in Ranges : Ensure(r)
  \/ EnsureResidency
  \/ \E r \in Ranges, v \in Bytes : Overwrite(r, v)
  \/ \E v \in Bytes : OverwritePage(v)
  \/ \E r \in Ranges, v \in Bytes : Update(r, v)
  \/ \E r \in Ranges, v \in Bytes : UpdateSomewhere(r, v)
  \/ Flush
  \/ FlushPMDK
  \/ SwapOut

Spec == Init /\ [][Next]_vars

-----------------------------------------------------------------------------
(* FullBufferFrame::Invariants(), the code's own sanity check, holds of    *)
(* the frame whatever sequence of translations and flushes it went         *)
(* through: all dirty implies all resident, and a dirty line is resident.  *)
FrameInvariantsHold == page_id # NoPage => FrameInvariants(frame)

(* The same where pages are flushed by Flush(): the bookkeeping of         *)
(* FlushAll_PMDK is the one that breaks it.                                *)
FlagsAreConsistent == technique = "Strawman" => FrameInvariantsHold

(* What IsResident answers can be relied on: bytes it calls resident are   *)
(* in DRAM as their users last wrote them, although the lines were loaded, *)
(* overwritten, summarised by all_resident and flushed in any order.       *)
ResidentIsCurrent ==
  page_id # NoPage =>
    \A r \in Ranges :
      IsResident(frame, LineRange(r[1], r[2])) =>
        \A b \in BytesOf(r) : ram[b] = app[page_id][b]

(* A line that is not dirty can be dropped: NVM holds what was last        *)
(* written to it.  Flush and SwapOut discard DRAM on the strength of this, *)
(* so no update is lost when a page leaves the frame and comes back.       *)
CleanLineIsInNvm ==
  technique = "Strawman" =>
    \A p \in Pages :
      \A l \in Lines :
        (p = page_id /\ IsDirty(frame, {l})) \/
          (\A b \in BytesOfLines({l}) : nvm[p][b] = app[p][b])

(* SwapIn finds the frame as Init left it (its four assertions): nothing a *)
(* page did in the frame survives SwapOut to be taken for the next page's. *)
SwapInFindsEmptyFrame == page_id = NoPage => frame = InitFrame
=============================================================================
