---------------------------- MODULE ShadowFlush -----------------------------
(***************************************************************************)
(* FlushTest::FlushAll_Shadow (page_flush/page_flush.cpp),                 *)
(* PageFlusher::FlushAll (interference/PageFlusher.hpp) and                *)
(* FullBufferFrame::FlushShadow under power failures.                      *)
(*                                                                         *)
(* There is one NVM buffer frame more than there are pages.  Flushing a    *)
(* page copies all of it to the free frame, names the page in that frame's *)
(* header, then stores the page version number (pvn); the frame the page   *)
(* had before becomes the free one.  The table that says which frame holds *)
(* which page is volatile, so after a power failure the headers decide.    *)
(***************************************************************************)
EXTENDS BufferFrame, PMem

CONSTANTS
  PageCount,      \* page_count
  Val,            \* what a cache line of a page may hold
  Torn,           \* a line that is part old, part new, or was never written
  InvalidPageId   \* constants::kInvalidPageId

Pages == 0 .. PageCount - 1

ASSUME ShadowAssumption ==
  /\ PageCount \in Nat \ {0}
  /\ Torn \notin Val
  /\ InvalidPageId \notin Pages

Frames == 0 .. PageCount

\* Byte layout of the array of NvmBufferFrames: three 8-byte words (dirty,
\* page_id, pvn), the alignment padding and the page.
SizeofNvmBufferFrame == 24 + 512 + 16384
LineOfPageId(f) == (f * SizeofNvmBufferFrame + 8) \div 64
LineOfPvn(f) == (f * SizeofNvmBufferFrame + 16) \div 64
HeaderStraddles(f) == LineOfPageId(f) # LineOfPvn(f)

VARIABLES
  frame,    \* frame[p]: the flags of the buffer frame of page p
  ram,      \* ram[p][l]: the DRAM copy
  id,       \* id[f]: the page_id in the header of NVM frame f
  pvn,      \* pvn[f]: its page version number
  data,     \* data[f][l]: the page it holds
  home,     \* nvm_buffer_frame of page p, and nvm_mapping[p]
  free,     \* free_nvm_bf
  lsn,      \* the next pvn of FlushAll_Shadow
  pc,       \* the statement FlushAll_Shadow is at; "app": it is not running
  cur,      \* its p
  cl,       \* cl_id of the copy loop
  flushed   \* the image of page p its last finished flush wrote (history)

header == <<id, pvn>>
table == <<home, free, lsn>>
loop == <<pc, cur, cl>>
vars == <<frame, ram, header, data, table, loop, flushed>>

Pvns == 0 .. PageCount

TypeOK ==
  /\ frame \in [Pages -> FrameSet]
  /\ ram \in [Pages -> [Lines -> Val]]
  /\ id \in [Frames -> LineSet(Pages \union {InvalidPageId})]
  /\ pvn \in [Frames -> LineSet(Pvns)]
  /\ data \in [Frames -> [Lines -> LineSet(Val \union {Torn})]]
  /\ home \in [Pages -> Frames]
  /\ free \in Frames
  /\ lsn \in Pvns
  /\ pc \in {"app", "init_id", "init_pvn", "scan", "copy", "fence_data",
             "set_id", "set_pvn", "persist_header"}
  /\ cur \in 0 .. PageCount
  /\ cl \in 0 .. LineCount
  /\ flushed \in [Pages -> [Lines -> Val]]

-----------------------------------------------------------------------------
\* Page p as its users see it.
Image(p) ==
  [l \in Lines |->
     IF Resident(frame[p], l) THEN ram[p][l] ELSE data[home[p]][l].vol]

FenceLines(fn) == [i \in DOMAIN fn |-> SFence(fn[i])]
FenceData(d) == [f \in Frames |-> FenceLines(d[f])]

Survivor(f) == [l \in Lines |-> data[f][l].dur]

-----------------------------------------------------------------------------
\* After InitializePages: page p lives in frame p, frame page_count is free.
\* DRAM holds one byte everywhere; NVM what the benchmark then put into it.
Init ==
  /\ \E v \in Val : ram = [p \in Pages |-> [l \in Lines |-> v]]
  /\ flushed \in [Pages -> [Lines -> Val]]
  /\ frame = [p \in Pages |-> InitFrame]
  /\ id = [f \in Frames |-> Line(IF f \in Pages THEN f ELSE InvalidPageId)]
  /\ pvn = [f \in Frames |-> Line(0)]
  /\ data = [f \in Frames |-> [l \in Lines |->
               Line(IF f \in Pages THEN flushed[f][l] ELSE Torn)]]
  /\ home = [p \in Pages |-> p]
  /\ free = PageCount
  /\ lsn = 0
  /\ pc = "app"
  /\ cur = 0
  /\ cl = 0

\* MakeRandomCacheLinesDirty: a line is marked dirty and overwritten.
Overwrite(p, l, v) ==
  /\ pc = "app"
  /\ frame' = [frame EXCEPT ![p] = MarkLinesDirty(@, {l})]
  /\ ram' = [ram EXCEPT ![p][l] = v]
  /\ UNCHANGED <<header, data, table, loop, flushed>>

\* MakeRandomCacheLinesDirty: another line is made resident.
Ensure(p, l) ==
  /\ pc = "app"
  /\ frame' = [frame EXCEPT ![p] = EnsureLines(@, {l})]
  /\ ram' = [ram EXCEPT ![p][l] =
               IF l \in LinesToLoad(frame[p], {l}) THEN data[home[p]][l].vol ELSE @]
  /\ UNCHANGED <<header, data, table, loop, flushed>>

\* MakeAllCacheLinesDirty: a page is marked dirty as a whole and filled.
OverwritePage(p, v) ==
  /\ pc = "app"
  /\ frame' = [frame EXCEPT ![p] = MarkAllDirty(@)]
  /\ ram' = [ram EXCEPT ![p] = [l \in Lines |-> v]]
  /\ UNCHANGED <<header, data, table, loop, flushed>>

-----------------------------------------------------------------------------
\* A bug to catch: the versions of the last round are carried on with.
StartFlushAllNoReset ==
  /\ pc = "app"
  /\ pc' = "init_id"
  /\ cur' = 0
  /\ UNCHANGED <<frame, ram, header, data, table, cl, flushed>>

\* FlushAll_Shadow numbers the versions of every round from 0.
StartFlushAll ==
  /\ pc = "app"
  /\ lsn' = 0
  /\ pc' = "init_id"
  /\ cur' = 0
  /\ UNCHANGED <<frame, ram, header, data, home, free, cl, flushed>>

\* free_nvm_bf->init(), in the cache only.
InitFreeId ==
  /\ pc = "init_id"
  /\ id' = [id EXCEPT ![free] = Store(@, InvalidPageId)]
  /\ pc' = "init_pvn"
  /\ UNCHANGED <<frame, ram, pvn, data, table, cur, cl, flushed>>

InitFreePvn ==
  /\ pc = "init_pvn"
  /\ pvn' = [pvn EXCEPT ![free] = Store(@, 0)]
  /\ pc' = "scan"
  /\ UNCHANGED <<frame, ram, id, data, table, cur, cl, flushed>>

\* PageFlusher::FlushAll declares each page resident and dirty just before it
\* flushes it, whatever DRAM holds.
DeclareDirty ==
  /\ pc = "scan"
  /\ cur < PageCount
  /\ frame' = [frame EXCEPT ![cur] = MarkAllDirty(@)]
  /\ UNCHANGED <<ram, header, data, table, loop, flushed>>

NextPage ==
  /\ pc = "scan"
  /\ cur < PageCount
  /\ IF IsAnythingDirty(frame[cur])
     THEN pc' = "copy" /\ cl' = 0 /\ UNCHANGED cur
     ELSE cur' = cur + 1 /\ UNCHANGED <<pc, cl>>
  /\ UNCHANGED <<frame, ram, header, data, table, flushed>>

EndFlushAll ==
  /\ pc = "scan"
  /\ cur = PageCount
  /\ pc' = "app"
  /\ cur' = 0
  /\ UNCHANGED <<frame, ram, header, data, table, cl, flushed>>

\* A bug to catch: the new page is filled from DRAM, resident or not.
CopyLineFromRam ==
  /\ pc = "copy"
  /\ cl < LineCount
  /\ data' = [data EXCEPT ![free][cl] = CopyAndFlush(@, ram[cur][cl])]
  /\ cl' = cl + 1
  /\ UNCHANGED <<frame, ram, header, table, pc, cur, flushed>>

\* A bug to catch: the new page is written, but not written back.
CopyLineUnflushed ==
  /\ pc = "copy"
  /\ cl < LineCount
  /\ data' = [data EXCEPT ![free][cl] = Store(@, Image(cur)[cl])]
  /\ cl' = cl + 1
  /\ UNCHANGED <<frame, ram, header, table, pc, cur, flushed>>

\* 1. Persist data to new page: DRAM where resident, the old frame elsewhere.
CopyLine ==
  /\ pc = "copy"
  /\ cl < LineCount
  /\ data' = [data EXCEPT ![free][cl] = CopyAndFlush(@, Image(cur)[cl])]
  /\ cl' = cl + 1
  /\ UNCHANGED <<frame, ram, header, table, pc, cur, flushed>>

FenceCopy ==
  /\ pc = "copy"
  /\ cl = LineCount
  /\ data' = FenceData(data)
  /\ id' = FenceLines(id)
  /\ pvn' = FenceLines(pvn)
  /\ pc' = "set_id"
  /\ UNCHANGED <<frame, ram, table, cur, cl, flushed>>

\* 2. Mark new page as valid.  The sfence after the store of page_id has no
\* write-back before it to wait for.
SetPageId ==
  /\ pc = "set_id"
  /\ id' = [FenceLines(id) EXCEPT ![free] = SFence(Store(id[free], cur))]
  /\ pvn' = FenceLines(pvn)
  /\ data' = FenceData(data)
  /\ pc' = "set_pvn"
  /\ UNCHANGED <<frame, ram, table, cur, cl, flushed>>

SetPvn ==
  /\ pc = "set_pvn"
  /\ pvn' = [pvn EXCEPT ![free] = Store(@, lsn)]
  /\ pc' = "persist_header"
  /\ UNCHANGED <<frame, ram, id, data, table, cur, cl, flushed>>

\* A bug to catch: the driver goes on with the frame it just gave away.
FinishFlushKeepsFree ==
  /\ pc = "persist_header"
  /\ id' = [FenceLines(id) EXCEPT ![free] = Persist(id[free])]
  /\ pvn' = [FenceLines(pvn) EXCEPT ![free] = Persist(pvn[free])]
  /\ data' = FenceData(data)
  /\ frame' = [frame EXCEPT ![cur] = MarkClean(@)]
  /\ home' = [home EXCEPT ![cur] = free]
  /\ lsn' = lsn + 1
  /\ flushed' = [flushed EXCEPT ![cur] = Image(cur)]
  /\ pc' = "scan"
  /\ cur' = cur + 1
  /\ UNCHANGED <<ram, free, cl>>

\* The header is persisted, the frame is clean, and FlushAll_Shadow takes the
\* old NVM frame as its next free one.
FinishFlush ==
  /\ pc = "persist_header"
  /\ id' = [FenceLines(id) EXCEPT ![free] = Persist(id[free])]
  /\ pvn' = [FenceLines(pvn) EXCEPT ![free] = Persist(pvn[free])]
  /\ data' = FenceData(data)
  /\ frame' = [frame EXCEPT ![cur] = MarkClean(@)]
  /\ home' = [home EXCEPT ![cur] = free]
  /\ free' = home[cur]
  /\ lsn' = lsn + 1
  /\ flushed' = [flushed EXCEPT ![cur] = Image(cur)]
  /\ pc' = "scan"
  /\ cur' = cur + 1
  /\ UNCHANGED <<ram, cl>>

-----------------------------------------------------------------------------
DriftData(f, l) ==
  /\ \E c \in CopyDrift(data[f][l], Torn) : data' = [data EXCEPT ![f][l] = c]
  /\ UNCHANGED <<frame, ram, header, table, loop, flushed>>

\* The two words of a header leave the cache together, in the order they were
\* stored in, when they share a line.
DriftHeader(f) ==
  /\ ~HeaderStraddles(f)
  /\ Dirty(id[f]) \/ Dirty(pvn[f])
  /\ id' = [id EXCEPT ![f] = Evict(@)]
  /\ pvn' = [pvn EXCEPT ![f] = Evict(@)]
  /\ UNCHANGED <<frame, ram, data, table, loop, flushed>>

DriftStraddlingHeader(f) ==
  /\ HeaderStraddles(f)
  /\ \/ /\ \E c \in WordDrift(id[f]) : id' = [id EXCEPT ![f] = c]
        /\ UNCHANGED pvn
     \/ /\ \E c \in WordDrift(pvn[f]) : pvn' = [pvn EXCEPT ![f] = c]
        /\ UNCHANGED id
  /\ UNCHANGED <<frame, ram, data, table, loop, flushed>>

UseFrames ==
  \E p \in Pages :
    \/ \E l \in Lines, v \in Val : Overwrite(p, l, v)
    \/ \E l \in Lines : Ensure(p, l)
    \/ \E v \in Val : OverwritePage(p, v)

FlushAll ==
  \/ StartFlushAll \/ InitFreeId \/ InitFreePvn \/ DeclareDirty \/ NextPage
  \/ EndFlushAll \/ CopyLine \/ FenceCopy \/ SetPageId \/ SetPvn \/ FinishFlush

Drift ==
  \E f \in Frames :
    \/ \E l \in Lines : DriftData(f, l)
    \/ DriftHeader(f) \/ DriftStraddlingHeader(f)

Next == UseFrames \/ FlushAll \/ Drift

Spec == Init /\ [][Next]_vars

-----------------------------------------------------------------------------
(* The volatile page table stays a bijection between the pages and all     *)
(* frames but the free one while frames are passed round, and outside a    *)
(* flush every header names its page (the assertions of                    *)
(* CheckNvmContentEqualsTo and of FlushAll_Shadow).                        *)
TableIsConsistent ==
  /\ \A p, q \in Pages : p # q => home[p] # home[q]
  /\ \A p \in Pages : home[p] # free /\ id[home[p]].vol = p

(* The only durable copy of a page is never overwritten: whatever the      *)
(* flush is doing, the frame the page table names still holds, durably,    *)
(* the image the page's last finished flush wrote: also the lines that     *)
(* were not in DRAM and had to be copied from the frame before.            *)
OldCopyIsIntact ==
  \A p \in Pages : id[home[p]].dur = p /\ Survivor(home[p]) = flushed[p]

(* A page whose frame reports nothing dirty is durable in the frame the    *)
(* page table names, exactly as its users see it.                          *)
CleanPageSurvives ==
  \A p \in Pages : ~IsAnythingDirty(frame[p]) => Survivor(home[p]) = Image(p)

-----------------------------------------------------------------------------
(* The pvn trick: after a power failure the frame of p with the largest    *)
(* pvn is page p, so each such frame has to hold the image p's last flush  *)
(* wrote, or the one being flushed.                                        *)
Named(p) == {f \in Frames : id[f].dur = p}
Newest(p) == {f \in Named(p) : \A g \in Named(p) : pvn[g].dur <= pvn[f].dur}

NewestPvnIsThePage ==
  \A p \in Pages : \A f \in Newest(p) : Survivor(f) \in {flushed[p], Image(p)}
=============================================================================
