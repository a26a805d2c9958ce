------------------------- MODULE ShadowFlushProofs -------------------------
(***************************************************************************)
(* FlushAll_Shadow never loses a page, for any number of pages and cache   *)
(* lines and any contents: the frame the page table names is settled, as   *)
(* the cache, what is on its way and what is durable are all the image the *)
(* last flush of the page wrote; only the free frame is ever stored to.    *)
(***************************************************************************)
EXTENDS ShadowFlush, TLAPS

-----------------------------------------------------------------------------
\* Cache lines: what the operations of PMem.tla do to one.

(* Every operation on a line leaves it a line.                             *)
LEMMA LineOps ==
  ASSUME NEW V, NEW c \in LineSet(V)
  PROVE  /\ WriteBack(c) \in LineSet(V)
         /\ SFence(c) \in LineSet(V)
         /\ Persist(c) \in LineSet(V)
         /\ Evict(c) \in LineSet(V)
  BY DEF LineSet, WriteBack, SFence, Persist, Evict

(* So does every store.                                                    *)
LEMMA StoreOps ==
  ASSUME NEW V, NEW c \in LineSet(V), NEW v \in V
  PROVE  /\ Line(v) \in LineSet(V)
         /\ Store(c, v) \in LineSet(V)
         /\ CopyAndFlush(c, v) \in LineSet(V)
         /\ Tear(c, v) \in LineSet(V)
  BY DEF LineSet, Line, Store, WriteBack, CopyAndFlush, Tear

(* What a store leaves in the fields.                                      *)
LEMMA StoreFields ==
  ASSUME NEW V, NEW c \in LineSet(V), NEW v
  PROVE  /\ Store(c, v).vol = v /\ Store(c, v).fen = c.fen /\ Store(c, v).dur = c.dur
         /\ CopyAndFlush(c, v).vol = v /\ CopyAndFlush(c, v).fen = v
         /\ CopyAndFlush(c, v).dur = c.dur
  BY DEF LineSet, Store, WriteBack, CopyAndFlush

(* What a fence leaves in the fields.                                      *)
LEMMA FenceFields ==
  ASSUME NEW V, NEW c \in LineSet(V)
  PROVE  /\ SFence(c).vol = c.vol
         /\ c.fen = c.vol => Stable(SFence(c))
         /\ Persist(c).vol = c.vol /\ Stable(Persist(c))
  BY DEF LineSet, Stable, WriteBack, SFence, Persist

(* A line that drifts keeps its content, and stays on its way if it was.   *)
LEMMA DriftFields ==
  ASSUME NEW V, NEW c \in LineSet(V), NEW torn \in V,
         NEW d \in CopyDrift(c, torn) \union WordDrift(c)
  PROVE  /\ d \in LineSet(V)
         /\ d.vol = c.vol
         /\ c.fen = c.vol => d.fen = d.vol
         /\ ~Stable(c)
  BY DEF LineSet, Stable, Evict, Tear, CopyDrift, WordDrift, Dirty

(* A fence changes nothing about a settled line.                           *)
LEMMA StableLine ==
  ASSUME NEW V, NEW c \in LineSet(V), Stable(c)
  PROVE  SFence(c) = c
  BY DEF LineSet, Stable, SFence

\* What users see in line l of page p.
Held(p, l) == IF Resident(frame[p], l) THEN ram[p][l] ELSE flushed[p][l]

LoopInv ==
  /\ pc \in {"copy", "set_id", "set_pvn", "persist_header"} => cur < PageCount
  /\ pc # "app" => lsn <= cur

TableInv ==
  /\ \A p, q \in Pages : p # q => home[p] # home[q]
  /\ \A p \in Pages :
       /\ home[p] # free
       /\ Stable(id[home[p]]) /\ id[home[p]].vol = p
       /\ \A l \in Lines :
            Stable(data[home[p]][l]) /\ data[home[p]][l].vol = flushed[p][l]

FramesInv ==
  \A p \in Pages : \A l \in Lines :
    Resident(frame[p], l) => frame[p].all_dirty \/ l \in frame[p].dirty \/ ram[p][l] = flushed[p][l]

CopyInv ==
  /\ pc = "copy" => \A l \in Lines : l < cl =>
       data[free][l].fen = data[free][l].vol /\ data[free][l].vol = Held(cur, l)
  /\ pc \in {"set_id", "set_pvn", "persist_header"} => \A l \in Lines :
       Stable(data[free][l]) /\ data[free][l].vol = Held(cur, l)
  /\ pc \in {"set_pvn", "persist_header"} => id[free].vol = cur

IInv == TypeOK /\ LoopInv /\ TableInv /\ FramesInv /\ CopyInv

Ids == Pages \union {InvalidPageId}
Words == Val \union {Torn}

-----------------------------------------------------------------------------
(* What the type invariant says of each variable.                          *)
LEMMA MemoryTypes ==
  ASSUME TypeOK
  PROVE  /\ id \in [Frames -> LineSet(Ids)]
         /\ pvn \in [Frames -> LineSet(Pvns)]
         /\ data \in [Frames -> [Lines -> LineSet(Words)]]
         /\ home \in [Pages -> Frames] /\ free \in Frames
BY DEF TypeOK, Ids, Words

(* The flags of a page's frame.                                            *)
LEMMA FrameTypes ==
  ASSUME TypeOK, NEW p \in Pages
  PROVE  /\ frame[p] \in FrameSet
         /\ frame[p].dirty \subseteq Lines /\ frame[p].resident \subseteq Lines
         /\ frame[p].all_dirty \in BOOLEAN /\ frame[p].all_resident \in BOOLEAN
<1>1. frame[p] \in FrameSet
  BY DEF TypeOK
<1> QED  BY <1>1 DEF FrameSet

(* What the frame's operations make of the flags.                          *)
LEMMA FrameOps ==
  ASSUME NEW f \in FrameSet, NEW l \in Lines
  PROVE  /\ MarkLinesDirty(f, {l}) = [f EXCEPT !.dirty = f.dirty \union {l},
                                               !.resident = f.resident \union {l}]
         /\ MarkLinesDirty(f, {l}) \in FrameSet
         /\ EnsureLines(f, {l}) \in FrameSet
         /\ MarkAllDirty(f) \in FrameSet
         /\ MarkClean(f) \in FrameSet
BY DEF FrameSet, MarkLinesDirty, EnsureLines, MarkAllDirty, MarkClean

(* What users see is the DRAM copy, or the named frame's line.             *)
LEMMA HeldIsImage ==
  ASSUME TypeOK, TableInv, NEW p \in Pages, NEW l \in Lines
  PROVE  Image(p)[l] = Held(p, l) /\ Held(p, l) \in Val
BY DEF TypeOK, TableInv, Image, Held

\* A line of which nothing settled is disturbed.
Kept(c, d) ==
  /\ d.vol = c.vol
  /\ Stable(c) => d = c
  /\ c.fen = c.vol => d.fen = d.vol

(* A fence disturbs nothing that is settled.                               *)
LEMMA FenceKeeps ==
  ASSUME NEW V, NEW c \in LineSet(V) PROVE Kept(c, SFence(c)) /\ SFence(c) \in LineSet(V)
BY DEF Kept, LineSet, SFence, Stable

(* ... nor does drifting.                                                  *)
LEMMA DriftKeeps ==
  ASSUME NEW V, NEW c \in LineSet(V), NEW torn \in V,
         NEW d \in CopyDrift(c, torn) \union WordDrift(c)
  PROVE  Kept(c, d) /\ d \in LineSet(V)
BY DriftFields DEF Kept

(* ... nor does writing back a line that is as it was stored.              *)
LEMMA EvictKeeps ==
  ASSUME NEW V, NEW c \in LineSet(V) PROVE Kept(c, Evict(c)) /\ Evict(c) \in LineSet(V)
BY DEF Kept, LineSet, Evict, Stable

(* alex_SFence, on the page ids.                                           *)
LEMMA FenceId ==
  ASSUME TypeOK
  PROVE  /\ FenceLines(id) \in [Frames -> LineSet(Ids)]
         /\ \A f \in Frames : FenceLines(id)[f] = SFence(id[f])
<1>1. id \in [Frames -> LineSet(Ids)]
  BY MemoryTypes
<1> QED  BY <1>1, FenceKeeps DEF FenceLines

(* ... on the page version numbers.                                        *)
LEMMA FencePvn ==
  ASSUME TypeOK
  PROVE  /\ FenceLines(pvn) \in [Frames -> LineSet(Pvns)]
         /\ \A f \in Frames : FenceLines(pvn)[f] = SFence(pvn[f])
<1>1. pvn \in [Frames -> LineSet(Pvns)]
  BY MemoryTypes
<1> QED  BY <1>1, FenceKeeps DEF FenceLines

(* ... and on the lines of the pages.                                      *)
LEMMA FencedData ==
  ASSUME TypeOK
  PROVE  /\ FenceData(data) \in [Frames -> [Lines -> LineSet(Words)]]
         /\ \A f \in Frames : \A l \in Lines : FenceData(data)[f][l] = SFence(data[f][l])
<1>1. data \in [Frames -> [Lines -> LineSet(Words)]]
  BY MemoryTypes
<1>2. ASSUME NEW f \in Frames
      PROVE  /\ FenceLines(data[f]) \in [Lines -> LineSet(Words)]
             /\ \A l \in Lines : FenceLines(data[f])[l] = SFence(data[f][l])
  BY <1>1, FenceKeeps DEF FenceLines
<1> QED  BY <1>2 DEF FenceData

-----------------------------------------------------------------------------
(* InitializePages leaves every page durable in a frame of its own.        *)
LEMMA InitInv == Init => IInv
<1> SUFFICES ASSUME Init PROVE IInv
  OBVIOUS
<1> USE ShadowAssumption, BufferFrameAssumption
<1>1. Pages \subseteq Frames /\ PageCount \in Frames /\ PageCount \notin Pages /\ 0 \in Pvns
  BY DEF Pages, Frames, Pvns
<1>2. TypeOK
  <2>1. frame \in [Pages -> FrameSet] /\ ram \in [Pages -> [Lines -> Val]]
    BY DEF Init, InitFrame, FrameSet
  <2>2. id \in [Frames -> LineSet(Pages \union {InvalidPageId})] /\ pvn \in [Frames -> LineSet(Pvns)]
    BY <1>1 DEF Init, Line, LineSet
  <2>3. data \in [Frames -> [Lines -> LineSet(Val \union {Torn})]]
    BY DEF Init, Line, LineSet
  <2>4. home \in [Pages -> Frames] /\ free \in Frames /\ lsn \in Pvns
    BY <1>1 DEF Init
  <2>5. cur \in 0 .. PageCount /\ cl \in 0 .. LineCount /\ flushed \in [Pages -> [Lines -> Val]]
    BY DEF Init
  <2>6. pc \in {"app", "init_id", "init_pvn", "scan", "copy", "fence_data",
                "set_id", "set_pvn", "persist_header"}
    BY DEF Init
  <2> QED  BY <2>1, <2>2, <2>3, <2>4, <2>5, <2>6 DEF TypeOK
<1>3. TableInv
  BY <1>1 DEF Init, TableInv, Line, Stable
<1>4. FramesInv
  BY DEF Init, FramesInv, InitFrame, Resident
<1>5. LoopInv /\ CopyInv
  BY DEF Init, LoopInv, CopyInv
<1> QED  BY <1>2, <1>3, <1>4, <1>5 DEF IInv

-----------------------------------------------------------------------------
(* Type correctness, of the users' steps.                                  *)
LEMMA TypeUse == ASSUME TypeOK, TableInv, UseFrames PROVE TypeOK'
<1>1. ASSUME NEW p \in Pages, NEW l \in Lines, NEW w \in Val, Overwrite(p, l, w) PROVE TypeOK'
  <2>1. frame' \in [Pages -> FrameSet]
    BY <1>1, FrameTypes, FrameOps DEF Overwrite, TypeOK
  <2>2. ram' \in [Pages -> [Lines -> Val]]
    BY <1>1 DEF Overwrite, TypeOK
  <2> QED  BY <1>1, <2>1, <2>2 DEF Overwrite, TypeOK, header, table, loop
<1>2. ASSUME NEW p \in Pages, NEW l \in Lines, Ensure(p, l) PROVE TypeOK'
  <2>1. frame' \in [Pages -> FrameSet]
    BY <1>2, FrameTypes, FrameOps DEF Ensure, TypeOK
  <2>2. ram[p][l] \in Val /\ data[home[p]][l].vol \in Val
    BY <1>2 DEF TypeOK, TableInv
  <2>3. ram' \in [Pages -> [Lines -> Val]]
    BY <1>2, <2>2 DEF Ensure, TypeOK
  <2> QED  BY <1>2, <2>1, <2>3 DEF Ensure, TypeOK, header, table, loop
<1>3. ASSUME NEW p \in Pages, NEW w \in Val, OverwritePage(p, w) PROVE TypeOK'
  <2>1. frame' \in [Pages -> FrameSet]
    <3>1. MarkAllDirty(frame[p]) \in FrameSet
      BY FrameTypes DEF MarkAllDirty, FrameSet
    <3> QED  BY <1>3, <3>1 DEF OverwritePage, TypeOK
  <2>2. ram' \in [Pages -> [Lines -> Val]]
    BY <1>3 DEF OverwritePage, TypeOK
  <2> QED  BY <1>3, <2>1, <2>2 DEF OverwritePage, TypeOK, header, table, loop
<1> QED  BY <1>1, <1>2, <1>3 DEF UseFrames

(* ... of the flush: all memory stays lines, the counters in their bounds. *)
LEMMA TypeFlush == ASSUME TypeOK, LoopInv, TableInv, FlushAll PROVE TypeOK'
<1> USE DEF header, table, loop
<1>1. PageCount \in Nat /\ LineCount \in Nat /\ InvalidPageId \in Pages \union {InvalidPageId}
  BY ShadowAssumption, BufferFrameAssumption
<1>2. /\ id \in [Frames -> LineSet(Pages \union {InvalidPageId})]
      /\ pvn \in [Frames -> LineSet(Pvns)]
      /\ data \in [Frames -> [Lines -> LineSet(Val \union {Torn})]]
      /\ free \in Frames /\ cur \in 0 .. PageCount /\ cl \in 0 .. LineCount /\ lsn \in Pvns
  BY DEF TypeOK
<1>3. /\ FenceLines(id) \in [Frames -> LineSet(Pages \union {InvalidPageId})]
      /\ FenceLines(pvn) \in [Frames -> LineSet(Pvns)]
      /\ FenceData(data) \in [Frames -> [Lines -> LineSet(Val \union {Torn})]]
  BY FenceId, FencePvn, FencedData DEF Ids, Words
<1>4. cur < PageCount => cur \in Pages /\ cur + 1 \in 0 .. PageCount
  BY <1>1, <1>2 DEF Pages
<1>5. 0 \in Pvns /\ 0 \in 0 .. PageCount /\ 0 \in 0 .. LineCount
  BY <1>1 DEF Pvns
<1>6. CASE StartFlushAll
  BY <1>5, <1>6 DEF StartFlushAll, TypeOK
<1>7. CASE InitFreeId
  <2>1. Store(id[free], InvalidPageId) \in LineSet(Pages \union {InvalidPageId})
    BY <1>1, <1>2, StoreOps
  <2>2. id' \in [Frames -> LineSet(Pages \union {InvalidPageId})]
    BY <1>2, <1>7, <2>1 DEF InitFreeId
  <2> QED  BY <1>7, <2>2 DEF InitFreeId, TypeOK
<1>8. CASE InitFreePvn
  <2>1. Store(pvn[free], 0) \in LineSet(Pvns)
    BY <1>2, <1>5, StoreOps
  <2>2. pvn' \in [Frames -> LineSet(Pvns)]
    BY <1>2, <1>8, <2>1 DEF InitFreePvn
  <2> QED  BY <1>8, <2>2 DEF InitFreePvn, TypeOK
<1>9. CASE DeclareDirty
  <2>1. cur \in Pages
    BY <1>4, <1>9 DEF DeclareDirty
  <2>2. MarkAllDirty(frame[cur]) \in FrameSet
    BY <2>1, FrameTypes DEF MarkAllDirty, FrameSet
  <2>3. frame' \in [Pages -> FrameSet]
    BY <1>9, <2>1, <2>2 DEF DeclareDirty, TypeOK
  <2> QED  BY <1>9, <2>3 DEF DeclareDirty, TypeOK
<1>10. CASE NextPage
  BY <1>2, <1>4, <1>5, <1>10 DEF NextPage, TypeOK
<1>11. CASE EndFlushAll
  BY <1>5, <1>11 DEF EndFlushAll, TypeOK
<1>12. CASE CopyLine
  <2>1. cl \in Lines /\ cl + 1 \in 0 .. LineCount /\ cur \in Pages
    BY <1>1, <1>2, <1>4, <1>12 DEF CopyLine, LoopInv, Lines
  <2>2. Image(cur)[cl] \in Val \union {Torn}
    BY <2>1, HeldIsImage
  <2>3. CopyAndFlush(data[free][cl], Image(cur)[cl]) \in LineSet(Val \union {Torn})
    BY <1>2, <2>1, <2>2, StoreOps
  <2>4. data' \in [Frames -> [Lines -> LineSet(Val \union {Torn})]]
    BY <1>2, <1>12, <2>1, <2>3 DEF CopyLine
  <2> QED  BY <1>12, <2>1, <2>4 DEF CopyLine, TypeOK
<1>13. CASE FenceCopy
  BY <1>3, <1>13 DEF FenceCopy, TypeOK
<1>14. CASE SetPageId
  <2>1. cur \in Pages
    BY <1>4, <1>14 DEF SetPageId, LoopInv
  <2>2. SFence(Store(id[free], cur)) \in LineSet(Pages \union {InvalidPageId})
    BY <1>2, <2>1, StoreOps, LineOps
  <2>3. id' \in [Frames -> LineSet(Pages \union {InvalidPageId})]
    BY <1>2, <1>3, <1>14, <2>2 DEF SetPageId
  <2> QED  BY <1>3, <1>14, <2>3 DEF SetPageId, TypeOK
<1>15. CASE SetPvn
  <2>1. Store(pvn[free], lsn) \in LineSet(Pvns)
    BY <1>2, StoreOps
  <2>2. pvn' \in [Frames -> LineSet(Pvns)]
    BY <1>2, <1>15, <2>1 DEF SetPvn
  <2> QED  BY <1>15, <2>2 DEF SetPvn, TypeOK
<1>16. CASE FinishFlush
  <2>1. cur \in Pages /\ cur + 1 \in 0 .. PageCount /\ lsn + 1 \in Pvns
    BY <1>1, <1>2, <1>4, <1>16 DEF FinishFlush, LoopInv, Pvns
  <2>2. Persist(id[free]) \in LineSet(Pages \union {InvalidPageId}) /\ Persist(pvn[free]) \in LineSet(Pvns)
    BY <1>2, LineOps
  <2>3. id' \in [Frames -> LineSet(Pages \union {InvalidPageId})] /\ pvn' \in [Frames -> LineSet(Pvns)]
    BY <1>2, <1>3, <1>16, <2>2 DEF FinishFlush
  <2>4. frame' \in [Pages -> FrameSet]
    <3>1. MarkClean(frame[cur]) \in FrameSet
      BY <2>1, FrameTypes DEF MarkClean, FrameSet
    <3> QED  BY <1>16, <2>1, <3>1 DEF FinishFlush, TypeOK
  <2>5. home' \in [Pages -> Frames] /\ free' \in Frames
    BY <1>2, <1>16, <2>1 DEF FinishFlush, TypeOK
  <2>6. Image(cur) \in [Lines -> Val]
    <3>1. \A l \in Lines : Image(cur)[l] \in Val
      BY <2>1, HeldIsImage
    <3> QED  BY <3>1 DEF Image
  <2>7. flushed' \in [Pages -> [Lines -> Val]]
    BY <1>16, <2>1, <2>6 DEF FinishFlush, TypeOK
  <2>8. data' \in [Frames -> [Lines -> LineSet(Val \union {Torn})]]
    BY <1>3, <1>16 DEF FinishFlush
  <2> QED  BY <1>16, <2>1, <2>3, <2>4, <2>5, <2>7, <2>8 DEF FinishFlush, TypeOK
<1> QED  BY <1>6, <1>7, <1>8, <1>9, <1>10, <1>11, <1>12, <1>13, <1>14, <1>15, <1>16 DEF FlushAll

-----------------------------------------------------------------------------
\* All of the memory, with no header and no line disturbed that is settled.
MemoryKept ==
  /\ id' \in [Frames -> LineSet(Ids)] /\ pvn' \in [Frames -> LineSet(Pvns)]
  /\ data' \in [Frames -> [Lines -> LineSet(Words)]]
  /\ \A f \in Frames : Kept(id[f], id'[f])
  /\ \A f \in Frames : \A l \in Lines : Kept(data[f][l], data'[f][l])

(* Nothing changes where nothing is stored.                                *)
LEMMA KeptSelf == \A c : Kept(c, c)
BY DEF Kept

(* What the cache may do by itself: nothing to what is settled.            *)
LEMMA DriftEffect ==
  ASSUME TypeOK, Drift
  PROVE  MemoryKept /\ UNCHANGED <<frame, ram, table, loop, flushed>>
<1>1. /\ id \in [Frames -> LineSet(Ids)] /\ pvn \in [Frames -> LineSet(Pvns)]
      /\ data \in [Frames -> [Lines -> LineSet(Words)]] /\ Torn \in Words
  BY MemoryTypes DEF Words
<1>2. ASSUME NEW f \in Frames, NEW l \in Lines, DriftData(f, l)
      PROVE  MemoryKept /\ UNCHANGED <<frame, ram, table, loop, flushed>>
  <2>1. PICK c \in CopyDrift(data[f][l], Torn) : data' = [data EXCEPT ![f][l] = c]
    BY <1>2 DEF DriftData
  <2>2. Kept(data[f][l], c) /\ c \in LineSet(Words)
    <3>1. data[f][l] \in LineSet(Words)
      BY <1>1
    <3> QED  BY <1>1, <2>1, <3>1, DriftKeeps
  <2>3. data' \in [Frames -> [Lines -> LineSet(Words)]]
    BY <1>1, <2>1, <2>2
  <2>4. \A g \in Frames : \A k \in Lines : Kept(data[g][k], data'[g][k])
    BY <1>1, <2>1, <2>2, KeptSelf
  <2> QED  BY <1>1, <1>2, <2>3, <2>4, KeptSelf DEF DriftData, MemoryKept, header
<1>3. ASSUME NEW f \in Frames, DriftHeader(f)
      PROVE  MemoryKept /\ UNCHANGED <<frame, ram, table, loop, flushed>>
  <2>1. Kept(id[f], Evict(id[f])) /\ Evict(id[f]) \in LineSet(Ids) /\ Evict(pvn[f]) \in LineSet(Pvns)
    BY <1>1, EvictKeeps
  <2>2. id' \in [Frames -> LineSet(Ids)] /\ pvn' \in [Frames -> LineSet(Pvns)]
    BY <1>1, <1>3, <2>1 DEF DriftHeader
  <2>3. \A g \in Frames : Kept(id[g], id'[g])
    BY <1>1, <1>3, <2>1, KeptSelf DEF DriftHeader
  <2> QED  BY <1>1, <1>3, <2>2, <2>3, KeptSelf DEF DriftHeader, MemoryKept
<1>4. ASSUME NEW f \in Frames, DriftStraddlingHeader(f)
      PROVE  MemoryKept /\ UNCHANGED <<frame, ram, table, loop, flushed>>
  <2>1. CASE UNCHANGED pvn /\ \E c \in WordDrift(id[f]) : id' = [id EXCEPT ![f] = c]
    <3>1. PICK c \in WordDrift(id[f]) : id' = [id EXCEPT ![f] = c]
      BY <2>1
    <3>2. c = Evict(id[f])
      BY <3>1 DEF WordDrift
    <3>3. Kept(id[f], c) /\ c \in LineSet(Ids)
      BY <1>1, <3>2, EvictKeeps
    <3>4. id' \in [Frames -> LineSet(Ids)] /\ \A g \in Frames : Kept(id[g], id'[g])
      BY <1>1, <3>1, <3>3, KeptSelf
    <3> QED  BY <1>1, <1>4, <2>1, <3>4, KeptSelf DEF DriftStraddlingHeader, MemoryKept
  <2>2. CASE UNCHANGED id /\ \E c \in WordDrift(pvn[f]) : pvn' = [pvn EXCEPT ![f] = c]
    <3>1. PICK c \in WordDrift(pvn[f]) : pvn' = [pvn EXCEPT ![f] = c]
      BY <2>2
    <3>2. c = Evict(pvn[f])
      BY <3>1 DEF WordDrift
    <3>3. c \in LineSet(Pvns)
      BY <1>1, <3>2, EvictKeeps
    <3>4. pvn' \in [Frames -> LineSet(Pvns)]
      BY <1>1, <3>1, <3>3
    <3> QED  BY <1>1, <1>4, <2>2, <3>4, KeptSelf DEF DriftStraddlingHeader, MemoryKept
  <2> QED  BY <1>4, <2>1, <2>2 DEF DriftStraddlingHeader
<1> QED  BY <1>2, <1>3, <1>4 DEF Drift

(* Every step keeps every variable in its type.                            *)
LEMMA TypeStep == ASSUME IInv, [Next]_vars PROVE TypeOK'
<1>1. TypeOK /\ LoopInv /\ TableInv
  BY DEF IInv
<1>2. CASE Drift
  BY <1>1, <1>2, DriftEffect DEF MemoryKept, TypeOK, table, loop, Ids, Words
<1>3. CASE UNCHANGED vars
  BY <1>1, <1>3 DEF vars, header, table, loop, TypeOK
<1> QED  BY <1>1, <1>2, <1>3, TypeUse, TypeFlush DEF Next

-----------------------------------------------------------------------------
(* A page is being flushed only while there is one left, and no more pages *)
(* have been numbered than the loop has been at.                           *)
LEMMA LoopStep == ASSUME IInv, [Next]_vars PROVE LoopInv'
<1> USE DEF header, table, loop
<1>1. /\ LoopInv /\ PageCount \in Nat /\ cur \in Nat /\ cur <= PageCount /\ lsn \in Nat
  BY ShadowAssumption DEF IInv, TypeOK, Pvns
<1>2. CASE UseFrames
  BY <1>1, <1>2 DEF UseFrames, Overwrite, Ensure, OverwritePage, LoopInv
<1>3. CASE Drift
  <2>1. UNCHANGED <<table, loop>>
    BY <1>3, DriftEffect DEF IInv
  <2> QED  BY <1>1, <2>1 DEF LoopInv
<1>4. CASE StartFlushAll \/ InitFreeId \/ InitFreePvn \/ DeclareDirty \/ EndFlushAll
  BY <1>1, <1>4 DEF StartFlushAll, InitFreeId, InitFreePvn, DeclareDirty, EndFlushAll, LoopInv
<1>5. CASE NextPage
  BY <1>1, <1>5 DEF NextPage, LoopInv
<1>6. CASE CopyLine \/ FenceCopy \/ SetPageId \/ SetPvn
  BY <1>1, <1>6 DEF CopyLine, FenceCopy, SetPageId, SetPvn, LoopInv
<1>7. CASE FinishFlush
  BY <1>1, <1>7 DEF FinishFlush, LoopInv
<1>8. CASE UNCHANGED vars
  BY <1>1, <1>8 DEF vars, LoopInv
<1> QED  BY <1>2, <1>3, <1>4, <1>5, <1>6, <1>7, <1>8 DEF Next, FlushAll

-----------------------------------------------------------------------------
\* A step that leaves the frames the table names as they are.
HomesKept ==
  /\ UNCHANGED <<home, free, flushed>>
  /\ \A p \in Pages : /\ id'[home[p]] = id[home[p]]
                      /\ \A l \in Lines : data'[home[p]][l] = data[home[p]][l]

(* ... leaves the table's part of the invariant as it is.                  *)
LEMMA TableKept == ASSUME TableInv, HomesKept PROVE TableInv'
BY DEF TableInv, HomesKept

(* A fence keeps them, and so does the cache.                              *)
LEMMA SettledKept ==
  ASSUME TypeOK, TableInv, UNCHANGED <<home, free, flushed>>,
         \A f \in Frames \ {free} : Kept(id[f], id'[f]),
         \A f \in Frames \ {free} : \A l \in Lines : Kept(data[f][l], data'[f][l])
  PROVE  HomesKept
<1>1. \A p \in Pages : home[p] \in Frames \ {free}
  BY MemoryTypes DEF TableInv
<1>2. \A p \in Pages : id'[home[p]] = id[home[p]]
  BY <1>1 DEF TableInv, Kept
<1>3. \A p \in Pages : \A l \in Lines : data'[home[p]][l] = data[home[p]][l]
  BY <1>1 DEF TableInv, Kept
<1> QED  BY <1>2, <1>3 DEF HomesKept

(* The frame a flush filled takes the place of the one the page had.       *)
LEMMA TableFinish == ASSUME IInv, FinishFlush PROVE TableInv'
<1> USE DEF FinishFlush
<1>1. TypeOK /\ TableInv /\ CopyInv /\ cur \in Pages
  <2>1. TypeOK /\ TableInv /\ CopyInv /\ LoopInv
    BY DEF IInv
  <2>2. cur \in 0 .. PageCount /\ cur < PageCount
    BY <2>1 DEF TypeOK, LoopInv
  <2> QED  BY <2>1, <2>2, ShadowAssumption DEF Pages
<1>2. /\ id \in [Frames -> LineSet(Ids)] /\ home \in [Pages -> Frames] /\ free \in Frames
      /\ data \in [Frames -> [Lines -> LineSet(Words)]]
  BY <1>1, MemoryTypes
<1>3. home' = [home EXCEPT ![cur] = free] /\ free' = home[cur]
  OBVIOUS
<1>4. /\ \A p, q \in Pages : p # q => home'[p] # home'[q]
      /\ \A p \in Pages : home'[p] # free'
  BY <1>1, <1>2, <1>3 DEF TableInv
<1>5. \A f \in Frames \ {free} : id'[f] = SFence(id[f])
  BY <1>1, <1>2, FenceId
<1>6. \A f \in Frames : \A l \in Lines : data'[f][l] = SFence(data[f][l])
  BY <1>1, FencedData
<1>7. \A l \in Lines : data'[free][l] = data[free][l]
  BY <1>1, <1>2, <1>6, StableLine DEF CopyInv
<1>8. id'[free] = Persist(id[free])
  BY <1>1, <1>2, FenceId
<1>9. Stable(id'[free]) /\ id'[free].vol = cur
  BY <1>1, <1>2, <1>8, FenceFields DEF CopyInv
<1>10. \A l \in Lines : flushed'[cur][l] = Image(cur)[l] /\ \A p \in Pages \ {cur} : flushed'[p] = flushed[p]
  BY <1>1 DEF TypeOK
<1>11. \A l \in Lines : Stable(data'[free][l]) /\ data'[free][l].vol = flushed'[cur][l]
  BY <1>1, <1>7, <1>10, HeldIsImage DEF CopyInv
<1>12. ASSUME NEW p \in Pages \ {cur}
       PROVE  /\ home'[p] = home[p] /\ Stable(id'[home[p]]) /\ id'[home[p]].vol = p
              /\ \A l \in Lines : Stable(data'[home[p]][l]) /\ data'[home[p]][l].vol = flushed'[p][l]
  <2>1. home[p] \in Frames \ {free} /\ home'[p] = home[p] /\ flushed'[p] = flushed[p]
    BY <1>1, <1>2, <1>3, <1>10, <1>12 DEF TableInv
  <2>2. id'[home[p]] = id[home[p]]
    BY <1>1, <1>2, <1>5, <2>1, StableLine DEF TableInv
  <2>3. \A l \in Lines : data'[home[p]][l] = data[home[p]][l]
    BY <1>1, <1>2, <1>6, <2>1, StableLine DEF TableInv
  <2> QED  BY <1>1, <2>1, <2>2, <2>3 DEF TableInv
<1>13. home'[cur] = free
  BY <1>1, <1>2, <1>3
<1> QED  BY <1>4, <1>9, <1>11, <1>12, <1>13 DEF TableInv

(* Whatever the flush and the cache do, the frames the table names stay    *)
(* settled: only the free frame is stored to.                              *)
LEMMA TableStep == ASSUME IInv, [Next]_vars PROVE TableInv'
<1> USE DEF header, table, loop
<1>1. TypeOK /\ TableInv
  BY DEF IInv
<1>2. /\ id \in [Frames -> LineSet(Ids)] /\ free \in Frames
      /\ data \in [Frames -> [Lines -> LineSet(Words)]]
  BY <1>1, MemoryTypes
<1>3. CASE UNCHANGED <<id, data, home, free, flushed>>
  BY <1>1, <1>3, TableKept DEF HomesKept
<1>4. CASE UseFrames \/ UNCHANGED vars
  BY <1>3, <1>4 DEF UseFrames, Overwrite, Ensure, OverwritePage, vars
<1>5. CASE StartFlushAll \/ InitFreePvn \/ DeclareDirty \/ NextPage \/ EndFlushAll \/ SetPvn
  BY <1>3, <1>5 DEF StartFlushAll, InitFreePvn, DeclareDirty, NextPage, EndFlushAll, SetPvn
<1>6. CASE Drift
  <2>1. MemoryKept /\ UNCHANGED <<table, flushed>>
    BY <1>1, <1>6, DriftEffect
  <2> QED  BY <1>1, <2>1, SettledKept, TableKept DEF MemoryKept
<1>7. CASE InitFreeId
  <2>1. \A f \in Frames \ {free} : Kept(id[f], id'[f])
    BY <1>2, <1>7, KeptSelf DEF InitFreeId
  <2> QED  BY <1>1, <1>7, <2>1, KeptSelf, SettledKept, TableKept DEF InitFreeId
<1>8. CASE CopyLine
  <2>1. \A f \in Frames \ {free} : \A l \in Lines : Kept(data[f][l], data'[f][l])
    BY <1>2, <1>8, KeptSelf DEF CopyLine
  <2> QED  BY <1>1, <1>8, <2>1, KeptSelf, SettledKept, TableKept DEF CopyLine
<1>9. CASE FenceCopy \/ SetPageId
  <2>1. \A f \in Frames \ {free} : id'[f] = SFence(id[f])
    BY <1>1, <1>2, <1>9, FenceId DEF FenceCopy, SetPageId
  <2>2. \A f \in Frames : \A l \in Lines : data'[f][l] = SFence(data[f][l])
    BY <1>1, <1>9, FencedData DEF FenceCopy, SetPageId
  <2>3. \A f \in Frames \ {free} : Kept(id[f], id'[f])
    BY <1>2, <2>1, FenceKeeps
  <2>4. \A f \in Frames \ {free} : \A l \in Lines : Kept(data[f][l], data'[f][l])
    BY <1>2, <2>2, FenceKeeps
  <2> QED  BY <1>1, <1>9, <2>3, <2>4, SettledKept, TableKept DEF FenceCopy, SetPageId
<1>10. CASE FinishFlush
  BY <1>10, TableFinish
<1> QED  BY <1>4, <1>5, <1>6, <1>7, <1>8, <1>9, <1>10 DEF Next, FlushAll

-----------------------------------------------------------------------------
(* Users' steps: a line that is in DRAM is dirty or what the page's last   *)
(* flush wrote.                                                            *)
LEMMA FramesUse == ASSUME TypeOK, TableInv, FramesInv, UseFrames PROVE FramesInv'
<1>1. ASSUME NEW p \in Pages, NEW l \in Lines, NEW w \in Val, Overwrite(p, l, w)
      PROVE  FramesInv'
  <2>1. \A q \in Pages \ {p} : frame'[q] = frame[q] /\ ram'[q] = ram[q]
    BY <1>1 DEF Overwrite, TypeOK
  <2>2. frame'[p] = [frame[p] EXCEPT !.dirty = frame[p].dirty \union {l},
                                     !.resident = frame[p].resident \union {l}]
    BY <1>1, FrameTypes, FrameOps DEF Overwrite, TypeOK
  <2>3. \A k \in Lines \ {l} : ram'[p][k] = ram[p][k]
    BY <1>1 DEF Overwrite, TypeOK
  <2>4. /\ frame'[p].all_dirty = frame[p].all_dirty /\ frame'[p].all_resident = frame[p].all_resident
        /\ frame'[p].dirty = frame[p].dirty \union {l}
        /\ frame'[p].resident = frame[p].resident \union {l}
    BY <2>2, FrameTypes DEF FrameSet
  <2>5. flushed' = flushed
    BY <1>1 DEF Overwrite
  <2> QED  BY <2>1, <2>3, <2>4, <2>5 DEF FramesInv, Resident
<1>2. ASSUME NEW p \in Pages, NEW l \in Lines, Ensure(p, l) PROVE FramesInv'
  <2>1. \A q \in Pages \ {p} : frame'[q] = frame[q] /\ ram'[q] = ram[q]
    BY <1>2 DEF Ensure, TypeOK
  <2>2. frame'[p] = EnsureLines(frame[p], {l})
    BY <1>2 DEF Ensure, TypeOK
  <2>3. /\ frame'[p].all_dirty = frame[p].all_dirty /\ frame'[p].all_resident = frame[p].all_resident
        /\ frame'[p].dirty = frame[p].dirty
        /\ \A k \in Lines \ {l} : k \in frame'[p].resident => k \in frame[p].resident
    BY <2>2, FrameTypes DEF EnsureLines, FrameSet
  <2>4. \A k \in Lines \ {l} : ram'[p][k] = ram[p][k]
    BY <1>2 DEF Ensure, TypeOK
  <2>5. Resident(frame[p], l) => ram'[p][l] = ram[p][l]
    BY <1>2 DEF Ensure, TypeOK, LinesToLoad, Resident
  <2>6. ~ Resident(frame[p], l) => ram'[p][l] = flushed[p][l]
    BY <1>2 DEF Ensure, TypeOK, LinesToLoad, Resident, TableInv
  <2>7. flushed' = flushed
    BY <1>2 DEF Ensure
  <2> QED  BY <2>1, <2>3, <2>4, <2>5, <2>6, <2>7 DEF FramesInv, Resident
<1>3. ASSUME NEW p \in Pages, NEW w \in Val, OverwritePage(p, w) PROVE FramesInv'
  <2>1. \A q \in Pages \ {p} : frame'[q] = frame[q] /\ ram'[q] = ram[q]
    BY <1>3 DEF OverwritePage, TypeOK
  <2>2. frame'[p].all_dirty
    BY <1>3, FrameTypes DEF OverwritePage, TypeOK, MarkAllDirty, FrameSet
  <2> QED  BY <1>3, <2>1, <2>2 DEF OverwritePage, FramesInv
<1> QED  BY <1>1, <1>2, <1>3 DEF UseFrames

(* ... and of every step: a flush writes all of a page, and cleans it.     *)
LEMMA FramesStep == ASSUME IInv, [Next]_vars PROVE FramesInv'
<1> USE DEF header, table, loop
<1>1. TypeOK /\ TableInv /\ FramesInv /\ LoopInv
  BY DEF IInv
<1>2. CASE UNCHANGED <<frame, ram, flushed>>
  BY <1>1, <1>2 DEF FramesInv
<1>3. CASE Drift \/ UNCHANGED vars
  BY <1>1, <1>2, <1>3, DriftEffect DEF vars
<1>4. CASE StartFlushAll \/ InitFreeId \/ InitFreePvn \/ NextPage \/ EndFlushAll
  BY <1>2, <1>4 DEF StartFlushAll, InitFreeId, InitFreePvn, NextPage, EndFlushAll
<1>5. CASE CopyLine \/ FenceCopy \/ SetPageId \/ SetPvn
  BY <1>2, <1>5 DEF CopyLine, FenceCopy, SetPageId, SetPvn
<1>6. CASE DeclareDirty
  <2>1. UNCHANGED <<ram, flushed>> /\ \A q \in Pages \ {cur} : frame'[q] = frame[q]
    BY <1>1, <1>6 DEF DeclareDirty, TypeOK
  <2>2. cur \in Pages => frame'[cur].all_dirty
    BY <1>1, <1>6, FrameTypes DEF DeclareDirty, TypeOK, MarkAllDirty, FrameSet
  <2> QED  BY <1>1, <2>1, <2>2 DEF FramesInv
<1>7. CASE FinishFlush
  <2>1. ram' = ram /\ \A q \in Pages \ {cur} : frame'[q] = frame[q] /\ flushed'[q] = flushed[q]
    BY <1>1, <1>7 DEF FinishFlush, TypeOK
  <2>2. cur \in Pages => \A l \in Lines : Resident(frame'[cur], l) => Resident(frame[cur], l)
    BY <1>1, <1>7, FrameTypes DEF FinishFlush, TypeOK, MarkClean, FrameSet, Resident
  <2>3. cur \in Pages => \A l \in Lines : flushed'[cur][l] = Held(cur, l)
    BY <1>1, <1>7, HeldIsImage DEF FinishFlush, TypeOK
  <2> QED  BY <1>1, <2>1, <2>2, <2>3 DEF FramesInv, Held
<1> QED  BY <1>1, <1>3, <1>4, <1>5, <1>6, <1>7, FramesUse DEF Next, FlushAll

-----------------------------------------------------------------------------
(* The copy so far is what users see, and settled once it is fenced.       *)
LEMMA CopyStep == ASSUME IInv, [Next]_vars PROVE CopyInv'
<1> USE DEF header, table, loop
<1>1. TypeOK /\ TableInv /\ CopyInv /\ LoopInv
  BY DEF IInv
<1>2. /\ id \in [Frames -> LineSet(Ids)] /\ free \in Frames
      /\ data \in [Frames -> [Lines -> LineSet(Words)]]
      /\ LineCount \in Nat /\ cl \in Nat
  <2>1. /\ id \in [Frames -> LineSet(Ids)] /\ free \in Frames
        /\ data \in [Frames -> [Lines -> LineSet(Words)]]
    BY <1>1, MemoryTypes
  <2>2. cl \in 0 .. LineCount
    BY <1>1 DEF TypeOK
  <2> QED  BY <2>1, <2>2, BufferFrameAssumption
<1>3. CASE pc' \in {"app", "init_id", "init_pvn", "scan"}
  BY <1>3 DEF CopyInv
<1>4. CASE UseFrames
  BY <1>3, <1>4 DEF UseFrames, Overwrite, Ensure, OverwritePage
<1>5. CASE StartFlushAll \/ InitFreeId \/ InitFreePvn \/ DeclareDirty \/ EndFlushAll \/ FinishFlush
  BY <1>3, <1>5 DEF StartFlushAll, InitFreeId, InitFreePvn, DeclareDirty, EndFlushAll, FinishFlush
<1>6. CASE NextPage
  <2>1. pc' # "scan" => pc' = "copy" /\ cl' = 0
    BY <1>6 DEF NextPage
  <2>2. \A l \in Lines : ~ (l < 0)
    BY <1>2 DEF Lines
  <2> QED  BY <1>3, <2>1, <2>2 DEF CopyInv
<1>7. CASE Drift
  <2>1. MemoryKept /\ UNCHANGED <<frame, ram, table, loop, flushed>>
    BY <1>1, <1>7, DriftEffect
  <2>2. \A l \in Lines : Held(cur, l)' = Held(cur, l)
    BY <2>1 DEF Held
  <2>3. id'[free].vol = id[free].vol
    BY <1>2, <2>1 DEF MemoryKept, Kept
  <2>4. \A l \in Lines : Kept(data[free][l], data'[free][l])
    BY <1>2, <2>1 DEF MemoryKept
  <2> QED  BY <1>1, <2>1, <2>2, <2>3, <2>4 DEF CopyInv, Kept
<1>8. CASE CopyLine
  <2>1. pc = "copy" /\ pc' = "copy" /\ cl < LineCount /\ cl' = cl + 1 /\ free' = free
    BY <1>8 DEF CopyLine
  <2>2. cl \in Lines
    BY <1>2, <2>1 DEF Lines
  <2>3. \A l \in Lines : Held(cur, l)' = Held(cur, l)
    BY <1>8 DEF CopyLine, Held
  <2>4. \A l \in Lines \ {cl} : data'[free][l] = data[free][l]
    BY <1>2, <1>8 DEF CopyLine
  <2>5. data'[free][cl] = CopyAndFlush(data[free][cl], Image(cur)[cl])
    BY <1>2, <1>8, <2>2 DEF CopyLine
  <2>6. cur \in Pages
    <3>1. cur \in 0 .. PageCount /\ cur < PageCount
      BY <1>1, <2>1 DEF TypeOK, LoopInv
    <3> QED  BY <3>1, ShadowAssumption DEF Pages
  <2>7. data'[free][cl].vol = Held(cur, cl) /\ data'[free][cl].fen = Held(cur, cl)
    BY <1>1, <1>2, <2>2, <2>5, <2>6, HeldIsImage, StoreFields
  <2>8. \A l \in Lines : l < cl + 1 => l < cl \/ l = cl
    BY <1>2 DEF Lines
  <2>9. \A l \in Lines : l < cl' =>
          data'[free][l].fen = data'[free][l].vol /\ data'[free][l].vol = Held(cur, l)
    BY <1>1, <2>1, <2>4, <2>7, <2>8 DEF CopyInv
  <2>10. cur' = cur
    BY <1>8 DEF CopyLine
  <2> QED  BY <2>1, <2>3, <2>9, <2>10 DEF CopyInv
<1>9. CASE FenceCopy
  <2>1. pc = "copy" /\ pc' = "set_id" /\ cl = LineCount /\ UNCHANGED <<free, cur, frame, ram, flushed>>
    BY <1>9 DEF FenceCopy
  <2>2. \A l \in Lines : l < cl
    BY <1>2, <2>1 DEF Lines
  <2>3. \A l \in Lines : data'[free][l] = SFence(data[free][l])
    BY <1>1, <1>2, <1>9, FencedData DEF FenceCopy
  <2>4. \A l \in Lines : Stable(data'[free][l]) /\ data'[free][l].vol = Held(cur, l)
    BY <1>1, <1>2, <2>1, <2>2, <2>3, FenceFields DEF CopyInv
  <2>5. \A l \in Lines : Held(cur, l)' = Held(cur, l)
    BY <2>1 DEF Held
  <2> QED  BY <2>1, <2>4, <2>5 DEF CopyInv
<1>10. CASE SetPageId
  <2>1. pc = "set_id" /\ pc' = "set_pvn" /\ UNCHANGED <<free, cur, frame, ram, flushed>>
    BY <1>10 DEF SetPageId
  <2>2. \A l \in Lines : data'[free][l] = data[free][l]
    <3>1. \A l \in Lines : data'[free][l] = SFence(data[free][l])
      BY <1>1, <1>2, <1>10, FencedData DEF SetPageId
    <3> QED  BY <1>1, <1>2, <2>1, <3>1, StableLine DEF CopyInv
  <2>3. id'[free] = SFence(Store(id[free], cur))
    BY <1>1, <1>2, <1>10, FenceId DEF SetPageId
  <2>4. id'[free].vol = cur
    BY <1>2, <2>3 DEF SFence, Store, LineSet
  <2>5. \A l \in Lines : Held(cur, l)' = Held(cur, l)
    BY <2>1 DEF Held
  <2> QED  BY <1>1, <2>1, <2>2, <2>4, <2>5 DEF CopyInv
<1>11. CASE SetPvn \/ UNCHANGED vars
  <2>1. UNCHANGED <<id, data, free, cur, cl, frame, ram, flushed>>
    BY <1>11 DEF SetPvn, vars
  <2>2. pc' # pc => pc = "set_pvn" /\ pc' = "persist_header"
    BY <1>11 DEF SetPvn, vars
  <2>3. \A l \in Lines : Held(cur, l)' = Held(cur, l)
    BY <2>1 DEF Held
  <2> QED  BY <1>1, <2>1, <2>2, <2>3 DEF CopyInv
<1> QED  BY <1>4, <1>5, <1>6, <1>7, <1>8, <1>9, <1>10, <1>11 DEF Next, FlushAll

-----------------------------------------------------------------------------
(* FlushAll_Shadow, any number of pages and lines: in every state the      *)
(* frames the table names are settled, and the free one is what is being   *)
(* written.                                                                *)
THEOREM ShadowInvariantHolds == Spec => []IInv
<1>1. IInv /\ [Next]_vars => IInv'
  BY TypeStep, LoopStep, TableStep, FramesStep, CopyStep DEF IInv
<1> QED  BY <1>1, InitInv, PTL DEF Spec

(* Every variable of the shadow flush keeps its type.                      *)
THEOREM ShadowTypeCorrect == Spec => []TypeOK
<1>1. IInv => TypeOK
  BY DEF IInv
<1> QED  BY <1>1, ShadowInvariantHolds, PTL

(* The table loses and doubles no frame while frames are passed round, and *)
(* every header names its page (CheckNvmContentEqualsTo).                  *)
THEOREM TableStaysConsistent == Spec => []TableIsConsistent
<1>1. IInv => TableIsConsistent
  BY DEF IInv, TableInv, TableIsConsistent
<1> QED  BY <1>1, ShadowInvariantHolds, PTL

(* FlushShadow never touches the durable copy of a page: a power failure   *)
(* at any moment finds it whole.                                           *)
THEOREM OldCopiesSurvive == Spec => []OldCopyIsIntact
<1>1. IInv => OldCopyIsIntact
  <2> SUFFICES ASSUME IInv, NEW p \in Pages
               PROVE  id[home[p]].dur = p /\ Survivor(home[p]) = flushed[p]
    BY DEF OldCopyIsIntact
  <2>1. id[home[p]].dur = p /\ \A l \in Lines : data[home[p]][l].dur = flushed[p][l]
    BY DEF IInv, TableInv, Stable
  <2>2. flushed[p] \in [Lines -> Val]
    BY DEF IInv, TypeOK
  <2> QED  BY <2>1, <2>2 DEF Survivor
<1> QED  BY <1>1, ShadowInvariantHolds, PTL

(* A page whose frame is clean survives as its users see it, whichever of  *)
(* its lines were in DRAM when it was flushed.                             *)
THEOREM CleanShadowsSurvive == Spec => []CleanPageSurvives
<1>1. IInv => CleanPageSurvives
  <2> SUFFICES ASSUME IInv, NEW p \in Pages, ~ IsAnythingDirty(frame[p])
               PROVE  Survivor(home[p]) = Image(p)
    BY DEF CleanPageSurvives
  <2>1. TypeOK /\ TableInv /\ FramesInv
    BY DEF IInv
  <2>2. \A l \in Lines : data[home[p]][l].dur = flushed[p][l]
    BY <2>1 DEF TableInv, Stable
  <2>3. \A l \in Lines : Held(p, l) = flushed[p][l]
    BY <2>1 DEF FramesInv, Held, IsAnythingDirty
  <2>4. \A l \in Lines : Image(p)[l] = flushed[p][l]
    BY <2>1, <2>3, HeldIsImage
  <2> QED  BY <2>2, <2>4 DEF Survivor, Image
<1> QED  BY <1>1, ShadowInvariantHolds, PTL
=============================================================================
