--------------------------- MODULE MicroLogProofs ---------------------------
(***************************************************************************)
(* What FlushAll_MicroLog promises, for any number of pages and cache      *)
(* lines and any contents, when users mark lines, not whole pages, dirty:  *)
(* the invariant of MicroLogInv.tla holds at every step of the flush, and  *)
(* from it follows what MicroLogFlush.tla states and that it implements    *)
(* AtomicPages.tla.                                                        *)
(***************************************************************************)
EXTENDS MicroLogInv, TLAPS

-----------------------------------------------------------------------------
\* Cache lines: what the operations of PMem.tla do to one.

(* Every operation on a line leaves it a line.                             *)
LEMMA LineOps ==
  ASSUME NEW V, NEW c \in LineSet(V)
  PROVE  /\ WriteBack(c) \in LineSet(V)
         /\ SFence(c) \in LineSet(V)
         /\ Persist(c) \in LineSet(V)
         /\ Evict(c) \in LineSet(V)
  BY DEF LineSet, WriteBack, SFence, Persist, Evict

(* So does every store.                                                    *)
LEMMA StoreOps ==
  ASSUME NEW V, NEW c \in LineSet(V), NEW v \in V
  PROVE  /\ Line(v) \in LineSet(V)
         /\ Store(c, v) \in LineSet(V)
         /\ CopyAndFlush(c, v) \in LineSet(V)
         /\ Tear(c, v) \in LineSet(V)
  BY DEF LineSet, Line, Store, WriteBack, CopyAndFlush, Tear

(* What a store leaves in the fields.                                      *)
LEMMA StoreFields ==
  ASSUME NEW V, NEW c \in LineSet(V), NEW v
  PROVE  /\ Store(c, v).vol = v /\ Store(c, v).fen = c.fen /\ Store(c, v).dur = c.dur
         /\ CopyAndFlush(c, v).vol = v /\ CopyAndFlush(c, v).fen = v
         /\ CopyAndFlush(c, v).dur = c.dur
  BY DEF LineSet, Store, WriteBack, CopyAndFlush

(* What a fence leaves in the fields.                                      *)
LEMMA FenceFields ==
  ASSUME NEW V, NEW c \in LineSet(V)
  PROVE  /\ SFence(c).vol = c.vol
         /\ c.fen = c.vol => Stable(SFence(c))
         /\ Persist(c).vol = c.vol /\ Stable(Persist(c))
  BY DEF LineSet, Stable, WriteBack, SFence, Persist

(* A line that drifts keeps its content, and stays on its way if it was.   *)
LEMMA DriftFields ==
  ASSUME NEW V, NEW c \in LineSet(V), NEW torn \in V,
         NEW d \in CopyDrift(c, torn) \union WordDrift(c)
  PROVE  /\ d \in LineSet(V)
         /\ d.vol = c.vol
         /\ c.fen = c.vol => d.fen = d.vol
         /\ ~Stable(c)
  BY DEF LineSet, Stable, Evict, Tear, CopyDrift, WordDrift, Dirty

(* A fence changes nothing about a settled line.                           *)
LEMMA StableLine ==
  ASSUME NEW V, NEW c \in LineSet(V), Stable(c)
  PROVE  SFence(c) = c
  BY DEF LineSet, Stable, SFence

-----------------------------------------------------------------------------
(* What the type invariant says of each variable *)

LEMMA FrameParts ==
  ASSUME TypeOK, NEW p \in Pages
  PROVE  /\ frame[p] \in FrameSet
         /\ frame[p].dirty \subseteq Lines
         /\ frame[p].resident \subseteq Lines
  <1>1. frame[p] \in FrameSet
    BY DEF TypeOK
  <1>. QED
    BY <1>1 DEF FrameSet

LEMMA PageParts ==
  ASSUME TypeOK, NEW p \in Pages, NEW l \in Lines
  PROVE  page[p][l] \in LineSet(Val \union {Torn}) /\ ram[p][l] \in Val
  BY DEF TypeOK

LEMMA HeadParts ==
  ASSUME TypeOK
  PROVE  /\ head \in LineSet(Heads)
         /\ head.vol \in Heads /\ head.dur \in Heads
         /\ head.vol.page_id \in PageIds /\ head.vol.count \in Nat
         /\ head.dur.page_id \in PageIds /\ head.dur.count \in Nat
  <1>1. head \in LineSet(Heads)
    BY DEF TypeOK
  <1>2. head.vol \in Heads /\ head.dur \in Heads
    BY <1>1 DEF LineSet
  <1>. QED
    BY <1>1, <1>2 DEF Heads

LEMMA LogParts ==
  ASSUME TypeOK, NEW i \in Lines
  PROVE  /\ mapping[i] \in LineSet(Lines)
         /\ mapping[i].vol \in Lines /\ mapping[i].dur \in Lines
         /\ cls[i] \in LineSet(Val \union {Torn})
  <1>1. mapping[i] \in LineSet(Lines) /\ cls[i] \in LineSet(Val \union {Torn})
    BY DEF TypeOK
  <1>. QED
    BY <1>1 DEF LineSet

\* sfence, on the memory of all pages.
LEMMA FencePagesEffect ==
  ASSUME TypeOK, FencePages
  PROVE  /\ page' \in [Pages -> [Lines -> LineSet(Val \union {Torn})]]
         /\ \A p \in Pages : \A l \in Lines : page'[p][l] = SFence(page[p][l])
  <1>1. ASSUME NEW p \in Pages
        PROVE  FenceLines(page[p]) = [l \in Lines |-> SFence(page[p][l])]
    <2>1. DOMAIN page[p] = Lines
      BY DEF TypeOK
    <2>. QED
      BY <2>1 DEF FenceLines
  <1>2. ASSUME NEW p \in Pages, NEW l \in Lines
        PROVE  SFence(page[p][l]) \in LineSet(Val \union {Torn})
    BY PageParts, LineOps
  <1>. QED
    BY <1>1, <1>2 DEF FencePages

\* sfence, on pages that are settled.
LEMMA FenceSettledPages ==
  ASSUME TypeOK, FencePages, \A p \in Pages : \A l \in Lines : Stable(page[p][l])
  PROVE  page' = page
  <1>1. \A p \in Pages : \A l \in Lines : page'[p][l] = page[p][l]
    BY FencePagesEffect, PageParts, StableLine
  <1>2. page' \in [Pages -> [Lines -> LineSet(Val \union {Torn})]]
    BY FencePagesEffect
  <1>3. page \in [Pages -> [Lines -> LineSet(Val \union {Torn})]]
    BY DEF TypeOK
  <1>. QED
    BY <1>1, <1>2, <1>3

\* sfence, on the arrays of the log.
LEMMA FenceLogEffect ==
  ASSUME TypeOK
  PROVE  /\ FenceLines(mapping) \in [Lines -> LineSet(Lines)]
         /\ FenceLines(cls) \in [Lines -> LineSet(Val \union {Torn})]
         /\ \A i \in Lines : /\ FenceLines(mapping)[i] = SFence(mapping[i])
                             /\ FenceLines(cls)[i] = SFence(cls[i])
  <1>1. DOMAIN mapping = Lines /\ DOMAIN cls = Lines
    BY DEF TypeOK
  <1>2. ASSUME NEW i \in Lines
        PROVE  /\ SFence(mapping[i]) \in LineSet(Lines)
               /\ SFence(cls[i]) \in LineSet(Val \union {Torn})
    BY LogParts, LineOps
  <1>. QED
    BY <1>1, <1>2 DEF FenceLines

-----------------------------------------------------------------------------
(* The invariant: parts an action leaves alone *)

LEMMA KeepFrames == FramesInv /\ UNCHANGED frame => FramesInv'
  BY DEF FramesInv

LEMMA KeepPages ==
  ASSUME PagesInv, UNCHANGED <<frame, ram, page>>,
         pc \notin {"page", "finish_page"}, pc' \notin {"page", "finish_page"}
  PROVE  PagesInv'
  BY DEF PagesInv, Settled, InFlight, Stable, Resident

LEMMA AllSettled ==
  ASSUME PagesInv, pc \notin {"page", "finish_page"}
  PROVE  \A p \in Pages : \A l \in Lines : Settled(p, l) /\ Stable(page[p][l])
  BY DEF PagesInv, InFlight, Settled

-----------------------------------------------------------------------------
(* The invariant: every step preserves it *)

LEMMA InitIInv == Init => IInv
  <1> SUFFICES ASSUME Init PROVE IInv
    OBVIOUS
  <1>1. TypeOK
    BY MicroLogAssumption, BufferFrameAssumption
    DEF Init, TypeOK, InitFrame, FrameSet, LineSet, Line, Heads, PageIds, Pages, Lines
  <1>2. FramesInv
    BY DEF Init, FramesInv, InitFrame
  <1>3. PagesInv
    BY DEF Init, PagesInv, Settled, Stable, InFlight, Line, InitFrame, Resident
  <1>4. LoggingInv /\ ReplayableInv /\ RetiringInv
    BY DEF Init, LoggingInv, ReplayableInv, RetiringInv, Logging, Replayable, Retiring
  <1>5. IdleInv
    BY MicroLogAssumption DEF Init, IdleInv, Harmless, Flushing, Logging, Replayable, Retiring
  <1>. QED
    BY <1>1, <1>2, <1>3, <1>4, <1>5 DEF IInv

LEMMA OverwriteIInv ==
  ASSUME IInv, NEW p \in Pages, NEW l \in Lines, NEW v \in Val, Overwrite(p, l, v)
  PROVE  IInv'
  <1> USE DEF IInv
  <1>1. TypeOK'
    BY DEF Overwrite, TypeOK, FrameSet, MarkLinesDirty, log
  <1>2. FramesInv'
    BY DEF Overwrite, TypeOK, FramesInv, FrameSet, MarkLinesDirty
  <1>3. PagesInv'
    BY DEF Overwrite, TypeOK, PagesInv, FrameSet, MarkLinesDirty, Settled, InFlight, Stable, Resident
  <1>4. LoggingInv' /\ ReplayableInv' /\ RetiringInv' /\ IdleInv'
    BY DEF Overwrite, LoggingInv, ReplayableInv, RetiringInv, IdleInv, Logging, Replayable, Retiring, Flushing, log, Harmless
  <1>. QED
    BY <1>1, <1>2, <1>3, <1>4

LEMMA EnsureIInv ==
  ASSUME IInv, NEW p \in Pages, NEW l \in Lines, Ensure(p, l)
  PROVE  IInv'
  <1> USE DEF IInv
  <1>1. TypeOK'
    <2>1. /\ UNCHANGED <<page, head, mapping, cls, pc, cur, cl>>
          /\ frame' = [frame EXCEPT ![p] = EnsureLines(@, {l})]
          /\ ram' = [ram EXCEPT ![p][l] =
                       IF l \in LinesToLoad(frame[p], {l}) THEN page[p][l].vol ELSE @]
      BY DEF Ensure, log
    <2>2. EnsureLines(frame[p], {l}) \in FrameSet
      BY FrameParts DEF EnsureLines, FrameSet
    <2>3. page[p][l].vol \in Val /\ ram[p][l] \in Val
      BY PageParts DEF PagesInv
    <2>. QED
      BY <2>1, <2>2, <2>3 DEF TypeOK
  <1>2. FramesInv'
    BY DEF Ensure, TypeOK, FramesInv, FrameSet, EnsureLines
  <1>3. PagesInv'
    BY DEF Ensure, TypeOK, PagesInv, FramesInv, FrameSet, EnsureLines, LinesToLoad, Settled, InFlight, Stable, Resident
  <1>4. LoggingInv' /\ ReplayableInv' /\ RetiringInv' /\ IdleInv'
    BY DEF Ensure, LoggingInv, ReplayableInv, RetiringInv, IdleInv, Logging, Replayable, Retiring, Flushing, log, Harmless
  <1>. QED
    BY <1>1, <1>2, <1>3, <1>4

LEMMA StartFlushAllIInv ==
  ASSUME IInv, StartFlushAll
  PROVE  IInv'
  <1>0. TypeOK /\ FramesInv /\ PagesInv /\ IdleInv
    BY DEF IInv
  <1>a. /\ UNCHANGED <<frame, ram, page, mapping, cls, cl>>
        /\ pc = "app" /\ pc' = "scan" /\ cur' = 0
        /\ head' = Store(head, [page_id |-> InvalidPageId, count |-> 0])
    BY DEF StartFlushAll
  <1>b. [page_id |-> InvalidPageId, count |-> 0] \in Heads
    BY DEF Heads, PageIds
  <1>c. head' \in LineSet(Heads)
    BY <1>0, <1>a, <1>b, HeadParts, StoreOps
  <1>d. head'.vol = [page_id |-> InvalidPageId, count |-> 0] /\ head'.dur = head.dur
    BY <1>0, <1>a, HeadParts, StoreFields
  <1>1. TypeOK'
    <2>1. 0 \in 0 .. PageCount
      BY MicroLogAssumption
    <2>. QED
      BY <1>0, <1>a, <1>c, <2>1 DEF TypeOK
  <1>2. FramesInv' /\ PagesInv'
    BY <1>0, <1>a, KeepFrames, KeepPages
  <1>3. LoggingInv' /\ ReplayableInv' /\ RetiringInv'
    BY <1>a DEF LoggingInv, ReplayableInv, RetiringInv, Logging, Replayable, Retiring
  <1>4. IdleInv'
    BY <1>0, <1>a, <1>d, MicroLogAssumption
    DEF IdleInv, Harmless, Flushing, Logging, Replayable, Retiring
  <1>. QED
    BY <1>1, <1>2, <1>3, <1>4 DEF IInv

LEMMA NextPageIInv ==
  ASSUME IInv, NextPage
  PROVE  IInv'
  <1>0. TypeOK /\ FramesInv /\ PagesInv /\ IdleInv
    BY DEF IInv
  <1>a. /\ UNCHANGED <<frame, ram, page, head, mapping, cls>>
        /\ pc = "scan" /\ cur < PageCount
        /\ \/ pc' = "log" /\ cl' = 0 /\ cur' = cur
           \/ pc' = "scan" /\ cl' = cl /\ cur' = cur + 1
    BY DEF NextPage, log
  <1>b. cur \in Pages /\ cur + 1 \in 0 .. PageCount /\ 0 \in 0 .. LineCount
    <2>1. cur \in 0 .. PageCount
      BY <1>0 DEF TypeOK
    <2>. QED
      BY <1>a, <2>1, MicroLogAssumption, BufferFrameAssumption DEF Pages
  <1>c. head.vol = [page_id |-> InvalidPageId, count |-> 0]
    BY <1>0, <1>a DEF IdleInv
  <1>1. TypeOK'
    BY <1>0, <1>a, <1>b DEF TypeOK
  <1>2. FramesInv' /\ PagesInv'
    BY <1>0, <1>a, KeepFrames, KeepPages
  <1>3. LoggingInv'
    <2>1. CASE pc' = "scan"
      BY <2>1 DEF LoggingInv, Logging
    <2>2. CASE pc' = "log" /\ cl' = 0 /\ cur' = cur
      <3>1. frame[cur].dirty \subseteq Lines
        BY <1>0, <1>b, FrameParts
      <3>2. Covered(0, 0)'
        BY <1>a, <2>2, <3>1 DEF Covered, Lines
      <3>3. \A i \in Lines : ~(i < 0)
        BY DEF Lines
      <3>. QED
        BY <1>a, <1>c, <2>2, <3>2, <3>3 DEF LoggingInv, Logging
    <2>. QED
      BY <1>a, <2>1, <2>2
  <1>4. ReplayableInv' /\ RetiringInv'
    BY <1>a DEF ReplayableInv, RetiringInv, Replayable, Retiring
  <1>5. IdleInv'
    BY <1>0, <1>a, <1>b DEF IdleInv, Harmless, Flushing, Logging, Replayable, Retiring
  <1>. QED
    BY <1>1, <1>2, <1>3, <1>4, <1>5 DEF IInv

LEMMA EndFlushAllIInv ==
  ASSUME IInv, EndFlushAll
  PROVE  IInv'
  <1>0. TypeOK /\ FramesInv /\ PagesInv /\ IdleInv
    BY DEF IInv
  <1>a. /\ UNCHANGED <<frame, ram, page, head, mapping, cls, cl>>
        /\ pc = "scan" /\ pc' = "app" /\ cur' = 0
    BY DEF EndFlushAll, log
  <1>1. TypeOK'
    <2>1. 0 \in 0 .. PageCount
      BY MicroLogAssumption
    <2>. QED
      BY <1>0, <1>a, <2>1 DEF TypeOK
  <1>2. FramesInv' /\ PagesInv'
    BY <1>0, <1>a, KeepFrames, KeepPages
  <1>3. LoggingInv' /\ ReplayableInv' /\ RetiringInv'
    BY <1>a DEF LoggingInv, ReplayableInv, RetiringInv, Logging, Replayable, Retiring
  <1>4. IdleInv'
    BY <1>0, <1>a DEF IdleInv, Harmless, Flushing, Logging, Replayable, Retiring
  <1>. QED
    BY <1>1, <1>2, <1>3, <1>4 DEF IInv

LEMMA LogLineIInv ==
  ASSUME IInv, LogLine
  PROVE  IInv'
  <1> DEFINE n == head.vol.count
  <1>0. TypeOK /\ FramesInv /\ PagesInv /\ LoggingInv /\ IdleInv
    BY DEF IInv
  <1>a. /\ UNCHANGED <<frame, ram, page, pc, cur>>
        /\ pc = "log" /\ cl < LineCount /\ cl' = cl + 1
    BY DEF LogLine
  <1>b. cl \in Lines /\ cl + 1 \in 0 .. LineCount /\ cl + 1 # 0
    <2>1. cl \in 0 .. LineCount
      BY <1>0 DEF TypeOK
    <2>. QED
      BY <1>a, <2>1, BufferFrameAssumption DEF Lines
  <1>c. cur \in Pages
    BY <1>0, <1>a DEF IdleInv, Flushing, Logging
  <1>d. /\ head.vol.page_id = InvalidPageId /\ n <= cl
        /\ \A i \in Lines : i < n => Copied(i) /\ cls[i].fen = cls[i].vol
        /\ Covered(cl, n)
    BY <1>0, <1>a DEF LoggingInv, Logging
  <1>e. n \in Nat /\ n \in Lines /\ n <= cl + 1 /\ n + 1 <= cl + 1
    <2>1. n \in Nat
      BY <1>0, HeadParts
    <2>. QED
      BY <1>b, <1>d, <2>1, BufferFrameAssumption DEF Lines
  <1>f. frame[cur].dirty \subseteq Lines
    BY <1>0, <1>c, FrameParts
  <1>1. FramesInv' /\ PagesInv'
    BY <1>0, <1>a, KeepFrames, KeepPages
  <1>2. ReplayableInv' /\ RetiringInv'
    BY <1>a DEF ReplayableInv, RetiringInv, Replayable, Retiring
  <1>3. CASE cl \notin frame[cur].dirty
    <2>1. UNCHANGED <<head, mapping, cls>>
      BY <1>3 DEF LogLine, log
    <2>2. TypeOK'
      BY <1>0, <1>a, <1>b, <2>1 DEF TypeOK
    <2>3. LoggingInv'
      <3>1. Covered(cl + 1, n)
        BY <1>b, <1>d, <1>f, <1>3 DEF Covered, Lines
      <3>2. Covered(cl, n)' /\ \A i \in Lines : i < n => Copied(i)' /\ cls'[i].fen = cls'[i].vol
        BY <1>a, <1>d, <2>1, <3>1 DEF Covered, Copied, Resident
      <3>. QED
        BY <1>a, <1>b, <1>d, <1>e, <2>1, <3>2 DEF LoggingInv, Logging
    <2>4. IdleInv'
      BY <1>0, <1>a, <2>1 DEF IdleInv, Harmless, Flushing, Logging, Replayable, Retiring
    <2>. QED
      BY <1>1, <1>2, <2>2, <2>3, <2>4 DEF IInv
  <1>4. CASE cl \in frame[cur].dirty
    <2> DEFINE h == [head.vol EXCEPT !.count = n + 1]
    <2>1. /\ cls' = [cls EXCEPT ![n] = CopyAndFlush(@, ram[cur][cl])]
          /\ mapping' = [mapping EXCEPT ![n] = Store(@, cl)]
          /\ head' = Store(head, h)
      BY <1>4 DEF LogLine
    <2>2. h \in Heads /\ h.page_id = head.vol.page_id /\ h.count = n + 1
      BY <1>0, HeadParts DEF Heads
    <2>3. /\ head' \in LineSet(Heads) /\ head'.dur = head.dur
          /\ head'.vol.page_id = InvalidPageId /\ head'.vol.count = n + 1
      <3>1. head' \in LineSet(Heads)
        BY <1>0, <2>1, <2>2, HeadParts, StoreOps
      <3>2. head'.dur = head.dur /\ head'.vol = h
        BY <1>0, <2>1, HeadParts, StoreFields
      <3>. QED
        BY <1>d, <2>2, <3>1, <3>2
    <2>4. /\ mapping' \in [Lines -> LineSet(Lines)]
          /\ mapping'[n].vol = cl
          /\ \A i \in Lines : i # n => mapping'[i] = mapping[i]
      <3>1. mapping \in [Lines -> LineSet(Lines)]
        BY <1>0 DEF TypeOK
      <3>0. mapping[n] \in LineSet(Lines)
        BY <1>0, <1>e, LogParts
      <3>2. Store(mapping[n], cl) \in LineSet(Lines) /\ Store(mapping[n], cl).vol = cl
        BY <1>b, <3>0, StoreOps, StoreFields
      <3>. QED
        BY <1>e, <2>1, <3>1, <3>2
    <2>5. /\ cls' \in [Lines -> LineSet(Val \union {Torn})]
          /\ cls'[n].vol = ram[cur][cl] /\ cls'[n].fen = ram[cur][cl]
          /\ \A i \in Lines : i # n => cls'[i] = cls[i]
      <3> DEFINE c == CopyAndFlush(cls[n], ram[cur][cl])
      <3>1. cls \in [Lines -> LineSet(Val \union {Torn})]
        BY <1>0 DEF TypeOK
      <3>2. ram[cur][cl] \in Val \union {Torn} /\ cls[n] \in LineSet(Val \union {Torn})
        BY <1>0, <1>b, <1>c, <1>e, PageParts, LogParts
      <3>3. c \in LineSet(Val \union {Torn}) /\ c.vol = ram[cur][cl] /\ c.fen = ram[cur][cl]
        BY <3>2, StoreOps, StoreFields
      <3>. QED
        BY <1>e, <2>1, <3>1, <3>3
    <2>6. TypeOK'
      BY <1>0, <1>a, <1>b, <2>3, <2>4, <2>5 DEF TypeOK
    <2>7. Covered(cl, head.vol.count)'
      <3>1. SUFFICES ASSUME NEW l \in frame[cur].dirty, l < cl + 1
                     PROVE  \E i \in Lines : i < n + 1 /\ mapping'[i].vol = l
        BY <1>a, <2>3 DEF Covered
      <3>2. l \in Lines
        BY <1>f
      <3>3. CASE l = cl
        BY <1>e, <2>4, <3>3
      <3>4. CASE l < cl
        <4>1. PICK i \in Lines : i < n /\ mapping[i].vol = l
          BY <1>d, <3>4 DEF Covered
        <4>2. i # n /\ i < n + 1
          BY <1>e, <4>1 DEF Lines
        <4>. QED
          BY <2>4, <4>1, <4>2
      <3>. QED
        BY <1>b, <3>1, <3>2, <3>3, <3>4 DEF Lines
    <2>8. ASSUME NEW i \in Lines, i < n + 1
          PROVE  Copied(i)' /\ cls'[i].fen = cls'[i].vol
      <3>1. CASE i = n
        <4>1. cl \in frame[cur].resident
          BY <1>0, <1>c, <1>4 DEF FramesInv
        <4>. QED
          BY <1>a, <2>4, <2>5, <3>1, <4>1 DEF Copied, Resident
      <3>2. CASE i < n
        <4>1. i # n
          BY <1>e, <3>2 DEF Lines
        <4>. QED
          BY <1>a, <1>d, <2>4, <2>5, <3>2, <4>1 DEF Copied, Resident
      <3>. QED
        BY <1>e, <2>8, <3>1, <3>2 DEF Lines
    <2>9. LoggingInv'
      BY <1>a, <1>b, <1>e, <2>3, <2>7, <2>8 DEF LoggingInv, Logging
    <2>10. IdleInv'
      <3>1. Harmless(head'.vol)
        BY <2>3, MicroLogAssumption DEF Harmless
      <3>2. Harmless(head'.dur)
        BY <1>0, <1>a, <2>3 DEF IdleInv, Logging, Replayable, Retiring
      <3>. QED
        BY <1>a, <1>c, <3>1, <3>2 DEF IdleInv, Flushing, Logging, Replayable, Retiring, Harmless
    <2>. QED
      BY <1>1, <1>2, <2>6, <2>9, <2>10 DEF IInv
  <1>. QED
    BY <1>3, <1>4

LEMMA EndLogLoopIInv ==
  ASSUME IInv, EndLogLoop
  PROVE  IInv'
  <1>0. TypeOK /\ FramesInv /\ PagesInv /\ LoggingInv /\ IdleInv
    BY DEF IInv
  <1>a. /\ UNCHANGED <<frame, ram, page, head, mapping, cls, cur, cl>>
        /\ pc = "log" /\ cl = LineCount /\ pc' = "persist_log"
    BY DEF EndLogLoop, log
  <1>1. TypeOK'
    BY <1>0, <1>a DEF TypeOK
  <1>2. FramesInv' /\ PagesInv'
    BY <1>0, <1>a, KeepFrames, KeepPages
  <1>3. LoggingInv'
    BY <1>0, <1>a DEF LoggingInv, Logging, Copied, Covered, Resident
  <1>4. ReplayableInv' /\ RetiringInv'
    BY <1>a DEF ReplayableInv, RetiringInv, Replayable, Retiring
  <1>5. IdleInv'
    BY <1>0, <1>a DEF IdleInv, Harmless, Flushing, Logging, Replayable, Retiring
  <1>. QED
    BY <1>1, <1>2, <1>3, <1>4, <1>5 DEF IInv

LEMMA PersistLogIInv ==
  ASSUME IInv, PersistLog
  PROVE  IInv'
  <1> DEFINE n == head.vol.count
  <1>0. TypeOK /\ FramesInv /\ PagesInv /\ LoggingInv /\ IdleInv
    BY DEF IInv
  <1>a. /\ UNCHANGED <<frame, ram, cur, cl>>
        /\ pc = "persist_log" /\ pc' = "set_valid"
        /\ head' = Persist(head)
        /\ mapping' = [i \in Lines |-> IF i < n THEN Persist(mapping[i])
                                                ELSE SFence(mapping[i])]
        /\ cls' = FenceLines(cls)
        /\ FencePages
    BY DEF PersistLog
  <1>b. cur \in Pages /\ cl = LineCount /\ head.vol.page_id = InvalidPageId
    BY <1>0, <1>a DEF IdleInv, Flushing, LoggingInv, Logging
  <1>c. page' = page
    BY <1>0, <1>a, AllSettled, FenceSettledPages
  <1>d. head' \in LineSet(Heads) /\ head'.vol = head.vol /\ Stable(head')
    BY <1>0, <1>a, HeadParts, LineOps, FenceFields
  <1>e. ASSUME NEW i \in Lines
        PROVE  /\ mapping'[i] \in LineSet(Lines)
               /\ mapping'[i].vol = mapping[i].vol
               /\ i < n => Stable(mapping'[i])
               /\ cls'[i] = SFence(cls[i])
               /\ cls'[i].vol = cls[i].vol
               /\ cls[i].fen = cls[i].vol => Stable(cls'[i])
    <2>1. mapping[i] \in LineSet(Lines) /\ cls[i] \in LineSet(Val \union {Torn})
      BY <1>0, LogParts
    <2>2. cls'[i] = SFence(cls[i])
      BY <1>0, <1>a, FenceLogEffect
    <2>3. mapping'[i] = IF i < n THEN Persist(mapping[i]) ELSE SFence(mapping[i])
      BY <1>a
    <2>. QED
      BY <2>1, <2>2, <2>3, LineOps, FenceFields
  <1>1. TypeOK'
    <2>1. cls' \in [Lines -> LineSet(Val \union {Torn})]
      BY <1>0, <1>a, FenceLogEffect
    <2>2. mapping' \in [Lines -> LineSet(Lines)]
      BY <1>a, <1>e
    <2>. QED
      BY <1>0, <1>a, <1>c, <1>d, <2>1, <2>2 DEF TypeOK
  <1>2. FramesInv' /\ PagesInv'
    BY <1>0, <1>a, <1>c, KeepFrames, KeepPages
  <1>3. LoggingInv' /\ RetiringInv'
    BY <1>a DEF LoggingInv, RetiringInv, Logging, Retiring
  <1>4. ReplayableInv'
    <2>1. /\ \A i \in Lines : i < n => Copied(i) /\ cls[i].fen = cls[i].vol
          /\ Covered(cl, n)
      BY <1>0, <1>a DEF LoggingInv, Logging
    <2>2. Backed(head.vol.count)'
      BY <1>a, <1>d, <1>e, <2>1 DEF Backed, Copied, Resident
    <2>3. Covered(LineCount, head.vol.count)'
      BY <1>a, <1>b, <1>d, <1>e, <2>1 DEF Covered
    <2>. QED
      BY <1>a, <1>b, <1>d, <2>2, <2>3 DEF ReplayableInv, Replayable
  <1>5. IdleInv'
    BY <1>a, <1>b DEF IdleInv, Flushing, Logging, Replayable, Retiring
  <1>. QED
    BY <1>1, <1>2, <1>3, <1>4, <1>5 DEF IInv

LEMMA SetLogValidIInv ==
  ASSUME IInv, SetLogValid
  PROVE  IInv'
  <1> DEFINE h == [head.vol EXCEPT !.page_id = cur]
  <1>0. TypeOK /\ FramesInv /\ PagesInv /\ ReplayableInv /\ IdleInv
    BY DEF IInv
  <1>a. /\ UNCHANGED <<frame, ram, page, mapping, cls, cur, cl>>
        /\ pc = "set_valid" /\ pc' = "persist_valid"
        /\ head' = Store(head, h)
    BY DEF SetLogValid
  <1>b. cur \in Pages
    BY <1>0, <1>a DEF IdleInv, Flushing, Replayable
  <1>c. /\ Backed(head.vol.count) /\ Covered(LineCount, head.vol.count)
        /\ head.vol.page_id = InvalidPageId /\ Stable(head)
    BY <1>0, <1>a DEF ReplayableInv, Replayable
  <1>d. /\ h \in Heads /\ h.page_id = cur /\ h.count = head.vol.count
        /\ [h EXCEPT !.page_id = InvalidPageId] = head.vol
    BY <1>0, <1>b, <1>c, HeadParts DEF Heads, PageIds
  <1>e. /\ head' \in LineSet(Heads) /\ head'.vol = h /\ head'.dur = head.vol
    <2>1. head' \in LineSet(Heads)
      BY <1>0, <1>a, <1>d, HeadParts, StoreOps
    <2>2. head'.vol = h /\ head'.dur = head.dur
      BY <1>0, <1>a, HeadParts, StoreFields
    <2>. QED
      BY <1>c, <2>1, <2>2 DEF Stable
  <1>1. TypeOK'
    BY <1>0, <1>a, <1>e DEF TypeOK
  <1>2. FramesInv' /\ PagesInv'
    BY <1>0, <1>a, KeepFrames, KeepPages
  <1>3. LoggingInv' /\ RetiringInv'
    BY <1>a DEF LoggingInv, RetiringInv, Logging, Retiring
  <1>4. ReplayableInv'
    <2>1. head'.vol.count = head.vol.count /\ head'.vol.page_id = cur
      BY <1>d, <1>e
    <2>2. Backed(head.vol.count)'
      BY <1>a, <1>c, <2>1 DEF Backed, Copied, Resident, Stable
    <2>3. Covered(LineCount, head.vol.count)'
      BY <1>a, <1>c, <2>1 DEF Covered
    <2>4. head'.dur \in {head'.vol, [head'.vol EXCEPT !.page_id = InvalidPageId]}
      BY <1>d, <1>e
    <2>. QED
      BY <1>a, <2>1, <2>2, <2>3, <2>4 DEF ReplayableInv, Replayable
  <1>5. IdleInv'
    BY <1>a, <1>b DEF IdleInv, Flushing, Logging, Replayable, Retiring
  <1>. QED
    BY <1>1, <1>2, <1>3, <1>4, <1>5 DEF IInv

LEMMA PersistValidIInv ==
  ASSUME IInv, PersistValid
  PROVE  IInv'
  <1>0. TypeOK /\ FramesInv /\ PagesInv /\ ReplayableInv /\ IdleInv
    BY DEF IInv
  <1>a. /\ UNCHANGED <<frame, ram, cur>>
        /\ pc = "persist_valid" /\ pc' = "page" /\ cl' = 0
        /\ head' = Persist(head)
        /\ mapping' = FenceLines(mapping)
        /\ cls' = FenceLines(cls)
        /\ FencePages
    BY DEF PersistValid
  <1>b. cur \in Pages
    BY <1>0, <1>a DEF IdleInv, Flushing, Replayable
  <1>c. /\ Backed(head.vol.count) /\ Covered(LineCount, head.vol.count)
        /\ head.vol.page_id = cur
    BY <1>0, <1>a DEF ReplayableInv, Replayable
  <1>d. page' = page
    BY <1>0, <1>a, AllSettled, FenceSettledPages
  <1>e. head' \in LineSet(Heads) /\ head'.vol = head.vol /\ Stable(head')
    BY <1>0, <1>a, HeadParts, LineOps, FenceFields
  <1>f. ASSUME NEW i \in Lines
        PROVE  /\ mapping'[i].vol = mapping[i].vol
               /\ Stable(mapping[i]) => mapping'[i] = mapping[i]
               /\ Stable(cls[i]) => cls'[i] = cls[i]
    <2>1. mapping[i] \in LineSet(Lines) /\ cls[i] \in LineSet(Val \union {Torn})
      BY <1>0, LogParts
    <2>2. mapping'[i] = SFence(mapping[i]) /\ cls'[i] = SFence(cls[i])
      BY <1>0, <1>a, FenceLogEffect
    <2>. QED
      BY <2>1, <2>2, StableLine, FenceFields
  <1>1. TypeOK'
    <2>1. /\ cls' \in [Lines -> LineSet(Val \union {Torn})]
          /\ mapping' \in [Lines -> LineSet(Lines)]
      BY <1>0, <1>a, FenceLogEffect
    <2>2. 0 \in 0 .. LineCount
      BY BufferFrameAssumption
    <2>. QED
      BY <1>0, <1>a, <1>d, <1>e, <2>1, <2>2 DEF TypeOK
  <1>2. FramesInv'
    BY <1>0, <1>a, KeepFrames
  <1>3. PagesInv'
    <2>1. ASSUME NEW p \in Pages, NEW l \in Lines
          PROVE  page'[p][l].vol \in Val /\ Settled(p, l)' /\ ~(l < cl')
      BY <1>0, <1>a, <1>d, <2>1, AllSettled DEF PagesInv, Settled, Stable, Resident, Lines
    <2>. QED
      BY <2>1 DEF PagesInv
  <1>4. LoggingInv' /\ RetiringInv'
    BY <1>a DEF LoggingInv, RetiringInv, Logging, Retiring
  <1>5. ReplayableInv'
    <2>1. Backed(head.vol.count)' /\ Covered(LineCount, head.vol.count)'
      BY <1>a, <1>c, <1>e, <1>f DEF Backed, Copied, Covered, Resident
    <2>. QED
      BY <1>a, <1>c, <1>e, <2>1 DEF ReplayableInv, Replayable
  <1>6. IdleInv'
    BY <1>a, <1>b DEF IdleInv, Flushing, Logging, Replayable, Retiring
  <1>. QED
    BY <1>1, <1>2, <1>3, <1>4, <1>5, <1>6 DEF IInv

LEMMA PageLineIInv ==
  ASSUME IInv, PageLine
  PROVE  IInv'
  <1>0. TypeOK /\ FramesInv /\ PagesInv /\ ReplayableInv /\ IdleInv
    BY DEF IInv
  <1>a. /\ UNCHANGED <<frame, ram, head, mapping, cls, pc, cur>>
        /\ pc = "page" /\ cl < LineCount /\ cl' = cl + 1
        /\ page' = IF cl \in frame[cur].dirty
                   THEN [page EXCEPT ![cur][cl] = CopyAndFlush(@, ram[cur][cl])]
                   ELSE page
    BY DEF PageLine, log
  <1>b. cl \in Lines /\ cl + 1 \in 0 .. LineCount
    <2>1. cl \in 0 .. LineCount
      BY <1>0 DEF TypeOK
    <2>. QED
      BY <1>a, <2>1, BufferFrameAssumption DEF Lines
  <1>c. cur \in Pages
    BY <1>0, <1>a DEF IdleInv, Flushing, Replayable
  <1>d. /\ CopyAndFlush(page[cur][cl], ram[cur][cl]) \in LineSet(Val \union {Torn})
        /\ CopyAndFlush(page[cur][cl], ram[cur][cl]).vol = ram[cur][cl]
        /\ CopyAndFlush(page[cur][cl], ram[cur][cl]).fen = ram[cur][cl]
        /\ ram[cur][cl] \in Val
    <2>1. page[cur][cl] \in LineSet(Val \union {Torn}) /\ ram[cur][cl] \in Val
      BY <1>0, <1>b, <1>c, PageParts
    <2>. QED
      BY <2>1, StoreOps, StoreFields
  <1>e. /\ page' \in [Pages -> [Lines -> LineSet(Val \union {Torn})]]
        /\ \A p \in Pages : \A l \in Lines :
             p # cur \/ l # cl \/ l \notin frame[cur].dirty => page'[p][l] = page[p][l]
        /\ cl \in frame[cur].dirty =>
             page'[cur][cl] = CopyAndFlush(page[cur][cl], ram[cur][cl])
    <2>1. page \in [Pages -> [Lines -> LineSet(Val \union {Torn})]]
      BY <1>0 DEF TypeOK
    <2>. QED
      BY <1>a, <1>b, <1>c, <1>d, <2>1
  <1>1. TypeOK'
    BY <1>0, <1>a, <1>b, <1>e DEF TypeOK
  <1>2. FramesInv'
    BY <1>0, <1>a, KeepFrames
  <1>3. PagesInv'
    <2>1. SUFFICES ASSUME NEW p \in Pages, NEW l \in Lines
                   PROVE  /\ page'[p][l].vol \in Val
                          /\ InFlight(p, l)' \/ Settled(p, l)'
                          /\ InFlight(p, l)' /\ l < cl' =>
                               page'[p][l].vol = ram'[p][l] /\ page'[p][l].fen = ram'[p][l]
      BY DEF PagesInv
    <2>2. /\ page[p][l].vol \in Val
          /\ InFlight(p, l) \/ Settled(p, l)
          /\ InFlight(p, l) /\ l < cl =>
               page[p][l].vol = ram[p][l] /\ page[p][l].fen = ram[p][l]
      BY <1>0 DEF PagesInv
    <2>3. InFlight(p, l)' <=> InFlight(p, l)
      BY <1>a DEF InFlight
    <2>4. CASE p = cur /\ l = cl /\ l \in frame[cur].dirty
      <3>1. InFlight(p, l)
        BY <1>a, <2>4 DEF InFlight
      <3>. QED
        BY <1>a, <1>d, <1>e, <2>3, <2>4, <3>1
    <2>5. CASE p # cur \/ l # cl \/ l \notin frame[cur].dirty
      <3>1. page'[p][l] = page[p][l]
        BY <1>e, <2>5
      <3>2. InFlight(p, l) /\ l < cl' => l < cl
        BY <1>a, <1>b, <2>5 DEF InFlight, Lines
      <3>3. Settled(p, l) => Settled(p, l)'
        BY <1>a, <3>1 DEF Settled, Stable, Resident
      <3>. QED
        BY <1>a, <2>2, <2>3, <3>1, <3>2, <3>3
    <2>. QED
      BY <2>4, <2>5
  <1>4. LoggingInv' /\ RetiringInv'
    BY <1>a DEF LoggingInv, RetiringInv, Logging, Retiring
  <1>5. ReplayableInv'
    BY <1>0, <1>a DEF ReplayableInv, Replayable, Backed, Copied, Covered, Resident, Stable
  <1>6. IdleInv'
    BY <1>a, <1>c DEF IdleInv, Flushing, Logging, Replayable, Retiring
  <1>. QED
    BY <1>1, <1>2, <1>3, <1>4, <1>5, <1>6 DEF IInv

LEMMA EndPageLoopIInv ==
  ASSUME IInv, EndPageLoop
  PROVE  IInv'
  <1>0. TypeOK /\ FramesInv /\ PagesInv /\ ReplayableInv /\ IdleInv
    BY DEF IInv
  <1>a. /\ UNCHANGED <<frame, ram, page, head, mapping, cls, cur, cl>>
        /\ pc = "page" /\ cl = LineCount /\ pc' = "finish_page"
    BY DEF EndPageLoop, log
  <1>1. TypeOK'
    BY <1>0, <1>a DEF TypeOK
  <1>2. FramesInv'
    BY <1>0, <1>a, KeepFrames
  <1>3. PagesInv'
    BY <1>0, <1>a DEF PagesInv, Settled, InFlight, Stable, Resident
  <1>4. LoggingInv' /\ RetiringInv'
    BY <1>a DEF LoggingInv, RetiringInv, Logging, Retiring
  <1>5. ReplayableInv'
    BY <1>0, <1>a DEF ReplayableInv, Replayable, Backed, Copied, Covered, Resident, Stable
  <1>6. IdleInv'
    BY <1>0, <1>a DEF IdleInv, Flushing, Logging, Replayable, Retiring
  <1>. QED
    BY <1>1, <1>2, <1>3, <1>4, <1>5, <1>6 DEF IInv

LEMMA FinishPageIInv ==
  ASSUME IInv, FinishPage
  PROVE  IInv'
  <1>0. TypeOK /\ FramesInv /\ PagesInv /\ ReplayableInv /\ IdleInv
    BY DEF IInv
  <1>a. /\ UNCHANGED <<ram, cur, cl>>
        /\ pc = "finish_page" /\ pc' = "set_invalid"
        /\ head' = SFence(head)
        /\ mapping' = FenceLines(mapping)
        /\ cls' = FenceLines(cls)
        /\ frame' = [frame EXCEPT ![cur] = MarkClean(@)]
        /\ FencePages
    BY DEF FinishPage
  <1>b. cur \in Pages
    BY <1>0, <1>a DEF IdleInv, Flushing, Replayable
  <1>c. /\ Backed(head.vol.count)
        /\ head.vol.page_id = cur /\ Stable(head) /\ cl = LineCount
    BY <1>0, <1>a DEF ReplayableInv, Replayable
  <1>d. head' = head
    BY <1>0, <1>a, <1>c, HeadParts, StableLine
  <1>e. ASSUME NEW i \in Lines
        PROVE  /\ Stable(mapping[i]) => mapping'[i] = mapping[i]
               /\ Stable(cls[i]) => cls'[i] = cls[i]
    <2>1. mapping[i] \in LineSet(Lines) /\ cls[i] \in LineSet(Val \union {Torn})
      BY <1>0, LogParts
    <2>2. mapping'[i] = SFence(mapping[i]) /\ cls'[i] = SFence(cls[i])
      BY <1>0, <1>a, FenceLogEffect
    <2>. QED
      BY <2>1, <2>2, StableLine
  <1>f. /\ frame' \in [Pages -> FrameSet]
        /\ \A p \in Pages : p # cur => frame'[p] = frame[p]
        /\ frame'[cur].dirty = {} /\ ~frame'[cur].all_dirty
        /\ frame'[cur].resident = frame[cur].resident
        /\ frame'[cur].all_resident = frame[cur].all_resident
    <2>1. frame \in [Pages -> FrameSet]
      BY <1>0 DEF TypeOK
    <2>2. frame'[cur] = MarkClean(frame[cur])
      BY <1>a, <1>b, <2>1
    <2>3. frame[cur] \in FrameSet
      BY <1>b, <2>1
    <2>4. /\ MarkClean(frame[cur]) \in FrameSet
          /\ MarkClean(frame[cur]).dirty = {} /\ ~MarkClean(frame[cur]).all_dirty
          /\ MarkClean(frame[cur]).resident = frame[cur].resident
          /\ MarkClean(frame[cur]).all_resident = frame[cur].all_resident
      BY <2>3 DEF MarkClean, FrameSet
    <2>. QED
      BY <1>a, <1>b, <2>1, <2>2, <2>4
  <1>1. TypeOK'
    <2>1. /\ cls' \in [Lines -> LineSet(Val \union {Torn})]
          /\ mapping' \in [Lines -> LineSet(Lines)]
          /\ page' \in [Pages -> [Lines -> LineSet(Val \union {Torn})]]
      BY <1>0, <1>a, FenceLogEffect, FencePagesEffect
    <2>. QED
      BY <1>0, <1>a, <1>d, <1>f, <2>1 DEF TypeOK
  <1>2. FramesInv'
    BY <1>0, <1>f DEF FramesInv
  <1>3. PagesInv'
    <2>1. ASSUME NEW p \in Pages, NEW l \in Lines
          PROVE  page'[p][l].vol \in Val /\ Settled(p, l)'
      <3>1. page'[p][l] = SFence(page[p][l]) /\ page[p][l] \in LineSet(Val \union {Torn})
        BY <1>0, <1>a, FencePagesEffect, PageParts
      <3>2. page'[p][l].vol = page[p][l].vol /\ page[p][l].vol \in Val
        BY <1>0, <3>1, FenceFields DEF PagesInv
      <3>3. CASE InFlight(p, l)
        <4>1. l < cl
          BY <1>c, BufferFrameAssumption DEF Lines
        <4>2. page[p][l].vol = ram[p][l] /\ page[p][l].fen = ram[p][l]
          BY <1>0, <3>3, <4>1 DEF PagesInv
        <4>3. Stable(page'[p][l])
          BY <3>1, <4>2, FenceFields
        <4>. QED
          BY <1>a, <3>2, <4>2, <4>3 DEF Settled
      <3>4. CASE Settled(p, l) /\ ~InFlight(p, l)
        <4>1. page'[p][l] = page[p][l]
          BY <3>1, <3>4, StableLine DEF Settled
        <4>2. CASE p = cur
          <5>1. l \notin frame[p].dirty
            BY <1>a, <3>4, <4>2 DEF InFlight
          <5>. QED
            BY <1>a, <1>f, <3>2, <3>4, <4>1, <4>2, <5>1 DEF Settled, Resident
        <4>3. CASE p # cur
          BY <1>a, <1>f, <3>2, <3>4, <4>1, <4>3 DEF Settled, Resident
        <4>. QED
          BY <4>2, <4>3
      <3>. QED
        BY <1>0, <3>3, <3>4 DEF PagesInv
    <2>. QED
      BY <1>a, <2>1 DEF PagesInv, InFlight
  <1>4. LoggingInv' /\ ReplayableInv'
    BY <1>a DEF LoggingInv, ReplayableInv, Logging, Replayable
  <1>5. RetiringInv'
    <2>1. head.dur = head.vol
      BY <1>c DEF Stable
    <2>2. Backed(head.dur.count)'
      BY <1>a, <1>c, <1>d, <1>e, <1>f, <2>1 DEF Backed, Copied, Resident
    <2>. QED
      BY <1>a, <1>c, <1>d, <1>f, <2>1, <2>2 DEF RetiringInv, Retiring
  <1>6. IdleInv'
    BY <1>a, <1>b DEF IdleInv, Flushing, Logging, Replayable, Retiring
  <1>. QED
    BY <1>1, <1>2, <1>3, <1>4, <1>5, <1>6 DEF IInv

LEMMA SetLogInvalidIInv ==
  ASSUME IInv, SetLogInvalid
  PROVE  IInv'
  <1> DEFINE h == [head.vol EXCEPT !.page_id = InvalidPageId]
  <1>0. TypeOK /\ FramesInv /\ PagesInv /\ RetiringInv /\ IdleInv
    BY DEF IInv
  <1>a. /\ UNCHANGED <<frame, ram, page, mapping, cls, cur, cl>>
        /\ pc = "set_invalid" /\ pc' = "reset_count"
        /\ head' = Store(head, h)
    BY DEF SetLogInvalid
  <1>b. cur \in Pages
    BY <1>0, <1>a DEF IdleInv, Flushing, Retiring
  <1>c. h \in Heads /\ h.page_id = InvalidPageId /\ h.count = head.vol.count
    BY <1>0, HeadParts DEF Heads, PageIds
  <1>d. head' \in LineSet(Heads) /\ head'.vol = h /\ head'.dur = head.dur
    <2>1. head' \in LineSet(Heads)
      BY <1>0, <1>a, <1>c, HeadParts, StoreOps
    <2>. QED
      BY <1>0, <1>a, <2>1, HeadParts, StoreFields
  <1>1. TypeOK'
    BY <1>0, <1>a, <1>d DEF TypeOK
  <1>2. FramesInv' /\ PagesInv'
    BY <1>0, <1>a, KeepFrames, KeepPages
  <1>3. LoggingInv' /\ ReplayableInv'
    BY <1>a DEF LoggingInv, ReplayableInv, Logging, Replayable
  <1>4. RetiringInv'
    BY <1>0, <1>a, <1>c, <1>d DEF RetiringInv, Retiring, Backed, Copied, Resident, Stable
  <1>5. IdleInv'
    BY <1>a, <1>b DEF IdleInv, Flushing, Logging, Replayable, Retiring
  <1>. QED
    BY <1>1, <1>2, <1>3, <1>4, <1>5 DEF IInv

LEMMA ResetCountIInv ==
  ASSUME IInv, ResetCount
  PROVE  IInv'
  <1> DEFINE h == [head.vol EXCEPT !.count = 0]
  <1>0. TypeOK /\ FramesInv /\ PagesInv /\ RetiringInv /\ IdleInv
    BY DEF IInv
  <1>a. /\ UNCHANGED <<frame, ram, page, mapping, cls, cur, cl>>
        /\ pc = "reset_count" /\ pc' = "persist_invalid"
        /\ head' = Store(head, h)
    BY DEF ResetCount
  <1>b. cur \in Pages /\ head.vol.page_id = InvalidPageId
    BY <1>0, <1>a DEF IdleInv, RetiringInv, Flushing, Retiring
  <1>c. h \in Heads /\ h.page_id = InvalidPageId /\ h.count = 0
    BY <1>0, <1>b, HeadParts DEF Heads
  <1>d. head' \in LineSet(Heads) /\ head'.vol = h /\ head'.dur = head.dur
    <2>1. head' \in LineSet(Heads)
      BY <1>0, <1>a, <1>c, HeadParts, StoreOps
    <2>. QED
      BY <1>0, <1>a, <2>1, HeadParts, StoreFields
  <1>1. TypeOK'
    BY <1>0, <1>a, <1>d DEF TypeOK
  <1>2. FramesInv' /\ PagesInv'
    BY <1>0, <1>a, KeepFrames, KeepPages
  <1>3. LoggingInv' /\ ReplayableInv'
    BY <1>a DEF LoggingInv, ReplayableInv, Logging, Replayable
  <1>4. RetiringInv'
    BY <1>0, <1>a, <1>c, <1>d DEF RetiringInv, Retiring, Backed, Copied, Resident, Stable
  <1>5. IdleInv'
    BY <1>a, <1>b DEF IdleInv, Flushing, Logging, Replayable, Retiring
  <1>. QED
    BY <1>1, <1>2, <1>3, <1>4, <1>5 DEF IInv

LEMMA PersistInvalidIInv ==
  ASSUME IInv, PersistInvalid
  PROVE  IInv'
  <1>0. TypeOK /\ FramesInv /\ PagesInv /\ RetiringInv /\ IdleInv
    BY DEF IInv
  <1>a. /\ UNCHANGED <<frame, ram, cl>>
        /\ pc = "persist_invalid" /\ pc' = "scan" /\ cur' = cur + 1
        /\ head' = Persist(head)
        /\ mapping' = FenceLines(mapping)
        /\ cls' = FenceLines(cls)
        /\ FencePages
    BY DEF PersistInvalid
  <1>b. cur + 1 \in 0 .. PageCount
    <2>1. cur \in Pages
      BY <1>0, <1>a DEF IdleInv, Flushing, Retiring
    <2>. QED
      BY <2>1, MicroLogAssumption DEF Pages
  <1>c. head.vol = [page_id |-> InvalidPageId, count |-> 0]
    <2>1. head.vol.page_id = InvalidPageId /\ head.vol.count = 0
      BY <1>0, <1>a DEF RetiringInv, Retiring
    <2>. QED
      BY <1>0, <2>1, HeadParts DEF Heads
  <1>d. page' = page
    BY <1>0, <1>a, AllSettled, FenceSettledPages
  <1>e. head' \in LineSet(Heads) /\ head'.vol = head.vol /\ head'.dur = head.vol
    <2>1. head' \in LineSet(Heads) /\ head'.vol = head.vol /\ Stable(head')
      BY <1>0, <1>a, HeadParts, LineOps, FenceFields
    <2>. QED
      BY <2>1 DEF Stable
  <1>1. TypeOK'
    <2>1. /\ cls' \in [Lines -> LineSet(Val \union {Torn})]
          /\ mapping' \in [Lines -> LineSet(Lines)]
      BY <1>0, <1>a, FenceLogEffect
    <2>. QED
      BY <1>0, <1>a, <1>b, <1>d, <1>e, <2>1 DEF TypeOK
  <1>2. FramesInv' /\ PagesInv'
    BY <1>0, <1>a, <1>d, KeepFrames, KeepPages
  <1>3. LoggingInv' /\ ReplayableInv' /\ RetiringInv'
    BY <1>a DEF LoggingInv, ReplayableInv, RetiringInv, Logging, Replayable, Retiring
  <1>4. IdleInv'
    BY <1>a, <1>c, <1>e DEF IdleInv, Harmless, Flushing, Logging, Replayable, Retiring
  <1>. QED
    BY <1>1, <1>2, <1>3, <1>4 DEF IInv

\* Only lines that are being overwritten in place can drift.
LEMMA DriftPageIInv ==
  ASSUME IInv, NEW p \in Pages, NEW l \in Lines, DriftPage(p, l)
  PROVE  IInv' /\ InFlight(p, l)
  <1>0. TypeOK /\ FramesInv /\ PagesInv /\ LoggingInv /\ ReplayableInv /\ RetiringInv /\ IdleInv
    BY DEF IInv
  <1>a. UNCHANGED <<frame, ram, head, mapping, cls, pc, cur, cl>>
    BY DEF DriftPage, log
  <1>b. PICK c \in CopyDrift(page[p][l], Torn) : page' = [page EXCEPT ![p][l] = c]
    BY DEF DriftPage
  <1>c. /\ c \in LineSet(Val \union {Torn}) /\ c.vol = page[p][l].vol
        /\ page[p][l].fen = page[p][l].vol => c.fen = c.vol
        /\ ~Stable(page[p][l])
    <2>1. page[p][l] \in LineSet(Val \union {Torn})
      BY <1>0, PageParts
    <2>2. Torn \in Val \union {Torn}
      OBVIOUS
    <2>. QED
      BY <1>b, <2>1, <2>2, DriftFields
  <1>d. /\ page' \in [Pages -> [Lines -> LineSet(Val \union {Torn})]]
        /\ page'[p][l] = c
        /\ \A q \in Pages : \A m \in Lines : q # p \/ m # l => page'[q][m] = page[q][m]
    <2>1. page \in [Pages -> [Lines -> LineSet(Val \union {Torn})]]
      BY <1>0 DEF TypeOK
    <2>. QED
      BY <1>b, <1>c, <2>1
  <1>e. InFlight(p, l)
    BY <1>0, <1>c DEF PagesInv, Settled
  <1>1. TypeOK'
    BY <1>0, <1>a, <1>d DEF TypeOK
  <1>2. FramesInv'
    BY <1>0, <1>a, KeepFrames
  <1>3. PagesInv'
    <2>1. SUFFICES ASSUME NEW q \in Pages, NEW m \in Lines
                   PROVE  /\ page'[q][m].vol \in Val
                          /\ InFlight(q, m)' \/ Settled(q, m)'
                          /\ InFlight(q, m)' /\ m < cl' =>
                               page'[q][m].vol = ram'[q][m] /\ page'[q][m].fen = ram'[q][m]
      BY DEF PagesInv
    <2>2. /\ page[q][m].vol \in Val
          /\ InFlight(q, m) \/ Settled(q, m)
          /\ InFlight(q, m) /\ m < cl =>
               page[q][m].vol = ram[q][m] /\ page[q][m].fen = ram[q][m]
      BY <1>0 DEF PagesInv
    <2>3. InFlight(q, m)' <=> InFlight(q, m)
      BY <1>a DEF InFlight
    <2>4. CASE q = p /\ m = l
      BY <1>a, <1>c, <1>d, <1>e, <2>2, <2>3, <2>4
    <2>5. CASE q # p \/ m # l
      <3>1. page'[q][m] = page[q][m]
        BY <1>d, <2>5
      <3>2. Settled(q, m) => Settled(q, m)'
        BY <1>a, <3>1 DEF Settled, Stable, Resident
      <3>. QED
        BY <1>a, <2>2, <2>3, <3>1, <3>2
    <2>. QED
      BY <2>4, <2>5
  <1>4. LoggingInv'
    BY <1>0, <1>a DEF LoggingInv, Copied, Covered, Resident
  <1>5. ReplayableInv'
    BY <1>0, <1>a DEF ReplayableInv, Backed, Copied, Covered, Resident, Stable
  <1>6. RetiringInv'
    BY <1>0, <1>a DEF RetiringInv, Backed, Copied, Resident, Stable
  <1>7. IdleInv'
    BY <1>0, <1>a DEF IdleInv, Harmless
  <1>. QED
    BY <1>e, <1>1, <1>2, <1>3, <1>4, <1>5, <1>6, <1>7 DEF IInv

LEMMA DriftClsIInv ==
  ASSUME IInv, NEW i \in Lines, DriftCls(i)
  PROVE  IInv'
  <1>0. TypeOK /\ FramesInv /\ PagesInv /\ LoggingInv /\ ReplayableInv /\ RetiringInv /\ IdleInv
    BY DEF IInv
  <1>a. UNCHANGED <<frame, ram, page, head, mapping, pc, cur, cl>>
    BY DEF DriftCls
  <1>b. PICK c \in CopyDrift(cls[i], Torn) : cls' = [cls EXCEPT ![i] = c]
    BY DEF DriftCls
  <1>c. /\ c \in LineSet(Val \union {Torn}) /\ c.vol = cls[i].vol
        /\ cls[i].fen = cls[i].vol => c.fen = c.vol
        /\ ~Stable(cls[i])
    <2>1. cls[i] \in LineSet(Val \union {Torn})
      BY <1>0, LogParts
    <2>2. Torn \in Val \union {Torn}
      OBVIOUS
    <2>. QED
      BY <1>b, <2>1, <2>2, DriftFields
  <1>d. /\ cls' \in [Lines -> LineSet(Val \union {Torn})]
        /\ \A j \in Lines : /\ cls'[j].vol = cls[j].vol
                            /\ cls[j].fen = cls[j].vol => cls'[j].fen = cls'[j].vol
                            /\ Stable(cls[j]) => cls'[j] = cls[j]
    <2>1. cls \in [Lines -> LineSet(Val \union {Torn})]
      BY <1>0 DEF TypeOK
    <2>2. cls'[i] = c /\ \A j \in Lines : j # i => cls'[j] = cls[j]
      BY <1>b, <2>1
    <2>. QED
      BY <1>b, <1>c, <2>1, <2>2
  <1>1. TypeOK'
    BY <1>0, <1>a, <1>d DEF TypeOK
  <1>2. FramesInv'
    BY <1>0, <1>a, KeepFrames
  <1>3. PagesInv'
    BY <1>0, <1>a DEF PagesInv, Settled, InFlight, Stable, Resident
  <1>4. LoggingInv'
    BY <1>0, <1>a, <1>d DEF LoggingInv, Copied, Covered, Resident
  <1>b1. ASSUME NEW n, Backed(n)
         PROVE  \A j \in Lines : j < n => Copied(j)' /\ Stable(mapping'[j]) /\ Stable(cls'[j])
    BY <1>a, <1>d, <1>b1 DEF Backed, Copied, Resident
  <1>5. ReplayableInv'
    <2>1. ASSUME pc \in Replayable
          PROVE  Backed(head.vol.count)' /\ Covered(LineCount, head.vol.count)'
      BY <1>0, <1>a, <1>b1, <2>1 DEF ReplayableInv, Backed, Covered
    <2>. QED
      BY <1>0, <1>a, <2>1 DEF ReplayableInv, Stable
  <1>6. RetiringInv'
    <2>1. ASSUME pc \in Retiring
          PROVE  Backed(head.dur.count)'
      BY <1>0, <1>a, <1>b1, <2>1 DEF RetiringInv, Backed
    <2>. QED
      BY <1>0, <1>a, <2>1 DEF RetiringInv
  <1>7. IdleInv'
    BY <1>0, <1>a DEF IdleInv, Harmless
  <1>. QED
    BY <1>1, <1>2, <1>3, <1>4, <1>5, <1>6, <1>7 DEF IInv

LEMMA DriftMappingIInv ==
  ASSUME IInv, NEW i \in Lines, DriftMapping(i)
  PROVE  IInv'
  <1>0. TypeOK /\ FramesInv /\ PagesInv /\ LoggingInv /\ ReplayableInv /\ RetiringInv /\ IdleInv
    BY DEF IInv
  <1>a. UNCHANGED <<frame, ram, page, head, cls, pc, cur, cl>>
    BY DEF DriftMapping
  <1>b. PICK c \in WordDrift(mapping[i]) : mapping' = [mapping EXCEPT ![i] = c]
    BY DEF DriftMapping
  <1>c. c \in LineSet(Lines) /\ c.vol = mapping[i].vol /\ ~Stable(mapping[i])
    <2>1. mapping[i] \in LineSet(Lines) /\ mapping[i].vol \in Lines
      BY <1>0, LogParts
    <2>. QED
      BY <1>b, <2>1, DriftFields
  <1>d. /\ mapping' \in [Lines -> LineSet(Lines)]
        /\ \A j \in Lines : /\ mapping'[j].vol = mapping[j].vol
                            /\ Stable(mapping[j]) => mapping'[j] = mapping[j]
    <2>1. mapping \in [Lines -> LineSet(Lines)]
      BY <1>0 DEF TypeOK
    <2>2. mapping'[i] = c /\ \A j \in Lines : j # i => mapping'[j] = mapping[j]
      BY <1>b, <2>1
    <2>. QED
      BY <1>b, <1>c, <2>1, <2>2
  <1>1. TypeOK'
    BY <1>0, <1>a, <1>d DEF TypeOK
  <1>2. FramesInv'
    BY <1>0, <1>a, KeepFrames
  <1>3. PagesInv'
    BY <1>0, <1>a DEF PagesInv, Settled, InFlight, Stable, Resident
  <1>4. LoggingInv'
    BY <1>0, <1>a, <1>d DEF LoggingInv, Copied, Covered, Resident
  <1>b1. ASSUME NEW n, Backed(n)
         PROVE  \A j \in Lines : j < n => Copied(j)' /\ Stable(mapping'[j]) /\ Stable(cls'[j])
    BY <1>a, <1>d, <1>b1 DEF Backed, Copied, Resident
  <1>5. ReplayableInv'
    <2>1. ASSUME pc \in Replayable
          PROVE  Backed(head.vol.count)' /\ Covered(LineCount, head.vol.count)'
      BY <1>0, <1>a, <1>b1, <1>d, <2>1 DEF ReplayableInv, Backed, Covered
    <2>. QED
      BY <1>0, <1>a, <2>1 DEF ReplayableInv, Stable
  <1>6. RetiringInv'
    <2>1. ASSUME pc \in Retiring
          PROVE  Backed(head.dur.count)'
      BY <1>0, <1>a, <1>b1, <2>1 DEF RetiringInv, Backed
    <2>. QED
      BY <1>0, <1>a, <2>1 DEF RetiringInv
  <1>7. IdleInv'
    BY <1>0, <1>a DEF IdleInv, Harmless
  <1>. QED
    BY <1>1, <1>2, <1>3, <1>4, <1>5, <1>6, <1>7 DEF IInv

LEMMA DriftHeadIInv ==
  ASSUME IInv, DriftHead
  PROVE  IInv'
  <1>0. TypeOK /\ FramesInv /\ PagesInv /\ LoggingInv /\ ReplayableInv /\ RetiringInv /\ IdleInv
    BY DEF IInv
  <1>a. UNCHANGED <<frame, ram, page, mapping, cls, pc, cur, cl>>
    BY DEF DriftHead
  <1>b. /\ head' \in LineSet(Heads) /\ head'.vol = head.vol /\ head'.dur = head.vol
        /\ ~Stable(head)
    <2>1. head' = Evict(head) /\ Dirty(head)
      BY DEF DriftHead, WordDrift
    <2>2. head \in LineSet(Heads)
      BY <1>0, HeadParts
    <2>. QED
      BY <2>1, <2>2 DEF LineSet, Evict, Dirty, Stable
  <1>1. TypeOK'
    BY <1>0, <1>a, <1>b DEF TypeOK
  <1>2. FramesInv'
    BY <1>0, <1>a, KeepFrames
  <1>3. PagesInv'
    BY <1>0, <1>a DEF PagesInv, Settled, InFlight, Stable, Resident
  <1>4. LoggingInv'
    BY <1>0, <1>a, <1>b DEF LoggingInv, Copied, Covered, Resident
  <1>5. ReplayableInv'
    BY <1>0, <1>a, <1>b DEF ReplayableInv, Replayable, Backed, Copied, Covered, Resident, Stable
  <1>6. RetiringInv'
    <2>1. SUFFICES ASSUME pc \in Retiring
                   PROVE  /\ head.vol.page_id \in {cur, InvalidPageId}
                          /\ Backed(head.vol.count)
      BY <1>0, <1>a, <1>b DEF RetiringInv, Backed, Copied, Resident
    <2>2. head.vol.page_id \in {cur, InvalidPageId}
      BY <1>0, <2>1 DEF RetiringInv
    <2>3. CASE pc = "persist_invalid"
      <3>1. head.vol.count = 0
        BY <1>0, <2>1, <2>3 DEF RetiringInv
      <3>. QED
        BY <2>2, <3>1 DEF Backed, Lines
    <2>4. CASE pc # "persist_invalid"
      BY <1>0, <2>1, <2>2, <2>4 DEF RetiringInv
    <2>. QED
      BY <2>3, <2>4
  <1>7. IdleInv'
    BY <1>0, <1>a, <1>b DEF IdleInv, Harmless
  <1>. QED
    BY <1>1, <1>2, <1>3, <1>4, <1>5, <1>6, <1>7 DEF IInv

-----------------------------------------------------------------------------
\* No step breaks the invariant.
LEMMA NextIInv ==
  ASSUME IInv, [Next]_vars
  PROVE  IInv'
  <1>1. CASE UNCHANGED vars
    <2>1. UNCHANGED <<frame, ram, page, head, mapping, cls, pc, cur, cl>>
      BY <1>1 DEF vars
    <2>2. TypeOK' /\ FramesInv' /\ PagesInv'
      BY <2>1 DEF IInv, TypeOK, FramesInv, PagesInv, Settled, InFlight, Stable, Resident
    <2>3. LoggingInv' /\ IdleInv'
      BY <2>1 DEF IInv, LoggingInv, IdleInv, Copied, Covered, Resident, Harmless
    <2>4. ReplayableInv' /\ RetiringInv'
      BY <2>1 DEF IInv, ReplayableInv, RetiringInv, Backed, Copied, Covered, Resident, Stable
    <2>. QED
      BY <2>2, <2>3, <2>4 DEF IInv
  <1>2. CASE UseFrames
    BY <1>2, OverwriteIInv, EnsureIInv DEF UseFrames
  <1>3. CASE FlushAll
    BY <1>3, StartFlushAllIInv, NextPageIInv, EndFlushAllIInv, LogLineIInv, EndLogLoopIInv,
       PersistLogIInv, SetLogValidIInv, PersistValidIInv, PageLineIInv, EndPageLoopIInv,
       FinishPageIInv, SetLogInvalidIInv, ResetCountIInv, PersistInvalidIInv
    DEF FlushAll
  <1>4. CASE Drift
    BY <1>4, DriftPageIInv, DriftClsIInv, DriftMappingIInv, DriftHeadIInv DEF Drift
  <1>. QED
    BY <1>1, <1>2, <1>3, <1>4 DEF Next

(* At every moment of FlushAll_MicroLog, the micro log and the page hold a *)
(* complete image between them: IInv is an invariant of the flush.         *)
THEOREM InvariantHolds == Spec => []IInv
  <1>1. Init => IInv
    BY InitIInv
  <1>2. IInv /\ [Next]_vars => IInv'
    BY NextIInv
  <1>. QED
    BY <1>1, <1>2, PTL DEF Spec

-----------------------------------------------------------------------------
(* What a power failure leaves *)

\* The log that survives is the one being written for page p.
Replaying(p) == p = cur /\ pc \in Replayable \union Retiring /\ head.dur.page_id = p

\* What survives of page p is what replaying the log gives: the page as its
\* users see it.
LEMMA ReplayedSurvivor ==
  ASSUME IInv, NEW p \in Pages, Replaying(p)
  PROVE  Survivor(p) = Image(p)
  <1>0. TypeOK /\ FramesInv /\ PagesInv /\ ReplayableInv /\ RetiringInv
    BY DEF IInv
  <1>1. p = cur /\ pc \in Replayable \union Retiring /\ head.dur.page_id = p
    BY DEF Replaying
  <1>2. /\ Backed(head.dur.count)
        /\ \A l \in frame[p].dirty : \E i \in Lines : i < head.dur.count /\ mapping[i].vol = l
    <2>1. CASE pc \in Replayable
      <3>1. /\ Backed(head.vol.count) /\ Covered(LineCount, head.vol.count)
            /\ pc # "persist_valid" => Stable(head)
            /\ pc = "persist_valid" =>
                 head.dur \in {head.vol, [head.vol EXCEPT !.page_id = InvalidPageId]}
        BY <1>0, <2>1 DEF ReplayableInv
      <3>2. head.dur.count = head.vol.count
        BY <1>0, <3>1, HeadParts DEF Stable, Heads
      <3>3. \A l \in frame[p].dirty : l < LineCount
        BY <1>0, FrameParts, BufferFrameAssumption DEF Lines
      <3>. QED
        BY <1>1, <3>1, <3>2, <3>3 DEF Covered
    <2>2. CASE pc \in Retiring
      BY <1>0, <1>1, <2>2 DEF RetiringInv
    <2>. QED
      BY <1>1, <2>1, <2>2
  <1>3. ASSUME NEW l \in Lines
        PROVE  Survivor(p)[l] = Image(p)[l]
    <2>1. CASE \E i \in Lines : Logged(i, l)
      <3> DEFINE j == CHOOSE i \in Lines : Logged(i, l)
      <3>1. j \in Lines /\ Logged(j, l)
        BY <2>1
      <3>2. Survivor(p)[l] = cls[j].dur
        BY <1>1, <2>1 DEF Survivor
      <3> HIDE DEF j
      <3>3. Copied(j) /\ Stable(mapping[j]) /\ Stable(cls[j]) /\ mapping[j].dur = l
        BY <1>2, <3>1 DEF Backed, Logged
      <3>4. Resident(frame[p], l) /\ cls[j].dur = ram[p][l]
        BY <1>1, <3>3 DEF Copied, Stable
      <3>. QED
        BY <3>2, <3>4 DEF Image
    <2>2. CASE ~\E i \in Lines : Logged(i, l)
      <3>1. Survivor(p)[l] = page[p][l].dur
        BY <2>2 DEF Survivor
      <3>2. l \notin frame[p].dirty
        BY <1>2, <2>2 DEF Backed, Logged, Stable
      <3>3. Settled(p, l)
        BY <1>0, <3>2 DEF PagesInv, InFlight
      <3>. QED
        BY <3>1, <3>2, <3>3 DEF Settled, Stable, Image
    <2>. QED
      BY <2>1, <2>2
  <1>. QED
    BY <1>3 DEF Survivor, Image

\* Otherwise the log makes no difference: what survives of page p is what is
\* durable of it in place, which is settled.
LEMMA PlainSurvivor ==
  ASSUME IInv, NEW p \in Pages, ~Replaying(p)
  PROVE  /\ Survivor(p) = [l \in Lines |-> page[p][l].dur]
         /\ \A l \in Lines : Settled(p, l)
  <1>0. TypeOK /\ PagesInv /\ ReplayableInv /\ RetiringInv /\ IdleInv
    BY DEF IInv
  <1>1. head.dur.page_id = p => head.dur.count = 0
    <2>1. SUFFICES ASSUME head.dur.page_id = p
                   PROVE  head.dur.count = 0
      OBVIOUS
    <2>2. CASE pc \in Replayable
      <3>1. head.vol.page_id \in {InvalidPageId, cur} /\ head.dur.page_id \in {head.vol.page_id, InvalidPageId}
        BY <1>0, <2>2, HeadParts DEF ReplayableInv, Stable, Heads
      <3>. QED
        BY <2>1, <2>2, <3>1, MicroLogAssumption DEF Replaying
    <2>3. CASE pc \in Retiring
      BY <1>0, <2>1, <2>3, MicroLogAssumption DEF RetiringInv, Replaying
    <2>4. CASE pc \notin Replayable \union Retiring
      BY <1>0, <2>1, <2>4 DEF IdleInv, Harmless
    <2>. QED
      BY <2>2, <2>3, <2>4
  <1>2. ~\E i \in Lines : i < 0
    BY DEF Lines
  <1>3. Survivor(p) = [l \in Lines |-> page[p][l].dur]
    BY <1>1, <1>2 DEF Survivor, Logged
  <1>4. ASSUME NEW l \in Lines
        PROVE  Settled(p, l)
    <2>1. ~InFlight(p, l)
      <3>1. SUFFICES ASSUME pc \in {"page", "finish_page"}, p = cur
                     PROVE  FALSE
        BY DEF InFlight
      <3>2. pc \in Replayable /\ pc # "persist_valid" /\ pc # "set_valid"
        BY <3>1 DEF Replayable
      <3>3. Stable(head) /\ head.vol.page_id = cur
        BY <1>0, <3>2 DEF ReplayableInv
      <3>. QED
        BY <3>1, <3>2, <3>3 DEF Replaying, Stable
    <2>. QED
      BY <1>0, <2>1 DEF PagesInv
  <1>. QED
    BY <1>3, <1>4

LEMMA CleanIsImage ==
  ASSUME IInv, NEW p \in Pages, frame[p].dirty = {}
  PROVE  Survivor(p) = Image(p)
  <1>1. CASE Replaying(p)
    BY <1>1, ReplayedSurvivor
  <1>2. CASE ~Replaying(p)
    <2>1. /\ Survivor(p) = [l \in Lines |-> page[p][l].dur]
          /\ \A l \in Lines : Settled(p, l)
      BY <1>2, PlainSurvivor
    <2>. QED
      BY <2>1 DEF Settled, Stable, Image
  <1>. QED
    BY <1>1, <1>2

LEMMA CleanPagesOfIInv == IInv => CleanPageSurvives
  BY CleanIsImage DEF CleanPageSurvives, IsAnythingDirty

LEMMA LogIsFreeOfIInv == IInv => LogIsFreeAtEntry
  <1>1. SUFFICES ASSUME IInv, pc = "log", cl = 0
                 PROVE  /\ head.vol = [page_id |-> InvalidPageId, count |-> 0]
                        /\ head.dur.page_id \in Pages => head.dur.count = 0
    BY DEF LogIsFreeAtEntry
  <1>2. head.vol.page_id = InvalidPageId /\ head.vol.count = 0
    BY <1>1 DEF IInv, LoggingInv, Logging
  <1>3. head.vol \in Heads
    BY <1>1, HeadParts DEF IInv
  <1>4. head.vol = [page_id |-> InvalidPageId, count |-> 0]
    BY <1>2, <1>3 DEF Heads
  <1>. QED
    BY <1>1, <1>4 DEF IInv, IdleInv, Harmless, Replayable, Retiring

-----------------------------------------------------------------------------
(* The steps of a flush, seen from outside *)

\* Users' writes and the bookkeeping of a flush leave alone what survives.
LEMMA SameMemory ==
  ASSUME UNCHANGED <<page, head, mapping, cls>>, NEW p \in Pages
  PROVE  Survivor(p)' = Survivor(p)
  BY DEF Survivor, Logged

\* No step of a flush and no write-back changes what users see of a page.
LEMMA FlushKeepsImage ==
  ASSUME IInv, FlushAll \/ Drift, NEW p \in Pages
  PROVE  Image(p)' = Image(p)
  <1>0. TypeOK /\ FramesInv /\ PagesInv /\ IdleInv
    BY DEF IInv
  <1>1. SUFFICES ASSUME NEW l \in Lines
                 PROVE  /\ Resident(frame[p], l) <=> Resident(frame'[p], l)
                        /\ ram' = ram
                        /\ Resident(frame[p], l) \/ page'[p][l].vol = page[p][l].vol
    BY DEF Image
  <1>2. CASE FinishPage
    <2>1. ram' = ram /\ FencePages /\ frame' = [frame EXCEPT ![cur] = MarkClean(@)]
      BY <1>2 DEF FinishPage
    <2>2. page'[p][l].vol = page[p][l].vol
      BY <1>0, <2>1, FencePagesEffect, PageParts, FenceFields
    <2>3. /\ frame'[p].resident = frame[p].resident
          /\ frame'[p].all_resident = frame[p].all_resident
      <3>1. frame \in [Pages -> FrameSet] /\ frame[p] \in FrameSet
        BY <1>0 DEF TypeOK
      <3>2. frame'[p] \in {frame[p], MarkClean(frame[p])}
        BY <2>1, <3>1
      <3>. QED
        BY <3>1, <3>2 DEF MarkClean, FrameSet
    <2>. QED
      BY <2>1, <2>2, <2>3 DEF Resident
  <1>3. CASE PersistLog \/ PersistValid \/ PersistInvalid
    <2>1. UNCHANGED <<ram, frame>> /\ FencePages
      BY <1>3 DEF PersistLog, PersistValid, PersistInvalid
    <2>2. page'[p][l].vol = page[p][l].vol
      BY <1>0, <2>1, FencePagesEffect, PageParts, FenceFields
    <2>. QED
      BY <2>1, <2>2
  <1>4. CASE PageLine
    <2>1. /\ UNCHANGED <<ram, frame>>
          /\ page' = IF cl \in frame[cur].dirty
                     THEN [page EXCEPT ![cur][cl] = CopyAndFlush(@, ram[cur][cl])]
                     ELSE page
      BY <1>4 DEF PageLine
    <2>2. page \in [Pages -> [Lines -> LineSet(Val \union {Torn})]]
      BY <1>0 DEF TypeOK
    <2>3. \/ p = cur /\ l = cl /\ l \in frame[p].dirty
          \/ page'[p][l] = page[p][l]
      BY <2>1, <2>2
    <2>4. l \in frame[p].dirty => l \in frame[p].resident
      BY <1>0 DEF FramesInv
    <2>. QED
      BY <2>1, <2>3, <2>4 DEF Resident
  <1>5. CASE \/ StartFlushAll \/ NextPage \/ EndFlushAll \/ LogLine \/ EndLogLoop
             \/ SetLogValid \/ EndPageLoop \/ SetLogInvalid \/ ResetCount
    <2>1. UNCHANGED <<frame, ram, page>>
      BY <1>5 DEF StartFlushAll, NextPage, EndFlushAll, LogLine, EndLogLoop,
                  SetLogValid, EndPageLoop, SetLogInvalid, ResetCount
    <2>. QED
      BY <2>1
  <1>6. CASE Drift
    <2>1. CASE \E q \in Pages, m \in Lines : DriftPage(q, m)
      <3>1. PICK q \in Pages, m \in Lines : DriftPage(q, m)
        BY <2>1
      <3>2. PICK c \in CopyDrift(page[q][m], Torn) : page' = [page EXCEPT ![q][m] = c]
        BY <3>1 DEF DriftPage
      <3>3. c.vol = page[q][m].vol
        <4>1. page[q][m] \in LineSet(Val \union {Torn}) /\ Torn \in Val \union {Torn}
          BY <1>0, PageParts
        <4>. QED
          BY <4>1, <3>2, DriftFields
      <3>4. page'[p][l].vol = page[p][l].vol
        <4>1. page \in [Pages -> [Lines -> LineSet(Val \union {Torn})]]
          BY <1>0 DEF TypeOK
        <4>2. page'[p][l] = page[p][l] \/ (p = q /\ l = m /\ page'[p][l] = c)
          BY <3>2, <4>1
        <4>. QED
          BY <3>3, <4>2
      <3>. QED
        BY <3>1, <3>4 DEF DriftPage
    <2>2. CASE (\E i \in Lines : DriftCls(i) \/ DriftMapping(i)) \/ DriftHead
      <3>1. UNCHANGED <<frame, ram, page>>
        BY <2>2 DEF DriftCls, DriftMapping, DriftHead
      <3>. QED
        BY <3>1
    <2>. QED
      BY <1>6, <2>1, <2>2 DEF Drift
  <1>. QED
    BY <1>2, <1>3, <1>4, <1>5, <1>6 DEF FlushAll

\* The three facts about survivors, of the state after a step.
LEMMA SurvivorNext ==
  ASSUME NEW p \in Pages
  PROVE  /\ (IInv /\ frame[p].dirty = {} => Survivor(p) = Image(p))'
         /\ (IInv /\ Replaying(p) => Survivor(p) = Image(p))'
         /\ (IInv /\ ~Replaying(p) => Survivor(p) = [l \in Lines |-> page[p][l].dur])'
  <1>1. IInv /\ frame[p].dirty = {} => Survivor(p) = Image(p)
    BY CleanIsImage
  <1>2. IInv /\ Replaying(p) => Survivor(p) = Image(p)
    BY ReplayedSurvivor
  <1>3. IInv /\ ~Replaying(p) => Survivor(p) = [l \in Lines |-> page[p][l].dur]
    BY PlainSurvivor
  <1>. QED
    BY <1>1, <1>2, <1>3, PTL

\* Only FinishPage touches the flags, of the page being flushed.
LEMMA FlushFrames ==
  ASSUME IInv, FlushAll \/ Drift
  PROVE  \/ frame' = frame /\ ~FinishPage
         \/ /\ FinishPage
            /\ cur \in Pages
            /\ frame' = [frame EXCEPT ![cur] = MarkClean(@)]
            /\ frame'[cur].dirty = {} /\ ~frame'[cur].all_dirty
  <1>1. CASE FinishPage
    <2>1. frame' = [frame EXCEPT ![cur] = MarkClean(@)] /\ cur \in Pages
      BY <1>1 DEF FinishPage, IInv, IdleInv, Flushing, Replayable
    <2>2. frame \in [Pages -> FrameSet]
      BY DEF IInv, TypeOK
    <2>3. frame'[cur] = MarkClean(frame[cur]) /\ frame[cur] \in FrameSet
      BY <2>1, <2>2
    <2>4. MarkClean(frame[cur]).dirty = {} /\ ~MarkClean(frame[cur]).all_dirty
      BY <2>3 DEF MarkClean, FrameSet
    <2>. QED
      BY <1>1, <2>1, <2>3, <2>4
  <1>2. CASE ~FinishPage
    BY <1>2 DEF FlushAll, Drift, StartFlushAll, NextPage, EndFlushAll, LogLine, EndLogLoop,
                PersistLog, SetLogValid, PersistValid, PageLine, EndPageLoop, SetLogInvalid,
                ResetCount, PersistInvalid, DriftPage, DriftCls, DriftMapping, DriftHead
  <1>. QED
    BY <1>1, <1>2

\* A page is replayed from the log until nothing of it is dirty any more.
LEMMA ReplayingGoesOn ==
  ASSUME IInv, FlushAll \/ Drift, NEW p \in Pages, Replaying(p)
  PROVE  Replaying(p)' \/ frame'[p].dirty = {}
  <1>0. TypeOK /\ ReplayableInv /\ RetiringInv
    BY DEF IInv
  <1>1. p = cur /\ pc \in Replayable \union Retiring /\ head.dur.page_id = p
    BY DEF Replaying
  <1>2. CASE FinishPage
    BY <1>1, <1>2, FlushFrames
  <1>3. CASE ~FinishPage /\ pc \in Retiring
    BY <1>0, <1>1, <1>3, FlushFrames DEF RetiringInv
  <1>4. CASE ~FinishPage /\ pc \in Replayable
    <2>1. pc # "set_valid" /\ head.vol.page_id = cur
      BY <1>0, <1>1, <1>4, MicroLogAssumption DEF ReplayableInv, Stable
    <2>2. CASE PersistValid
      <3>1. head' = Persist(head) /\ pc' = "page" /\ cur' = cur
        BY <2>2 DEF PersistValid
      <3>2. head'.dur = head.vol
        BY <1>0, <3>1, HeadParts, FenceFields DEF Stable
      <3>. QED
        BY <1>1, <2>1, <3>1, <3>2 DEF Replaying, Replayable
    <2>3. CASE PageLine \/ EndPageLoop
      BY <1>1, <2>3 DEF PageLine, EndPageLoop, log, Replaying, Replayable
    <2>4. CASE Drift /\ ~DriftHead
      BY <1>1, <2>4 DEF Drift, DriftPage, DriftCls, DriftMapping, log, Replaying
    <2>5. CASE DriftHead
      <3>1. head'.dur = head.vol /\ pc' = pc /\ cur' = cur
        BY <1>0, <2>5, HeadParts DEF DriftHead, WordDrift, Evict, LineSet
      <3>. QED
        BY <1>1, <2>1, <3>1 DEF Replaying
    <2>. QED
      BY <1>4, <2>1, <2>2, <2>3, <2>4, <2>5
      DEF FlushAll, Replayable, StartFlushAll, NextPage, EndFlushAll, LogLine, EndLogLoop,
          PersistLog, SetLogValid, SetLogInvalid, ResetCount, PersistInvalid
  <1>. QED
    BY <1>1, <1>2, <1>3, <1>4

\* What is durable in place of a page the log says nothing about stays.
LEMMA PlainStays ==
  ASSUME IInv, IInv', FlushAll \/ Drift, NEW p \in Pages, ~Replaying(p), ~Replaying(p)'
  PROVE  Survivor(p)' = Survivor(p)
  <1>0. TypeOK /\ PagesInv /\ ReplayableInv /\ IdleInv
    BY DEF IInv
  <1>1. /\ Survivor(p) = [l \in Lines |-> page[p][l].dur]
        /\ \A l \in Lines : Settled(p, l)
    BY PlainSurvivor
  <1>2. Survivor(p)' = [l \in Lines |-> page'[p][l].dur]
    BY SurvivorNext
  <1>3. SUFFICES ASSUME NEW l \in Lines
                 PROVE  page'[p][l] = page[p][l]
    BY <1>1, <1>2
  <1>4. page[p][l] \in LineSet(Val \union {Torn}) /\ Stable(page[p][l])
    BY <1>0, <1>1, PageParts DEF Settled
  <1>5. CASE PersistLog \/ PersistValid \/ FinishPage \/ PersistInvalid
    <2>1. FencePages
      BY <1>5 DEF PersistLog, PersistValid, FinishPage, PersistInvalid
    <2>. QED
      BY <1>0, <1>4, <2>1, FencePagesEffect, StableLine
  <1>6. CASE PageLine
    <2>1. pc = "page" /\ (page' = page \/ page' = [page EXCEPT ![cur][cl] = CopyAndFlush(@, ram[cur][cl])])
      BY <1>6 DEF PageLine
    <2>2. Stable(head) /\ head.vol.page_id = cur
      BY <1>0, <2>1 DEF ReplayableInv, Replayable
    <2>3. p # cur
      BY <2>1, <2>2 DEF Replaying, Replayable, Stable
    <2>4. page \in [Pages -> [Lines -> LineSet(Val \union {Torn})]]
      BY <1>0 DEF TypeOK
    <2>. QED
      BY <2>1, <2>3, <2>4
  <1>7. CASE \E q \in Pages, m \in Lines : DriftPage(q, m)
    <2>1. PICK q \in Pages, m \in Lines : DriftPage(q, m)
      BY <1>7
    <2>2. q # p \/ m # l
      <3>1. PICK c \in CopyDrift(page[q][m], Torn) : page' = [page EXCEPT ![q][m] = c]
        BY <2>1 DEF DriftPage
      <3>2. page[q][m] \in LineSet(Val \union {Torn}) /\ Torn \in Val \union {Torn}
        BY <1>0, PageParts
      <3>3. ~Stable(page[q][m])
        BY <3>1, <3>2, DriftFields
      <3>. QED
        BY <1>4, <3>3
    <2>3. \E c : page' = [page EXCEPT ![q][m] = c]
      BY <2>1 DEF DriftPage
    <2>4. page \in [Pages -> [Lines -> LineSet(Val \union {Torn})]]
      BY <1>0 DEF TypeOK
    <2>. QED
      BY <2>2, <2>3, <2>4
  <1>8. CASE \/ StartFlushAll \/ NextPage \/ EndFlushAll \/ LogLine \/ EndLogLoop
             \/ SetLogValid \/ EndPageLoop \/ SetLogInvalid \/ ResetCount
             \/ (\E i \in Lines : DriftCls(i) \/ DriftMapping(i)) \/ DriftHead
    <2>1. page' = page
      BY <1>8 DEF StartFlushAll, NextPage, EndFlushAll, LogLine, EndLogLoop, SetLogValid,
                  EndPageLoop, SetLogInvalid, ResetCount, DriftCls, DriftMapping, DriftHead
    <2>. QED
      BY <2>1
  <1>. QED
    BY <1>5, <1>6, <1>7, <1>8 DEF FlushAll, Drift

\* A step of a flush or of the hardware leaves of a page what was left
\* before, or the page as its users see it; only of the page being flushed
\* can the two differ.
LEMMA SurvivorStep ==
  ASSUME IInv, IInv', FlushAll \/ Drift, NEW p \in Pages
  PROVE  /\ Survivor(p)' \in {Survivor(p), Image(p)}
         /\ p # cur => Survivor(p)' = Survivor(p)
  <1>1. Image(p)' = Image(p)
    BY FlushKeepsImage
  <1>2. CASE frame'[p].dirty = {}
    <2>1. Survivor(p)' = Image(p)
      BY <1>1, <1>2, SurvivorNext
    <2>2. p # cur => frame[p].dirty = {}
      <3>1. frame \in [Pages -> FrameSet]
        BY DEF IInv, TypeOK
      <3>. QED
        BY <1>2, <3>1, FlushFrames
    <2>. QED
      BY <2>1, <2>2, CleanIsImage
  <1>3. CASE Replaying(p)' /\ frame'[p].dirty # {}
    <2>1. Survivor(p)' = Image(p)
      BY <1>1, <1>3, SurvivorNext
    <2>2. p = cur
      <3>1. p = cur' /\ pc' \in Replayable \union Retiring
        BY <1>3 DEF Replaying
      <3>2. cur' = cur
        BY <3>1 DEF FlushAll, Drift, Replayable, Retiring, StartFlushAll, NextPage, EndFlushAll, LogLine,
                    EndLogLoop, PersistLog, SetLogValid, PersistValid, PageLine, EndPageLoop, FinishPage,
                    SetLogInvalid, ResetCount, PersistInvalid, DriftPage, DriftCls, DriftMapping, DriftHead
      <3>. QED
        BY <3>1, <3>2
    <2>. QED
      BY <2>1, <2>2
  <1>4. CASE ~Replaying(p)' /\ frame'[p].dirty # {}
    BY <1>4, ReplayingGoesOn, PlainStays
  <1>. QED
    BY <1>2, <1>3, <1>4

-----------------------------------------------------------------------------
(* What the flush promises *)

(* Every variable keeps its type through every flush, in particular the    *)
(* log never holds more entries than it has room for.                      *)
THEOREM TypeCorrect == Spec => []TypeOK
  <1>1. IInv => TypeOK
    BY DEF IInv
  <1>. QED
    BY <1>1, InvariantHolds, PTL

(* A page that FullBufferFrame::IsAnythingDirty reports as clean survives  *)
(* a power failure at any moment exactly as its users see it.              *)
THEOREM CleanPagesSurvive == Spec => []CleanPageSurvives
  <1>1. IInv => CleanPageSurvives
    BY CleanPagesOfIInv
  <1>. QED
    BY <1>1, InvariantHolds, PTL

(* FlushMicroLog is entered with the log invalid and empty, as its two     *)
(* assertions say, and with a durable log that replays nothing.            *)
THEOREM LogIsFree == Spec => []LogIsFreeAtEntry
  <1>1. IInv => LogIsFreeAtEntry
    BY LogIsFreeOfIInv
  <1>. QED
    BY <1>1, InvariantHolds, PTL

(* No step of FlushAll_MicroLog, and no write-back the cache decides on,   *)
(* leaves a mixture of old, new and torn lines to be found after a power   *)
(* failure.                                                                *)
THEOREM FlushesAreAtomic == Spec => FlushIsAtomic
  <1>1. IInv /\ IInv' /\ [Next]_vars => [\A p \in Pages : Survivor(p)' \in {Survivor(p), Image(p)}]_vars
    <2>1. SUFFICES ASSUME IInv, IInv', Next, NEW p \in Pages
                   PROVE  Survivor(p)' \in {Survivor(p), Image(p)}
      OBVIOUS
    <2>2. CASE UseFrames
      <3>1. UNCHANGED <<page, head, mapping, cls>>
        BY <2>2 DEF UseFrames, Overwrite, Ensure, log
      <3>. QED
        BY <3>1, SameMemory
    <2>3. CASE FlushAll \/ Drift
      BY <2>1, <2>3, SurvivorStep
    <2>. QED
      BY <2>1, <2>2, <2>3 DEF Next
  <1>. QED
    BY <1>1, InvariantHolds, PTL DEF Spec, FlushIsAtomic

-----------------------------------------------------------------------------
(* The refinement of AtomicPages *)

\* What AtomicPages sees of the state.
image == [p \in Pages |-> Image(p)]
store == [p \in Pages |-> Survivor(p)]
clean == {p \in Pages : ~IsAnythingDirty(frame[p])}

LEMMA ImageType ==
  ASSUME IInv, NEW p \in Pages
  PROVE  Image(p) \in [Lines -> Val]
  BY PageParts DEF IInv, PagesInv, Image

LEMMA ImageTypeNext ==
  ASSUME NEW p \in Pages
  PROVE  (IInv => Image(p) \in [Lines -> Val])'
  <1>1. IInv => Image(p) \in [Lines -> Val]
    BY ImageType
  <1>. QED
    BY <1>1, PTL

\* A user's write changes the image of one page, which is dirty then.
LEMMA OverwriteRefines ==
  ASSUME IInv, IInv', NEW p \in Pages, NEW l \in Lines, NEW v \in Val, Overwrite(p, l, v),
         Image(p)' \in [Lines -> Val]
  PROVE  /\ image' = [image EXCEPT ![p] = Image(p)']
         /\ clean' = clean \ {p}
         /\ store' = store
  <1>1. /\ UNCHANGED <<page, head, mapping, cls>>
        /\ frame' = [frame EXCEPT ![p] = MarkLinesDirty(@, {l})]
        /\ ram' = [ram EXCEPT ![p][l] = v]
    BY DEF Overwrite, log
  <1>2. frame \in [Pages -> FrameSet] /\ ram \in [Pages -> [Lines -> Val]]
    BY DEF IInv, TypeOK
  <1>3. \A q \in Pages : q # p => frame'[q] = frame[q] /\ ram'[q] = ram[q]
    BY <1>1, <1>2
  <1>4. \A q \in Pages : q # p => Image(q)' = Image(q)
    BY <1>1, <1>3 DEF Image
  <1>5. image' = [image EXCEPT ![p] = Image(p)']
    BY <1>4 DEF image
  <1>6. store' = store
    BY <1>1, SameMemory DEF store
  <1>7. l \in frame'[p].dirty
    <2>1. frame'[p] = MarkLinesDirty(frame[p], {l}) /\ frame[p] \in FrameSet
      BY <1>1, <1>2
    <2>. QED
      BY <2>1 DEF MarkLinesDirty, FrameSet
  <1>8. clean' = clean \ {p}
    BY <1>3, <1>7 DEF clean, IsAnythingDirty
  <1>. QED
    BY <1>5, <1>6, <1>8

\* Loading a line changes nothing AtomicPages sees.
LEMMA EnsureRefines ==
  ASSUME IInv, NEW p \in Pages, NEW l \in Lines, Ensure(p, l)
  PROVE  UNCHANGED <<image, store, clean>>
  <1>1. /\ UNCHANGED <<page, head, mapping, cls>>
        /\ frame' = [frame EXCEPT ![p] = EnsureLines(@, {l})]
        /\ ram' = [ram EXCEPT ![p][l] =
                     IF l \in LinesToLoad(frame[p], {l}) THEN page[p][l].vol ELSE @]
    BY DEF Ensure, log
  <1>2. frame \in [Pages -> FrameSet] /\ ram \in [Pages -> [Lines -> Val]]
    BY DEF IInv, TypeOK
  <1>3. \A q \in Pages : q # p => frame'[q] = frame[q] /\ ram'[q] = ram[q]
    BY <1>1, <1>2
  <1>4. frame'[p] = EnsureLines(frame[p], {l}) /\ frame[p] \in FrameSet
    BY <1>1, <1>2
  <1>5. /\ frame'[p].dirty = frame[p].dirty /\ frame'[p].all_dirty = frame[p].all_dirty
        /\ \A m \in Lines : m # l => (Resident(frame'[p], m) <=> Resident(frame[p], m))
        /\ Resident(frame'[p], l)
        /\ l \in LinesToLoad(frame[p], {l}) <=> ~Resident(frame[p], l)
    BY <1>4 DEF EnsureLines, LinesToLoad, FrameSet, Resident
  <1>6. ASSUME NEW m \in Lines
        PROVE  Image(p)'[m] = Image(p)[m]
    <2>1. m # l => ram'[p][m] = ram[p][m]
      BY <1>1, <1>2
    <2>2. ram'[p][l] = IF l \in LinesToLoad(frame[p], {l}) THEN page[p][l].vol ELSE ram[p][l]
      BY <1>1, <1>2
    <2>. QED
      BY <1>1, <1>5, <2>1, <2>2 DEF Image
  <1>7. \A q \in Pages : Image(q)' = Image(q)
    BY <1>1, <1>3, <1>6 DEF Image
  <1>8. \A q \in Pages : IsAnythingDirty(frame'[q]) <=> IsAnythingDirty(frame[q])
    BY <1>3, <1>5 DEF IsAnythingDirty
  <1>. QED
    BY <1>1, <1>7, <1>8, SameMemory DEF image, store, clean

\* A step of the flush or of the hardware commits one page, calls one clean
\* page clean, or changes nothing AtomicPages sees.
LEMMA FlushRefines ==
  ASSUME IInv, IInv', FlushAll \/ Drift
  PROVE  \/ UNCHANGED <<image, store, clean>>
         \/ \E p \in Pages : Abstract!Commit(p) \/ Abstract!Clean(p)
  <1>1. image' = image
    BY FlushKeepsImage DEF image
  <1>2. CASE FinishPage
    <2>1. /\ cur \in Pages
          /\ frame' = [frame EXCEPT ![cur] = MarkClean(@)]
          /\ frame'[cur].dirty = {} /\ ~frame'[cur].all_dirty
      BY <1>2, FlushFrames
    <2>2. frame \in [Pages -> FrameSet]
      BY DEF IInv, TypeOK
    <2>3. clean' = clean \union {cur}
      BY <2>1, <2>2 DEF clean, IsAnythingDirty
    <2>4. PICK p \in Pages : p = cur
      BY <2>1
    <2>5. Survivor(p) = Image(p)
      <3>1. pc = "finish_page"
        BY <1>2 DEF FinishPage
      <3>2. Stable(head) /\ head.vol.page_id = cur
        BY <3>1 DEF IInv, ReplayableInv, Replayable
      <3>3. Replaying(p)
        BY <2>4, <3>1, <3>2 DEF Replaying, Replayable, Stable
      <3>. QED
        BY <3>3, ReplayedSurvivor
    <2>6. Survivor(p)' = Survivor(p)
      BY <2>5, SurvivorStep
    <2>7. store' = store
      <3>1. \A q \in Pages : Survivor(q)' = Survivor(q)
        BY <2>4, <2>6, SurvivorStep
      <3>. QED
        BY <3>1 DEF store
    <2>8. store[p] = image[p]
      BY <2>5 DEF store, image
    <2>9. Abstract!Clean(p)
      BY <1>1, <2>3, <2>4, <2>7, <2>8 DEF Abstract!Clean, image, store, clean
    <2>. QED
      BY <2>9
  <1>3. CASE ~FinishPage
    <2>1. clean' = clean
      BY <1>3, FlushFrames DEF clean
    <2>2. CASE \A p \in Pages : Survivor(p)' = Survivor(p)
      BY <1>1, <2>1, <2>2 DEF store
    <2>3. CASE \E p \in Pages : Survivor(p)' # Survivor(p)
      <3>1. PICK p \in Pages : Survivor(p)' # Survivor(p)
        BY <2>3
      <3>2. p = cur /\ Survivor(p)' = Image(p)
        BY <3>1, SurvivorStep
      <3>3. \A q \in Pages : q # p => Survivor(q)' = Survivor(q)
        BY <3>2, SurvivorStep
      <3>4. store' = [store EXCEPT ![p] = image[p]]
        BY <3>2, <3>3 DEF store, image
      <3>5. Abstract!Commit(p)
        BY <1>1, <2>1, <3>4 DEF Abstract!Commit, image, store, clean
      <3>. QED
        BY <3>5
    <2>. QED
      BY <2>2, <2>3
  <1>. QED
    BY <1>2, <1>3

(* FlushAll_MicroLog implements the abstract page store of AtomicPages:    *)
(* what survives of a page is replaced in one atomic step, before the page *)
(* is reported clean.                                                      *)
THEOREM MicroLogImplementsAtomicPages == Spec => ImplementsAtomicPages
  <1>1. Init => Abstract!Init
    <2>1. SUFFICES ASSUME Init
                   PROVE  /\ \A p \in Pages : Image(p) \in [Lines -> Val] /\ Survivor(p) = Image(p)
                          /\ \A p \in Pages : ~IsAnythingDirty(frame[p])
      BY DEF Abstract!Init
    <2>2. IInv
      BY <2>1, InitIInv
    <2>3. \A p \in Pages : frame[p].dirty = {} /\ ~frame[p].all_dirty
      BY <2>1 DEF Init, InitFrame
    <2>. QED
      BY <2>2, <2>3, ImageType, CleanIsImage DEF IsAnythingDirty
  <1>2. IInv /\ IInv' /\ [Next]_vars => [Abstract!Next]_Abstract!avars
    <2>1. SUFFICES ASSUME IInv, IInv', [Next]_vars
                   PROVE  Abstract!Next \/ UNCHANGED <<image, store, clean>>
      BY DEF Abstract!avars, image, store, clean
    <2>2. CASE UNCHANGED vars
      BY <2>2 DEF vars, image, store, clean, Image, Survivor, Logged, IsAnythingDirty, Resident
    <2>3. ASSUME NEW p \in Pages, NEW l \in Lines, NEW v \in Val, Overwrite(p, l, v)
          PROVE  Abstract!Next
      <3>1. Image(p)' \in [Lines -> Val]
        BY <2>1, ImageTypeNext
      <3>2. /\ image' = [image EXCEPT ![p] = Image(p)']
            /\ clean' = clean \ {p}
            /\ store' = store
        BY <2>1, <2>3, <3>1, OverwriteRefines
      <3>3. Abstract!Write(p)
        BY <3>1, <3>2 DEF Abstract!Write, image, store, clean
      <3>. QED
        BY <3>3 DEF Abstract!Next
    <2>4. ASSUME NEW p \in Pages, NEW l \in Lines, Ensure(p, l)
          PROVE  UNCHANGED <<image, store, clean>>
      BY <2>1, <2>4, EnsureRefines
    <2>5. CASE FlushAll \/ Drift
      BY <2>1, <2>5, FlushRefines DEF Abstract!Next
    <2>. QED
      BY <2>1, <2>2, <2>3, <2>4, <2>5 DEF Next, UseFrames
  <1>. QED
    BY <1>1, <1>2, InvariantHolds, PTL DEF Spec, ImplementsAtomicPages, Abstract!Spec
=============================================================================
